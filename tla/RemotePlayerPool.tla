-------------------------- MODULE RemotePlayerPool --------------------------
(***************************************************************************)
(* The script-side remote player pool of src/data/scripts/local/w3mp.ws:  *)
(* W3mStateMachine, RemotePlayerManager and the companion HUD slot        *)
(* assignment of RunMultiplayerFrame.                                      *)
(*                                                                         *)
(* Every 30 ms the MultiplayerState loop fetches the remote player list,  *)
(* grows or shrinks a pool of at most two NPC entities to match it, and   *)
(* puts each entity on one of the two companion HUD slots, remembering    *)
(* the slot per pool index.  A frame has no latent call inside, so it is  *)
(* one step.  Quest scripts put story companions on the same two slots at *)
(* any time between frames.                                               *)
(*                                                                         *)
(* The list comes from the W3mGetPlayerStates bridge function, which in   *)
(* src/unnamed/part_011 is still a stub returning an empty array.  The    *)
(* model lets it return any list of up to MaxPlayers entries, the lengths *)
(* the script's interface admits, so that the pool and HUD logic is       *)
(* checked for the bridge it is written against; with the stub alone the  *)
(* pool stays empty (MaxPlayers = 0).                                     *)
(***************************************************************************)
EXTENDS Integers, Sequences, FiniteSets

CONSTANTS
    MaxPlayers,   \* longest remote player list W3mGetPlayerStates returns
    MaxRemote,    \* MAX_REMOTE_PLAYERS (2)
    MaxEntities   \* bound on entities created over a behaviour

HudSlots == {0, 1}
NoSlot == -1
NoEntity == 0

VARIABLES
    mode,       \* theGame.w3mStateMachine: "none", "idle" or "mp"
    entities,   \* remoteEntities: entity ids, in pool order
    slots,      \* assignedHUDSlots: a slot or NoSlot per pool index
    created,    \* entities created so far (ids are 1..created)
    companion,  \* per slot, whether a story NPC holds the companion tag
    hud,        \* per slot, the entity this code last showed on it
    syncs       \* <<index, slot>> pairs shown by the last frame

vars == <<mode, entities, slots, created, companion, hud, syncs>>

MinI(a, b) == IF a < b THEN a ELSE b

-----------------------------------------------------------------------------
(* RemotePlayerManager.                                                    *)

\* GetAssignedHUDSlot(index), 1-based here.
GetAssignedHUDSlot(s, i) == IF i <= Len(s) THEN s[i] ELSE NoSlot

\* AssignHUDSlot: pad the array with NoSlot up to the index, then set it.
AssignHUDSlot(s, i, slot) ==
    [k \in 1..IF i > Len(s) THEN i ELSE Len(s) |->
        IF k = i THEN slot ELSE IF k <= Len(s) THEN s[k] ELSE NoSlot]

\* AdjustEntityPool(target) as it ends: entities removed from the end, or
\* made one by one until the count is reached or CreateRemotePlayerEntity
\* returns NULL (the template fails to load or the spawn fails).
AdjustedPools(target) ==
    IF Len(entities) >= target
      THEN {SubSeq(entities, 1, target)}
      ELSE {entities \o [k \in 1..c |-> created + k] :
                c \in 0..(target - Len(entities))}

-----------------------------------------------------------------------------
(* The HUD pass of RunMultiplayerFrame.                                    *)

\* GetNextAvailableHUDSlot: the first slot whose companion tag names no
\* NPC or a remote player; nothing in this code ever gives a remote
\* entity a companion tag, so only story NPCs occupy a slot.
GetNextAvailableHUDSlot ==
    IF companion[0] = "none" THEN 0
    ELSE IF companion[1] = "none" THEN 1
    ELSE NoSlot

\* Mutant: slotsUsed is not consulted before taking the available slot.
HudStepNoUsedCheck(r, i, pool) ==
    LET old   == GetAssignedHUDSlot(r.slots, i)
        avail == GetNextAvailableHUDSlot
        take  == old = NoSlot /\ avail # NoSlot
        a     == IF take THEN avail ELSE old
    IN [used  |-> IF a # NoSlot THEN [r.used EXCEPT ![a] = TRUE] ELSE r.used,
        slots |-> IF take THEN AssignHUDSlot(r.slots, i, a) ELSE r.slots,
        hud   |-> IF a # NoSlot THEN [r.hud EXCEPT ![a] = pool[i]] ELSE r.hud,
        syncs |-> IF a # NoSlot THEN r.syncs \cup {<<i, a>>} ELSE r.syncs]

\* The body of the loop for pool index i: keep the remembered slot or take
\* the next available one if no earlier index took it this frame, then
\* SyncRemotePlayerHUD on it.  Without a slot, UpdateFloatingUI draws
\* debug text that expires after 50 ms and leaves no state.  r carries
\* slotsUsed, the slot array, the HUD and the syncs.
HudStep(r, i, pool) ==
    LET old   == GetAssignedHUDSlot(r.slots, i)
        avail == GetNextAvailableHUDSlot
        take  == old = NoSlot /\ avail # NoSlot /\ ~r.used[avail]
        a     == IF take THEN avail ELSE old
    IN [used  |-> IF a # NoSlot THEN [r.used EXCEPT ![a] = TRUE] ELSE r.used,
        slots |-> IF take THEN AssignHUDSlot(r.slots, i, a) ELSE r.slots,
        hud   |-> IF a # NoSlot THEN [r.hud EXCEPT ![a] = pool[i]] ELSE r.hud,
        syncs |-> IF a # NoSlot THEN r.syncs \cup {<<i, a>>} ELSE r.syncs]

RECURSIVE HudPass(_, _, _, _)
HudPass(r, i, n, pool) ==
    IF i > n THEN r ELSE HudPass(HudStep(r, i, pool), i + 1, n, pool)

-----------------------------------------------------------------------------
(* Actions.                                                                *)

\* StartMultiplayer -> InitializeMultiplayer: only while no state machine
\* exists; Start enters MultiplayerState, whose OnEnterState makes a new
\* manager and Initialize clears its arrays.
StartMultiplayer ==
    /\ mode = "none"
    /\ mode' = "mp"
    /\ entities' = <<>>
    /\ slots' = <<>>
    /\ syncs' = {}
    /\ UNCHANGED <<created, companion, hud>>

\* Mutant: the pool is sized to the whole list, without MAX_REMOTE_PLAYERS.
FramePoolSizeUncapped(n) == n

\* UpdateRemotePlayers' playerCount = Min(playerStates.Size(), 2).
FramePoolSize(n) == MinI(n, MaxRemote)

\* RunMultiplayerFrame with a list of n players (TransmitCurrentPlayerState
\* and W3mGetPlayerStates first): UpdateRemotePlayers resizes the pool,
\* then the HUD pass runs over Min(pool, n) indices.  Which guid is at
\* which index, the player state applied to each entity and activeGUIDs
\* (written, never read) are not modelled.
RunMultiplayerFrame(n) ==
    /\ mode = "mp"
    /\ \E pool \in AdjustedPools(FramePoolSize(n)) :
          LET made == {pool[k] : k \in DOMAIN pool} \ {entities[k] : k \in DOMAIN entities}
              start == [used |-> [s \in HudSlots |-> FALSE], slots |-> slots,
                        hud |-> hud, syncs |-> {}]
              r == HudPass(start, 1, MinI(Len(pool), n), pool)
          IN /\ created + Cardinality(made) <= MaxEntities
             /\ entities' = pool
             /\ created' = created + Cardinality(made)
             /\ slots' = r.slots
             /\ hud' = r.hud
             /\ syncs' = r.syncs
    /\ UNCHANGED <<mode, companion>>

\* CleanupHUD: a slot is hidden only if its companion NPC carries the
\* w3m_RemotePlayer tag.  Companion tags are set by quests, never to a
\* remote entity, so in this model no slot is hidden.
CleanupHUD ==
    [s \in HudSlots |-> IF companion[s] = "remote" THEN NoEntity ELSE hud[s]]

\* RemotePlayerManager.Shutdown: CleanupHUD, AdjustEntityPool(0) (every
\* entity destroyed), then the arrays cleared.
Shutdown ==
    /\ entities' = <<>>
    /\ slots' = <<>>
    /\ hud' = CleanupHUD
    /\ syncs' = {}
    /\ UNCHANGED <<created, companion>>

\* W3mStateMachine.Stop (exec W3mStop): Shutdown, then GotoState('Idle').
\* From Idle there is no manager and Stop changes nothing.
W3mStop ==
    /\ mode = "mp"
    /\ mode' = "idle"
    /\ Shutdown

\* W3mRestart: Stop, then Start, whose OnEnterState makes a fresh manager.
W3mRestart ==
    /\ mode \in {"mp", "idle"}
    /\ mode' = "mp"
    /\ Shutdown

\* A quest gives or takes a story companion on a HUD slot.
SetCompanion(s, c) ==
    /\ companion[s] # c
    /\ companion' = [companion EXCEPT ![s] = c]
    /\ syncs' = {}
    /\ UNCHANGED <<mode, entities, slots, created, hud>>

Init ==
    /\ mode = "none"
    /\ entities = <<>>
    /\ slots = <<>>
    /\ created = 0
    /\ companion = [s \in HudSlots |-> "none"]
    /\ hud = [s \in HudSlots |-> NoEntity]
    /\ syncs = {}

Next ==
    \/ StartMultiplayer
    \/ \E n \in 0..MaxPlayers : RunMultiplayerFrame(n)
    \/ W3mStop
    \/ W3mRestart
    \/ \E s \in HudSlots, c \in {"none", "story"} : SetCompanion(s, c)

Spec == Init /\ [][Next]_vars

-----------------------------------------------------------------------------
(* Properties.                                                             *)

TypeOK ==
    /\ mode \in {"none", "idle", "mp"}
    /\ entities \in Seq(1..MaxEntities) /\ Len(entities) <= MaxRemote
    /\ slots \in Seq(HudSlots \cup {NoSlot}) /\ Len(slots) <= MaxRemote
    /\ created \in 0..MaxEntities
    /\ companion \in [HudSlots -> {"none", "story"}]
    /\ hud \in [HudSlots -> 0..MaxEntities]
    /\ syncs \subseteq (1..MaxRemote) \X HudSlots

\* RunMultiplayerFrame's slotsUsed: within one frame no companion HUD slot
\* is given to two pool indices, although slots are remembered per index
\* across frames in which players join, leave and reorder.
DistinctHudSlots ==
    \A p, q \in syncs : p[2] = q[2] => p[1] = q[1]

=============================================================================

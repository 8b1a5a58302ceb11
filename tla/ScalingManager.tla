---------------------------- MODULE ScalingManager ----------------------------
(***************************************************************************)
(* Party-based NPC difficulty scaling: the C++ scaling manager of          *)
(* src/src/client/module/scaling_manager.cpp (g_current_party_count and   *)
(* the guid-keyed g_npc_scaling_cache) and its script callers in           *)
(* src/src/scripts/W3M_CombatSync.ws (the NPC and player OnSpawned hooks,  *)
(* the party join and leave methods, the test console command).           *)
(*                                                                         *)
(* Every caller runs on the script thread, one call at a time; the only   *)
(* other thread is the 30 s async loop of post_load, which reads the party *)
(* count for a log line and is left out.  The cache mutex therefore never *)
(* contends, and each script hook is one action.                          *)
(*                                                                         *)
(* Multipliers are kept exact: health in halves (1.0f + (n-1) * 0.5f is    *)
(* exact in float), boss damage in tenths.  An NPC's vitality is the      *)
(* multiplier its OnSpawned applied.                                       *)
(***************************************************************************)
EXTENDS Integers

CONSTANTS
    Npcs,         \* NPC guids, as (int)GetGUID() passes them
    Bosses,       \* NPCs with the 'Boss' or 'LargeBoss' ability
    MaxParty,     \* bound on the party count the join hook reaches
    TestCounts,   \* counts typed into exec W3mSetTestPartyCount
    PartyHooks,   \* whether W3mOnPlayerJoined / W3mOnPlayerLeft are called
    DebugConsole  \* whether exec commands are typed at all

ASSUME Bosses \subseteq Npcs /\ MaxParty \in Nat /\ TestCounts \subseteq Int

\* calculate_health_multiplier, in halves.
HealthHalves(n) == IF n <= 1 THEN 2 ELSE 2 + (n - 1)

\* calculate_damage_multiplier, in tenths.
DamageTenths(n, boss) == IF n <= 1 \/ ~boss THEN 10 ELSE 10 + 2 * (n - 1)

\* scaling_manager::create_config.
CreateConfig(n, boss) ==
    [health |-> HealthHalves(n), damage |-> DamageTenths(n, boss),
     boss |-> boss, party |-> n]

NoConfig == [party |-> 0]
EmptyCache == [g \in Npcs |-> NoConfig]

VARIABLES
    partyCount,   \* g_current_party_count
    cache,        \* g_npc_scaling_cache: Npcs -> config, NoConfig if absent
    npc           \* per NPC: spawned, and the health multiplier applied

vars == <<partyCount, cache, npc>>

-----------------------------------------------------------------------------
(* The C++ bridge.                                                         *)

\* Mutant: the count is stored without the clamp to 1.
SetPartyCountUnclamped(n) ==
    /\ partyCount' = n
    /\ cache' = IF partyCount # n THEN EmptyCache ELSE cache

\* Mutant: a changed count leaves the cache as it is.
SetPartyCountKeepCache(n) ==
    LET c == IF n < 1 THEN 1 ELSE n IN
    /\ partyCount' = c
    /\ UNCHANGED cache

\* set_party_count (W3mSetPartyCount): clamp to at least 1, store, and
\* clear the cache when the count changed.
SetPartyCount(n) ==
    LET c == IF n < 1 THEN 1 ELSE n IN
    /\ partyCount' = c
    /\ cache' = IF partyCount # c THEN EmptyCache ELSE cache

\* apply_npc_scaling (W3mApplyScalingToNPC): nothing when the party is one
\* or the guid already has a config; otherwise record create_config.
ApplyNpcScaling(g) ==
    cache' = IF partyCount <= 1 \/ cache[g] # NoConfig THEN cache
             ELSE [cache EXCEPT ![g] = CreateConfig(partyCount, g \in Bosses)]

-----------------------------------------------------------------------------
(* Script hooks.                                                           *)

\* CNewNPC.OnSpawned: with a party, W3mApplyScalingToNPC and then the
\* vitality scaled by W3mCalculateHealthMultiplier of the count it read.
NpcOnSpawned(g) ==
    /\ ~npc[g].live
    /\ IF partyCount > 1
         THEN /\ ApplyNpcScaling(g)
              /\ npc' = [npc EXCEPT ![g] = [live |-> TRUE,
                                            health |-> HealthHalves(partyCount)]]
         ELSE /\ npc' = [npc EXCEPT ![g] = [live |-> TRUE, health |-> 2]]
              /\ UNCHANGED cache
    /\ UNCHANGED partyCount

\* The engine destroys the entity; nothing in the code evicts its config.
NpcDespawned(g) ==
    /\ npc[g].live
    /\ npc' = [npc EXCEPT ![g].live = FALSE]
    /\ UNCHANGED <<partyCount, cache>>

\* CR4Player.OnSpawned: W3mSetPartyCount(1).
PlayerOnSpawned ==
    /\ SetPartyCount(1)
    /\ UNCHANGED npc

\* W3mOnPlayerJoined: W3mSetPartyCount(count + 1), W3mClearScalingCache.
OnPlayerJoined ==
    /\ PartyHooks
    /\ partyCount < MaxParty
    /\ partyCount' = partyCount + 1
    /\ cache' = EmptyCache
    /\ UNCHANGED npc

\* W3mOnPlayerLeft: only above one, W3mSetPartyCount(count - 1) and
\* W3mClearScalingCache.
OnPlayerLeft ==
    /\ PartyHooks
    /\ partyCount > 1
    /\ partyCount' = partyCount - 1
    /\ cache' = EmptyCache
    /\ UNCHANGED npc

\* exec W3mSetTestPartyCount(count).
SetTestPartyCount(n) ==
    /\ DebugConsole
    /\ SetPartyCount(n)
    /\ UNCHANGED npc

Init ==
    /\ partyCount = 1
    /\ cache = EmptyCache
    /\ npc = [g \in Npcs |-> [live |-> FALSE, health |-> 2]]

Next ==
    \/ \E g \in Npcs : NpcOnSpawned(g) \/ NpcDespawned(g)
    \/ PlayerOnSpawned \/ OnPlayerJoined \/ OnPlayerLeft
    \/ \E n \in TestCounts : SetTestPartyCount(n)

Spec == Init /\ [][Next]_vars

-----------------------------------------------------------------------------
(* Properties.                                                             *)

\* The counts the party can reach: the joins up to MaxParty and the
\* console's counts above it.
PartyRange == (1..MaxParty) \cup {c \in TestCounts : c > MaxParty}

TypeOK ==
    /\ partyCount \in PartyRange
    /\ cache \in [Npcs -> {NoConfig} \cup
                     {CreateConfig(n, b) : n \in PartyRange, b \in BOOLEAN}]
    /\ npc \in [Npcs -> [live : BOOLEAN, health : {HealthHalves(n) : n \in PartyRange}]]

\* "Clear scaling cache to recalculate for new party size": across any
\* sequence of spawns, despawns, joins, departures, player respawns and
\* console counts, every NPC the cache holds a config for has the config
\* create_config gives for the current party count.
ScalingRecordsCurrent ==
    \A g \in Npcs :
        cache[g] # NoConfig => cache[g] = CreateConfig(partyCount, g \in Bosses)

=============================================================================

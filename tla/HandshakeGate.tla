---------------------------- MODULE HandshakeGate ----------------------------
(***************************************************************************)
(* The client bridge of src/unnamed/part_011: the handshake gate of       *)
(* receive_packet_safe and the five handlers behind it, the script-side   *)
(* senders (W3mInitiateHandshake, W3mBroadcastSessionState,               *)
(* W3mBroadcastAchievement, W3mInventoryBridge), the async pipeline's     *)
(* broadcast_heartbeat and inventory process_queue, and set_loopback_mode.*)
(*                                                                         *)
(* In loopback mode every sender hands its packet straight to its own     *)
(* receive_*_safe with the master server as source, so local packets go   *)
(* through the same gate as inbound ones.  Otherwise they go to the       *)
(* master server (outbox).  Inbound packets are whatever a master server, *)
(* or another address, may send: each handler takes any packet of its     *)
(* kind.  Each handler, and each sender, is one step: the only state two  *)
(* threads share is the atomic g_handshake_complete / g_loopback_enabled, *)
(* the mutex-guarded inventory queue, and the achievement set (see README *)
(* on why its check and insert are one step here).                        *)
(*                                                                         *)
(* Ghosts: `taken` and `accepted` are the ids of the master-server packets *)
(* that reached receive_packet_safe and the ones its handler ran for;     *)
(* `made` is every loot packet queued.                                    *)
(***************************************************************************)
EXTENDS Naturals, Sequences, FiniteSets, WireCodec

CONSTANTS
    Sids,         \* session ids a handshake may carry (0 included)
    Achievements, \* achievement ids, as byte strings
    AchLen,       \* MAX_ACHIEVEMENT_ID_LENGTH, the achievement_id array size
    Items,        \* item names the scripts loot
    Crowns,       \* the item name queue_item treats as gold
    Others,       \* sources other than the master server
    InKinds,      \* kinds of inbound packets the environment sends
    MaxPkts       \* bound on packets created (sent, queued or received)

ASSUME /\ 0 \in Sids /\ Crowns \in Items /\ MaxPkts \in Nat /\ AchLen \in Nat \ {0}

Master == "master"

GameplayKinds == {"loot", "quest_lock", "achievement", "heartbeat"}
Kinds == GameplayKinds \cup {"handshake"}

\* One packet; fields a kind does not use keep their defaults.  The
\* heartbeat's script_version and the loot's item are only printed by
\* their handlers and are left out.  `ach` is the achievement_id array.
Pkt(id, kind, src) ==
    [id |-> id, kind |-> kind, src |-> src, sid |-> 0, ach |-> ZeroArray(AchLen)]

\* The achievement_id field W3mBroadcastAchievement fills with copy_string.
AchField(a) == CopyString(ZeroArray(AchLen), a)

VARIABLES
    complete,     \* g_handshake_complete
    sessionId,    \* g_session_id
    loopback,     \* g_loopback_enabled
    unlocked,     \* m_unlocked_achievements
    processed,    \* W3mInventoryBridge::m_processed_items
    queue,        \* W3mInventoryBridge::m_outgoing_queue
    inbox,        \* packets delivered to the client, not yet handled
    outbox,       \* packets handed to network::send
    nextId,       \* packets created so far
    taken,        \* ghost
    accepted,     \* ghost
    made          \* ghost

vars == <<complete, sessionId, loopback, unlocked, processed, queue, inbox,
          outbox, nextId, taken, accepted, made>>

-----------------------------------------------------------------------------
(* receive_packet_safe and the handlers.                                   *)

\* Mutant: the gate lets every master-server packet through.
PassesNoGate(p) == p.src = Master

\* receive_packet_safe: only the master server's packets, and, except for
\* handshake packets (require_handshake = false), only once the handshake
\* is complete.  The protocol word is always right in this model.
Passes(p) ==
    /\ p.src = Master
    /\ p.kind = "handshake" \/ complete

\* receive_handshake_safe's handler: a non-zero session id calls
\* set_handshake_complete (g_session_id, then the name, then the flag;
\* no other thread reads the first two).
Establishes(p) == Passes(p) /\ p.kind = "handshake" /\ p.sid # 0

\* The whole of receive_<kind>_safe for one packet.  Of the handlers only
\* the handshake and achievement ones change state; the others print.
Receive(p) ==
    /\ taken' = IF p.src = Master THEN taken \cup {p.id} ELSE taken
    /\ accepted' = IF Passes(p) /\ p.kind # "handshake"
                     THEN accepted \cup {p.id} ELSE accepted
    /\ complete' = (complete \/ Establishes(p))
    /\ sessionId' = IF Establishes(p) THEN p.sid ELSE sessionId
    /\ unlocked' = IF Passes(p) /\ p.kind = "achievement"
                     THEN unlocked \cup {ExtractString(p.ach)} ELSE unlocked

\* A sender's packet: handed to its own receiver in loopback mode, else
\* sent to the master server.
Emit(p) ==
    \/ /\ loopback
       /\ Receive(p)
       /\ UNCHANGED outbox
    \/ /\ ~loopback
       /\ outbox' = outbox \cup {p}
       /\ UNCHANGED <<taken, accepted, complete, sessionId, unlocked>>

NewId == nextId + 1

-----------------------------------------------------------------------------
(* Script thread: the bridge functions.                                    *)

\* W3mInitiateHandshake(session_id).
InitiateHandshake(sid) ==
    /\ nextId < MaxPkts
    /\ Emit([Pkt(NewId, "handshake", Master) EXCEPT !.sid = sid])
    /\ nextId' = NewId
    /\ UNCHANGED <<loopback, processed, queue, inbox, made>>

\* W3mBroadcastSessionState: a quest_lock packet.
BroadcastSessionState ==
    /\ nextId < MaxPkts
    /\ Emit(Pkt(NewId, "quest_lock", Master))
    /\ nextId' = NewId
    /\ UNCHANGED <<loopback, processed, queue, inbox, made>>

\* W3mBroadcastAchievement: an id already in the set returns early;
\* otherwise the full id is inserted and the packet, its id cut by
\* copy_string, is sent, or in loopback mode handed to
\* receive_achievement_safe, which inserts the id extract_string reads
\* back when the gate lets it through.
BroadcastAchievement(a) ==
    /\ nextId < MaxPkts
    /\ a \notin unlocked
    /\ LET p    == [Pkt(NewId, "achievement", Master) EXCEPT !.ach = AchField(a)]
           back == IF loopback /\ complete THEN {ExtractString(p.ach)} ELSE {}
       IN
       /\ unlocked' = unlocked \cup {a} \cup back
       /\ \/ /\ loopback
             /\ taken' = taken \cup {p.id}
             /\ accepted' = IF complete THEN accepted \cup {p.id} ELSE accepted
             /\ UNCHANGED outbox
          \/ /\ ~loopback
             /\ outbox' = outbox \cup {p}
             /\ UNCHANGED <<taken, accepted>>
    /\ nextId' = NewId
    /\ UNCHANGED <<complete, sessionId, loopback, processed, queue, inbox, made>>

\* W3mInventoryBridge -> queue_item: a relic or boss item other than gold
\* is queued once per (name, quantity); gold always.  The push is under
\* m_queue_mutex.
QueueItem(it, relic) ==
    LET key == it  \* one quantity in the model: the key is the name
    IN
    /\ nextId < MaxPkts
    /\ ~(it # Crowns /\ relic /\ key \in processed)
    /\ processed' = IF it # Crowns /\ relic THEN processed \cup {key}
                    ELSE processed
    /\ queue' = Append(queue, Pkt(NewId, "loot", Master))
    /\ made' = made \cup {NewId}
    /\ nextId' = NewId
    /\ UNCHANGED <<complete, sessionId, loopback, unlocked, inbox, outbox,
                   taken, accepted>>

\* W3mSetLoopback -> set_loopback_mode.
SetLoopback(b) ==
    /\ loopback' = b
    /\ UNCHANGED <<complete, sessionId, unlocked, processed, queue, inbox,
                   outbox, nextId, taken, accepted, made>>

-----------------------------------------------------------------------------
(* Async pipeline: the 5 s heartbeat and the 100 ms inventory loop.        *)

\* broadcast_heartbeat: a heartbeat with this build's script version.
Heartbeat ==
    /\ nextId < MaxPkts
    /\ Emit(Pkt(NewId, "heartbeat", Master))
    /\ nextId' = NewId
    /\ UNCHANGED <<loopback, processed, queue, inbox, made>>

QueueIds == {queue[i].id : i \in 1..Len(queue)}

\* Mutant: only the front packet is handled, the rest are popped too.
ProcessQueueFrontOnly ==
    /\ queue # <<>>
    /\ queue' = <<>>
    /\ IF loopback
         THEN /\ taken' = taken \cup {Head(queue).id}
              /\ accepted' = IF complete THEN accepted \cup {Head(queue).id}
                             ELSE accepted
              /\ UNCHANGED outbox
         ELSE /\ outbox' = outbox \cup {Head(queue)}
              /\ UNCHANGED <<taken, accepted>>
    /\ UNCHANGED <<complete, sessionId, loopback, unlocked, processed, inbox,
                   nextId, made>>

\* Mutant: the loop returns early until the handshake is complete.
ProcessQueueAfterHandshake ==
    /\ complete
    /\ queue # <<>>
    /\ queue' = <<>>
    /\ IF loopback
         THEN /\ taken' = taken \cup QueueIds
              /\ accepted' = accepted \cup QueueIds
              /\ UNCHANGED outbox
         ELSE /\ outbox' = outbox \cup {queue[i] : i \in 1..Len(queue)}
              /\ UNCHANGED <<taken, accepted>>
    /\ UNCHANGED <<complete, sessionId, loopback, unlocked, processed, inbox,
                   nextId, made>>

\* process_queue: under m_queue_mutex, pop every packet; each goes to
\* receive_inventory_safe in loopback mode (the gate drops it if the
\* handshake is not complete) or to the master server as "loot".
ProcessQueue ==
    /\ queue # <<>>
    /\ queue' = <<>>
    /\ IF loopback
         THEN /\ taken' = taken \cup QueueIds
              /\ accepted' = IF complete THEN accepted \cup QueueIds
                             ELSE accepted
              /\ UNCHANGED outbox
         ELSE /\ outbox' = outbox \cup {queue[i] : i \in 1..Len(queue)}
              /\ UNCHANGED <<taken, accepted>>
    /\ UNCHANGED <<complete, sessionId, loopback, unlocked, processed, inbox,
                   nextId, made>>

-----------------------------------------------------------------------------
(* Network thread.                                                         *)

\* A packet reaches the client from the master server or elsewhere.
Arrive(k, src) ==
    /\ nextId < MaxPkts
    /\ \E sid \in Sids, a \in Achievements :
          inbox' = inbox \cup
                   {[Pkt(NewId, k, src) EXCEPT !.sid = IF k = "handshake"
                                                       THEN sid ELSE 0,
                                               !.ach = IF k = "achievement"
                                                       THEN AchField(a)
                                                       ELSE ZeroArray(AchLen)]}
    /\ nextId' = NewId
    /\ UNCHANGED <<complete, sessionId, loopback, unlocked, processed, queue,
                   outbox, taken, accepted, made>>

\* network::on dispatches the packet to its receive_<kind>_safe.
NetReceive(p) ==
    /\ inbox' = inbox \ {p}
    /\ Receive(p)
    /\ UNCHANGED <<loopback, processed, queue, outbox, nextId, made>>

-----------------------------------------------------------------------------

Init ==
    /\ complete = FALSE
    /\ sessionId = 0
    /\ loopback = FALSE
    /\ unlocked = {}
    /\ processed = {}
    /\ queue = <<>>
    /\ inbox = {}
    /\ outbox = {}
    /\ nextId = 0
    /\ taken = {}
    /\ accepted = {}
    /\ made = {}

Next ==
    \/ \E sid \in Sids : InitiateHandshake(sid)
    \/ BroadcastSessionState
    \/ \E a \in Achievements : BroadcastAchievement(a)
    \/ \E it \in Items, relic \in BOOLEAN : QueueItem(it, relic)
    \/ \E b \in BOOLEAN : SetLoopback(b)
    \/ Heartbeat
    \/ ProcessQueue
    \/ \E k \in InKinds, src \in {Master} \cup Others : Arrive(k, src)
    \/ \E p \in inbox : NetReceive(p)

Spec == Init /\ [][Next]_vars

\* process_queue runs on its own 100 ms scheduler::loop of the async
\* pipeline, so a non-empty queue keeps it enabled until it runs; nothing
\* obliges the scripts, the heartbeat or the network to act.
FairSpec == Spec /\ WF_vars(ProcessQueue)

-----------------------------------------------------------------------------
(* Properties.                                                             *)

Ids == 1..MaxPkts

\* Achievement ids are script strings, so none holds a NUL byte.
TypeOK ==
    /\ complete \in BOOLEAN /\ sessionId \in Sids /\ loopback \in BOOLEAN
    /\ unlocked \subseteq Seq(1..255) /\ processed \subseteq Items
    /\ \A i \in 1..Len(queue) : queue[i].kind = "loot"
    /\ \A p \in inbox \cup outbox : p.id \in Ids /\ p.kind \in Kinds
    /\ nextId \in 0..MaxPkts
    /\ accepted \subseteq taken /\ taken \subseteq Ids /\ made \subseteq Ids

\* Every id m_unlocked_achievements holds is one a script unlocked: whole,
\* from W3mBroadcastAchievement's own insert, or as a C reader sees it in
\* the MAX_ACHIEVEMENT_ID_LENGTH-char achievement_id field, from
\* receive_achievement_safe after copy_string and extract_string (its own
\* packet in loopback mode, or a peer's).  A copy that fills the field
\* without a terminator, or a read that runs past it, adds an id no
\* script ever unlocked.
AchievementIdsFromScripts ==
    \A u \in unlocked : \E a \in Achievements : u \in {a, CString(a, AchLen)}

SentIds == {p.id : p \in outbox}

\* Every loot packet queue_item creates ends up in exactly one place: still
\* in the queue, sent to the master server, or taken by the local
\* receiver (accepted, or dropped by the closed gate), however the script
\* thread's pushes, loopback switches and the async loop's drains
\* interleave.
LootConservation ==
    \A i \in made :
        LET places == {"queue", "sent", "taken"}
            at     == [queue |-> QueueIds, sent |-> SentIds, taken |-> taken]
        IN  Cardinality({w \in places : i \in at[w]}) = 1

\* Every loot packet queue_item pushes is eventually popped by the async
\* process_queue loop and handed to the master server or to the local
\* receiver, whatever the handshake and loopback state: nothing leaves a
\* relic or gold award waiting in m_outgoing_queue.
LootEventuallyLeaves ==
    \A i \in Ids : (i \in QueueIds) ~> (i \in SentIds \cup taken)

====

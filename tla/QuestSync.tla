----------------------------- MODULE QuestSync -----------------------------
(***************************************************************************)
(* The narrative synchronization core of one client process               *)
(* (src/unnamed/part_009, namespace quest_sync): the fact cache of        *)
(* quest_fact_manager, the pending-fact queue, the g_W3mGlobalSyncIn-     *)
(* Progress flag, the global_story_lock atomics and the 15 s fail-safe.   *)
(*                                                                         *)
(* Two threads touch this state.  The game's script thread ("main") calls *)
(* the bridge functions W3mAtomicAddFact, W3mBroadcastFact,               *)
(* W3mAcquireStoryLock, W3mReleaseStoryLock and W3mClearFactCache.  The   *)
(* scheduler's async pipeline ("async") runs broadcast_narrative_heartbeat *)
(* every 5 s, whose check_story_lock_timeout may force-release the lock.  *)
(* Every load or store of a std::atomic, and every critical section of a  *)
(* std::mutex, is one step, so the two threads interleave exactly where   *)
(* the code lets them.                                                     *)
(*                                                                         *)
(* Data is abstracted: a fact name is a member of Facts, a value a member *)
(* of Values, a scene a member of Scenes.  Every script write carries a   *)
(* ghost id (its position in the script's call order) so properties can  *)
(* say which write a cache entry or a queue entry came from.  Time is the *)
(* age of the lock timestamp in heartbeat periods, saturating one above   *)
(* LockTimeout: only "expired or not" matters to the code.                *)
(***************************************************************************)
EXTENDS Integers, Sequences, FiniteSets, SequencesExt

CONSTANTS
    Facts,        \* fact names (their std::hash is injective on this set)
    Values,       \* fact values written by scripts
    Scenes,       \* scene ids passed to W3mAcquireStoryLock
    CacheLimit,   \* FACT_CACHE_SIZE_LIMIT (1024 in the code)
    LockTimeout,  \* STORY_LOCK_TIMEOUT_MS in heartbeat periods
    MaxOps        \* bound on the number of script calls

ASSUME CacheLimit \in Nat \ {0}
ASSUME LockTimeout \in Nat \ {0}
ASSUME MaxOps \in Nat

NoScene == 0                      \* m_scene_id after release_lock
Expired == LockTimeout + 1        \* saturated age: elapsed_ms > timeout
WriteIds == 1..MaxOps
Write == [fact : Facts, value : Values, id : WriteIds]
NoEntry == [id |-> 0]             \* absent from m_fact_cache
Entry == [value : Values, id : WriteIds, stamp : Nat]
NoWrite == [fact |-> CHOOSE f \in Facts : TRUE,
            value |-> CHOOSE v \in Values : TRUE, id |-> 0]

VARIABLES
    cache,       \* m_fact_cache: Facts -> Entry or NoEntry
    clock,       \* registration timestamps (high_resolution_clock) used so far
    pending,     \* g_W3mPendingFacts, in push_back order
    sync,        \* g_W3mGlobalSyncInProgress
    active,      \* global_story_lock::m_lock_active
    lockScene,   \* global_story_lock::m_scene_id
    tsAge,       \* now - m_lock_timestamp, in periods, saturating at Expired
    pc,          \* program counter of each thread
    arg,         \* main thread: the fact write of the call in progress
    sceneArg,    \* main thread: the scene_id of the acquire in progress
    relScene,    \* per thread: scene read at the start of a release
    forced,      \* per thread: the release in progress is the fail-safe one
    outbox,      \* packets handed to network::send, in order
    ops,         \* script calls made so far
    heldAge,     \* ghost: periods since the lock window really opened
    issued,      \* ghost: ids of the fact writes scripts have made
    applied      \* ghost: how many times each write id was registered

vars == <<cache, clock, pending, sync, active, lockScene, tsAge, pc, arg,
          sceneArg,
          relScene, forced, outbox, ops, heldAge, issued, applied>>

Threads == {"main", "async"}

\* The W3mFactPacket (fact_packet) and W3mQuestLockPacket (quest_lock_packet)
\* the client sends; timestamps and the initiator guid are left out, and a
\* "fact" message carries its write's ghost id.
FactMsg == [kind : {"fact"}, fact : Facts, value : Values, id : WriteIds]
UnlockMsg == [kind : {"unlock"}, scene : Scenes \cup {NoScene}, forced : BOOLEAN]

TypeOK ==
    /\ cache \in [Facts -> Entry \cup {NoEntry}]
    /\ clock \in Nat
    /\ pending \in Seq(Write)
    /\ sync \in BOOLEAN
    /\ active \in BOOLEAN
    /\ lockScene \in Scenes \cup {NoScene}
    /\ tsAge \in 0..Expired
    /\ pc \in [Threads -> {"idle", "bcheck", "queue", "register",
                           "send", "acq_check", "acq_set", "acq_scene",
                           "acq_stamp", "t_stamp", "rel_read", "rel_lock",
                           "rel_clear", "rel_sync", "rel_flush",
                           "rel_send"}]
    /\ arg \in Write \cup {NoWrite}
    /\ sceneArg \in Scenes \cup {NoScene}
    /\ relScene \in [Threads -> Scenes \cup {NoScene}]
    /\ forced \in [Threads -> BOOLEAN]
    /\ outbox \in Seq(FactMsg \cup UnlockMsg)
    /\ ops \in 0..MaxOps
    /\ heldAge \in 0..Expired
    /\ issued \subseteq WriteIds
    /\ applied \in [WriteIds -> Nat]

-----------------------------------------------------------------------------
(* quest_fact_manager: register_fact and prune_oldest_facts.               *)

Cached(c) == {f \in Facts : c[f] # NoEntry}

\* prune_oldest_facts: if more than 75% of the limit is cached, erase the
\* (size - 0.75 * limit) entries with the oldest timestamps.
PruneOldestFacts(c) ==
    LET keys == Cached(c)
        keep == (CacheLimit * 3) \div 4
        n    == Cardinality(keys) - keep
        oldest == {f \in keys :
                     Cardinality({g \in keys : c[g].stamp < c[f].stamp}) < n}
    IN  IF Cardinality(keys) <= keep THEN c
        ELSE [f \in Facts |-> IF f \in oldest THEN NoEntry ELSE c[f]]

\* register_fact: overwrite the entry keyed by the fact's hash, stamped now;
\* prune when the cache has grown past the limit.
RegisterFact(c, w, stamp) ==
    LET c1 == [c EXCEPT ![w.fact] = [value |-> w.value, id |-> w.id,
                                     stamp |-> stamp]]
    IN  IF Cardinality(Cached(c1)) > CacheLimit THEN PruneOldestFacts(c1)
        ELSE c1

\* Index of the last queued record of fact f.
LastIndexOf(q, f) ==
    {k \in DOMAIN q : q[k].fact = f /\ \A j \in DOMAIN q : j > k => q[j].fact # f}

\* Mutation of FlushInto: queued records are moved into the cache as they
\* are, bypassing register_fact (no fresh timestamp, no pruning).
FlushIntoRaw(c, q) ==
    [f \in Facts |-> IF \E k \in DOMAIN q : q[k].fact = f
                     THEN q[CHOOSE k \in LastIndexOf(q, f) : TRUE]
                     ELSE c[f]]

\* Mutation of FlushInto: the queue walked back to front.
FlushIntoReversed(c, q) ==
    FoldRightDomain(LAMBDA i, acc : RegisterFact(acc, q[i], clock + Len(q) + 1 - i),
                    q, c)

\* flush_pending_facts body: register every queued fact in push_back order.
FlushInto(c, q) ==
    FoldLeftDomain(LAMBDA acc, i : RegisterFact(acc, q[i], clock + i), c, q)

CountApplied(cnt, ws) ==
    [i \in WriteIds |-> cnt[i] + Cardinality({k \in DOMAIN ws : ws[k].id = i})]

Goto(t, from, to) ==
    /\ pc[t] = from
    /\ pc' = [pc EXCEPT ![t] = to]

-----------------------------------------------------------------------------
(* Script thread: W3mAtomicAddFact / W3mBroadcastFact.                    *)

\* W3mAtomicAddFact: load the sync flag; queue if set, else fall through to
\* W3mBroadcastFact, whose broadcast_quest_fact loads the flag again.
ScriptAtomicAddFact(f, v) ==
    /\ pc["main"] = "idle"
    /\ ops < MaxOps
    /\ arg' = [fact |-> f, value |-> v, id |-> ops + 1]
    /\ ops' = ops + 1
    /\ issued' = issued \cup {ops + 1}
    /\ pc' = [pc EXCEPT !["main"] = IF sync THEN "queue" ELSE "bcheck"]
    /\ UNCHANGED <<cache, clock, pending, outbox, applied>>
    /\ UNCHANGED <<sync, active, lockScene, tsAge, heldAge, sceneArg, relScene, forced>>

\* W3mBroadcastFact called directly from a script.
ScriptBroadcastFact(f, v) ==
    /\ pc["main"] = "idle"
    /\ ops < MaxOps
    /\ arg' = [fact |-> f, value |-> v, id |-> ops + 1]
    /\ ops' = ops + 1
    /\ issued' = issued \cup {ops + 1}
    /\ pc' = [pc EXCEPT !["main"] = "bcheck"]
    /\ UNCHANGED <<cache, clock, pending, outbox, applied>>
    /\ UNCHANGED <<sync, active, lockScene, tsAge, heldAge, sceneArg, relScene, forced>>

\* broadcast_quest_fact: if (g_W3mGlobalSyncInProgress.load()) queue.
BroadcastCheck ==
    /\ pc["main"] = "bcheck"
    /\ pc' = [pc EXCEPT !["main"] = IF sync THEN "queue" ELSE "register"]
    /\ UNCHANGED <<cache, clock, pending, outbox, issued, applied>>
    /\ UNCHANGED <<sync, active, lockScene, tsAge, heldAge>>
    /\ UNCHANGED <<arg, sceneArg, relScene, forced, ops>>

\* queue_fact_during_sync: push_back under g_pending_facts_mutex.
QueueFact ==
    /\ Goto("main", "queue", "idle")
    /\ pending' = Append(pending, arg)
    /\ UNCHANGED <<cache, clock, outbox, issued, applied>>
    /\ UNCHANGED <<sync, active, lockScene, tsAge, heldAge>>
    /\ UNCHANGED <<arg, sceneArg, relScene, forced, ops>>

\* register_fact under m_fact_mutex.
RegisterBroadcast ==
    /\ Goto("main", "register", "send")
    /\ cache' = RegisterFact(cache, arg, clock + 1)
    /\ clock' = clock + 1
    /\ applied' = CountApplied(applied, <<arg>>)
    /\ UNCHANGED <<pending, outbox, issued>>
    /\ UNCHANGED <<sync, active, lockScene, tsAge, heldAge>>
    /\ UNCHANGED <<arg, sceneArg, relScene, forced, ops>>

\* network::send(master, "fact", ...)
SendFact ==
    /\ Goto("main", "send", "idle")
    /\ outbox' = Append(outbox, [kind |-> "fact", fact |-> arg.fact,
                                 value |-> arg.value, id |-> arg.id])
    /\ UNCHANGED <<cache, clock, pending, issued, applied>>
    /\ UNCHANGED <<sync, active, lockScene, tsAge, heldAge>>
    /\ UNCHANGED <<arg, sceneArg, relScene, forced, ops>>

\* W3mClearFactCache: clear_cache under m_fact_mutex.
ScriptClearFactCache ==
    /\ pc["main"] = "idle"
    /\ ops < MaxOps
    /\ ops' = ops + 1
    /\ cache' = [f \in Facts |-> NoEntry]
    /\ UNCHANGED <<clock, pending, outbox, issued, applied>>
    /\ UNCHANGED <<sync, active, lockScene, tsAge, heldAge>>
    /\ UNCHANGED <<pc, arg, sceneArg, relScene, forced>>

-----------------------------------------------------------------------------
(* Script thread: W3mAcquireStoryLock = acquire_global_story_lock.          *)

\* g_W3mGlobalSyncInProgress.store(true), before the lock is examined.
ScriptAcquireStoryLock(s) ==
    /\ pc["main"] = "idle"
    /\ ops < MaxOps
    /\ ops' = ops + 1
    /\ sceneArg' = s
    /\ sync' = TRUE
    /\ pc' = [pc EXCEPT !["main"] = "acq_check"]
    /\ UNCHANGED <<cache, clock, pending, outbox, issued, applied>>
    /\ UNCHANGED <<active, lockScene, tsAge, heldAge, arg, relScene, forced>>

\* acquire_lock: if (is_locked()) return;
AcquireCheck ==
    /\ pc["main"] = "acq_check"
    /\ pc' = [pc EXCEPT !["main"] = IF active THEN "idle" ELSE "acq_set"]
    /\ UNCHANGED <<cache, clock, pending, outbox, issued, applied>>
    /\ UNCHANGED <<sync, active, lockScene, tsAge, heldAge>>
    /\ UNCHANGED <<arg, sceneArg, relScene, forced, ops>>

\* m_lock_active.store(true); the lock window opens here.
AcquireSet ==
    /\ Goto("main", "acq_set", "acq_scene")
    /\ active' = TRUE
    /\ heldAge' = 0
    /\ UNCHANGED <<cache, clock, pending, outbox, issued, applied>>
    /\ UNCHANGED <<sync, lockScene, tsAge>>
    /\ UNCHANGED <<arg, sceneArg, relScene, forced, ops>>

\* m_initiator_guid.store(...); m_scene_id.store(scene_id);
AcquireScene ==
    /\ Goto("main", "acq_scene", "acq_stamp")
    /\ lockScene' = sceneArg
    /\ UNCHANGED <<cache, clock, pending, outbox, issued, applied>>
    /\ UNCHANGED <<sync, active, tsAge, heldAge>>
    /\ UNCHANGED <<arg, sceneArg, relScene, forced, ops>>

\* m_lock_timestamp.store(now)
AcquireStamp ==
    /\ Goto("main", "acq_stamp", "idle")
    /\ tsAge' = 0
    /\ UNCHANGED <<cache, clock, pending, outbox, issued, applied>>
    /\ UNCHANGED <<sync, active, lockScene, heldAge>>
    /\ UNCHANGED <<arg, sceneArg, relScene, forced, ops>>

\* W3mReleaseStoryLock = release_global_story_lock(forced = false).
ScriptReleaseStoryLock ==
    /\ pc["main"] = "idle"
    /\ ops < MaxOps
    /\ ops' = ops + 1
    /\ pc' = [pc EXCEPT !["main"] = "rel_read"]
    /\ forced' = [forced EXCEPT !["main"] = FALSE]
    /\ UNCHANGED <<cache, clock, pending, outbox, issued, applied>>
    /\ UNCHANGED <<sync, active, lockScene, tsAge, heldAge>>
    /\ UNCHANGED <<arg, sceneArg, relScene>>

-----------------------------------------------------------------------------
(* Async thread: broadcast_narrative_heartbeat -> check_story_lock_timeout. *)
(* The hash and count it computes first only feed a printf.                *)

\* if (!g_story_lock.is_locked()) return;
TimeoutCheck ==
    /\ pc["async"] = "idle"
    /\ pc' = [pc EXCEPT !["async"] = IF active THEN "t_stamp" ELSE "idle"]
    /\ UNCHANGED <<cache, clock, pending, outbox, issued, applied>>
    /\ UNCHANGED <<sync, active, lockScene, tsAge, heldAge>>
    /\ UNCHANGED <<arg, sceneArg, relScene, forced, ops>>

\* lock_timestamp = get_lock_timestamp(); if elapsed_ms > timeout then
\* release_global_story_lock(true).
TimeoutElapsed ==
    /\ pc["async"] = "t_stamp"
    /\ pc' = [pc EXCEPT !["async"] = IF tsAge = Expired THEN "rel_read"
                                                         ELSE "idle"]
    /\ forced' = [forced EXCEPT !["async"] = TRUE]
    /\ UNCHANGED <<cache, clock, pending, outbox, issued, applied>>
    /\ UNCHANGED <<sync, active, lockScene, tsAge, heldAge>>
    /\ UNCHANGED <<arg, sceneArg, relScene, ops>>

-----------------------------------------------------------------------------
(* release_global_story_lock, run by either thread.                        *)

\* get_initiator_guid(); get_scene_id();
ReleaseRead(t) ==
    /\ Goto(t, "rel_read", "rel_lock")
    /\ relScene' = [relScene EXCEPT ![t] = lockScene]
    /\ UNCHANGED <<cache, clock, pending, outbox, issued, applied>>
    /\ UNCHANGED <<sync, active, lockScene, tsAge, heldAge>>
    /\ UNCHANGED <<arg, sceneArg, forced, ops>>

\* release_lock: if (!is_locked()) return; m_lock_active.store(false);
ReleaseLock(t) ==
    /\ pc[t] = "rel_lock"
    /\ pc' = [pc EXCEPT ![t] = IF active THEN "rel_clear" ELSE "rel_sync"]
    /\ active' = FALSE
    /\ UNCHANGED <<cache, clock, pending, outbox, issued, applied>>
    /\ UNCHANGED <<sync, lockScene, tsAge, heldAge>>
    /\ UNCHANGED <<arg, sceneArg, relScene, forced, ops>>

\* m_initiator_guid.store(0); m_scene_id.store(0);
ReleaseClear(t) ==
    /\ Goto(t, "rel_clear", "rel_sync")
    /\ lockScene' = NoScene
    /\ UNCHANGED <<cache, clock, pending, outbox, issued, applied>>
    /\ UNCHANGED <<sync, active, tsAge, heldAge>>
    /\ UNCHANGED <<arg, sceneArg, relScene, forced, ops>>

\* Mutation of ReleaseSync: the store of false is forgotten.
ReleaseSyncNoStore(t) ==
    /\ Goto(t, "rel_sync", "rel_flush")
    /\ UNCHANGED <<cache, clock, pending, outbox, issued, applied>>
    /\ UNCHANGED <<sync, active, lockScene, tsAge, heldAge>>
    /\ UNCHANGED <<arg, sceneArg, relScene, forced, ops>>

\* g_W3mGlobalSyncInProgress.store(false)
ReleaseSync(t) ==
    /\ Goto(t, "rel_sync", "rel_flush")
    /\ sync' = FALSE
    /\ UNCHANGED <<cache, clock, pending, outbox, issued, applied>>
    /\ UNCHANGED <<active, lockScene, tsAge, heldAge>>
    /\ UNCHANGED <<arg, sceneArg, relScene, forced, ops>>

\* Mutation of ReleaseFlush: g_W3mPendingFacts.clear() is forgotten.
ReleaseFlushKeepQueue(t) ==
    /\ Goto(t, "rel_flush", "rel_send")
    /\ cache' = FlushInto(cache, pending)
    /\ clock' = clock + Len(pending)
    /\ applied' = CountApplied(applied, pending)
    /\ UNCHANGED <<pending, outbox, issued>>
    /\ UNCHANGED <<sync, active, lockScene, tsAge, heldAge>>
    /\ UNCHANGED <<arg, sceneArg, relScene, forced, ops>>

\* flush_pending_facts: under g_pending_facts_mutex, register every queued
\* fact in order (no "fact" packet is sent for them), then clear the queue.
ReleaseFlush(t) ==
    /\ Goto(t, "rel_flush", "rel_send")
    /\ cache' = FlushInto(cache, pending)
    /\ clock' = clock + Len(pending)
    /\ applied' = CountApplied(applied, pending)
    /\ pending' = <<>>
    /\ UNCHANGED <<outbox, issued>>
    /\ UNCHANGED <<sync, active, lockScene, tsAge, heldAge>>
    /\ UNCHANGED <<arg, sceneArg, relScene, forced, ops>>

\* The W3mQuestLockPacket with is_locked = false goes out as "quest_lock",
\* or "story_lock_release_forced" from the fail-safe.
ReleaseSend(t) ==
    /\ Goto(t, "rel_send", "idle")
    /\ outbox' = Append(outbox, [kind |-> "unlock", scene |-> relScene[t],
                                 forced |-> forced[t]])
    /\ UNCHANGED <<cache, clock, pending, issued, applied>>
    /\ UNCHANGED <<sync, active, lockScene, tsAge, heldAge>>
    /\ UNCHANGED <<arg, sceneArg, relScene, forced, ops>>

-----------------------------------------------------------------------------
(* Time: one heartbeat period passes.                                      *)

Tick ==
    /\ tsAge < Expired \/ heldAge < Expired
    /\ tsAge' = IF tsAge < Expired THEN tsAge + 1 ELSE tsAge
    /\ heldAge' = IF heldAge < Expired THEN heldAge + 1 ELSE heldAge
    /\ UNCHANGED <<cache, clock, pending, outbox, issued, applied>>
    /\ UNCHANGED <<sync, active, lockScene>>
    /\ UNCHANGED <<pc, arg, sceneArg, relScene, forced, ops>>

-----------------------------------------------------------------------------

Init ==
    /\ cache = [f \in Facts |-> NoEntry]
    /\ clock = 0
    /\ pending = <<>>
    /\ sync = FALSE
    /\ active = FALSE
    /\ lockScene = NoScene
    /\ tsAge = Expired           \* m_lock_timestamp starts at 0 (epoch)
    /\ pc = [t \in Threads |-> "idle"]
    /\ arg = NoWrite
    /\ sceneArg = NoScene
    /\ relScene = [t \in Threads |-> NoScene]
    /\ forced = [t \in Threads |-> FALSE]
    /\ outbox = <<>>
    /\ ops = 0
    /\ heldAge = Expired
    /\ issued = {}
    /\ applied = [i \in WriteIds |-> 0]

ScriptCall ==
    \/ \E f \in Facts, v \in Values : ScriptAtomicAddFact(f, v)
    \/ \E f \in Facts, v \in Values : ScriptBroadcastFact(f, v)
    \/ \E s \in Scenes : ScriptAcquireStoryLock(s)
    \/ ScriptReleaseStoryLock
    \/ ScriptClearFactCache

ReleaseStep(t) ==
    \/ ReleaseRead(t) \/ ReleaseLock(t) \/ ReleaseClear(t)
    \/ ReleaseSync(t) \/ ReleaseFlush(t) \/ ReleaseSend(t)

MainStep ==
    \/ BroadcastCheck \/ QueueFact \/ RegisterBroadcast \/ SendFact
    \/ AcquireCheck \/ AcquireSet \/ AcquireScene \/ AcquireStamp
    \/ ReleaseStep("main")

AsyncStep ==
    \/ TimeoutCheck \/ TimeoutElapsed
    \/ ReleaseStep("async")

Next == ScriptCall \/ MainStep \/ AsyncStep \/ Tick

\* A bridge call, once entered, runs to completion (no step blocks); the
\* async scheduler loop keeps running; time keeps passing.  Scripts are
\* free never to call again.
Fairness == WF_vars(MainStep) /\ WF_vars(AsyncStep) /\ WF_vars(Tick)

Spec == Init /\ [][Next]_vars /\ Fairness

-----------------------------------------------------------------------------
(* Properties.                                                             *)

Occurrences(q, i) == Cardinality({k \in DOMAIN q : q[k].id = i})

\* The script write main is carrying and has not registered or queued yet.
InFlight(i) == pc["main"] \in {"bcheck", "queue", "register"} /\ arg.id = i

\* Every fact write a script made through W3mAtomicAddFact or
\* W3mBroadcastFact is, at every moment, in exactly one place: still in the
\* bridge call, in g_W3mPendingFacts, or registered once in m_fact_cache.
\* A flush that runs twice over the queue, or loses entries pushed while
\* another thread flushes, breaks it.
WriteConservation ==
    \A i \in issued :
        applied[i] + Occurrences(pending, i) + (IF InFlight(i) THEN 1 ELSE 0)
            = 1

FlushStep == \E t \in Threads : pc[t] = "rel_flush" /\ pc'[t] = "rel_send"

\* flush_pending_facts applies the queue in enqueue order (spec section 4.2):
\* after the flush, a fact queued several times during the lock window holds
\* the last value queued for it, unless pruning evicted it.
PendingFlushFIFO ==
    [][FlushStep =>
        \A f \in Facts : \A k \in LastIndexOf(pending, f) :
            cache'[f] \in {NoEntry} \cup {e \in Entry : e.id = pending[k].id}
      ]_vars

\* The story sync (g_W3mGlobalSyncInProgress and the story lock) that a
\* scene opened always ends, by W3mReleaseStoryLock or by the heartbeat's
\* fail-safe in check_story_lock_timeout.
SyncEventuallyEnds == (active \/ sync) ~> (~active /\ ~sync)

\* The fail-safe forces a release only of a lock window that has really
\* been open longer than STORY_LOCK_TIMEOUT_MS (spec section 4.3).
ForcedReleaseOnlyAfterTimeout ==
    [][(pc["async"] = "t_stamp" /\ pc'["async"] = "rel_read") =>
        heldAge = Expired]_vars

\* A fact queued in g_W3mPendingFacts is eventually applied to the cache.
QueuedFactEventuallyApplied ==
    \A i \in WriteIds : (Occurrences(pending, i) > 0) ~> (applied[i] > 0)

=============================================================================

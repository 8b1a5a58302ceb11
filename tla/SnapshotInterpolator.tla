------------------------- MODULE SnapshotInterpolator -------------------------
(***************************************************************************)
(* network::interpolation::player_interpolator                             *)
(* (src/src/common/network/interpolator.hpp): the 3-slot ring buffer of   *)
(* motion snapshots of one remote player, interpolation at a 100 ms render *)
(* delay, dead reckoning when the render time cannot be bracketed, and the *)
(* 500 ms recovery blend back from extrapolated to interpolated motion.    *)
(*                                                                         *)
(* The object has no lock: its owner calls add_snapshot, reset and         *)
(* get_interpolated_state one at a time, in any order, while steady_clock  *)
(* advances.  Each call is one action.                                     *)
(*                                                                         *)
(* Data is abstracted to provenance: every snapshot added gets a ghost id  *)
(* (its arrival number), and a returned state is a record saying how it    *)
(* was computed from snapshot ids (as-is, dead-reckoned, interpolated,     *)
(* blended) and with which fraction.  Positions and angles themselves are  *)
(* left out: every property here is about which snapshots a state comes    *)
(* from and at which fraction, which is what the code's control decides.   *)
(*                                                                         *)
(* Time is steady_clock in half-milliseconds, so that two snapshots less   *)
(* than a millisecond apart (the code's duration_cast<milliseconds>        *)
(* truncates to 0) can be told apart.                                      *)
(***************************************************************************)
EXTENDS Integers, FiniteSets

CONSTANTS
    MaxSamples,   \* bound on add_snapshot calls (ids 1..MaxSamples)
    MaxTime,      \* bound on steady_clock, in half-milliseconds
    FineSteps,    \* bound on half-ms clock steps inside one 50 ms frame
    FineFrames    \* bound on the frames (from the first) that have them

ASSUME MaxSamples \in Nat /\ MaxTime \in Nat /\ FineSteps \in Nat
       /\ FineFrames \in Nat

BufferSize == 3                 \* SNAPSHOT_BUFFER_SIZE
Slots == 0..(BufferSize - 1)
InterpolationDelay == 200       \* INTERPOLATION_DELAY_MS = 100, in half-ms
BlendDuration == 500            \* RECOVERY_BLEND_DURATION_MS, in ms
ExtrapolationThreshold == 100   \* EXTRAPOLATION_THRESHOLD_MS, in ms
Period == 100                   \* a 50 ms clock step, in half-ms

\* duration_cast<milliseconds> of a non-negative half-ms difference.
Ms(d) == d \div 2

\* lerp_angle's two normalisation loops on diff = b - a, in whole degrees:
\* subtract 360 while above 180, then add 360 while below -180.
RECURSIVE DownTo(_, _), UpTo(_, _)
DownTo(d, bound) == IF d > bound THEN DownTo(d - 360, bound) ELSE d
UpTo(d, bound) == IF d < -bound THEN UpTo(d + 360, bound) ELSE d

\* Mutant: the loops normalise to [-360, 360] instead of [-180, 180].
AngleDeltaWide(a, b) == UpTo(DownTo(b - a, 360), 360)

AngleDelta(a, b) == UpTo(DownTo(b - a, 180), 180)

\* lerp_angle(a, b, t) for t = k / n, scaled by n to stay in the integers.
LerpAngleScaled(a, b, k, n) == n * a + AngleDelta(a, b) * k

NoOut == [kind |-> "none"]
AsIs(id) == [kind |-> "asis", id |-> id]
Extrap(id, dt) == [kind |-> "extrap", id |-> id, dt |-> dt]
Lerp(a, b, e, d) == [kind |-> "lerp", a |-> a, b |-> b, e |-> e, d |-> d]
Blend(from, to, e) == [kind |-> "blend", from |-> from, to |-> to, e |-> e]

EmptySlot == [valid |-> FALSE, ts |-> 0, id |-> 0]

\* The two calls of handle_extrapolation in get_interpolated_state.
ExtrapPaths == {"lone", "extrap"}

VARIABLES
    snapshots,      \* snapshots_: Slots -> [valid, ts, id]
    writeIndex,     \* write_index_
    count,          \* snapshot_count_
    inExtrap,       \* in_extrapolation_
    blendActive,    \* blend_active_
    blendStart,     \* blend_start_time_
    blendFrom,      \* blend_start_state_
    anchor,         \* extrapolation_anchor_ (NoOut when empty)
    lastReturned,   \* last_returned_state_ (NoOut when empty)
    now,            \* steady_clock::now()
    nextId,         \* ghost: snapshots added so far
    resetAt,        \* ghost: nextId at the last reset()
    out,            \* ghost: the value the last get_interpolated_state returned
    outPath,        \* ghost: "lone" (count < 2), "extrap", "interp" or "zero"
    shown,          \* ghost: the last extrapolated state returned, or NoOut
    resumedAt,      \* ghost: time of the first interpolation after it, or -1
    finished        \* ghost: an interpolation since then was >= 500 ms later

vars == <<snapshots, writeIndex, count, inExtrap, blendActive, blendStart,
          blendFrom, anchor, lastReturned, now, nextId, resetAt, out, outPath,
          shown, resumedAt, finished>>
ghosts == <<shown, resumedAt, finished>>

-----------------------------------------------------------------------------
(* Scans over the buffer.                                                  *)

ValidSlots == {i \in Slots : snapshots[i].valid}

\* The indices 0..snapshot_count_-1 that get_interpolated_state scans.
Scanned == {i \in ValidSlots : i < count}

\* Mutant: the newest-snapshot scan returns the first valid slot.
MostRecentSlotFirstValid ==
    CHOOSE i \in ValidSlots : \A j \in ValidSlots : i <= j

\* get_most_recent_snapshot / get_latest_snapshot_ptr: the first valid slot,
\* in index order, whose timestamp no other valid slot exceeds.
MostRecentSlot ==
    CHOOSE i \in ValidSlots :
        /\ \A j \in ValidSlots : snapshots[j].ts <= snapshots[i].ts
        /\ \A j \in ValidSlots : j < i => snapshots[j].ts < snapshots[i].ts

\* Mutant: the older-snapshot search keeps the first match, not the latest.
OlderSetFirstFound(rt) ==
    {i \in Scanned : snapshots[i].ts <= rt
        /\ \A j \in Scanned : snapshots[j].ts <= rt => i <= j}

\* The bracketing loop of get_interpolated_state over indices
\* 0..snapshot_count_-1: the latest snapshot at or before the render time
\* (first such in index order on ties) and the earliest one after it.
OlderSet(rt) ==
    {i \in Scanned : snapshots[i].ts <= rt
        /\ \A j \in Scanned : snapshots[j].ts <= rt =>
               /\ snapshots[j].ts <= snapshots[i].ts
               /\ (j < i => snapshots[j].ts < snapshots[i].ts)}
\* Mutant: a snapshot stamped exactly at the render time counts as newer.
NewerSetAtOrAfter(rt) ==
    {i \in Scanned : snapshots[i].ts >= rt
        /\ \A j \in Scanned : snapshots[j].ts >= rt =>
               /\ snapshots[j].ts >= snapshots[i].ts
               /\ (j < i => snapshots[j].ts > snapshots[i].ts)}

NewerSet(rt) ==
    {i \in Scanned : snapshots[i].ts > rt
        /\ \A j \in Scanned : snapshots[j].ts > rt =>
               /\ snapshots[j].ts >= snapshots[i].ts
               /\ (j < i => snapshots[j].ts > snapshots[i].ts)}

\* get_extrapolated_position: the newest snapshot as-is while it is at most
\* 100 ms old, dead-reckoned by (age - 100 ms) afterwards.
ExtrapolatedPosition ==
    IF ValidSlots = {} THEN NoOut
    ELSE LET s == snapshots[MostRecentSlot]
             age == Ms(now - s.ts)
         IN  IF age <= ExtrapolationThreshold THEN AsIs(s.id)
             ELSE Extrap(s.id, age - ExtrapolationThreshold)

-----------------------------------------------------------------------------
(* Operations.                                                             *)

\* Mutant: snapshot_count_ is not capped at the buffer size.
AddSnapshotUncapped ==
    /\ nextId < MaxSamples
    /\ snapshots' = [snapshots EXCEPT ![writeIndex] =
                        [valid |-> TRUE, ts |-> now, id |-> nextId + 1]]
    /\ writeIndex' = (writeIndex + 1) % BufferSize
    /\ count' = count + 1
    /\ nextId' = nextId + 1
    /\ UNCHANGED <<inExtrap, blendActive, blendStart, blendFrom, anchor,
                   lastReturned, now, resetAt, out, outPath, shown, resumedAt,
                   finished>>

\* add_snapshot: overwrite the slot at the write cursor, advance it modulo
\* the buffer size, and count up to the buffer size.
AddSnapshot ==
    /\ nextId < MaxSamples
    /\ snapshots' = [snapshots EXCEPT ![writeIndex] =
                        [valid |-> TRUE, ts |-> now, id |-> nextId + 1]]
    /\ writeIndex' = (writeIndex + 1) % BufferSize
    /\ count' = IF count < BufferSize THEN count + 1 ELSE count
    /\ nextId' = nextId + 1
    /\ UNCHANGED ghosts
    /\ UNCHANGED <<inExtrap, blendActive, blendStart, blendFrom, anchor,
                   lastReturned, now, resetAt, out, outPath>>

\* Mutant: reset forgets to rewind snapshot_count_.
ResetKeepCount ==
    /\ snapshots' = [i \in Slots |-> [snapshots[i] EXCEPT !.valid = FALSE]]
    /\ writeIndex' = 0
    /\ resetAt' = nextId
    /\ UNCHANGED <<count, inExtrap, blendActive, blendStart, blendFrom, anchor,
                   lastReturned, now, nextId, out, outPath, shown, resumedAt,
                   finished>>

\* reset: invalidate every slot and rewind the cursor and the count.
Reset ==
    /\ snapshots' = [i \in Slots |-> [snapshots[i] EXCEPT !.valid = FALSE]]
    /\ writeIndex' = 0
    /\ count' = 0
    /\ resetAt' = nextId
    /\ UNCHANGED ghosts
    /\ UNCHANGED <<inExtrap, blendActive, blendStart, blendFrom, anchor,
                   lastReturned, now, nextId, out, outPath>>

\* handle_extrapolation: when get_extrapolated_position has a value, enter
\* extrapolation, cancel any blend and remember the value as the anchor.
HandleExtrapolation(path) ==
    LET x == ExtrapolatedPosition IN
    /\ IF x # NoOut
         THEN /\ inExtrap' = TRUE
              /\ blendActive' = FALSE
              /\ anchor' = x
              /\ lastReturned' = x
         ELSE UNCHANGED <<inExtrap, blendActive, anchor, lastReturned>>
    /\ out' = x
    /\ outPath' = path
    /\ UNCHANGED <<blendStart, blendFrom>>

\* Mutant: the blend ends only once more than 500 ms have elapsed.
ApplyBlendIfNeededLate(target) ==
    LET starting == inExtrap /\ anchor # NoOut
        active   == starting \/ blendActive
        start    == IF starting THEN now ELSE blendStart
        elapsed  == Ms(now - start)
    IN
    /\ inExtrap' = IF starting THEN FALSE ELSE inExtrap
    /\ blendStart' = start
    /\ blendFrom' = IF starting THEN anchor ELSE blendFrom
    /\ blendActive' = (active /\ elapsed <= BlendDuration)
    /\ anchor' = IF active /\ elapsed > BlendDuration THEN NoOut ELSE anchor
    /\ lastReturned' =
         IF active THEN Blend(blendFrom', target, IF elapsed < BlendDuration
                                                THEN elapsed ELSE BlendDuration)
         ELSE target
    /\ out' = lastReturned'
    /\ outPath' = "interp"

\* apply_blend_if_needed after a successful interpolation to `target`:
\* start the blend from the anchor when leaving extrapolation, then return
\* the target blended by min(elapsed / 500 ms, 1), ending the blend (and
\* dropping the anchor) once 500 ms have elapsed.
ApplyBlendIfNeeded(target) ==
    LET starting == inExtrap /\ anchor # NoOut
        active   == starting \/ blendActive
        start    == IF starting THEN now ELSE blendStart
        from     == IF starting THEN anchor ELSE blendFrom
        elapsed  == Ms(now - start)
        frac     == IF elapsed < BlendDuration THEN elapsed ELSE BlendDuration
        result   == IF active THEN Blend(from, target, frac) ELSE target
    IN
    /\ inExtrap' = IF starting THEN FALSE ELSE inExtrap
    /\ blendStart' = start
    /\ blendFrom' = from
    /\ blendActive' = (active /\ elapsed < BlendDuration)
    /\ anchor' = IF active /\ elapsed >= BlendDuration THEN NoOut ELSE anchor
    /\ lastReturned' = result
    /\ out' = result
    /\ outPath' = "interp"

\* Ghost bookkeeping of the spec's recovery window (spec 4.1), kept apart
\* from the code's own blend state: a non-empty extrapolated result opens
\* a window, the first interpolated result after it fixes its start, and
\* an interpolated result 500 ms or more after the start closes it.
RecordRecovery ==
    CASE outPath' \in ExtrapPaths /\ out' # NoOut ->
              /\ shown' = out' /\ resumedAt' = -1 /\ finished' = FALSE
      [] outPath' = "interp" /\ shown # NoOut ->
              LET start == IF resumedAt = -1 THEN now ELSE resumedAt IN
              /\ resumedAt' = start
              /\ finished' = (finished \/ Ms(now - start) >= BlendDuration)
              /\ UNCHANGED shown
      [] OTHER -> UNCHANGED ghosts

\* get_interpolated_state, the whole call.
GetInterpolatedState ==
    LET rt == now - InterpolationDelay IN
    /\ IF count < 2 THEN HandleExtrapolation("lone")
       ELSE IF OlderSet(rt) = {} \/ NewerSet(rt) = {}
         THEN HandleExtrapolation("extrap")
         ELSE LET older == snapshots[CHOOSE i \in OlderSet(rt) : TRUE]
                  newer == snapshots[CHOOSE i \in NewerSet(rt) : TRUE]
                  timeDiff == Ms(newer.ts - older.ts)
                  elapsed  == Ms(rt - older.ts)
                  clamped  == IF elapsed < timeDiff THEN elapsed ELSE timeDiff
              IN  IF timeDiff = 0
                    THEN \* return older->state, before any blending
                         /\ out' = AsIs(older.id)
                         /\ outPath' = "zero"
                         /\ UNCHANGED <<inExtrap, blendActive, blendStart,
                                        blendFrom, anchor, lastReturned>>
                    ELSE ApplyBlendIfNeeded(Lerp(older.id, newer.id,
                                                 clamped, timeDiff))
    /\ RecordRecovery
    /\ UNCHANGED <<snapshots, writeIndex, count, now, nextId, resetAt>>

\* steady_clock advances to the next 50 ms frame boundary, or by half a
\* millisecond inside one of the first FineFrames frames (at most
\* FineSteps times per frame).
Advance(t) ==
    /\ t <= MaxTime
    /\ now' = t
    /\ UNCHANGED ghosts
    /\ UNCHANGED <<snapshots, writeIndex, count, inExtrap, blendActive,
                   blendStart, blendFrom, anchor, lastReturned, nextId,
                   resetAt, out, outPath>>

Tick == Advance((now \div Period + 1) * Period)

FineStep ==
    /\ now % Period < FineSteps
    /\ now \div Period < FineFrames
    /\ Advance(now + 1)

Init ==
    /\ snapshots = [i \in Slots |-> EmptySlot]
    /\ writeIndex = 0
    /\ count = 0
    /\ inExtrap = FALSE
    /\ blendActive = FALSE
    /\ blendStart = 0
    /\ blendFrom = NoOut
    /\ anchor = NoOut
    /\ lastReturned = NoOut
    /\ now = 0
    /\ nextId = 0
    /\ resetAt = 0
    /\ out = NoOut
    /\ outPath = "extrap"
    /\ shown = NoOut
    /\ resumedAt = -1
    /\ finished = FALSE

Next ==
    \/ AddSnapshot
    \/ Reset
    \/ GetInterpolatedState
    \/ Tick
    \/ FineStep

Spec == Init /\ [][Next]_vars

-----------------------------------------------------------------------------
(* Properties.                                                             *)

\* A step of get_interpolated_state: the only step that leaves the clock,
\* the buffer and the reset mark as they are and still changes the state.
GetStep ==
    /\ now' = now /\ nextId' = nextId /\ resetAt' = resetAt
    /\ snapshots' = snapshots /\ writeIndex' = writeIndex
    /\ vars' # vars

Ids == 1..MaxSamples

\* A state computed straight from one snapshot, or nothing.
IsDirect(o) ==
    \/ o = NoOut
    \/ o.kind = "asis" /\ o.id \in Ids
    \/ o.kind = "extrap" /\ o.id \in Ids /\ o.dt \in 1..MaxTime

IsLerp(o) ==
    o.kind = "lerp" /\ {o.a, o.b} \subseteq Ids /\ {o.e, o.d} \subseteq 0..MaxTime

IsBlend(o) ==
    o.kind = "blend" /\ IsDirect(o.from) /\ IsLerp(o.to)
      /\ o.e \in 0..BlendDuration

TypeOK ==
    /\ snapshots \in [Slots -> [valid : BOOLEAN, ts : 0..MaxTime,
                                id : 0..MaxSamples]]
    /\ writeIndex \in Slots
    /\ count \in 0..BufferSize
    /\ inExtrap \in BOOLEAN /\ blendActive \in BOOLEAN
    /\ blendStart \in 0..MaxTime
    /\ IsDirect(blendFrom) /\ IsDirect(anchor)
    /\ IsDirect(lastReturned) \/ IsLerp(lastReturned) \/ IsBlend(lastReturned)
    /\ IsDirect(out) \/ IsLerp(out) \/ IsBlend(out)
    /\ now \in 0..MaxTime
    /\ nextId \in 0..MaxSamples /\ resetAt \in 0..nextId
    /\ outPath \in ExtrapPaths \cup {"interp", "zero"}
    /\ IsDirect(shown) /\ resumedAt \in -1..MaxTime /\ finished \in BOOLEAN

TsOf(id) == snapshots[CHOOSE i \in ValidSlots : snapshots[i].id = id].ts
BufferedTs == {snapshots[i].ts : i \in ValidSlots}

\* add_snapshot overwrites the oldest slot (spec 4.1): the valid slots hold
\* exactly the last snapshot_count_ snapshots added since the last reset,
\* and snapshot_count_ is the number added since then, capped at three.
RingHoldsLatest ==
    /\ {snapshots[i].id : i \in ValidSlots} = (nextId - count + 1)..nextId
    /\ Cardinality(ValidSlots) = count
    /\ count = IF nextId - resetAt < BufferSize THEN nextId - resetAt
               ELSE BufferSize

\* An interpolated state lerps between the snapshot immediately before the
\* render time (now - 100 ms) and the one immediately after it, by the
\* elapsed fraction (spec 4.1), whether or not a blend is wrapped around it.
InterpolationBrackets ==
    [][GetStep /\ outPath' = "interp" =>
        LET l  == IF out'.kind = "blend" THEN out'.to ELSE out'
            rt == now - InterpolationDelay
        IN  /\ TsOf(l.a) = CHOOSE t \in BufferedTs :
                             t <= rt /\ \A u \in BufferedTs : u <= rt => u <= t
            /\ TsOf(l.b) = CHOOSE t \in BufferedTs :
                             t > rt /\ \A u \in BufferedTs : u > rt => u >= t
            /\ l.d = Ms(TsOf(l.b) - TsOf(l.a))
            /\ l.e = Ms(rt - TsOf(l.a))
      ]_vars

\* Dead reckoning starts from the most recent snapshot: returned unchanged
\* while it is at most 100 ms old, projected by its age beyond 100 ms after
\* that (spec 4.1b).
ExtrapolationFromNewest ==
    [][GetStep /\ outPath' \in ExtrapPaths /\ out' # NoOut =>
        LET newest == CHOOSE t \in BufferedTs : \A u \in BufferedTs : u <= t
            age    == Ms(now - newest)
        IN  /\ TsOf(out'.id) = newest
            /\ IF age <= ExtrapolationThreshold THEN out'.kind = "asis"
               ELSE out' = Extrap(out'.id, age - ExtrapolationThreshold)
      ]_vars

\* The 500 ms recovery blend (spec 4.1): after an extrapolated state has
\* been shown, interpolated results are blends that start from exactly that
\* state, with a weight equal to the time since interpolation resumed
\* (capped at 500 ms), until the first result 500 ms or more after
\* resumption; later ones are the plain interpolation.
RecoveryBlendWindow ==
    [][GetStep /\ outPath' = "interp" =>
        IF shown # NoOut /\ ~finished
          THEN /\ out'.kind = "blend"
               /\ out'.from = shown
               /\ out'.e = IF Ms(now - resumedAt') < BlendDuration
                            THEN Ms(now - resumedAt') ELSE BlendDuration
          ELSE out'.kind = "lerp"
      ]_vars

RefIds(o) ==
    CASE o.kind \in {"asis", "extrap"} -> {o.id}
      [] o.kind = "lerp" -> {o.a, o.b}
      [] OTHER -> {}

OutIds(o) ==
    IF o.kind = "blend" THEN RefIds(o.from) \cup RefIds(o.to) ELSE RefIds(o)

\* After reset() (disconnect or teleport), no returned state is computed
\* from a snapshot taken before the reset.
NoPreResetData ==
    [][GetStep => \A k \in OutIds(out') : k > resetAt]_vars

\* Orientation interpolation takes the shortest way round (spec 4.1 and its
\* 359 -> 1 example): for start and end angles on both sides of the wrap
\* and beyond one turn, lerp_angle's normalised difference is at most 180
\* degrees either way and the path at t = 1 still ends at b modulo 360, and
\* 359 -> 1 at t = 0.5 gives 360, i.e. 0.
Angles == {-540, -181, -180, -179, -1, 0, 1, 179, 180, 181, 359, 360, 539, 721}

AngleWrapOK ==
    /\ \A a, b \in Angles :
          LET d == AngleDelta(a, b) IN
          /\ -180 <= d /\ d <= 180
          /\ (LerpAngleScaled(a, b, 1, 1) - b) % 360 = 0
    /\ LerpAngleScaled(359, 1, 1, 2) = 2 * 360

\* Every state get_interpolated_state returns lerps its orientation that way.
AngleWrapShortest == outPath = "interp" => AngleWrapOK

\* What the first player_interpolator of the file would have returned for
\* the same call: the current class's result without its recovery blend
\* or its dead-reckoning offset, and nothing for a lone snapshot.
LegacyOut ==
    CASE outPath = "lone"  -> [kind |-> "none"]
      [] out.kind = "blend" -> out.to
      [] out.kind = "extrap" -> AsIs(out.id)
      [] OTHER -> out

Legacy == INSTANCE LegacyInterpolator WITH out <- LegacyOut

\* The current player_interpolator implements the first one of the file
\* (lines 1-243): the same ring buffer under add_snapshot and reset, and
\* every state it returns is the older class's result for that call (the
\* same bracketing snapshots at the same fraction, the newest snapshot
\* when the render time is not bracketed), apart from the blend and the
\* dead reckoning wrapped around it and a lone snapshot.
LegacyRefinement == Legacy!Spec

=============================================================================

------------------------- MODULE LegacyInterpolator -------------------------
(***************************************************************************)
(* The first player_interpolator of src/src/common/network/interpolator.hpp *)
(* (lines 1-243, kept in the file ahead of the current class): the same    *)
(* 3-slot ring buffer and 100 ms render delay, but no dead reckoning and   *)
(* no recovery blend.  Fewer than two snapshots give nullopt; an           *)
(* unbracketed render time gives the most recent snapshot as it is.       *)
(*                                                                         *)
(* It is the abstract specification of SnapshotInterpolator: the current  *)
(* class keeps this buffer and this interpolation, and only adds what it  *)
(* returns when this one returns the newest snapshot or nothing.  Returned *)
(* states are provenance records, as in SnapshotInterpolator; the clock is *)
(* steady_clock in half-milliseconds.                                      *)
(***************************************************************************)
EXTENDS Integers

CONSTANTS MaxSamples, MaxTime

Ring == 0..2                    \* SNAPSHOT_BUFFER_SIZE = 3
RenderDelay == 200              \* INTERPOLATION_DELAY_MS = 100, in half-ms

\* duration_cast<milliseconds> of a half-ms difference.
Millis(d) == d \div 2

None == [kind |-> "none"]

VARIABLES snapshots, writeIndex, count, now, nextId, out

vars == <<snapshots, writeIndex, count, now, nextId, out>>

Valid == {i \in Ring : snapshots[i].valid}

\* get_most_recent_snapshot: over all slots, the first valid one whose
\* timestamp no later valid slot strictly exceeds.
MostRecent ==
    CHOOSE i \in Valid : \A j \in Valid :
        snapshots[j].ts <= snapshots[i].ts
        /\ (j < i => snapshots[j].ts < snapshots[i].ts)

\* The bracketing loop over indices 0..snapshot_count_-1: `older` is
\* replaced only by a strictly later timestamp at or before the render
\* time, `newer` only by a strictly earlier one after it.
Bracket(rt, before) ==
    LET cand == {i \in Valid : i < count /\ (snapshots[i].ts <= rt) = before}
        better(j, i) == IF before THEN snapshots[j].ts > snapshots[i].ts
                        ELSE snapshots[j].ts < snapshots[i].ts
    IN  {i \in cand : \A j \in cand : ~better(j, i) /\ (j < i => better(i, j))}

\* get_interpolated_state, as a provenance record.
Interpolated ==
    LET rt    == now - RenderDelay
        older == Bracket(rt, TRUE)
        newer == Bracket(rt, FALSE)
    IN
    IF count < 2 THEN None
    ELSE IF older = {} \/ newer = {}
      THEN IF Valid = {} THEN None
           ELSE [kind |-> "asis", id |-> snapshots[MostRecent].id]
    ELSE LET o    == snapshots[CHOOSE i \in older : TRUE]
             n    == snapshots[CHOOSE i \in newer : TRUE]
             diff == Millis(n.ts - o.ts)
             el   == Millis(rt - o.ts)
         IN  IF diff = 0 THEN [kind |-> "asis", id |-> o.id]
             ELSE [kind |-> "lerp", a |-> o.id, b |-> n.id,
                   e |-> IF el < diff THEN el ELSE diff, d |-> diff]

\* add_snapshot.
Add ==
    /\ nextId < MaxSamples
    /\ snapshots' = [snapshots EXCEPT ![writeIndex] =
                        [valid |-> TRUE, ts |-> now, id |-> nextId + 1]]
    /\ writeIndex' = (writeIndex + 1) % 3
    /\ count' = IF count < 3 THEN count + 1 ELSE count
    /\ nextId' = nextId + 1
    /\ UNCHANGED <<now, out>>

\* reset.
Clear ==
    /\ snapshots' = [i \in Ring |-> [snapshots[i] EXCEPT !.valid = FALSE]]
    /\ writeIndex' = 0
    /\ count' = 0
    /\ UNCHANGED <<now, nextId, out>>

Get ==
    /\ out' = Interpolated
    /\ UNCHANGED <<snapshots, writeIndex, count, now, nextId>>

\* steady_clock moves forward.
Clock ==
    /\ \E t \in (now + 1)..MaxTime : now' = t
    /\ UNCHANGED <<snapshots, writeIndex, count, nextId, out>>

Init ==
    /\ snapshots = [i \in Ring |-> [valid |-> FALSE, ts |-> 0, id |-> 0]]
    /\ writeIndex = 0
    /\ count = 0
    /\ now = 0
    /\ nextId = 0
    /\ out = None

Next == Add \/ Clear \/ Get \/ Clock

Spec == Init /\ [][Next]_vars

=============================================================================

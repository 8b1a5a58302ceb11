------------------------ MODULE MCSnapshotInterpolator ------------------------
(* Model-checking instance of SnapshotInterpolator: enough snapshots to    *)
(* wrap the 3-slot ring and reset, a clock that spans the 500 ms blend and  *)
(* two sub-millisecond steps per 50 ms period.                             *)
EXTENDS SnapshotInterpolator
====

--------------------------- MODULE MCHandshakeGate ---------------------------
(***************************************************************************)
(* HandshakeGate for TLC, and the refinement mapping to Gate: the session *)
(* is established when g_handshake_complete is set, and the records the   *)
(* abstract gate takes and accepts are the master-server packets that     *)
(* reached receive_packet_safe and the ones it let through.               *)
(***************************************************************************)
EXTENDS HandshakeGate

\* An id longer than the scaled-down field (AchLen = 3, for the code's
\* 64): copy_string cuts it to its first two bytes.
MCAchievements == {<<1, 2, 3, 4>>}

AbstractGate == INSTANCE Gate WITH
    Ids <- Ids, Sids <- Sids,
    established <- complete, taken <- taken, accepted <- accepted

\* The client's gate implements spec 4.4: no gameplay packet is let
\* through before a handshake with a non-zero id from the master server,
\* every one is after, and a zero id is rejected without harm.
GateRefinement == AbstractGate!GateSpec

====

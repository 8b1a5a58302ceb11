-------------------------------- MODULE Gate --------------------------------
(***************************************************************************)
(* The handshake gate as spec section 4.4 describes it, with no code      *)
(* detail: a session is established by the first handshake record with a  *)
(* non-zero session id and stays established; every other inbound record  *)
(* is dropped while the session is not established and accepted once it   *)
(* is.  Records are taken one handshake at a time, or a batch of gameplay *)
(* records at once (a queue drained in one critical section).             *)
(*                                                                         *)
(* HandshakeGate refines this module; MCHandshakeGate states the mapping.  *)
(***************************************************************************)
EXTENDS Naturals

CONSTANTS
    Ids,          \* identities of inbound records
    Sids          \* session ids a handshake record may carry (0 included)

VARIABLES
    established,  \* Session.established
    taken,        \* ids of the inbound records the gate has taken
    accepted      \* ids of the gameplay records it let through

gateVars == <<established, taken, accepted>>

GateTypeOK ==
    /\ established \in BOOLEAN
    /\ taken \subseteq Ids
    /\ accepted \subseteq taken

GateInit ==
    /\ established = FALSE
    /\ taken = {}
    /\ accepted = {}

\* A handshake record completes the session iff its id is non-zero; a
\* zero id is rejected and the session keeps its state.
TakeHandshake(id, sid) ==
    /\ id \notin taken
    /\ taken' = taken \cup {id}
    /\ established' = (established \/ sid # 0)
    /\ UNCHANGED accepted

\* Gameplay records: dropped before establishment, accepted after.
TakeGameplay(I) ==
    /\ I # {}
    /\ I \cap taken = {}
    /\ taken' = taken \cup I
    /\ accepted' = IF established THEN accepted \cup I ELSE accepted
    /\ UNCHANGED established

GateNext ==
    \/ \E id \in Ids, sid \in Sids : TakeHandshake(id, sid)
    \/ \E I \in SUBSET Ids : TakeGameplay(I)

GateSpec == GateInit /\ [][GateNext]_gateVars

=============================================================================

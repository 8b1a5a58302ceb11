---------------------------- MODULE MCSessionRelay ----------------------------
(* Two clients holding the keys of guids 1 and 2.  In MCMaxSends c1 may   *)
(* send three packets, enough to authenticate (after a lost authRequest,  *)
(* with a retry) and then act, and c2 one: an unknown address that sends  *)
(* a state, kill or authResponse and falls silent.  MCMaxSendsParty lets  *)
(* both authenticate, for the relay between two party members.           *)
EXTENDS SessionRelay, TLC

CONSTANTS c1, c2

MCClients == {c1, c2}
MCKeyOf == (c1 :> 1) @@ (c2 :> 1)
MCMaxSends == (c1 :> 3) @@ (c2 :> 1)
MCMaxSendsParty == (c1 :> 3) @@ (c2 :> 2)
====

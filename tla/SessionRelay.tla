----------------------------- MODULE SessionRelay -----------------------------
(***************************************************************************)
(* The co-op session relay: the server of src/src/server/server.cpp and   *)
(* what the clients send it (the bridge senders of src/unnamed/part_011    *)
(* and part_009).  The client-side gate is HandshakeGate.                  *)
(*                                                                         *)
(* Every client talks only to the master server over UDP.  The server     *)
(* keeps a client_map keyed by source address: the guid the address last  *)
(* claimed in a "state" packet, the authentication nonce it was sent, the *)
(* public key it proved, and the time of its last packet.  It relays      *)
(* "fact" packets to the other authenticated clients and expires silent   *)
(* entries after 20 s in run_frame.                                       *)
(*                                                                         *)
(* Packets are whole records: the game::PROTOCOL word is always the one   *)
(* these senders write, so the protocol checks never fail and are left    *)
(* out.  The UDP network is a set of packets in flight, read in any order *)
(* and, when Lossy, lost.  The client code that answers "authRequest"  *)
(* and sends "state"/"kill" is not in the repository: those are inputs    *)
(* a client may send at any time, limited only by the keys it holds.      *)
(***************************************************************************)
EXTENDS Integers, FiniteSets

CONSTANTS
    Clients,      \* client addresses
    Guids,        \* player guids; each client holds the key of one
    KeyOf,        \* KeyOf[c]: the guid whose private key client c holds
    FactBytes,    \* first bytes of the fact names the scripts use
    SessionIds,   \* session ids a script may pass to W3mInitiateHandshake
    Expiry,       \* the 20 s client timeout, in clock ticks
    MaxNonces,    \* bound on get_challenge calls
    MaxSends,     \* MaxSends[c]: bound on the packets client c sends
    GatedSent,    \* the gated kinds the scripts broadcast in this model
    RelaySent,    \* the kinds among "attack", "cutscene" clients send
    Lossy         \* whether UDP may drop packets

ASSUME /\ KeyOf \in [Clients -> Guids]
       /\ SessionIds \subseteq Nat
       /\ Expiry \in Nat /\ MaxNonces \in Nat /\ MaxSends \in [Clients -> Nat]
       /\ Lossy \in BOOLEAN

\* The packet_type each relay handler requires after the protocol word.
TypeOf == [fact |-> 1, attack |-> 2, cutscene |-> 3]
RelayKinds == DOMAIN TypeOf
NoGuid == 0             \* client.guid before any state packet
NoNonce == 0            \* an empty authentication_nonce
Stale == Expiry + 1     \* last_packet older than 20 s (or default-built)

\* The kinds the part_011 senders address to the master server.
GatedKinds == {"heartbeat", "quest_lock", "achievement"}
ServerKinds == {"state", "authResponse", "kill"} \cup RelayKinds

\* The server's view of one address; `key` is the guid of the proven
\* public key, NoGuid while unauthenticated.
Entry == [present : BOOLEAN, guid : Guids \cup {NoGuid},
          nonce : 0..MaxNonces, key : Guids \cup {NoGuid}, age : 0..Stale]

\* clients[source] on an absent address: a default-constructed client.
DefaultEntry ==
    [present |-> TRUE, guid |-> NoGuid, nonce |-> NoNonce, key |-> NoGuid,
     age |-> Stale]
Absent == [DefaultEntry EXCEPT !.present = FALSE, !.age = 0]

\* One packet; fields a kind does not use keep their defaults.
Pkt(kind, src, dst) ==
    [kind |-> kind, src |-> src, dst |-> dst, guid |-> NoGuid,
     nonce |-> NoNonce, key |-> NoGuid, signer |-> NoGuid, byte |-> 0, sid |-> 0,
     guids |-> <<>>]

Server == "server"

VARIABLES
    srv,          \* client_map: Clients -> Entry
    nonces,       \* get_challenge calls so far
    net,          \* UDP packets in flight
    heard,        \* nonces each client has received in "authRequest"
    sends         \* packets each client has sent

vars == <<srv, nonces, net, heard, sends>>

\* client::is_authenticated (server.hpp is not in the repository): the
\* entry holds a verified public key.
IsAuthenticated(e) == e.present /\ e.key # NoGuid

Authenticated == {a \in Clients : IsAuthenticated(srv[a])}

\* clients[source]: the entry, default-constructed when absent.
Lookup(a) == IF srv[a].present THEN srv[a] ELSE DefaultEntry

\* A client-side send: counted against MaxSends.
Send(c, p) ==
    /\ sends[c] < MaxSends[c]
    /\ net' = net \cup {p}
    /\ sends' = [sends EXCEPT ![c] = @ + 1]

-----------------------------------------------------------------------------
(* Server handlers (server.cpp).  Each consumes one packet addressed to    *)
(* the server.                                                             *)

\* send_authentication_request: the nonce is created only when empty.
NonceFor(e) == IF e.nonce = NoNonce THEN nonces + 1 ELSE e.nonce

AuthRequest(dst, n) == [Pkt("authRequest", Server, dst) EXCEPT !.nonce = n]

\* send_killed_command.
Killed(victim, killer) == [Pkt("killed", Server, victim) EXCEPT !.guid = killer.guid]

\* Mutant: a new nonce on every state packet, not only when it is empty.
HandleStateRegenNonce(p) ==
    LET e == Lookup(p.src)
        n == nonces + 1
    IN
    /\ p.kind = "state"
    /\ e.key = NoGuid => nonces < MaxNonces
    /\ srv' = [srv EXCEPT ![p.src] =
                 [e EXCEPT !.present = TRUE, !.guid = p.guid, !.nonce = n,
                           !.age = 0]]
    /\ nonces' = n
    /\ net' = (net \ {p}) \cup
              (IF e.key = NoGuid
                 THEN {[Pkt("authRequest", Server, p.src) EXCEPT !.nonce = n]}
                 ELSE {})

\* handle_player_state: record the claimed guid and refresh last_packet;
\* while unauthenticated, create the nonce once and send an authRequest.
HandleState(p) ==
    LET e     == Lookup(p.src)
        fresh == e.key = NoGuid /\ e.nonce = NoNonce
        n     == IF e.key = NoGuid THEN NonceFor(e) ELSE e.nonce
    IN
    /\ p.kind = "state"
    /\ fresh => nonces < MaxNonces
    /\ srv' = [srv EXCEPT ![p.src] =
                 [e EXCEPT !.present = TRUE, !.guid = p.guid, !.nonce = n,
                           !.age = 0]]
    /\ nonces' = IF fresh THEN nonces + 1 ELSE nonces
    /\ net' = (net \ {p}) \cup
              (IF e.key = NoGuid THEN {AuthRequest(p.src, n)} ELSE {})

\* Mutant: the signature is not verified.
HandleAuthResponseNoVerify(p) ==
    LET e  == Lookup(p.src)
        ok == e.nonce # NoNonce /\ p.key = e.guid
    IN
    /\ p.kind = "authResponse"
    /\ srv' = [srv EXCEPT ![p.src] =
                 IF ok THEN [e EXCEPT !.key = p.key, !.age = 0] ELSE e]
    /\ net' = net \ {p}
    /\ UNCHANGED nonces

\* handle_authentication_response: clients[source] (inserting a default
\* entry), then the nonce, key-hash and signature checks in that order.
HandleAuthResponse(p) ==
    LET e  == Lookup(p.src)
        ok == /\ e.nonce # NoNonce
              /\ p.key = e.guid
              /\ p.signer = p.key /\ p.nonce = e.nonce
    IN
    /\ p.kind = "authResponse"
    /\ srv' = [srv EXCEPT ![p.src] =
                 IF ok THEN [e EXCEPT !.key = p.key, !.age = 0] ELSE e]
    /\ net' = net \ {p}
    /\ UNCHANGED nonces

\* handle_player_kill: clients[source] for the killer; an authenticated
\* killer has "killed" sent to one authenticated client with the guid.
HandleKill(p) ==
    LET killer  == Lookup(p.src)
        victims == {a \in Authenticated : srv[a].guid = p.guid}
    IN
    /\ p.kind = "kill"
    /\ srv' = [srv EXCEPT ![p.src] = killer]
    /\ IF IsAuthenticated(killer) /\ victims # {}
         THEN \E v \in victims :
                net' = (net \ {p}) \cup {Killed(v, killer)}
         ELSE net' = net \ {p}
    /\ UNCHANGED nonces

\* handle_cutscene_broadcast relays to every authenticated client, the
\* sender included; the fact and attack relays skip the sender.
RelayTargets(k, src) ==
    IF k = "cutscene" THEN Authenticated ELSE Authenticated \ {src}

\* handle_fact_broadcast, handle_attack_broadcast, handle_cutscene_broadcast:
\* the byte after the protocol word must read as the handler's packet_type;
\* then the data is sent as it is to the relay targets.  The source is not
\* looked up: any address, present or not, authenticated or not, is relayed.
HandleBroadcast(p) ==
    /\ p.kind \in RelayKinds
    /\ net' = (net \ {p}) \cup
              (IF p.byte = TypeOf[p.kind]
                 THEN {[Pkt(p.kind, Server, a) EXCEPT !.byte = p.byte] :
                         a \in RelayTargets(p.kind, p.src)}
                 ELSE {})
    /\ UNCHANGED <<srv, nonces>>

\* A kind with no server::on registration is ignored by the manager.
ServerIgnore(p) ==
    /\ p.kind \notin ServerKinds
    /\ net' = net \ {p}
    /\ UNCHANGED <<srv, nonces>>

ServerReceive ==
    \E p \in net :
        /\ p.dst = Server
        /\ \/ HandleState(p) \/ HandleAuthResponse(p) \/ HandleKill(p)
           \/ HandleBroadcast(p) \/ ServerIgnore(p)
        /\ UNCHANGED <<heard, sends>>

\* send_state over client_map s: one "states" packet, listing the claimed
\* guid of every authenticated entry (one element per entry, so two
\* entries claiming one guid are listed twice), to every authenticated
\* entry.  Player names, states and state ids are payload and left out.
ServerSendState(s) ==
    LET auth == {a \in Clients : IsAuthenticated(s[a])}
    IN  {[Pkt("states", Server, a) EXCEPT !.guids = [b \in auth |-> s[b].guid]] :
           a \in auth}

\* Mutant: only authenticated entries are expired.
RunFrameAuthenticatedOnly ==
    LET s == [a \in Clients |->
                IF IsAuthenticated(srv[a]) /\ srv[a].age > Expiry THEN Absent
                ELSE srv[a]]
    IN  /\ srv' = s
        /\ net' = net \cup ServerSendState(s)
        /\ UNCHANGED <<nonces, heard, sends>>

\* run_frame: erase entries silent for more than 20 s, then send_state to
\* the entries that remain.
RunFrame ==
    LET s == [a \in Clients |->
                IF srv[a].present /\ srv[a].age > Expiry THEN Absent
                ELSE srv[a]]
    IN  /\ srv' = s
        /\ net' = net \cup ServerSendState(s)
        /\ UNCHANGED <<nonces, heard, sends>>

\* Time passes: every entry's last_packet gets older.
Tick ==
    /\ \E a \in Clients : srv[a].present /\ srv[a].age < Stale
    /\ srv' = [a \in Clients |->
                 IF srv[a].present /\ srv[a].age < Stale
                   THEN [srv[a] EXCEPT !.age = @ + 1] ELSE srv[a]]
    /\ UNCHANGED <<nonces, net, heard, sends>>

\* UDP loses a packet.
Lose ==
    /\ Lossy
    /\ \E p \in net : net' = net \ {p}
    /\ UNCHANGED <<srv, nonces, heard, sends>>

-----------------------------------------------------------------------------
(* What clients send the server, and what they take from it.              *)

\* W3mInitiateHandshake outside loopback: "handshake" to the master server.
InitiateHandshake(c, sid) ==
    Send(c, [Pkt("handshake", c, Server) EXCEPT !.sid = sid])

\* W3mBroadcastSessionState, broadcast_heartbeat, W3mBroadcastAchievement
\* outside loopback (the achievement de-duplication is HandshakeGate's).
BroadcastGated(c, k) == Send(c, Pkt(k, c, Server))

\* broadcast_quest_fact's network::send (part_009): a W3mFactPacket whose
\* first byte is the first character of the fact name.
SendFact(c, b) == Send(c, [Pkt("fact", c, Server) EXCEPT !.byte = b])

\* attack and cutscene packets: no sender is in the repository, so a client
\* may send one at any time, typed as its handler requires.
SendRelay(c, k) == Send(c, [Pkt(k, c, Server) EXCEPT !.byte = TypeOf[k]])

\* Packets of the client module that is not in the repository: a player
\* state claiming any guid, an authResponse with any public key but signed
\* with the client's own key over a nonce it was sent, a kill request.
SendState(c, g) == Send(c, [Pkt("state", c, Server) EXCEPT !.guid = g])
SendAuthResponse(c, k, n) ==
    /\ n \in heard[c]
    /\ Send(c, [Pkt("authResponse", c, Server) EXCEPT
                  !.key = k, !.signer = KeyOf[c], !.nonce = n])
SendKill(c, g) == Send(c, [Pkt("kill", c, Server) EXCEPT !.guid = g])

\* A packet reaches client c: an "authRequest" nonce is kept for the
\* answer; the gated kinds are HandshakeGate's; others have no handler.
ClientReceive(c, p) ==
    /\ p.dst = c
    /\ net' = net \ {p}
    /\ heard' = IF p.kind = "authRequest"
                  THEN [heard EXCEPT ![c] = @ \cup {p.nonce}] ELSE heard
    /\ UNCHANGED sends

ClientStep ==
    /\ \E c \in Clients :
          \/ \E sid \in SessionIds : InitiateHandshake(c, sid) /\ UNCHANGED heard
          \/ \E k \in GatedSent : BroadcastGated(c, k) /\ UNCHANGED heard
          \/ \E b \in FactBytes : SendFact(c, b) /\ UNCHANGED heard
          \/ \E k \in RelaySent : SendRelay(c, k) /\ UNCHANGED heard
          \/ \E g \in Guids : \/ SendState(c, g) /\ UNCHANGED heard
                              \/ SendKill(c, g) /\ UNCHANGED heard
          \/ \E k \in Guids, n \in 1..MaxNonces :
                SendAuthResponse(c, k, n) /\ UNCHANGED heard
          \/ \E p \in net : ClientReceive(c, p)
    /\ UNCHANGED <<srv, nonces>>

Init ==
    /\ srv = [a \in Clients |-> Absent]
    /\ nonces = 0
    /\ net = {}
    /\ heard = [c \in Clients |-> {}]
    /\ sends = [c \in Clients |-> 0]

Next == ClientStep \/ ServerReceive \/ RunFrame \/ Tick \/ Lose

\* server::run calls run_frame every 30 ms and the clock always advances.
Spec == Init /\ [][Next]_vars /\ WF_vars(RunFrame) /\ WF_vars(Tick)

-----------------------------------------------------------------------------
(* Properties.                                                             *)

Kinds == ServerKinds \cup GatedKinds \cup {"handshake", "authRequest", "killed", "states"}

TypeOK ==
    /\ srv \in [Clients -> Entry]
    /\ nonces \in 0..MaxNonces
    /\ \A p \in net : p.kind \in Kinds /\ {p.src, p.dst} \subseteq Clients \cup {Server}
    /\ heard \in [Clients -> SUBSET (1..MaxNonces)]
    /\ \A c \in Clients : sends[c] \in 0..MaxSends[c]

\* Authentication proves the key: every address the server treats as
\* authenticated holds the private key of the public key it was accepted
\* with, whatever guids, keys and replayed nonces the clients send
\* (handle_authentication_response's hash and signature checks).
AuthenticatedHoldsKey ==
    \A a \in Authenticated : srv[a].key = KeyOf[a]

\* Client c has fallen silent: it has sent its last packet.
Silent(c) == sends[c] = MaxSends[c]

\* run_frame's 20 s expiry: once a client has fallen silent, its entry,
\* including one default-built by an authResponse or kill from an unknown
\* address, is eventually erased.  A client that keeps sending keeps its
\* entry, so the premise is needed.
SilentEntriesExpire ==
    \A a \in Clients : (srv[a].present /\ Silent(a)) ~> ~srv[a].present

\* Facts reach the party (spec 2): when the server takes a fact from an
\* authenticated client, every other authenticated client is sent it.
FactRelayed ==
    [][~Lossy =>
        \A p \in net \ net' :
           p.dst = Server /\ p.kind = "fact" /\ p.src \in Authenticated =>
              \A a \in Authenticated \ {p.src} :
                 \E q \in net' : q.kind = "fact" /\ q.dst = a]_vars

====

---------------------------- MODULE ProxyServer ----------------------------
(***************************************************************************)
(* The local proxy of crates/net/src/engine.rs (serve_routed, handle_http, *)
(* connect_with_retry, connect_routed, serve_transparent_redirect) with    *)
(* the handshake of inbound.rs and the connection registry of conn.rs.     *)
(*                                                                         *)
(* A connection takes a permit and a snapshot of the engine when it is     *)
(* accepted, speaks SOCKS5 or HTTP, is routed, dials the chosen node with  *)
(* retries, falls back to the default node, is registered and relays until *)
(* a side closes, the user kills it or a timeout drops its task.  Permit   *)
(* and registry entry are guards: they go when the task ends, however it   *)
(* ends.  What Engine::route decides is a parameter of the engine (module  *)
(* Routing), what UDP ASSOCIATE does afterwards is out of scope here.      *)
(*                                                                         *)
(* Time is discrete: Tick ages the timers and waits for those that are due.*)
(***************************************************************************)
EXTENDS Integers, FiniteSets

CONSTANTS
  Conns,             \* client connections
  Kinds,             \* what they speak: "socks", "udp", "http", or "redirect"
  Nodes,             \* outbounds
  None,              \* Option::None
  Routes,            \* what Engine::route may decide, see RouteType
  MaxConns,          \* max_conns, the size of the semaphore
  HandshakeTimeout,  \* HANDSHAKE_TIMEOUT
  ConnectTimeout,    \* CONNECT_TIMEOUT
  Attempts,          \* CONNECT_ATTEMPTS
  Versions           \* bound: how many engines there are, one after the other

\* A decision: a node, or None for Block, and the fallback if there is one.
RouteType == {[node |-> n, fallback |-> f] : n, f \in Nodes \cup {None}}

ASSUME ServerAssumption ==
  /\ IsFiniteSet(Conns)
  /\ Routes \subseteq RouteType
  /\ Kinds \subseteq {"socks", "udp", "http", "redirect"}
  /\ None \notin Nodes
  /\ MaxConns \in Nat /\ HandshakeTimeout \in Nat \ {0} /\ ConnectTimeout \in Nat \ {0}
  /\ Attempts \in Nat \ {0} /\ Versions \in Nat \ {0}

VARIABLES
  kind,      \* what each client speaks
  policy,    \* what each engine decides: a node (None: Block) and a fallback
  current,   \* the engine in the ArcSwap
  open,      \* ports whose accept loop runs
  permits,   \* free permits of each listener's semaphore
  pc,        \* where each connection's task is
  eng,       \* the engine the connection took at accept
  via,       \* "main" or "fallback"
  attempt,   \* the number of the dial attempt
  timer,     \* time in the current handshake step or dial attempt
  age,       \* time since handle_http was entered
  registry,  \* conn::registry
  dialled,   \* history: the nodes dialled for a connection
  told,      \* history: the reply the client got
  noticed    \* history: connections a RouteNotice was sent for

vars == <<kind, policy, current, open, permits, pc, eng, via, attempt, timer, age,
          registry, dialled, told, noticed>>

fixed == <<kind, policy>>
server == <<current, open>>
history == <<dialled, told, noticed>>

\* The proxy port and the transparent port have a semaphore each.
Ports == {"proxy", "redirect"}
Port(c) == IF kind[c] = "redirect" THEN "redirect" ELSE "proxy"

Places == {"new", "origdst", "peek", "handshake", "head", "route", "dial", "up",
           "registered", "relay", "killing", "assoc", "closed"}

TypeOK ==
  /\ kind \in [Conns -> Kinds] /\ policy \in [1 .. Versions -> Routes]
  /\ current \in 1 .. Versions /\ open \in SUBSET Ports
  /\ permits \in [Ports -> 0 .. MaxConns]
  /\ pc \in [Conns -> Places]
  /\ eng \in [Conns -> 1 .. Versions]
  /\ via \in [Conns -> {"main", "fallback"}]
  /\ attempt \in [Conns -> 1 .. Attempts]
  /\ timer \in [Conns -> Nat]
  /\ age \in [Conns -> 0 .. HandshakeTimeout]
  /\ registry \in SUBSET Conns /\ noticed \in SUBSET Conns
  /\ dialled \in [Conns -> SUBSET Nodes]
  /\ told \in [Conns -> {"nothing", "ok", "refused", "denied", "bad"}]

Init ==
  /\ kind \in [Conns -> Kinds]
  /\ policy \in [1 .. Versions -> Routes]
  /\ current = 1 /\ open = Ports
  /\ permits = [p \in Ports |-> MaxConns]
  /\ pc = [c \in Conns |-> "new"]
  /\ eng = [c \in Conns |-> 1]
  /\ via = [c \in Conns |-> "main"]
  /\ attempt = [c \in Conns |-> 1]
  /\ timer = [c \in Conns |-> 0]
  /\ age = [c \in Conns |-> 0]
  /\ registry = {} /\ noticed = {}
  /\ dialled = [c \in Conns |-> {}]
  /\ told = [c \in Conns |-> "nothing"]

\* Defect: a task that returns before it relays keeps the permit.
EndKeepsPermit(c) ==
  /\ pc' = [pc EXCEPT ![c] = "closed"]
  /\ permits' = [permits EXCEPT ![Port(c)] =
                 IF pc[c] \in {"peek", "handshake", "dial"} THEN @ ELSE @ + 1]
  /\ registry' = registry \ {c}
  /\ timer' = [timer EXCEPT ![c] = 0] /\ age' = [age EXCEPT ![c] = 0]
  /\ UNCHANGED <<fixed, server, eng, via, attempt>>

\* Defect: a relay that is killed leaves its registry entry.
EndKeepsEntry(c) ==
  /\ pc' = [pc EXCEPT ![c] = "closed"]
  /\ permits' = [permits EXCEPT ![Port(c)] = @ + 1]
  /\ registry' = IF pc[c] = "killing" THEN registry ELSE registry \ {c}
  /\ timer' = [timer EXCEPT ![c] = 0] /\ age' = [age EXCEPT ![c] = 0]
  /\ UNCHANGED <<fixed, server, eng, via, attempt>>

\* The task ends: the permit and the ConnGuard, if there is one, are dropped.
End(c) ==
  /\ pc' = [pc EXCEPT ![c] = "closed"]
  /\ permits' = [permits EXCEPT ![Port(c)] = @ + 1]
  /\ registry' = registry \ {c}
  /\ timer' = [timer EXCEPT ![c] = 0] /\ age' = [age EXCEPT ![c] = 0]
  /\ UNCHANGED <<fixed, server, eng, via, attempt>>

\* The task goes on to another step.
Go(c, place) ==
  /\ pc' = [pc EXCEPT ![c] = place]
  /\ timer' = [timer EXCEPT ![c] = 0]
  /\ UNCHANGED <<fixed, server, permits, registry, age>>

-----------------------------------------------------------------------------
(* The accept loops. *)

\* Accepted connections of the proxy port get the current engine;
\* serve_transparent_redirect has one engine for all of its life.
EngineFor(c) == IF kind[c] = "redirect" THEN 1 ELSE current

\* Defect: the limit is not looked at.
AcceptUnlimited(c) ==
  /\ pc[c] = "new" /\ Port(c) \in open
  /\ permits' = [permits EXCEPT ![Port(c)] = @ - 1]
  /\ eng' = [eng EXCEPT ![c] = EngineFor(c)]
  /\ pc' = [pc EXCEPT ![c] = IF kind[c] = "redirect" THEN "origdst" ELSE "peek"]
  /\ UNCHANGED <<fixed, server, via, attempt, timer, age, registry, history>>

\* A permit is free: the task is spawned with its engine.
Accept(c) ==
  /\ pc[c] = "new" /\ Port(c) \in open
  /\ permits[Port(c)] > 0
  /\ permits' = [permits EXCEPT ![Port(c)] = @ - 1]
  /\ eng' = [eng EXCEPT ![c] = EngineFor(c)]
  /\ pc' = [pc EXCEPT ![c] = IF kind[c] = "redirect" THEN "origdst" ELSE "peek"]
  /\ UNCHANGED <<fixed, server, via, attempt, timer, age, registry, history>>

\* The limit is reached: the connection is closed at once.
Reject(c) ==
  /\ pc[c] = "new" /\ Port(c) \in open
  /\ permits[Port(c)] = 0
  /\ pc' = [pc EXCEPT ![c] = "closed"]
  /\ UNCHANGED <<fixed, server, permits, eng, via, attempt, timer, age, registry, history>>

\* accept fails: the loop returns, the tasks it has spawned go on.
AcceptFails(p) ==
  /\ p \in open
  /\ open' = open \ {p}
  /\ UNCHANGED <<fixed, current, permits, pc, eng, via, attempt, timer, age, registry, history>>

\* serve_socks_swappable: another engine is put into the ArcSwap.
Reload ==
  /\ current < Versions
  /\ current' = current + 1
  /\ UNCHANGED <<fixed, open, permits, pc, eng, via, attempt, timer, age, registry, history>>

-----------------------------------------------------------------------------
(* Before routing. *)

\* The first byte tells SOCKS5 from HTTP.
FirstByte(c) ==
  /\ pc[c] = "peek"
  /\ Go(c, IF kind[c] = "http" THEN "head" ELSE "handshake")
  /\ UNCHANGED <<eng, via, attempt, history>>

\* socks_handshake has read the request, or read_http_head the head.
Requested(c) ==
  /\ pc[c] \in {"handshake", "head"}
  /\ Go(c, IF kind[c] = "udp" THEN "assoc" ELSE "route")
  /\ UNCHANGED <<eng, via, attempt, history>>

\* The driver knows the original destination of a redirected connection.
OriginalDst(c) ==
  /\ pc[c] = "origdst"
  /\ Go(c, "route")
  /\ UNCHANGED <<eng, via, attempt, history>>

\* The client is told r; a redirected one speaks no protocol.
Reply(c, r) == told' = [told EXCEPT ![c] = IF kind[c] = "redirect" THEN "nothing" ELSE r]

\* An absolute URI that does not parse.
BadRequest(c) ==
  /\ pc[c] = "head"
  /\ Reply(c, "bad")
  /\ End(c)
  /\ UNCHANGED <<dialled, noticed>>

\* The client goes away or breaks the protocol, or nothing is known of the
\* redirected connection.
ClientFails(c) ==
  /\ pc[c] \in {"peek", "handshake", "head", "origdst"}
  /\ End(c)
  /\ UNCHANGED history

\* Defect: only the handshake proper is under the timeout.
HandshakeExpiresLate(c) ==
  /\ pc[c] = "handshake"
  /\ timer[c] = HandshakeTimeout
  /\ End(c)
  /\ UNCHANGED history

\* peek and socks_handshake under HANDSHAKE_TIMEOUT.
HandshakeExpires(c) ==
  /\ pc[c] \in {"peek", "handshake"}
  /\ timer[c] = HandshakeTimeout
  /\ End(c)
  /\ UNCHANGED history

\* Everything handle_http does, the relay included, is under HANDSHAKE_TIMEOUT.
WholeTimed(c) == kind[c] = "http"

HttpExpires(c) ==
  /\ WholeTimed(c)
  /\ pc[c] \in {"head", "route", "dial", "up", "registered", "relay", "killing"}
  /\ age[c] = HandshakeTimeout
  /\ End(c)
  /\ UNCHANGED history

-----------------------------------------------------------------------------
(* Routing and dialling. *)

\* Defect: the rules are those of the moment, not those of the connection.
RouteOfNow(c) == policy[current]

\* What the engine of the connection decides.
RouteOf(c) == policy[eng[c]]

\* The node the current attempt goes to.
Dialling(c) == IF via[c] = "main" THEN RouteOf(c).node ELSE RouteOf(c).fallback

\* Decision::Block: a SOCKS or HTTP client is told so.
Blocked(c) ==
  /\ pc[c] = "route"
  /\ RouteOf(c).node = None
  /\ Reply(c, "denied")
  /\ End(c)
  /\ UNCHANGED <<dialled, noticed>>

\* Decision::Connect: the first attempt.
StartDial(c) ==
  /\ pc[c] = "route"
  /\ RouteOf(c).node # None
  /\ Go(c, "dial")
  /\ dialled' = [dialled EXCEPT ![c] = {RouteOf(c).node}]
  /\ UNCHANGED <<eng, via, attempt, told, noticed>>

\* connect_tcp succeeds; through the fallback the user gets a notice.
DialSucceeds(c) ==
  /\ pc[c] = "dial"
  /\ Go(c, "up")
  /\ noticed' = IF via[c] = "fallback" THEN noticed \cup {c} ELSE noticed
  /\ UNCHANGED <<eng, via, attempt, dialled, told>>

\* connect_tcp fails, or takes CONNECT_TIMEOUT: the next attempt.
Retry(c) ==
  /\ pc[c] = "dial"
  /\ attempt[c] < Attempts
  /\ attempt' = [attempt EXCEPT ![c] = @ + 1]
  /\ Go(c, "dial")
  /\ UNCHANGED <<eng, via, history>>

\* The last attempt on the rule's node failed and there is a fallback.
FallBack(c) ==
  /\ pc[c] = "dial"
  /\ attempt[c] = Attempts /\ via[c] = "main"
  /\ kind[c] # "redirect" /\ RouteOf(c).fallback # None
  /\ via' = [via EXCEPT ![c] = "fallback"]
  /\ attempt' = [attempt EXCEPT ![c] = 1]
  /\ dialled' = [dialled EXCEPT ![c] = @ \cup {RouteOf(c).fallback}]
  /\ Go(c, "dial")
  /\ UNCHANGED <<eng, told, noticed>>

\* Defect: the last attempt on the rule's node is the last of all.
GiveUpEarly(c) ==
  /\ pc[c] = "dial"
  /\ attempt[c] = Attempts
  /\ Reply(c, "refused")
  /\ End(c)
  /\ UNCHANGED <<dialled, noticed>>

\* Nothing is left to try.
GiveUp(c) ==
  /\ pc[c] = "dial"
  /\ attempt[c] = Attempts
  /\ via[c] = "fallback" \/ kind[c] = "redirect" \/ RouteOf(c).fallback = None
  /\ Reply(c, "refused")
  /\ End(c)
  /\ UNCHANGED <<dialled, noticed>>

-----------------------------------------------------------------------------
(* Relaying. *)

\* The client is told (a plain HTTP request is sent on instead), and the
\* connection is put into the registry.
Establish(c) ==
  /\ pc[c] = "up"
  /\ pc' = [pc EXCEPT ![c] = "registered"]
  /\ registry' = registry \cup {c}
  /\ Reply(c, "ok")
  /\ UNCHANGED <<fixed, server, permits, eng, via, attempt, timer, age, dialled, noticed>>

\* handle_http gives up when the status line cannot be written.
EstablishFails(c) ==
  /\ pc[c] = "up" /\ kind[c] = "http"
  /\ End(c)
  /\ UNCHANGED history

\* copy_counted creates the notified() future: from here on a kill is seen.
StartRelay(c) ==
  /\ pc[c] = "registered"
  /\ Go(c, "relay")
  /\ UNCHANGED <<eng, via, attempt, history>>

\* copy_bidirectional ends, or relay_udp does: its client closes, or sends no
\* datagram within HANDSHAKE_IDLE (see module UdpRelay).
PeerCloses(c) ==
  /\ pc[c] \in {"relay", "assoc"}
  /\ End(c)
  /\ UNCHANGED history

\* drop_connection finds the entry and notifies whoever waits: a relay that has
\* not created its notified() future yet never hears of it.
DropConnection(c) ==
  /\ c \in registry
  /\ pc' = [pc EXCEPT ![c] = IF @ = "relay" THEN "killing" ELSE @]
  /\ UNCHANGED <<fixed, server, permits, eng, via, attempt, timer, age, registry, history>>

\* The relay sees the kill and is dropped.
Killed(c) ==
  /\ pc[c] = "killing"
  /\ End(c)
  /\ UNCHANGED history

-----------------------------------------------------------------------------
\* A timer of this connection has expired.
Due(c) ==
  \/ pc[c] \in {"peek", "handshake"} /\ timer[c] = HandshakeTimeout
  \/ pc[c] = "dial" /\ timer[c] = ConnectTimeout
  \/ WholeTimed(c) /\ age[c] = HandshakeTimeout

Tick ==
  /\ \A c \in Conns : ~Due(c)
  /\ timer' = [c \in Conns |-> IF pc[c] \in {"peek", "handshake", "dial"}
                               THEN timer[c] + 1 ELSE timer[c]]
  /\ age' = [c \in Conns |-> IF WholeTimed(c) /\ pc[c] \notin {"new", "peek", "closed"}
                             THEN age[c] + 1 ELSE age[c]]
  /\ UNCHANGED <<fixed, server, permits, pc, eng, via, attempt, registry, history>>

\* What the server's task of a connection does by itself.
Serve(c) ==
  \/ HandshakeExpires(c) \/ HttpExpires(c)
  \/ Blocked(c) \/ StartDial(c)
  \/ Retry(c) \/ FallBack(c) \/ GiveUp(c)
  \/ Establish(c) \/ StartRelay(c) \/ Killed(c)

\* The accept loops and the tasks; what clients, nodes and the user may do.
Next ==
  \/ \E c \in Conns :
       \/ Accept(c) \/ Reject(c) \/ Serve(c)
       \/ FirstByte(c) \/ Requested(c) \/ OriginalDst(c) \/ BadRequest(c) \/ ClientFails(c)
       \/ DialSucceeds(c) \/ EstablishFails(c) \/ PeerCloses(c) \/ DropConnection(c)
  \/ \E p \in Ports : AcceptFails(p)
  \/ Reload
  \/ Tick

\* The runtime polls every task that can go on, and time passes.  Engine::route
\* is taken to return; module DnsResolver is about when it does.
Fairness ==
  /\ \A c \in Conns : WF_vars(Serve(c))
  /\ WF_vars(Tick)

Spec == Init /\ [][Next]_vars
FairSpec == Spec /\ Fairness

-----------------------------------------------------------------------------
(***************************************************************************)
(* Properties.                                                             *)
(***************************************************************************)

Active == {c \in Conns : pc[c] \notin {"new", "closed"}}
ActiveOn(p) == {c \in Active : Port(c) = p}

\* No permit is ever lost or given twice, whichever of the many ways a task
\* ends: the free permits of a port and its live tasks always add up to
\* max_conns, so never more than max_conns connections are served.
PermitsAddUp == \A p \in Ports : permits[p] + Cardinality(ActiveOn(p)) = MaxConns

\* The registry the UI shows holds exactly the connections that relay: no
\* ghost survives a kill, a timeout or a closed peer.
RegistryIsExact == registry = {c \in Conns : pc[c] \in {"registered", "relay", "killing"}}

\* A connection is dialled only through the nodes its own engine chose when it
\* was accepted, however often the rules are reloaded meanwhile; a blocked
\* connection is not dialled at all.
DialsOwnRoute ==
  \A c \in Conns : c \in Active \/ pc[c] = "closed" =>
    dialled[c] \subseteq {policy[eng[c]].node, policy[eng[c]].fallback} \ {None}

\* The client is told the truth: "ok" only with an upstream, "refused" only
\* after the rule's node and the fallback, if there is one, have been dialled,
\* and the notice is sent only for connections that left through the fallback.
FallbackTried ==
  \A c \in Conns :
    /\ told[c] = "refused" => dialled[c] = {RouteOf(c).node, RouteOf(c).fallback} \ {None}
    /\ c \in noticed => via[c] = "fallback" /\ RouteOf(c).fallback \in dialled[c]

\* A client that hangs in the handshake does not hold its permit for ever.
HangingClientLeaves ==
  \A c \in Conns : pc[c] \in {"peek", "handshake", "head"}
                    ~> pc[c] \notin {"peek", "handshake", "head"}

\* Whichever of its many ways a task ends, and whether its accept loop still
\* runs or not, the books are right: every permit is free or held by a live
\* task, and the registry holds what relays (serve_routed, ConnGuard).
EndingsAddUp == TypeOK /\ PermitsAddUp /\ RegistryIsExact

\* The dials of a connection are those its own engine decided on, all of them
\* before it is refused (connect_with_retry, connect_routed), across reloads.
DialsAsRouted == DialsOwnRoute /\ FallbackTried

(***************************************************************************)
(* The inductive invariant behind them: what has been dialled and said for *)
(* a connection follows from where its task is.                            *)
(***************************************************************************)

\* Before anything is dialled.
NotDialled(c) == dialled[c] = {} /\ via[c] = "main" /\ told[c] = "nothing" /\ c \notin noticed

\* While dialling: the node of the rule, and the fallback from the second round on.
InDial(c) ==
  /\ told[c] = "nothing" /\ c \notin noticed
  /\ RouteOf(c).node # None
  /\ via[c] = "main" => dialled[c] = {RouteOf(c).node}
  /\ via[c] = "fallback" => /\ RouteOf(c).fallback # None
                            /\ dialled[c] = {RouteOf(c).node, RouteOf(c).fallback}

Progress(c) ==
  /\ pc[c] \in {"new", "origdst", "peek", "handshake", "head", "route", "assoc"} => NotDialled(c)
  /\ pc[c] = "dial" => InDial(c)
  /\ dialled[c] \subseteq {RouteOf(c).node, RouteOf(c).fallback} \ {None}
  /\ told[c] = "refused" => /\ pc[c] = "closed"
                            /\ dialled[c] = {RouteOf(c).node, RouteOf(c).fallback} \ {None}
  /\ c \in noticed => via[c] = "fallback" /\ RouteOf(c).fallback \in dialled[c]

IInv == EndingsAddUp /\ \A c \in Conns : Progress(c)
=============================================================================

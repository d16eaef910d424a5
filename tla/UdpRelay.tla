------------------------------ MODULE UdpRelay ------------------------------
(***************************************************************************)
(* SOCKS5 UDP ASSOCIATE (udp.rs) over the UDP sessions of the outbounds    *)
(* (outbound.rs): the loop of one association, the task of each flow, and  *)
(* what the flows share.  A datagram of the client is a message with a     *)
(* number and the destination it names; the destination answers it with    *)
(* the same pieces, and a network that loses, delays, reorders and         *)
(* duplicates what is sent in datagrams lies in between.                   *)
(***************************************************************************)
EXTENDS QuicUdp

CONSTANTS Kinds,         \* outbounds that are looked at
          Keys,          \* destinations
          Cases,         \* an outbound, what comes to the relay socket (a sequence of
                         \* inputs), and what is used up of MaxFaults and MaxDials
          FlowQueue,     \* FLOW_QUEUE of the association
          MaxArrivals,   \* packets that arrive from the network, duplicates counted
          MaxFaults,     \* broken sockets, streams and connections
          MaxDials       \* TCP connections through the shared tunnel

ASSUME UdpRelayAssumption ==
    /\ FlowQueue \in Nat \ {0} /\ {MaxArrivals, MaxFaults, MaxDials} \subseteq Nat
    /\ Keys # {}

VARIABLES script,   \* the inputs
          kind,     \* the outbound the routes lead to
          able,     \* the server relays UDP in QUIC datagrams
          control,  \* the control connection is open
          assoc,    \* the loop: where it is, its client, the datagram it works on
          table,    \* the flow of each destination
          flow,     \* the tasks of the flows
          quic,     \* the shared connection of TUIC and Hysteria2
          dial,     \* a TCP connection that uses the tunnel too
          net,      \* what is on its way to each flow, the session of the server
          got,      \* the datagrams the client was sent, with their number
          count     \* what is left of the bounds

vars == <<script, kind, able, control, assoc, table, flow, quic, dial, net, got, count>>

Sockets == {"direct", "shadowsocks", "ss2022"}
Streams == {"trojan", "vless"}
Quic == {"tuic", "hysteria2"}

\* a datagram at the relay socket: "here" is another program on the client's
\* host, "there" another host; size is the number of its pieces
Inputs == [src : {"client", "here", "there"}, form : {"datagram", "fragment", "garbage"},
           key : Keys, size : Nat]
\* there is a number for every flow that may be opened
ASSUME CasesAssumption ==
    \A c \in Cases : /\ c.kind \in Kinds /\ {c.faults, c.dials} \subseteq Nat
                     /\ c.script \in Seq(Inputs) /\ Len(c.script) <= Cardinality(Flows)

NoFlow == [st |-> "none", key |-> CHOOSE k \in Keys : TRUE, to |-> "client", q |-> <<>>, id |-> 0,
           sent |-> 0, part |-> NoPart, cut |-> FALSE, late |-> FALSE, replay |-> NoReplay]
NoMessage == [n |-> 0, key |-> CHOOSE k \in Keys : TRUE, size |-> 0]
Unused(f) == flow[f].st = "none"
NextFlow == CHOOSE f \in Flows : Unused(f) /\ \A g \in Flows : g < f => ~Unused(g)

Payload(m) == Pieces([n |-> m.n, key |-> m.key], m.size)

Init ==
    /\ \E c \in Cases :
         /\ script = c.script /\ kind = c.kind
         /\ count = [sent |-> 0, arrived |-> 0, faults |-> c.faults, dials |-> c.dials]
    /\ able \in BOOLEAN /\ (able \/ kind \in Quic)
    /\ control = TRUE
    /\ assoc = [at |-> "open", client |-> "none", msg |-> NoMessage]
    /\ table = [k \in Keys |-> Nobody]
    /\ flow = [f \in Flows |-> NoFlow]
    /\ quic = Config
    /\ dial = "idle"
    /\ net = [air |-> [f \in Flows |-> {}], wire |-> [f \in Flows |-> <<>>], sid |-> 1]
    /\ got = [d \in {} |-> 0]

Tick(what) == count' = [count EXCEPT ![what] = @ + 1]

(***************************************************************************)
(* The association.  It is bound to the first source on the host of the    *)
(* control connection, whatever that source sends.                         *)
(***************************************************************************)
Admitted(src) == src # "there" /\ assoc.client \in {"none", src}
\* what does not parse is dropped (four bytes of a datagram with a domain name,
\* where the code reads past the end of its buffer, are not among the inputs)
parse_udp_datagram(form) == form = "datagram"
\* Defect: the queue of a flow has no bound
try_send_unbounded(f) == f # Nobody /\ flow[f].st # "ended"

\* the sender of a flow's queue takes a datagram: the task has not ended yet
try_send(f) == f # Nobody /\ flow[f].st # "ended" /\ Len(flow[f].q) < FlowQueue

DatagramArrives ==
    /\ assoc.at = "open" /\ count.sent < Len(script) /\ Tick("sent")
    /\ LET in == script[count.sent + 1]
           m == [n |-> count.sent + 1, key |-> in.key, size |-> in.size]
           to == table[in.key]
       IN  IF ~Admitted(in.src) \/ ~parse_udp_datagram(in.form)
           THEN /\ assoc' = [assoc EXCEPT !.client = IF Admitted(in.src) THEN in.src ELSE @]
                /\ UNCHANGED <<table, flow>>
           ELSE IF try_send(to)
           THEN /\ assoc' = [assoc EXCEPT !.client = in.src]
                /\ flow' = [flow EXCEPT ![to].q = Append(@, m)]
                /\ UNCHANGED table
           ELSE /\ assoc' = [at |-> "routing", client |-> in.src, msg |-> m]
                /\ table' = [table EXCEPT ![in.key] = Nobody]
                /\ UNCHANGED flow
    /\ UNCHANGED <<script, kind, able, control, quic, dial, net, got>>

Reopened == [assoc EXCEPT !.at = "open", !.msg = NoMessage]
\* the datagram is dropped: the route blocks it, or there is no session to be had
Dropped ==
    /\ assoc' = Reopened
    /\ UNCHANGED <<script, kind, able, control, table, flow, dial, net, got, count>>

RouteBlocks == assoc.at = "routing" /\ Dropped /\ UNCHANGED quic
RouteConnects ==
    /\ assoc.at = "routing"
    /\ assoc' = [assoc EXCEPT !.at = "connecting"]
    /\ UNCHANGED <<script, kind, able, control, table, flow, quic, dial, net, got, count>>

\* a flow that has an id of the manager, and may send under it or give it up
Owns(f) == flow[f].st \in {"running", "sending", "closing"}
\* the id comes to a new flow before everything of its former flow is over
Early(id) == kind \in Quic /\ (Leftover(quic, id) \/ \E f \in Flows : Owns(f) /\ flow[f].id = id)

\* the task of a new flow, with the datagram in its queue
spawn_flow(id) ==
    LET k == assoc.msg.key
    IN  /\ \E f \in Flows : Unused(f)
        /\ flow' = [flow EXCEPT ![NextFlow] =
                      [NoFlow EXCEPT !.st = "running", !.key = k, !.to = assoc.client,
                                     !.q = <<assoc.msg>>, !.id = id, !.late = Early(id)]]
        /\ table' = [table EXCEPT ![k] = NextFlow]
        /\ assoc' = Reopened

\* a lookup or a socket or the handshake of the stream fails, or the outbound has no UDP
ConnectFails ==
    /\ assoc.at = "connecting" /\ kind \notin Quic
    /\ Dropped /\ UNCHANGED quic
SessionOpens ==
    /\ assoc.at = "connecting" /\ kind \in Sockets \union Streams
    /\ spawn_flow(0)
    /\ UNCHANGED <<script, kind, able, control, quic, dial, net, got, count>>

\* TUIC and Hysteria2: the manager, and the tunnel if it is the first to ask
ManagerAsksForTunnel ==
    /\ assoc.at = "connecting" /\ kind \in Quic /\ quic.udp = "none" /\ quic.tunnel = "none"
    /\ quic' = tunnel(quic, "udp")
    /\ UNCHANGED <<script, kind, able, control, assoc, table, flow, dial, net, got, count>>
TunnelFails ==
    /\ quic.tunnel = "udp"
    /\ quic' = start_failed(quic) /\ Dropped
ManagerStarts ==
    /\ assoc.at = "connecting" /\ kind \in Quic /\ quic.udp = "none" /\ HasTunnel(quic)
    /\ IF kind = "hysteria2" /\ ~able THEN Dropped /\ UNCHANGED quic
       ELSE /\ quic' = udp(quic)
            /\ UNCHANGED <<script, kind, able, control, assoc, table, flow, dial, net, got, count>>
FlowRegisters ==
    /\ assoc.at = "connecting" /\ kind \in Quic /\ quic.udp # "none" /\ ~FlowsLocked(quic)
    /\ IF ~CanRegister(quic) THEN Dropped /\ UNCHANGED quic
       ELSE /\ spawn_flow(NewId(quic))
            /\ quic' = register(quic, NextFlow)
            /\ UNCHANGED <<script, kind, able, control, dial, net, got, count>>

ControlCloses ==
    /\ control /\ assoc.at # "closed" /\ control' = FALSE
    /\ UNCHANGED <<script, kind, able, assoc, table, flow, quic, dial, net, got, count>>
\* the end of the control connection (it is dropped with the loop), no datagram
\* in time, or an error of the relay socket
AssociationEnds ==
    /\ assoc.at = "open"
    /\ \/ ~control
       \/ assoc.client = "none"
       \/ count.faults < MaxFaults
    /\ assoc' = [assoc EXCEPT !.at = "closed"]
    /\ control' = FALSE
    /\ table' = [k \in Keys |-> Nobody]
    /\ UNCHANGED <<script, kind, able, flow, quic, dial, net, got, count>>

(***************************************************************************)
(* The task of a flow.                                                     *)
(***************************************************************************)
Held(f) == table[flow[f].key] = f
\* what is sent for a datagram, and the answer of the destination to it
ServerAnswers(f, m) ==
    LET ss == encrypt_packet(flow[f].key, Payload(m))
        ss2022 == request(f, flow[f].sent, flow[f].key, Payload(m))
    IN  CASE kind = "direct" -> {[data |-> Echo(flow[f].key, Payload(m))]}
          [] kind = "shadowsocks" -> {encrypt_packet(ss.target, Echo(ss.target, ss.data))}
          [] kind = "ss2022" ->
               {response(net.sid, ss2022.pid, ss2022.session, Echo(ss2022.target, ss2022.data))}
          [] OTHER -> {}
Answered(f, m) ==
    [net EXCEPT !.air[f] = @ \union ServerAnswers(f, m),
                !.wire[f] = IF kind \in Streams
                            THEN @ \o encode_udp_packet(Echo(flow[f].key, Payload(m))) ELSE @]

\* a datagram of the client; the read that waits for an answer is dropped with
\* whatever it has read of a packet.  Writing to a stream takes as long as the
\* server likes; nothing is read meanwhile, so the answer may be there already.
TaskSends(f) ==
    LET m == Head(flow[f].q)
        ok == kind \notin Quic \/ (able /\ CanSend(quic, Payload(m)))
        cut == flow[f].part # NoPart
    IN  /\ flow[f].st = "running" /\ flow[f].q # <<>>
        /\ flow' = [flow EXCEPT ![f].q = Tail(@),
                                ![f].st = IF ~ok THEN "closing" ELSE IF kind \in Streams THEN "sending" ELSE @,
                                ![f].part = NoPart, ![f].cut = @ \/ cut, ![f].sent = @ + 1]
        /\ IF ok /\ kind \in Quic
           THEN quic' = send(quic, flow[f].id, flow[f].sent, flow[f].key, Payload(m)) ELSE UNCHANGED quic
        /\ net' = Answered(f, m)
        /\ UNCHANGED <<script, kind, able, control, assoc, table, dial, got, count>>

TaskSent(f) ==
    /\ flow[f].st = "sending"
    /\ flow' = [flow EXCEPT ![f].st = "running"]
    /\ UNCHANGED <<script, kind, able, control, assoc, table, quic, dial, net, got, count>>

encode_udp_datagram(f, data) ==
    [key |-> flow[f].key, to |-> flow[f].to, data |-> data,
     cut |-> flow[f].cut, late |-> flow[f].late]
Delivered(d) == got' = With(got, d, 1 + IF d \in DOMAIN got THEN got[d] ELSE 0)

\* a packet comes to the socket of the flow: what cannot be decrypted ends the flow
SocketReceives(f) ==
    /\ flow[f].st = "running" /\ kind \in Sockets /\ count.arrived < MaxArrivals
    /\ Tick("arrived")
    /\ \E p \in net.air[f] :
         LET d == IF kind = "ss2022" THEN decrypt(f, flow[f].replay, p)
                  ELSE [ok |-> TRUE, w |-> NoReplay]
         IN  /\ flow' = [flow EXCEPT ![f].replay = d.w, ![f].st = IF d.ok THEN @ ELSE "closing"]
             /\ IF d.ok THEN Delivered(encode_udp_datagram(f, decrypt_packet(p))) ELSE UNCHANGED got
    /\ UNCHANGED <<script, kind, able, control, assoc, table, quic, dial, net>>

\* the next cell of the stream: a head, or a piece of the packet; what is taken
\* for a head after a cut has some length, or is refused
read_udp_packet(f) ==
    LET c == Head(net.wire[f])
        part == flow[f].part
        lengths == IF c.head THEN {c.len} ELSE 0..2
        next == IF part = NoPart THEN {[len |-> n, data |-> <<>>] : n \in lengths}
                ELSE {[part EXCEPT !.data = Append(@, c.piece)]}
    IN  \E p \in next :
          IF Len(p.data) = p.len
          THEN /\ Delivered(encode_udp_datagram(f, p.data))
               /\ flow' = [flow EXCEPT ![f].part = NoPart]
          ELSE /\ flow' = [flow EXCEPT ![f].part = p]
               /\ UNCHANGED got

StreamReads(f) ==
    /\ flow[f].st = "running" /\ net.wire[f] # <<>>
    /\ net' = [net EXCEPT !.wire[f] = Tail(@)]
    /\ \/ read_udp_packet(f)
       \/ /\ kind = "trojan" /\ flow[f].part = NoPart /\ ~Head(net.wire[f]).head
          /\ flow' = [flow EXCEPT ![f].st = "closing"] /\ UNCHANGED got
    /\ UNCHANGED <<script, kind, able, control, assoc, table, quic, dial, count>>

\* the queue that the reading task of the connection fills
QueueReceives(f) ==
    /\ flow[f].st = "running" /\ kind \in Quic
    /\ IF quic.answers[f] # <<>>
       THEN /\ Delivered(encode_udp_datagram(f, Head(quic.answers[f])))
            /\ quic' = [quic EXCEPT !.answers[f] = Tail(@)]
            /\ UNCHANGED flow
       ELSE /\ QueueClosed(quic, f)
            /\ flow' = [flow EXCEPT ![f].st = "closing"]
            /\ UNCHANGED <<quic, got>>
    /\ UNCHANGED <<script, kind, able, control, assoc, table, dial, net, count>>

\* the socket or the stream of the flow breaks
SessionBreaks(f) ==
    /\ flow[f].st \in {"running", "sending"} /\ kind \notin Quic /\ count.faults < MaxFaults
    /\ Tick("faults")
    /\ flow' = [flow EXCEPT ![f].st = "closing"]
    /\ UNCHANGED <<script, kind, able, control, assoc, table, quic, dial, net, got>>

\* the association let go of the flow, and its queue is empty
TaskEnds(f) ==
    /\ flow[f].st = "running" /\ flow[f].q = <<>> /\ ~Held(f)
    /\ flow' = [flow EXCEPT ![f].st = "closing"]
    /\ UNCHANGED <<script, kind, able, control, assoc, table, quic, dial, net, got, count>>

close(f) ==
    /\ flow[f].st = "closing"
    /\ IF kind \in Quic THEN ~FlowsLocked(quic) /\ quic' = dissociate(quic, flow[f].id)
       ELSE UNCHANGED quic
    /\ flow' = [flow EXCEPT ![f].st = "ended", ![f].q = <<>>]
    /\ UNCHANGED <<script, kind, able, control, assoc, table, dial, net, got, count>>

(***************************************************************************)
(* The shared connection, a TCP dial that uses it, and the server.         *)
(***************************************************************************)
Shared(c) == quic' = c /\ UNCHANGED <<script, kind, able, control, assoc, table, flow, net, got>>

TunnelStarts ==
    /\ quic.tunnel \in {"udp", "tcp"}
    /\ Shared(started(quic)) /\ UNCHANGED <<dial, count>>
ConnectionBreaks ==
    /\ quic.link /\ count.faults < MaxFaults /\ Tick("faults")
    /\ Shared(ConnectionLost(quic)) /\ UNCHANGED dial

DemuxReads ==
    /\ quic.udp = "running" /\ quic.link /\ quic.wait = NoAnswer
    /\ \E dg \in quic.air, age \in {0} \union {quic.reasm[k].created : k \in DOMAIN quic.reasm} :
         Shared(recv_loop(quic, dg, age))
    /\ UNCHANGED <<dial, count>>
DemuxHandsOver ==
    /\ quic.wait # NoAnswer
    /\ IF flow[quic.wait.to].st = "ended" THEN Shared(RemovedLate(quic))
       ELSE Len(quic.answers[quic.wait.to]) < AnswerQueue /\ Shared(HandedLate(quic))
    /\ UNCHANGED <<dial, count>>
DemuxEnds ==
    /\ quic.udp = "running" /\ ~quic.link /\ quic.wait = NoAnswer
    /\ Shared(loop_ends(quic)) /\ UNCHANGED <<dial, count>>

\* a dial that finds the tunnel there only opens a stream of its own
DialAsksForTunnel ==
    /\ kind \in Quic /\ ~HasTunnel(quic)
    /\ \/ dial = "idle" /\ count.dials < MaxDials /\ Tick("dials")
       \/ dial = "asking" /\ quic.tunnel = "none" /\ UNCHANGED count
    /\ dial' = "asking"
    /\ Shared(tunnel(quic, "tcp"))
DialTunnelFails ==
    /\ quic.tunnel = "tcp" /\ dial' = "idle"
    /\ Shared(start_failed(quic)) /\ UNCHANGED count
\* the stream of the target is opened, or the step fails or runs into its timeout
connect_tcp ==
    /\ dial = "asking" /\ HasTunnel(quic)
    /\ dial' = "idle"
    /\ Shared(quic) /\ UNCHANGED count

\* a Shadowsocks server that starts again has a new session
ServerRestarts ==
    /\ kind = "ss2022" /\ count.faults < MaxFaults /\ Tick("faults")
    /\ net' = [net EXCEPT !.sid = @ + 1]
    /\ UNCHANGED <<script, kind, able, control, assoc, table, flow, quic, dial, got>>

-----------------------------------------------------------------------------
AssociationStep ==
    \/ RouteBlocks \/ RouteConnects \/ ConnectFails \/ SessionOpens
    \/ ManagerAsksForTunnel \/ ManagerStarts \/ FlowRegisters
TaskStep(f) ==
    TaskSends(f) \/ QueueReceives(f) \/ TaskEnds(f) \/ close(f)

Next ==
    \/ DatagramArrives \/ ControlCloses \/ AssociationEnds \/ AssociationStep
    \/ \E f \in Flows : TaskStep(f) \/ TaskSent(f) \/ SocketReceives(f) \/ StreamReads(f) \/ SessionBreaks(f)
    \/ TunnelStarts \/ TunnelFails \/ DialTunnelFails \/ ConnectionBreaks
    \/ DemuxReads \/ DemuxHandsOver \/ DemuxEnds
    \/ DialAsksForTunnel \/ connect_tcp \/ ServerRestarts

\* a task that can go on does: the runtime polls it, a lookup, a socket and the
\* steps of the tunnel end in time.  The stream of a Trojan or VLESS server may
\* take as long as it likes to open and to take a datagram: no timeout is set.
Fairness ==
    /\ WF_vars(kind \notin Streams /\ AssociationStep)
    /\ WF_vars(~control /\ AssociationEnds)
    /\ WF_vars(TunnelStarts \/ TunnelFails \/ DialTunnelFails)
    /\ WF_vars(connect_tcp \/ (dial = "asking" /\ DialAsksForTunnel))
    /\ WF_vars(DemuxHandsOver \/ DemuxEnds)
    /\ \A f \in Flows : WF_vars(TaskStep(f))

Spec == Init /\ [][Next]_vars /\ Fairness

-----------------------------------------------------------------------------
(***************************************************************************)
(* Properties.                                                             *)
(***************************************************************************)
\* Every part of the state is what the code can hold: the queues keep their
\* bounds, the table of the association and that of the manager name flows.
TypeOK ==
    /\ script \in Seq(Inputs) /\ kind \in Kinds /\ able \in BOOLEAN /\ control \in BOOLEAN
    /\ assoc.at \in {"open", "routing", "connecting", "closed"}
    /\ assoc.client \in {"none", "client", "here"}
    /\ \A k \in Keys : table[k] = Nobody \/ (table[k] \in Flows /\ flow[table[k]].key = k)
    /\ \A f \in Flows : /\ flow[f].st \in {"none", "running", "sending", "closing", "ended"}
                        /\ Len(flow[f].q) <= FlowQueue
                        /\ Len(quic.answers[f]) <= AnswerQueue
    /\ \A i \in DOMAIN quic.flows : i \in 1..MaxId /\ quic.flows[i] \in Flows
    /\ Cardinality(DOMAIN quic.reasm) <= MaxReasm

\* the datagrams the client sent to the destination of an answer, whole
Genuine(d) ==
    \E n \in 1..count.sent :
      script[n].key = d.key /\ d.data = Payload([n |-> n, key |-> d.key, size |-> script[n].size])

\* A datagram of a flow that lost no half-read packet of its stream, and whose
\* id of the manager was new to the connection when it got it.
Undisturbed(d) == ~d.cut /\ ~d.late

\* What the client gets under an address is a whole answer of that address,
\* through every kind of outbound, whatever flows were replaced and whatever
\* the network did - unless a half-read packet of a stream was dropped before,
\* or the counter of ids came round so early that answers to a former flow
\* with the same id were still under way.
RepliesAreGenuine == \A d \in DOMAIN got : Undisturbed(d) => Genuine(d)

\* As the session says of itself, recv gives the next answer of its target:
\* also when the stream was read while the client sent something.
EveryReplyIsGenuine == \A d \in DOMAIN got : Genuine(d)

\* Duplicates of a network do not pass Shadowsocks 2022, the QUIC outbounds or
\* a stream: an answer is delivered once, while the server keeps its session.
\* (Answers without a piece cannot be told apart: two of them are two answers.)
DeliveredOnce ==
    kind \notin {"direct", "shadowsocks"} /\ net.sid = 1
      => \A d \in DOMAIN got : Undisturbed(d) /\ d.data # <<>> => got[d] = 1

\* While the reading task lives, a running flow is found under its id, whatever
\* flows came and went and the counter of ids wrapped - if nothing of the flow
\* that had the id before was left when it was given again: the reading task
\* that finds the former flow ended removes whatever has the id by then.
LiveFlowsAreReachable ==
    quic.udp = "running" =>
      \A f \in Flows : flow[f].st = "running" /\ kind \in Quic /\ ~flow[f].late
        => flow[f].id \in DOMAIN quic.flows /\ quic.flows[flow[f].id] = f

\* A flow the association let go (its queue was full, its task was thought
\* dead, the association ended) ends and leaves nothing in the table of the
\* manager, unless it comes to a write that its stream does not take (from which
\* it goes on the same way if it returns); and the end of the control connection
\* ends the association, unless it waits for the handshake of a stream.
LetGo(f) == flow[f].st # "none" /\ ~Held(f)
Gone(f) == flow[f].st = "ended" /\ f \notin {quic.flows[i] : i \in DOMAIN quic.flows}
FlowsAreCleanedUp ==
    /\ \A f \in Flows : LetGo(f) ~> (Gone(f) \/ flow[f].st = "sending")
    /\ (~control /\ kind \notin Streams) ~> assoc.at = "closed"

\* A flow that does not take its answers delays the others only for a while.
DemuxGoesOn == (quic.wait # NoAnswer) ~> (quic.wait = NoAnswer)

\* The queues keep their bounds, and the tables of the association and of the
\* manager agree with the flows.
TablesAgree == TypeOK /\ LiveFlowsAreReachable

\* The client gets genuine answers, each of them once.
RepliesAreSound == RepliesAreGenuine /\ DeliveredOnce

\* Nothing waits for ever but for a stream: neither a flow that was let go, nor
\* the reading task of the shared connection.
NothingIsStuck == FlowsAreCleanedUp /\ DemuxGoesOn
=============================================================================

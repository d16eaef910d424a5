------------------------------ MODULE Netstack ------------------------------
(***************************************************************************)
(* The userspace tun2socks stack (netstack.rs): IP packets of applications *)
(* come in, a socket of smoltcp and a relay task are made for every flow,  *)
(* one driver task polls the stack.  The sockets live in the slots of a    *)
(* SocketSet and a handle is the number of a slot, which is used again: an *)
(* owner that keeps a handle too long works on the socket of another flow. *)
(* smoltcp and the applications are external: of TCP only the opening, the *)
(* half-closes and resets are kept, of UDP whose datagram it is.           *)
(***************************************************************************)
EXTENDS Naturals, Sequences, FiniteSets, SequencesExt, FiniteSetsExt

CONSTANTS Loads,      \* what applications do: for each flow its connections or datagrams,
                      \* how many retransmissions, resets and disappearances, how many
                      \* datagrams a session brings back, and whether it may stall
          Slots,      \* numbers of the slots of the SocketSet
          MaxRx,      \* packets that wait for the driver
          Meta,       \* UDP_META of a socket, each direction
          Tasks       \* numbers of the relay tasks that are spawned

Keys == UNION {DOMAIN l.flows : l \in Loads}
NoKey == [proto |-> "none", src |-> "none", dst |-> "none"]

ASSUME NetstackAssumption ==
    /\ MaxRx \in Nat /\ Meta \in Nat \ {0}
    /\ Slots \subseteq Nat /\ IsFiniteSet(Slots) /\ Tasks \subseteq Nat /\ IsFiniteSet(Tasks)
    /\ Cardinality(Slots) >= Cardinality(Tasks)
    /\ \A l \in Loads : \A k \in DOMAIN l.flows : l.flows[k] \in Nat
    /\ \A k \in Keys : k.proto \in {"tcp", "udp"} /\ k.dst \notin {"any", "none"}

VARIABLES load,      \* what the applications of this behaviour do
          app,       \* the application's end of each flow
          rx,        \* packets in the device, not yet polled
          socket,    \* the SocketSet
          tcp_seen, udp_flows, abandoned,  \* the tables of Stack
          driver,    \* where the driver is, and whether a wake-up waits for it
          task,      \* the relay tasks
          relays,    \* the JoinHandles of Shared
          alive,     \* the Netstack has not been dropped
          faults     \* retransmissions, resets and disappearances so far

stack == <<socket, tcp_seen, udp_flows, abandoned>>
vars == <<load, app, rx, stack, driver, task, relays, alive, faults>>

(***************************************************************************)
(* Sockets.  peer and inc are the connection a TCP socket belongs to; rst  *)
(* is a reset that abort owes the peer; due is a timer that has expired;   *)
(* from are the datagrams in a UDP socket's receive buffer, tx the number  *)
(* of those in its transmit buffer.  "fin" is FinWait1 and FinWait2, "last"*)
(* is Closing, TimeWait and LastAck.                                       *)
(***************************************************************************)
Free == [proto |-> "free", st |-> "closed", dst |-> "none", peer |-> NoKey, inc |-> 0,
         rst |-> FALSE, due |-> FALSE, from |-> <<>>, tx |-> 0]
States == {"listen", "synrcvd", "established", "closewait", "fin", "last", "closed"}

\* a UDP socket bound to the port of every address
BoundToPort(k) == [Free EXCEPT !.proto = k.proto, !.st = "listen", !.dst = "any"]

\* the socket made for a flow: it listens at, or is bound to, the destination
NewSocket(k) == [Free EXCEPT !.proto = k.proto, !.st = "listen", !.dst = k.dst]
add(k) == Min({h \in Slots : socket[h].proto = "free"})

\* tcp::Socket::close
close(s) ==
    [s EXCEPT !.st = CASE s.st \in {"synrcvd", "established"} -> "fin"
                       [] s.st = "closewait" -> "last"
                       [] s.st = "listen" -> "closed"
                       [] OTHER -> s.st]
\* tcp::Socket::abort: closed at once, the reset goes out with the next poll
abort(s) == [s EXCEPT !.st = "closed", !.rst = s.peer # NoKey]
may_recv(s) == s.st \in {"established", "fin"}
may_send(s) == s.st \in {"established", "closewait"}

(***************************************************************************)
(* iface.poll: every packet of the device is given to the first socket     *)
(* that accepts it, then every socket sends what it has to send.  s is     *)
(* the sockets with the applications, which take what they are sent.       *)
(***************************************************************************)
NoApp == [st |-> "idle", inc |-> 0, acked |-> FALSE, fin |-> FALSE, dark |-> FALSE,
          served |-> FALSE, sends |-> 0]
Hears(a, inc) == a.inc = inc /\ ~a.dark
GetsReset(a, inc) ==
    IF Hears(a, inc) /\ a.st \in {"syn", "open", "eof"} THEN [a EXCEPT !.st = "reset"] ELSE a
GetsFin(a, inc) ==
    IF Hears(a, inc) /\ a.st = "open" THEN [a EXCEPT !.st = IF a.fin THEN "done" ELSE "eof"] ELSE a
GetsSynAck(a, inc) ==
    IF Hears(a, inc) /\ a.st = "syn" THEN [a EXCEPT !.st = "open"] ELSE a

Accepts(s, p) ==
    /\ s.proto = p.key.proto
    /\ \/ s.proto = "udp" /\ s.dst \in {p.key.dst, "any"}
       \/ s.proto = "tcp" /\ s.st = "listen" /\ s.dst = p.key.dst /\ p.flag = "syn"
       \/ s.proto = "tcp" /\ s.st \notin {"listen", "closed"} /\ s.peer = p.key

Takes(s, p) ==
    IF s.proto = "udp"
    THEN IF Len(s.from) < Meta THEN [s EXCEPT !.from = Append(@, p.key)] ELSE s
    ELSE IF s.st = "listen"
    THEN [s EXCEPT !.st = "synrcvd", !.peer = p.key, !.inc = p.inc, !.due = FALSE]
    ELSE IF s.inc # p.inc THEN s
    ELSE CASE p.flag = "syn" -> s
           [] p.flag = "ack" -> IF s.st = "synrcvd" THEN [s EXCEPT !.st = "established"] ELSE s
           [] p.flag = "fin" ->
                [s EXCEPT !.st = CASE s.st \in {"synrcvd", "established"} -> "closewait"
                                   [] s.st = "fin" -> "last"
                                   [] OTHER -> s.st]
           [] p.flag = "rst" -> [s EXCEPT !.st = IF s.st = "synrcvd" THEN "listen" ELSE "closed",
                                          !.peer = NoKey]

Process(p, s) ==
    LET acc == {h \in Slots : Accepts(s.socket[h], p)}
    IN  CASE acc # {} -> [s EXCEPT !.socket[Min(acc)] = Takes(@, p)]
          [] acc = {} /\ p.key.proto = "tcp" -> [s EXCEPT !.app[p.key] = GetsReset(@, p.inc)]
          [] OTHER -> s

\* what one socket sends; a timer that has expired ends it
Dispatch(h, s) ==
    LET t == s.socket[h]
    IN  IF t.proto = "udp" THEN [s EXCEPT !.socket[h] = [t EXCEPT !.tx = 0]]
        ELSE IF t.proto # "tcp" \/ t.peer = NoKey THEN s
        ELSE IF t.rst
        THEN [s EXCEPT !.socket[h] = [t EXCEPT !.rst = FALSE, !.peer = NoKey],
                       !.app[t.peer] = GetsReset(@, t.inc)]
        ELSE IF t.due
        THEN [s EXCEPT !.socket[h] = [t EXCEPT !.st = "closed", !.due = FALSE, !.peer = NoKey]]
        ELSE CASE t.st = "synrcvd" -> [s EXCEPT !.app[t.peer] = GetsSynAck(@, t.inc)]
               [] t.st \in {"fin", "last"} -> [s EXCEPT !.app[t.peer] = GetsFin(@, t.inc)]
               [] OTHER -> s

Received(sockets) ==
    FoldLeft(LAMBDA s, p : Process(p, s), [socket |-> sockets, app |-> app], rx)
poll(sockets) == FoldSet(Dispatch, Received(sockets), Slots)

(***************************************************************************)
(* The relay tasks.                                                        *)
(***************************************************************************)
NoTask == [st |-> "none", key |-> NoKey, h |-> 0, woken |-> FALSE, connected |-> FALSE,
           down |-> FALSE, up |-> FALSE, egress |-> "recv", ingress |-> "recv", pkt |-> NoKey,
           replies |-> 0]
Gone == [NoTask EXCEPT !.st = "gone"]
Running == {t \in Tasks : task[t].st \notin {"none", "gone"}}
Of(t) == socket[task[t].h]
At(t, st) == alive /\ task[t].st = st
Go(t, st) == task' = [task EXCEPT ![t].st = st]
kick == driver' = [driver EXCEPT !.kicked = TRUE]
Relays(t, proto) == At(t, "relay") /\ task[t].key.proto = proto

Init ==
    /\ load \in Loads
    /\ app = [k \in Keys |-> NoApp]
    /\ rx = <<>>
    /\ socket = [h \in Slots |-> Free]
    /\ tcp_seen = {} /\ udp_flows = [k \in {} |-> 0] /\ abandoned = {}
    /\ driver = [at |-> "sleep", kicked |-> TRUE]
    /\ task = [t \in Tasks |-> NoTask]
    /\ relays = {}
    /\ alive = TRUE /\ faults = 0

(***************************************************************************)
(* inject.  The first packet of a flow makes its socket and its task; any  *)
(* packet goes to the device.                                              *)
(***************************************************************************)
IsNew(p) ==
    CASE p.key.proto = "tcp" -> p.flag = "syn" /\ p.key \notin tcp_seen
      [] p.key.proto = "udp" -> p.key \notin DOMAIN udp_flows

spawn(k, h) ==
    LET t == Min({u \in Tasks : task[u].st = "none"})
    IN  /\ task' = [task EXCEPT ![t] = [NoTask EXCEPT !.key = k, !.h = h,
                                  !.st = IF k.proto = "tcp" THEN "enable" ELSE "route"]]
        /\ relays' = relays \cup {t}

demux_and_enqueue(p) ==
    /\ alive /\ Len(rx) < MaxRx
    /\ rx' = Append(rx, p)
    /\ kick
    /\ \/ /\ ~IsNew(p)
          /\ UNCHANGED <<stack, task, relays>>
       \/ /\ IsNew(p) /\ \E t \in Tasks : task[t].st = "none"
          /\ LET h == add(p.key)
             IN  /\ socket' = [socket EXCEPT ![h] = NewSocket(p.key)]
                 /\ tcp_seen' = IF p.key.proto = "tcp" THEN tcp_seen \cup {p.key} ELSE tcp_seen
                 /\ udp_flows' = IF p.key.proto = "udp" THEN [j \in DOMAIN udp_flows \cup {p.key} |-> IF j = p.key THEN h ELSE udp_flows[j]] ELSE udp_flows
                 /\ spawn(p.key, h)
          /\ UNCHANGED abandoned

(***************************************************************************)
(* Applications.  A connection is opened, acknowledged, half-closed or     *)
(* reset; an application that goes dark (it crashed, it left the network)  *)
(* sends and answers nothing.  A port is used again for a new connection.  *)
(***************************************************************************)
Says(k, flag, a) ==
    /\ k \in DOMAIN load.flows
    /\ app' = [app EXCEPT ![k] = a]
    /\ demux_and_enqueue([key |-> k, flag |-> flag, inc |-> a.inc])
    /\ UNCHANGED <<load, alive>>

Fault == faults < load.faults /\ faults' = faults + 1

AppConnect(k) ==
    /\ UNCHANGED faults
    /\ k.proto = "tcp" /\ k \in DOMAIN load.flows /\ ~app[k].dark
    /\ app[k].st \in {"idle", "done", "reset"} /\ app[k].inc < load.flows[k]
    /\ Says(k, "syn", [NoApp EXCEPT !.st = "syn", !.inc = app[k].inc + 1])
AppRetransmit(k) ==
    /\ Fault
    /\ app[k].st = "syn" /\ ~app[k].dark
    /\ Says(k, "syn", app[k])
AppAck(k) ==
    /\ UNCHANGED faults
    /\ app[k].st = "open" /\ ~app[k].acked /\ ~app[k].dark
    /\ Says(k, "ack", [app[k] EXCEPT !.acked = TRUE])
AppFin(k) ==
    /\ UNCHANGED faults
    /\ app[k].st \in {"open", "eof"} /\ ~app[k].fin /\ ~app[k].dark
    /\ Says(k, "fin", [app[k] EXCEPT !.acked = TRUE, !.fin = TRUE,
                                     !.st = IF app[k].st = "eof" THEN "done" ELSE "open"])
AppReset(k) ==
    /\ Fault
    /\ app[k].st \in {"syn", "open", "eof"} /\ ~app[k].dark
    /\ Says(k, "rst", [app[k] EXCEPT !.st = "reset"])
AppSend(k) ==
    /\ UNCHANGED faults
    /\ k.proto = "udp" /\ k \in DOMAIN load.flows /\ app[k].sends < load.flows[k]
    /\ Says(k, "data", [app[k] EXCEPT !.sends = @ + 1])
AppGoesDark(k) ==
    /\ Fault
    /\ alive /\ k \in DOMAIN load.flows /\ app[k].st \in {"syn", "open", "eof"} /\ ~app[k].dark
    /\ app' = [app EXCEPT ![k].dark = TRUE]
    /\ UNCHANGED <<load, rx, stack, driver, task, relays, alive>>

(***************************************************************************)
(* The driver.  It polls, removes the abandoned sockets that are closed,   *)
(* wakes who waits for a change, and sleeps until a kick or a timer.       *)
(***************************************************************************)
\* Defect: the closed sockets are removed before the stack is polled
retain_before_poll ==
    LET closed == {h \in abandoned : socket[h].st = "closed"}
        s == poll([h \in Slots |-> IF h \in closed THEN Free ELSE socket[h]])
    IN  socket' = s.socket /\ abandoned' = abandoned \ closed /\ app' = s.app

poll_and_retain ==
    LET s == poll(socket)
        closed == {h \in abandoned : s.socket[h].st = "closed"}
    IN  /\ socket' = [h \in Slots |-> IF h \in closed THEN Free ELSE s.socket[h]]
        /\ abandoned' = abandoned \ closed
        /\ app' = s.app

DriverPoll ==
    /\ driver.at = "sleep" /\ (driver.kicked \/ \E h \in Slots : socket[h].due)
    /\ poll_and_retain
    /\ rx' = <<>>
    /\ driver' = [at |-> "notify", kicked |-> FALSE]
    /\ UNCHANGED <<load, tcp_seen, udp_flows, task, relays, alive, faults>>

\* Defect: notified() is enabled only after the state of the socket was read
Registered_late(t) == task[t].st = "parked"

\* the task's notified() is enabled: before it reads the state of the socket
Registered(t) == task[t].st \in {"check", "await", "parked"}

DriverNotify ==
    /\ driver.at = "notify"
    /\ task' = [t \in Tasks |-> IF Registered(t) THEN [task[t] EXCEPT !.woken = TRUE] ELSE task[t]]
    /\ relays' = relays \cap Running
    /\ driver' = [driver EXCEPT !.at = "sleep"]
    /\ UNCHANGED <<load, app, rx, stack, alive, faults>>

\* Defect: set_timeout is not called
ExpiresNever(h) ==
    LET s == socket[h]
    IN  s.peer # NoKey /\ s.st = "last" /\ app[s.peer].st # "open" /\ ~app[s.peer].dark /\ ~s.due

\* the 30 seconds of set_timeout without a sign of the peer, or TimeWait, pass
Expires(h) ==
    LET s == socket[h]
    IN  s.peer # NoKey /\ s.st \notin {"listen", "closed"} /\ ~s.due
        /\ \/ app[s.peer].dark \/ app[s.peer].inc # s.inc
           \/ s.st = "last" /\ app[s.peer].st # "open"
TimerExpires(h) ==
    /\ alive /\ Expires(h)
    /\ socket' = [socket EXCEPT ![h].due = TRUE]
    /\ UNCHANGED <<load, app, rx, tcp_seen, udp_flows, abandoned, driver, task, relays, alive, faults>>

\* Drop of the Netstack: the driver and the tasks in relays are aborted; the
\* Stack goes with the last of them
NetstackDrop ==
    /\ alive /\ alive' = FALSE
    /\ driver' = [at |-> "stopped", kicked |-> FALSE]
    /\ task' = [t \in Tasks |-> IF t \in relays THEN Gone ELSE task[t]]
    /\ relays' = {} /\ rx' = <<>>
    /\ socket' = [h \in Slots |-> IF \E t \in Running \ relays : task[t].h = h THEN socket[h] ELSE Free]
    /\ tcp_seen' = {} /\ udp_flows' = [k \in {} |-> 0] /\ abandoned' = {}
    /\ UNCHANGED <<load, app, faults>>

(***************************************************************************)
(* relay_tcp.  wait_established reads the state of the socket after it has *)
(* enabled its notified(), until it is Established or the wait times out.  *)
(***************************************************************************)
Enable(t) ==
    /\ At(t, "enable") \/ (At(t, "parked") /\ task[t].woken)
    /\ task' = [task EXCEPT ![t].st = "check", ![t].woken = FALSE]
    /\ UNCHANGED <<load, app, rx, stack, driver, relays, alive, faults>>
Check(t) ==
    /\ At(t, "check")
    /\ Go(t, CASE Of(t).st = "established" -> "route"
               [] Of(t).st \in {"closed", "fin", "last"} -> "end"
               [] OTHER -> "await")
    /\ UNCHANGED <<load, app, rx, stack, driver, relays, alive, faults>>
Await(t) ==
    /\ At(t, "await")
    /\ Go(t, "parked")
    /\ UNCHANGED <<load, app, rx, stack, driver, relays, alive, faults>>
AcceptTimeout(t) ==
    /\ At(t, "parked") /\ ~task[t].woken
    /\ Go(t, "end")
    /\ UNCHANGED <<load, app, rx, stack, driver, relays, alive, faults>>

\* engine.route blocks the destination, or the outbound does not connect
RouteFails(t) ==
    /\ At(t, "route")
    /\ Go(t, "end")
    /\ UNCHANGED <<load, app, rx, stack, driver, relays, alive, faults>>
\* the flow is registered and relayed; served is the application's view of it
Connects(t) ==
    /\ At(t, "route")
    /\ task' = [task EXCEPT ![t].st = "relay", ![t].connected = TRUE]
    /\ app' = [k \in Keys |-> IF Of(t).peer = k /\ Of(t).inc = app[k].inc
                              THEN [app[k] EXCEPT !.served = TRUE] ELSE app[k]]
    /\ UNCHANGED <<load, rx, stack, driver, relays, alive, faults>>

\* copy_counted over NsTcpStream: the end of one side is passed to the other
Passed(t, down, up) ==
    task' = [task EXCEPT ![t].down = down, ![t].up = up, ![t].st = IF down /\ up THEN "end" ELSE "relay"]
ReadEof(t) ==
    /\ Relays(t, "tcp") /\ ~task[t].down /\ ~may_recv(Of(t))
    /\ Passed(t, TRUE, task[t].up)
    /\ UNCHANGED <<load, app, rx, stack, driver, relays, alive, faults>>
UpstreamEof(t) ==
    /\ Relays(t, "tcp") /\ ~task[t].up
    /\ Passed(t, task[t].down, TRUE)
    /\ socket' = [socket EXCEPT ![task[t].h] = close(@)]
    /\ kick
    /\ UNCHANGED <<load, app, rx, tcp_seen, udp_flows, abandoned, relays, alive, faults>>
\* the outbound fails, or what it brings cannot be written to the socket
RelayFails(t) ==
    /\ Relays(t, "tcp")
    /\ Go(t, "end")
    /\ UNCHANGED <<load, app, rx, stack, driver, relays, alive, faults>>

\* Defect: an outbound that did not come up is shown as the end of the data
FinishCloses(t) ==
    IF Of(t).st = "closed"
    THEN socket' = [socket EXCEPT ![task[t].h] = Free] /\ UNCHANGED abandoned
    ELSE /\ socket' = [socket EXCEPT ![task[t].h] = close(@)]
         /\ abandoned' = abandoned \cup {task[t].h}

\* Defect: the socket is closed and nobody is left to remove it
FinishForgets(t) ==
    /\ socket' = [socket EXCEPT ![task[t].h] = IF task[t].connected THEN close(@) ELSE abort(@)]
    /\ UNCHANGED abandoned

FinishSocket(t) ==
    IF Of(t).st = "closed"
    THEN socket' = [socket EXCEPT ![task[t].h] = Free] /\ UNCHANGED abandoned
    ELSE /\ socket' = [socket EXCEPT ![task[t].h] = IF task[t].connected THEN close(@) ELSE abort(@)]
         /\ abandoned' = abandoned \cup {task[t].h}

FinishTcp(t) ==
    /\ At(t, "end") /\ task[t].key.proto = "tcp"
    /\ tcp_seen' = tcp_seen \ {task[t].key}
    /\ FinishSocket(t)
    /\ kick
    /\ task' = [task EXCEPT ![t] = Gone]
    /\ UNCHANGED <<load, app, rx, udp_flows, relays, alive, faults>>

(***************************************************************************)
(* relay_udp: two loops in one task, each with an idle timeout of its own. *)
(* cancel.notify_waiters ends a loop that waits in its select!, unless     *)
(* select! takes a datagram that is there too; it is lost to a loop that   *)
(* is inside send or udp_send.                                             *)
(***************************************************************************)
Cancelled(loop, ready) ==
    CASE loop = "recv" /\ ready -> {"recv", "end"}
      [] loop = "recv" /\ ~ready -> {"end"}
      [] OTHER -> {loop}
Brings(t) == task[t].replies < load.replies

\* the state of the two loops; join! returns when both have ended
Loops(t, egress, ingress, pkt) ==
    task' = [task EXCEPT ![t].egress = egress, ![t].ingress = ingress, ![t].pkt = pkt,
                         ![t].st = IF egress = "end" /\ ingress = "end" THEN "end" ELSE "relay"]

udp_recv(t) ==
    /\ Relays(t, "udp") /\ task[t].egress = "recv" /\ Of(t).from # <<>>
    /\ Loops(t, "send", task[t].ingress, Head(Of(t).from))
    /\ socket' = [socket EXCEPT ![task[t].h].from = Tail(@)]
    /\ UNCHANGED <<load, app, rx, tcp_seen, udp_flows, abandoned, driver, relays, alive, faults>>
SessionSend(t) ==
    /\ Relays(t, "udp") /\ task[t].egress = "send"
    /\ \/ Loops(t, "recv", task[t].ingress, NoKey)
       \/ \E i \in Cancelled(task[t].ingress, Brings(t)) : Loops(t, "end", i, NoKey)
    /\ UNCHANGED <<load, app, rx, stack, driver, relays, alive, faults>>

\* Defect: no idle timeout, the loop relies on being cancelled
EgressNeverIdle(t) == FALSE

EgressIdle(t) == task[t].egress = "recv" /\ Of(t).from = <<>>
EgressEnds(t) ==
    /\ Relays(t, "udp") /\ EgressIdle(t)
    /\ Loops(t, "end", task[t].ingress, NoKey)
    /\ UNCHANGED <<load, app, rx, stack, driver, relays, alive, faults>>

SessionRecv(t) ==
    /\ Relays(t, "udp") /\ task[t].ingress = "recv" /\ Brings(t)
    /\ task' = [task EXCEPT ![t].ingress = "send", ![t].replies = @ + 1]
    /\ UNCHANGED <<load, app, rx, stack, driver, relays, alive, faults>>
SessionFails(t) ==
    /\ Relays(t, "udp") /\ task[t].ingress = "recv"
    /\ \E e \in Cancelled(task[t].egress, Of(t).from # <<>>) : Loops(t, e, "end", task[t].pkt)
    /\ UNCHANGED <<load, app, rx, stack, driver, relays, alive, faults>>
IngressEnds(t) ==
    /\ Relays(t, "udp") /\ task[t].ingress = "recv"
    /\ Loops(t, task[t].egress, "end", task[t].pkt)
    /\ UNCHANGED <<load, app, rx, stack, driver, relays, alive, faults>>

\* Defect: a full transmit buffer is written to
CanSendAnyway(s) == TRUE

CanSend(s) == s.tx < Meta

\* Defect: the driver is not woken for the datagram
send_unnoticed == UNCHANGED driver

send_kick == kick
udp_send(t) ==
    /\ Relays(t, "udp") /\ task[t].ingress = "send" /\ CanSend(Of(t))
    /\ task' = [task EXCEPT ![t].ingress = "recv"]
    /\ socket' = [socket EXCEPT ![task[t].h].tx = @ + 1]
    /\ send_kick
    /\ UNCHANGED <<load, app, rx, tcp_seen, udp_flows, abandoned, relays, alive, faults>>

\* drop_connection of the user interface: both relays race their work with kill
Kill(t) ==
    /\ At(t, "relay")
    /\ Go(t, "end")
    /\ UNCHANGED <<load, app, rx, stack, driver, relays, alive, faults>>

\* Defect: the flow stays in the table
KeepFlow(k) == udp_flows

WithoutFlow(k) == [j \in DOMAIN udp_flows \ {k} |-> udp_flows[j]]
FinishUdp(t) ==
    /\ At(t, "end") /\ task[t].key.proto = "udp"
    /\ udp_flows' = WithoutFlow(task[t].key)
    /\ socket' = [socket EXCEPT ![task[t].h] = Free]
    /\ kick
    /\ task' = [task EXCEPT ![t] = Gone]
    /\ UNCHANGED <<load, app, rx, tcp_seen, abandoned, relays, alive, faults>>

AppStep(k) == AppConnect(k) \/ AppRetransmit(k) \/ AppAck(k) \/ AppFin(k) \/ AppReset(k)
              \/ AppSend(k) \/ AppGoesDark(k)
DriverStep == DriverPoll \/ DriverNotify
TcpStep(t) == Enable(t) \/ Check(t) \/ Await(t) \/ AcceptTimeout(t) \/ ReadEof(t)
              \/ UpstreamEof(t) \/ RelayFails(t) \/ FinishTcp(t)
EgressStep(t) == udp_recv(t) \/ SessionSend(t) \/ EgressEnds(t)
IngressStep(t) == SessionRecv(t) \/ SessionFails(t) \/ IngressEnds(t) \/ udp_send(t)
TaskStep(t) == TcpStep(t) \/ RouteFails(t) \/ Connects(t) \/ EgressStep(t)
               \/ IngressStep(t) \/ Kill(t) \/ FinishUdp(t)

Next ==
    \/ \E k \in Keys : AppStep(k)
    \/ DriverStep
    \/ \E h \in Slots : TimerExpires(h)
    \/ \E t \in Tasks : TaskStep(t)
    \/ NetstackDrop

CanDrive ==
    driver.at = "notify" \/ (driver.at = "sleep" /\ (driver.kicked \/ \E h \in Slots : socket[h].due))
CanEgress(t) ==
    Relays(t, "udp") /\ ((task[t].egress = "send" /\ ~load.stalls) \/ (task[t].egress = "recv" /\ Of(t).from # <<>>) \/ EgressIdle(t))
CanIngress(t) ==
    Relays(t, "udp") /\ (task[t].ingress = "recv" \/ (task[t].ingress = "send" /\ CanSend(Of(t))))
CanFinish(t) == At(t, "end") /\ task[t].key.proto = "udp"

\* The runtime schedules the driver and the loops of a UDP task, and clocks
\* run: weak fairness, with the guards in place of ENABLED.  No application
\* has to do anything and no outbound has to answer; sess.send has no timeout
\* and returns in time only if the outbound is not a stream that may stall.
Fairness ==
    /\ []<>~CanDrive \/ []<><<DriverStep>>_vars
    /\ \A h \in Slots : []<>~(alive /\ Expires(h)) \/ []<><<TimerExpires(h)>>_vars
    /\ \A t \in Tasks : /\ []<>~CanEgress(t) \/ []<><<EgressStep(t)>>_vars
                        /\ []<>~CanIngress(t) \/ []<><<IngressStep(t)>>_vars
                        /\ []<>~CanFinish(t) \/ []<><<FinishUdp(t)>>_vars

Spec == Init /\ [][Next]_vars /\ Fairness

(***************************************************************************)
(* Properties.                                                             *)
(***************************************************************************)
Sockets == [proto : {"free", "tcp", "udp"}, st : States, dst : {k.dst : k \in Keys} \cup {"none"},
            peer : Keys \cup {NoKey}, inc : Nat, rst : BOOLEAN, due : BOOLEAN,
            from : Seq(Keys), tx : 0..Meta]
Apps == [st : {"idle", "syn", "open", "eof", "done", "reset"}, inc : Nat, acked : BOOLEAN,
         fin : BOOLEAN, dark : BOOLEAN, served : BOOLEAN, sends : Nat]
Packet == [key : Keys, flag : {"syn", "ack", "fin", "rst", "data"}, inc : Nat]
Relay == [st : {"none", "enable", "check", "await", "parked", "route", "relay", "end", "gone"},
          key : Keys \cup {NoKey}, h : Nat, woken : BOOLEAN, connected : BOOLEAN,
          down : BOOLEAN, up : BOOLEAN, egress : {"recv", "send", "end"},
          ingress : {"recv", "send", "end"}, pkt : Keys \cup {NoKey}, replies : Nat]

\* Every variable has its type; the buffers and the device keep their bounds
\* (netstack.rs UDP_META, SendError::BufferFull).
TypeOK ==
    /\ load \in Loads /\ alive \in BOOLEAN /\ faults \in Nat
    /\ app \in [Keys -> Apps]
    /\ socket \in [Slots -> Sockets]
    /\ \A h \in Slots : Len(socket[h].from) <= Meta
    /\ rx \in Seq(Packet) /\ Len(rx) <= MaxRx
    /\ tcp_seen \subseteq Keys /\ DOMAIN udp_flows \subseteq Keys /\ Range(udp_flows) \subseteq Slots
    /\ abandoned \subseteq Slots /\ relays \subseteq Tasks
    /\ driver \in [at : {"notify", "sleep", "stopped"}, kicked : BOOLEAN]
    /\ task \in [Tasks -> Relay]

\* A slot in use has exactly one owner, a running relay task or the list of
\* abandoned sockets, and holds a socket of the owner's protocol: get::<T>(h)
\* never panics nor reaches the socket of another flow, and no socket with
\* its two 512 KB buffers is left without anyone to remove it.
OneOwner ==
    /\ \A t \in Running : Of(t).proto = task[t].key.proto
    /\ \A t, u \in Running : task[t].h = task[u].h => t = u
    /\ \A h \in abandoned : socket[h].proto = "tcp" /\ \A t \in Running : task[t].h # h
    /\ alive => \A h \in Slots : socket[h].proto # "free" =>
                    h \in abandoned \/ \E t \in Running : task[t].h = h

\* tcp_seen and udp_flows are the flows of the running tasks, each with the
\* task's own socket: a flow that is over is set up again by its next packet.
\* A task that runs is in relays, so that dropping the stack ends it.
FlowTables ==
    /\ Running \subseteq relays
    /\ alive => /\ tcp_seen = {task[t].key : t \in {u \in Running : task[u].key.proto = "tcp"}}
                /\ DOMAIN udp_flows = {task[t].key : t \in {u \in Running : task[u].key.proto = "udp"}}
                /\ \A t \in Running : task[t].key.proto = "udp" => udp_flows[task[t].key] = task[t].h

\* An application that holds its connection for established is never forgotten
\* by the stack: a socket still has it open, or owes it the reset. It holds
\* across the end of the relay, abort, and the removal of abandoned sockets.
NotLeftHanging ==
    alive => \A k \in Keys : app[k].st = "open" /\ ~app[k].dark =>
        \E h \in Slots : /\ socket[h].peer = k /\ socket[h].inc = app[k].inc
                         /\ socket[h].st # "closed" \/ socket[h].rst

\* An application sees the end of the data only if its connection was relayed:
\* one that is blocked or whose outbound did not come up is reset, as the
\* comment in relay_tcp says, and not connected and closed.
EofOnlyIfServed == \A k \in Keys : app[k].st \in {"eof", "done"} => app[k].served

\* wait_established misses no change: a task that sleeps although its socket
\* is Established is about to be woken by the driver.
EstablishedIsNoticed ==
    \A t \in Tasks : At(t, "parked") /\ ~task[t].woken /\ Of(t).st = "established" =>
        driver.at = "notify"

\* The driver never sleeps over work: packets of the device, datagrams and
\* resets to send, abandoned sockets to remove (every change is kicked).
WorkIsNoticed ==
    driver.at = "sleep" /\ ~driver.kicked =>
        /\ rx = <<>>
        /\ \A h \in Slots : socket[h].tx = 0 /\ ~socket[h].rst
        /\ \A h \in abandoned : socket[h].st # "closed"

\* A datagram goes out through a session of the destination it names, whoever
\* of several sources on one destination has the socket that takes it.
RightDestination == \A t \in Tasks : task[t].pkt # NoKey => task[t].pkt.dst = task[t].key.dst

\* A flow of which one direction has ended is removed once the other side is
\* quiet, even if the cancel that should have ended both at once was lost -
\* unless that side is inside a send that its stream does not take: the cancel
\* does not reach it there, and the flow stays in udp_flows (Trojan, VLESS).
HalfEndedFlowEnds ==
    \A t \in Tasks : (Relays(t, "udp") /\ "end" \in {task[t].egress, task[t].ingress})
                        ~> (task[t].st = "gone" \/ (load.stalls /\ task[t].egress = "send"))

\* An abandoned socket whose connection is over, or whose application has
\* vanished, is removed.
AbandonedAreRemoved ==
    \A h \in Slots :
        (alive /\ h \in abandoned /\ (socket[h].st \in {"closed", "last"} \/ app[socket[h].peer].dark))
            ~> (h \notin abandoned \/ ~alive)

\* Every socket is accounted for: it has one owner, the tables name it, and what
\* it receives is for the destination it was made for (though perhaps from
\* another source: sockets of one destination are bound alike).
SocketsAreAccountedFor == TypeOK /\ OneOwner /\ FlowTables /\ RightDestination

\* What an application sees of its connection is what became of it.
ApplicationsAreTold == NotLeftHanging /\ EofOnlyIfServed

\* Neither a relay task nor the driver sleeps over a change it waits for.
NoLostWakeUp == EstablishedIsNoticed /\ WorkIsNoticed

(***************************************************************************)
(* The inductive invariant behind them.  sk and ap are the sockets and the *)
(* applications of a state of the system, or of a moment of a poll.        *)
(***************************************************************************)

\* A socket is one of its protocol: a UDP socket has no connection and the
\* datagrams of its destination, a TCP socket owes a reset only after abort.
SocketOK(s) ==
    /\ s.proto = "free" => s = Free
    /\ s.proto # "free" => s.dst \in {k.dst : k \in Keys}
    /\ s.proto = "udp" =>
         s.st = "listen" /\ \A i \in 1..Len(s.from) : s.from[i].dst = s.dst
    /\ s.proto = "tcp" => s.from = <<>> /\ s.tx = 0
    /\ Len(s.from) <= Meta
    /\ s.st = "listen" => s.peer = NoKey
    /\ s.rst => s.st = "closed" /\ s.peer # NoKey
    /\ s.peer # NoKey => s.proto = "tcp"

\* What a socket knows of its peer: a timer expires only for a peer that has
\* nothing to lose, the end of the data goes to peers that were served, and
\* a peer that waits for the SYN-ACK waits for a socket that will send it.
Linked(s, ap) ==
    s.peer # NoKey =>
        LET a == ap[s.peer]
        IN  /\ s.inc <= a.inc
            /\ s.inc = a.inc =>
                 /\ s.due => a.dark \/ a.st \notin {"syn", "open"}
                 /\ s.st \in {"fin", "last"} => a.served
                 /\ a.st = "syn" => a.dark \/ (s.st = "synrcvd" /\ ~s.due)

\* What a packet on its way says of its sender.
PacketOK(p, ap) ==
    LET a == ap[p.key]
    IN  /\ p.flag = "data" => p.key.proto = "udp"
        /\ p.inc <= a.inc
        /\ p.inc = a.inc =>
             /\ p.flag \in {"ack", "fin"} => a.st \notin {"idle", "syn"}
             /\ p.flag = "rst" => a.st = "reset"

Holds(s, k, a) == s.peer = k /\ s.inc = a.inc /\ (s.st # "closed" \/ s.rst)
NobodyHangs(sk, ap) ==
    \A k \in Keys : ap[k].st = "open" /\ ~ap[k].dark => \E h \in Slots : Holds(sk[h], k, ap[k])
EofServed(ap) == \A k \in Keys : ap[k].st \in {"eof", "done"} => ap[k].served

StackOK(sk, ap) ==
    /\ \A h \in Slots : SocketOK(sk[h]) /\ Linked(sk[h], ap)
    /\ \A i \in 1..Len(rx) : PacketOK(rx[i], ap)
    /\ EofServed(ap)

\* Between polls nobody waits for a SYN-ACK that was not sent.
SynAckSent(s, ap) ==
    s.peer # NoKey /\ s.inc = ap[s.peer].inc => ap[s.peer].dark \/ ap[s.peer].st # "syn"

ConnectionsOK ==
    /\ StackOK(socket, app)
    /\ \A h \in Slots : SynAckSent(socket[h], app)
    /\ alive => NobodyHangs(socket, app)

\* A running task and its socket; at is where the driver is.
TaskOK(r, sk, ap, at) ==
    LET s == sk[r.h]
    IN  /\ r.h \in Slots /\ r.key \in Keys
        /\ s.dst = r.key.dst /\ ~s.rst
        /\ r.pkt # NoKey => r.pkt.dst = r.key.dst
        /\ r.key.proto = "udp" => r.st \in {"route", "relay", "end"}
        /\ r.key.proto = "tcp" /\ (r.st \in {"route", "relay"} \/ r.connected) =>
              /\ s.st \notin {"listen", "synrcvd"}
              /\ r.connected /\ s.peer # NoKey /\ s.inc = ap[s.peer].inc => ap[s.peer].served
        /\ r.st = "relay" => r.connected
        /\ r.st \in {"await", "parked"} /\ ~r.woken /\ s.st = "established" => at = "notify"
TasksOK ==
    /\ \A t \in Running : TaskOK(task[t], socket, app, driver.at)
    /\ \A t \in Tasks : task[t].pkt # NoKey => t \in Running
    /\ \A t, u \in Running : task[t].key = task[u].key => t = u

\* Whatever is to be done is done, or the driver is kicked.
Noticed ==
    driver.at # "stopped" /\ ~driver.kicked =>
        /\ rx = <<>>
        /\ \A h \in Slots : socket[h].tx = 0 /\ ~socket[h].rst
        /\ \A h \in abandoned : socket[h].st # "closed"

\* There is a slot left for every task that is yet to come.
SlotsSuffice ==
    Cardinality({h \in Slots : socket[h].proto # "free"})
        <= Cardinality({t \in Tasks : task[t].st # "none"})

\* Nothing is left of a stack that was dropped.
DroppedIsEmpty ==
    /\ alive <=> driver.at # "stopped"
    /\ ~alive => Running = {} /\ abandoned = {} /\ rx = <<>> /\ \A h \in Slots : socket[h] = Free

IInv ==
    /\ TypeOK
    /\ OneOwner
    /\ FlowTables
    /\ ConnectionsOK
    /\ TasksOK
    /\ Noticed
    /\ SlotsSuffice
    /\ DroppedIsEmpty
=============================================================================

------------------------------ MODULE QuicUdp ------------------------------
(***************************************************************************)
(* The QUIC connection that all clones of a TUIC or Hysteria2 outbound     *)
(* share (tuic/, hysteria2/): the cell its tunnel is kept in, the manager  *)
(* of the UDP flows with its table, and the task that reads the datagrams  *)
(* of the connection and gives each one to its flow.  The operators work   *)
(* on the record of the connection; quinn is external.                     *)
(***************************************************************************)
EXTENDS Packets

CONSTANTS Flows,         \* numbers of the UDP flows, 1..n
          MaxId,         \* the largest id of a flow (u16::MAX, u32::MAX)
          AnswerQueue    \* FLOW_QUEUE of the manager: answers a flow may have waiting

ASSUME QuicUdpAssumption ==
    /\ Flows \subseteq Nat \ {0} /\ IsFiniteSet(Flows)
    /\ MaxId \in Nat \ {0} /\ AnswerQueue \in Nat \ {0}

Nobody == 0
NoAnswer == [to |-> Nobody, id |-> 0, data |-> <<>>]

\* tunnel and udp are the two OnceCells, link says that the connection lives,
\* wait holds the answer the reading task has no room for
Config ==
    [tunnel |-> "none", link |-> FALSE, udp |-> "none", next |-> 1,
     flows |-> [i \in {} |-> Nobody], answers |-> [f \in Flows |-> <<>>],
     reasm |-> [k \in {} |-> NoReplay], wait |-> NoAnswer, air |-> {}]

(***************************************************************************)
(* The tunnel.  Who finds the cell empty brings the connection up and      *)
(* authenticates; whoever comes meanwhile waits for the outcome.           *)
(***************************************************************************)
\* get_or_try_init by who
tunnel(c, who) == IF c.tunnel = "none" THEN [c EXCEPT !.tunnel = who] ELSE c
started(c) == [c EXCEPT !.tunnel = "up", !.link = TRUE]
\* every step of the start has a timeout: it fails and leaves the cell empty
start_failed(c) == [c EXCEPT !.tunnel = "none"]
HasTunnel(c) == c.tunnel = "up"

\* the manager is started over the tunnel, once
udp(c) == [c EXCEPT !.udp = "running"]

ConnectionLost(c) == [c EXCEPT !.link = FALSE]

(***************************************************************************)
(* The table of the flows.  The counter of ids wraps around and an id is   *)
(* given again as soon as the table has it no more, whatever is still      *)
(* under way for the flow that had it.                                     *)
(***************************************************************************)
IdAt(c, i) == (c.next + i) % (MaxId + 1)

\* Defect: the next id is taken without a look at the table
FreeOrNot(c, id) == id # 0

Free(c, id) == id # 0 /\ id \notin DOMAIN c.flows

CanRegister(c) == \E i \in 0..MaxId : Free(c, IdAt(c, i))
FirstFree(c) == CHOOSE i \in 0..MaxId : Free(c, IdAt(c, i)) /\ \A j \in 0..(i - 1) : ~Free(c, IdAt(c, j))
NewId(c) == IdAt(c, FirstFree(c))

register(c, f) ==
    LET id == NewId(c)
    IN  [c EXCEPT !.next = (id + 1) % (MaxId + 1), !.flows = With(@, id, f)]

\* something of a former flow with the id is left: an answer the reading task
\* holds for it, datagrams that have not arrived, fragments of a packet
Leftover(c, id) ==
    \/ c.wait # NoAnswer /\ c.wait.id = id
    \/ \E dg \in c.air : dg.assoc = id
    \/ \E k \in DOMAIN c.reasm : k[1] = id

\* Defect: only the server is told
TellServerOnly(c, id) == c

\* dissociate of TUIC, close of Hysteria2
dissociate(c, id) == [c EXCEPT !.flows = Without(@, {id})]

\* Defect: the lock is held while the answer is handed over
LockedWhileWaiting(c) == c.wait # NoAnswer

\* while the table is locked no flow is entered or removed; the reading task
\* gives the lock back before it waits for the queue of a flow
FlowsLocked(c) == FALSE

(***************************************************************************)
(* Sending and the answers.  The server sends the payload back.            *)
(***************************************************************************)
\* (the packets of a flow are numbered here; the code has one wrapping counter
\* for all flows of the manager, and a packet is found by its number and the id)
CanSend(c, payload) == c.link /\ FragTotal(payload) <= MaxFragments
send(c, id, n, target, payload) ==
    [c EXCEPT !.air = @ \union encode_packets(id, n, Echo(target, payload))]

\* an answer is put into the queue of the flow that has the id, if any
Handed(c, f, data) == [c EXCEPT !.answers[f] = Append(@, data)]
Answer(c, id, data) ==
    IF id \notin DOMAIN c.flows THEN c
    ELSE IF Len(c.answers[c.flows[id]]) < AnswerQueue THEN Handed(c, c.flows[id], data)
    ELSE [c EXCEPT !.wait = [to |-> c.flows[id], id |-> id, data |-> data]]

\* partial packets that are too old are dropped before a fragment is added
Fresh(map, age) == Without(map, {k \in DOMAIN map : map[k].created <= age})

\* one datagram
recv_loop(c, dg, age) ==
    LET arrived == [c EXCEPT !.air = @ \ {dg}]
        r == reassemble(Fresh(c.reasm, age), dg)
    IN  IF ~decode_packet(dg) THEN arrived
        ELSE IF dg.total <= 1 THEN Answer(arrived, dg.assoc, dg.data)
        ELSE IF r.full THEN Answer([arrived EXCEPT !.reasm = r.map], dg.assoc, r.data)
        ELSE [arrived EXCEPT !.reasm = r.map]

\* the queue has room again
HandedLate(c) == [Handed(c, c.wait.to, c.wait.data) EXCEPT !.wait = NoAnswer]
\* the flow ended: what the table has under its id is removed
RemovedLate(c) == [dissociate(c, c.wait.id) EXCEPT !.wait = NoAnswer]
\* the connection is lost: the queues of all flows are closed
loop_ends(c) == [c EXCEPT !.udp = "ended", !.flows = [i \in {} |-> Nobody], !.air = {},
                          !.reasm = [k \in {} |-> NoReplay]]

\* nothing more will come into the queue of the flow
QueueClosed(c, f) ==
    f \notin {c.flows[i] : i \in DOMAIN c.flows} /\ c.wait.to # f
=============================================================================

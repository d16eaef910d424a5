-------------------------- MODULE UdpRelay_proofs --------------------------
(***************************************************************************)
(* Proofs about UdpRelay for every script of datagrams, every number of    *)
(* flows and of ids, every size of a datagram and of a fragment, every     *)
(* bound of a queue and every width of the replay window.                  *)
(*                                                                         *)
(* The first part shows that the tables agree with the flows; the second   *)
(* that what the client is given is genuine and given once.                *)
(***************************************************************************)
EXTENDS UdpRelay, FiniteSetTheorems, SequenceTheorems, TLAPS

(***************************************************************************)
(* Naturals.                                                               *)
(***************************************************************************)
\* A set of naturals has a least element.
LEMMA LeastNatural ==
  ASSUME NEW A \in SUBSET Nat, A # {}
  PROVE  \E m \in A : \A k \in A : m <= k
<1>1. PICK m \in A : \A k \in A : <<k, m>> \notin OpToRel(<, Nat)
  BY WFMin, NatLessThanWellFounded, Zenon
<1>2. \A k \in A : ~(k < m)
  BY <1>1, Zenon DEF OpToRel
<1>3. ASSUME NEW k \in A PROVE m <= k
  <2>1. k \in Nat /\ m \in Nat
    BY <1>1
  <2>2. ~(k < m)
    BY <1>2
  <2> QED BY <2>1, <2>2
<1> QED BY <1>1, <1>3

\* The greatest of naturals that have a bound.
LEMMA MaxIsElement ==
  ASSUME NEW n \in Nat, NEW T \in SUBSET (1 .. n), T # {}
  PROVE  Max(T) \in T
<1> DEFINE A == {n - k : k \in T}
<1>1. A \in SUBSET Nat
  OBVIOUS
<1>a. A # {}
  OBVIOUS
<1>2. PICK m \in A : \A k \in A : m <= k
  <2> HIDE DEF A
  <2> QED BY <1>1, <1>a, LeastNatural
<1>3. PICK x \in T : m = n - x
  BY <1>2
<1>4. ASSUME NEW y \in T PROVE x >= y
  <2>1. n - x <= n - y
    BY <1>2, <1>3
  <2>2. x \in Int /\ y \in Int
    OBVIOUS
  <2> QED BY <2>1, <2>2
<1> QED BY <1>3, <1>4 DEF Max

(***************************************************************************)
(* The values.  IsReasm and IsConn say of which form the map of the        *)
(* partial packets and the record of the connection are.                   *)
(***************************************************************************)
Message == [n : Nat, key : Keys, size : Nat]
Piece == [m : [n : Nat, key : Keys], i : Nat]
Data == Seq(Piece)
AnyPiece == Piece \union {[m |-> <<>>, i |-> 0]}
Cell == [head : BOOLEAN, len : Nat, piece : AnyPiece]
Window == [sid : Nat, highest : Nat, window : SUBSET Nat]
FlowRecord ==
    [st : {"none", "running", "sending", "closing", "ended"}, key : Keys, to : {"none", "client", "here"},
     q : Seq(Message), id : Nat, sent : Nat, part : [len : Int, data : Seq(AnyPiece)],
     cut : BOOLEAN, late : BOOLEAN, replay : Window]
AirOf(k) ==
    IF k = "ss2022" THEN [sid : Nat, pid : Nat, client : Flows, data : Data]
    ELSE IF k = "shadowsocks" THEN [target : Keys, data : Data] ELSE [data : Data]
Datagram == [assoc : Nat, pkt : Nat, total : Nat, frag : Nat, data : Data]
IsSeq(s) == \E S : s \in Seq(S)

IsPartial(e) == e = [total |-> e.total, frags |-> e.frags, created |-> e.created]
IsReasm(map) ==
    /\ map = [k \in DOMAIN map |-> map[k]]
    /\ DOMAIN map \subseteq Nat \X Nat
    /\ IsFiniteSet(DOMAIN map) /\ Cardinality(DOMAIN map) <= MaxReasm
    /\ \A k \in DOMAIN map : IsPartial(map[k])
    /\ \E b \in Nat : \A k \in DOMAIN map : map[k].created \in 1..b
IsConn(c) ==
    /\ c = [tunnel |-> c.tunnel, link |-> c.link, udp |-> c.udp, next |-> c.next,
            flows |-> c.flows, answers |-> c.answers, reasm |-> c.reasm, wait |-> c.wait,
            air |-> c.air]
    /\ c.tunnel \in {"none", "udp", "tcp", "up"} /\ c.link \in BOOLEAN
    /\ c.udp \in {"none", "running", "ended"} /\ c.next \in Nat
    /\ DOMAIN c.flows \subseteq 1..MaxId /\ c.flows \in [DOMAIN c.flows -> Flows]
    /\ c.answers = [f \in Flows |-> c.answers[f]]
    /\ \A f \in Flows : IsSeq(c.answers[f]) /\ Len(c.answers[f]) <= AnswerQueue
    /\ IsReasm(c.reasm)
    /\ c.wait = [to |-> c.wait.to, id |-> c.wait.id, data |-> c.wait.data]
    /\ c.air \subseteq Datagram

\* The partial packets keep their form when some are dropped.
LEMMA WithoutIsReasm ==
  ASSUME NEW map, IsReasm(map), NEW S
  PROVE  IsReasm(Without(map, S)) /\ DOMAIN Without(map, S) = DOMAIN map \ S
<1> DEFINE w == Without(map, S)
<1>1. DOMAIN w = DOMAIN map \ S /\ \A k \in DOMAIN w : w[k] = map[k]
  BY DEF Without
<1>2. IsFiniteSet(DOMAIN map) /\ Cardinality(DOMAIN map) <= MaxReasm
  BY DEF IsReasm
<1>3. IsFiniteSet(DOMAIN w) /\ Cardinality(DOMAIN w) <= MaxReasm
  <2>1. DOMAIN w \subseteq DOMAIN map
    BY <1>1
  <2>2. IsFiniteSet(DOMAIN w) /\ Cardinality(DOMAIN w) <= Cardinality(DOMAIN map)
    BY <2>1, <1>2, FS_Subset
  <2>3. Cardinality(DOMAIN w) \in Nat /\ Cardinality(DOMAIN map) \in Nat
    BY <1>2, <2>2, FS_CardinalityType
  <2> QED BY <2>2, <2>3, <1>2, PacketsAssumption
<1>4. w = [k \in DOMAIN w |-> w[k]]
  BY DEF Without
<1>5. \E b \in Nat : \A k \in DOMAIN w : w[k].created \in 1..b
  <2>1. PICK b \in Nat : \A k \in DOMAIN map : map[k].created \in 1..b
    BY DEF IsReasm
  <2> QED BY <2>1, <1>1
<1>6. DOMAIN w \subseteq Nat \X Nat /\ \A k \in DOMAIN w : IsPartial(w[k])
  BY <1>1 DEF IsReasm
<1> HIDE DEF w
<1>7. IsReasm(w)
  BY <1>3, <1>4, <1>5, <1>6 DEF IsReasm
<1> QED BY <1>7, <1>1 DEF w

\* No partial packets.
LEMMA EmptyIsReasm ==
  IsReasm([k \in {} |-> NoReplay])
<1> DEFINE e == [k \in {} |-> NoReplay]
<1>1. DOMAIN e = {}
  OBVIOUS
<1>2. IsFiniteSet(DOMAIN e) /\ Cardinality(DOMAIN e) = 0
  BY <1>1, FS_EmptySet
<1>3. e = [k \in DOMAIN e |-> e[k]]
  OBVIOUS
<1>4. 0 \in Nat /\ MaxReasm \in Nat
  BY PacketsAssumption
<1> HIDE DEF e
<1>5. IsReasm(e)
  BY <1>1, <1>2, <1>3, <1>4 DEF IsReasm
<1> QED BY <1>5 DEF e

\* A full map gives up one packet.
LEMMA EvictedHasRoom ==
  ASSUME NEW map, IsReasm(map), NEW key
  PROVE  /\ IsReasm(Evicted(map, key))
         /\ DOMAIN Evicted(map, key) \subseteq DOMAIN map
         /\ \A k \in DOMAIN Evicted(map, key) : Evicted(map, key)[k] = map[k]
         /\ key \in DOMAIN map => key \in DOMAIN Evicted(map, key)
         /\ key \in DOMAIN Evicted(map, key) \/ Cardinality(DOMAIN Evicted(map, key)) < MaxReasm
<1>0. IsFiniteSet(DOMAIN map) /\ Cardinality(DOMAIN map) \in Nat /\ Cardinality(DOMAIN map) <= MaxReasm
  BY FS_CardinalityType DEF IsReasm
<1>1. CASE Cardinality(DOMAIN map) >= MaxReasm /\ key \notin DOMAIN map
  <2>1. Evicted(map, key) = Without(map, {Oldest(map)})
    BY <1>1 DEF Evicted
  <2>2. DOMAIN map # {}
    BY <1>1, <1>0, FS_EmptySet, PacketsAssumption
  <2>3. Oldest(map) \in DOMAIN map
    <3>1. PICK b \in Nat : \A k \in DOMAIN map : map[k].created \in 1..b
      BY DEF IsReasm
    <3> DEFINE A == {map[k].created : k \in DOMAIN map}
    <3>2. A \in SUBSET Nat /\ A # {}
      BY <3>1, <2>2
    <3>3. PICK m \in A : \A x \in A : m <= x
      <4> HIDE DEF A
      <4> QED BY <3>2, LeastNatural
    <3>4. PICK k \in DOMAIN map : m = map[k].created
      BY <3>3
    <3>5. \A o \in DOMAIN map : map[k].created <= map[o].created
      BY <3>3, <3>4
    <3> QED BY <3>4, <3>5 DEF Oldest
  <2>4. Cardinality(DOMAIN map \ {Oldest(map)}) = Cardinality(DOMAIN map) - 1
    BY <2>3, <1>0, FS_RemoveElement
  <2>5. DOMAIN Without(map, {Oldest(map)}) = DOMAIN map \ {Oldest(map)}
    BY WithoutIsReasm
  <2>6. Cardinality(DOMAIN Evicted(map, key)) < MaxReasm
    BY <2>1, <2>4, <2>5, <1>0, PacketsAssumption
  <2>7. IsReasm(Evicted(map, key))
    <3>1. IsReasm(Without(map, {Oldest(map)}))
      BY WithoutIsReasm
    <3> QED BY <2>1, <3>1
  <2>8. /\ DOMAIN Evicted(map, key) \subseteq DOMAIN map
        /\ \A k \in DOMAIN Evicted(map, key) : Evicted(map, key)[k] = map[k]
    BY <2>1 DEF Without
  <2> QED BY <2>6, <2>7, <2>8, <1>1
<1>2. CASE ~(Cardinality(DOMAIN map) >= MaxReasm /\ key \notin DOMAIN map)
  <2>1. Evicted(map, key) = map
    BY <1>2 DEF Evicted
  <2> QED BY <2>1, <1>2, <1>0, PacketsAssumption
<1> QED BY <1>1, <1>2

\* A packet is entered where there is room.
LEMMA WithIsReasm ==
  ASSUME NEW map, IsReasm(map), NEW key \in Nat \X Nat, NEW e, IsPartial(e),
         NEW b \in Nat, e.created \in 1..b,
         key \in DOMAIN map \/ Cardinality(DOMAIN map) < MaxReasm
  PROVE  IsReasm(With(map, key, e))
<1> DEFINE w == With(map, key, e)
<1>1. DOMAIN w = DOMAIN map \union {key} /\ \A k \in DOMAIN w : w[k] = IF k = key THEN e ELSE map[k]
  BY DEF With
<1>2. IsFiniteSet(DOMAIN map) /\ Cardinality(DOMAIN map) \in Nat /\ Cardinality(DOMAIN map) <= MaxReasm
  BY FS_CardinalityType DEF IsReasm
<1>3. IsFiniteSet(DOMAIN w) /\ Cardinality(DOMAIN w) <= MaxReasm
  <2>1. CASE key \in DOMAIN map
    <3>1. DOMAIN w = DOMAIN map
      BY <1>1, <2>1
    <3> QED BY <3>1, <1>2
  <2>2. CASE key \notin DOMAIN map
    <3>1. IsFiniteSet(DOMAIN w) /\ Cardinality(DOMAIN w) = Cardinality(DOMAIN map) + 1
      BY <1>1, <1>2, <2>2, FS_AddElement
    <3> QED BY <3>1, <1>2, <2>2, PacketsAssumption
  <2> QED BY <2>1, <2>2
<1>4. w = [k \in DOMAIN w |-> w[k]]
  BY DEF With
<1>5. \E c \in Nat : \A k \in DOMAIN w : w[k].created \in 1..c
  <2>1. PICK d \in Nat : \A k \in DOMAIN map : map[k].created \in 1..d
    BY DEF IsReasm
  <2>2. \A k \in DOMAIN w : w[k].created \in 1..(b + d)
    BY <2>1, <1>1
  <2> QED BY <2>2
<1>6. DOMAIN w \subseteq Nat \X Nat /\ \A k \in DOMAIN w : IsPartial(w[k])
  BY <1>1 DEF IsReasm
<1> HIDE DEF w
<1>7. IsReasm(w)
  BY <1>3, <1>4, <1>5, <1>6 DEF IsReasm
<1> QED BY <1>7 DEF w

\* The packet a fragment belongs to, new or not, has a number in time.
LEMMA EntryIsPartial ==
  ASSUME NEW map, IsReasm(map), NEW dg \in Datagram
  PROVE  IsPartial(Entry(map, dg)) /\ \E b \in Nat : Entry(map, dg).created \in 1..b
<1>1. PICK b \in Nat : \A k \in DOMAIN map : map[k].created \in 1..b
  BY DEF IsReasm
<1>2. CASE PacketKey(dg) \in DOMAIN map
  BY <1>1, <1>2 DEF Entry, IsReasm
<1>3. CASE PacketKey(dg) \notin DOMAIN map
  <2>1. Entry(map, dg) = [total |-> dg.total, frags |-> [i \in {} |-> <<>>], created |-> Stamp(map)]
    BY <1>3 DEF Entry
  <2>2. Stamp(map) \in 1..(b + 1)
    <3>1. CASE DOMAIN map = {}
      BY <3>1 DEF Stamp
    <3>2. CASE DOMAIN map # {}
      <4> DEFINE A == {map[k].created : k \in DOMAIN map}
      <4>1. A \in SUBSET (1..b) /\ A # {}
        BY <1>1, <3>2
      <4>2. Max(A) \in A
        <5> HIDE DEF A
        <5> QED BY <4>1, MaxIsElement
      <4>3. Max(A) \in 1..b
        BY <4>1, <4>2
      <4>4. Stamp(map) = 1 + Max(A)
        BY <3>2 DEF Stamp
      <4> HIDE DEF A
      <4> QED BY <4>3, <4>4
    <3> QED BY <3>1, <3>2
  <2>3. b + 1 \in Nat
    OBVIOUS
  <2> QED BY <2>1, <2>2, <2>3 DEF IsPartial
<1> QED BY <1>2, <1>3

\* The partial packets stay within their bound when a fragment comes.
LEMMA ReassembleIsReasm ==
  ASSUME NEW map, IsReasm(map), NEW dg \in Datagram
  PROVE  IsReasm(reassemble(map, dg).map)
<1> DEFINE key == PacketKey(dg)
           room == Evicted(map, key)
           e == Entry(room, dg)
           next == [e EXCEPT !.frags = Added(@, dg)]
<1>1. IsReasm(room) /\ (key \in DOMAIN room \/ Cardinality(DOMAIN room) < MaxReasm)
  BY EvictedHasRoom
<1>2. IsPartial(e) /\ \E b \in Nat : e.created \in 1..b
  BY <1>1, EntryIsPartial
<1>3. key \in Nat \X Nat
  BY DEF PacketKey, Datagram
<1>4. IsPartial(next) /\ next.created = e.created
  <2> HIDE DEF e
  <2> QED BY <1>2 DEF IsPartial
<1>5. reassemble(map, dg).map \in {With(room, key, e), Without(room, {key}), With(room, key, next)}
  BY DEF reassemble
<1>6. IsReasm(With(room, key, e)) /\ IsReasm(With(room, key, next)) /\ IsReasm(Without(room, {key}))
  <2> HIDE DEF key, room, e, next
  <2>1. PICK b \in Nat : e.created \in 1..b
    BY <1>2
  <2> QED BY <1>1, <1>2, <1>3, <1>4, <2>1, WithIsReasm, WithoutIsReasm
<1> HIDE DEF key, room, e, next
<1> QED BY <1>5, <1>6

(***************************************************************************)
(* What is sent, and what comes back.                                      *)
(***************************************************************************)
\* A payload is a sequence of pieces, and the answer has as many.
LEMMA PayloadIsData ==
  ASSUME NEW m \in Message
  PROVE  Payload(m) \in Data /\ Len(Payload(m)) = m.size
<1>1. m.size \in Nat /\ [n |-> m.n, key |-> m.key] \in [n : Nat, key : Keys]
  BY DEF Message
<1>2. \A i \in 1..m.size : [m |-> [n |-> m.n, key |-> m.key], i |-> i] \in Piece
  BY <1>1 DEF Piece
<1>3. Payload(m) \in [1..m.size -> Piece]
  BY <1>2 DEF Payload, Pieces
<1> HIDE DEF Payload
<1> QED BY <1>1, <1>3 DEF Data

LEMMA EchoIsData ==
  ASSUME NEW k \in Keys, NEW s \in Data
  PROVE  Echo(k, s) \in Data /\ Len(Echo(k, s)) = Len(s)
<1>1. s \in [1..Len(s) -> Piece] /\ Len(s) \in Nat
  BY DEF Data
<1>2. ASSUME NEW i \in 1..Len(s) PROVE [s[i] EXCEPT !.m.key = k] \in Piece
  <2>1. s[i] \in Piece
    BY <1>1
  <2> QED BY <2>1 DEF Piece
<1>3. Echo(k, s) \in [1..Len(s) -> Piece]
  BY <1>1, <1>2 DEF Echo
<1> QED BY <1>1, <1>3 DEF Data

\* The i-th fragment of a payload.
Chunk(s, i) ==
    SubSeq(s, i * MaxDatagram + 1,
           IF (i + 1) * MaxDatagram < Len(s) THEN (i + 1) * MaxDatagram ELSE Len(s))

LEMMA FragTotalIsNat ==
  ASSUME NEW s \in Data
  PROVE  FragTotal(s) \in Nat
<1>1. Len(s) \in Nat /\ MaxDatagram \in Nat \ {0}
  BY PacketsAssumption DEF Data
<1>2. Len(s) + MaxDatagram - 1 \in Nat
  BY <1>1
<1>3. (Len(s) + MaxDatagram - 1) \div MaxDatagram \in Nat
  BY <1>1, <1>2
<1> QED BY <1>3 DEF FragTotal

LEMMA ChunkIsData ==
  ASSUME NEW s \in Data, NEW i \in Nat
  PROVE  Chunk(s, i) \in Data
<1> DEFINE a == i * MaxDatagram
           b == IF (i + 1) * MaxDatagram < Len(s) THEN (i + 1) * MaxDatagram ELSE Len(s)
<1>1. Len(s) \in Nat /\ MaxDatagram \in Nat \ {0}
  BY PacketsAssumption DEF Data
<1>2. a \in Nat /\ (i + 1) * MaxDatagram \in Nat
  BY <1>1
<1>3. b \in Nat /\ b <= Len(s)
  BY <1>1, <1>2
<1>4. \A x \in (a + 1)..b : s[x] \in Piece
  <2> HIDE DEF a, b
  <2> QED BY <1>1, <1>2, <1>3 DEF Data
<1>5. SubSeq(s, a + 1, b) \in Seq(Piece)
  <2> HIDE DEF a, b
  <2> QED BY <1>2, <1>3, <1>4, SubSeqProperties
<1> QED BY <1>5 DEF Chunk, Data

\* The datagrams of a packet are its fragments, or there are none.
LEMMA Encoded ==
  ASSUME NEW a \in Nat, NEW p \in Nat, NEW s \in Data
  PROVE  /\ encode_packets(a, p, s) \subseteq Datagram
         /\ \A dg \in encode_packets(a, p, s) :
              /\ dg.assoc = a /\ dg.pkt = p /\ dg.total = FragTotal(s)
              /\ dg.frag \in 0..(FragTotal(s) - 1) /\ dg.data = Chunk(s, dg.frag)
<1>1. FragTotal(s) \in Nat
  BY FragTotalIsNat
<1>2. encode_packets(a, p, s) =
        IF FragTotal(s) > MaxFragments THEN {}
        ELSE {encode_packet_one(a, p, FragTotal(s), i, Chunk(s, i)) : i \in 0..(FragTotal(s) - 1)}
  BY DEF encode_packets, Chunk
<1>3. ASSUME NEW dg \in encode_packets(a, p, s)
      PROVE  /\ dg \in Datagram
             /\ dg.assoc = a /\ dg.pkt = p /\ dg.total = FragTotal(s)
             /\ dg.frag \in 0..(FragTotal(s) - 1) /\ dg.data = Chunk(s, dg.frag)
  <2>1. PICK i \in 0..(FragTotal(s) - 1) :
          dg = encode_packet_one(a, p, FragTotal(s), i, Chunk(s, i))
    BY <1>2
  <2>2. i \in Nat /\ Chunk(s, i) \in Data
    BY <1>1, <2>1, ChunkIsData
  <2> QED BY <1>1, <2>1, <2>2 DEF encode_packet_one, Datagram
<1> QED BY <1>3

\* The window of Shadowsocks 2022 stays a window.
LEMMA AcceptIsWindow ==
  ASSUME NEW w \in Window, NEW sid \in Nat, NEW pid \in Nat
  PROVE  accept(w, sid, pid).w \in Window /\ accept(w, sid, pid).ok \in BOOLEAN
<1>1. w.highest \in Nat /\ w.window \in SUBSET Nat
  BY DEF Window
<1>2. CASE w.sid # sid
  <2>1. accept(w, sid, pid) = [ok |-> TRUE, w |-> [sid |-> sid, highest |-> pid, window |-> {0}]]
    BY <1>2 DEF accept
  <2> QED BY <2>1 DEF Window
<1>3. CASE w.sid = sid /\ pid > w.highest
  <2> DEFINE new == {0} \union {b + (pid - w.highest) : b \in {x \in w.window : x + (pid - w.highest) < ReplayWindow}}
  <2>1. accept(w, sid, pid) = [ok |-> TRUE, w |-> [w EXCEPT !.highest = pid, !.window = new]]
    BY <1>3 DEF accept
  <2>2. new \in SUBSET Nat
    BY <1>1, <1>3
  <2> HIDE DEF new
  <2>3. [w EXCEPT !.highest = pid, !.window = new] \in Window
    BY <2>2 DEF Window
  <2> QED BY <2>1, <2>3
<1>4. CASE w.sid = sid /\ ~(pid > w.highest)
  <2> DEFINE diff == w.highest - pid
  <2>1. diff \in Nat
    BY <1>1, <1>4
  <2>2. accept(w, sid, pid) =
          IF diff >= ReplayWindow \/ diff \in w.window THEN [ok |-> FALSE, w |-> w]
          ELSE [ok |-> TRUE, w |-> [w EXCEPT !.window = @ \union {diff}]]
    BY <1>4 DEF accept
  <2> HIDE DEF diff
  <2>3. [w EXCEPT !.window = @ \union {diff}] \in Window
    BY <2>1 DEF Window
  <2>4. CASE diff >= ReplayWindow \/ diff \in w.window
    <3>1. accept(w, sid, pid) = [ok |-> FALSE, w |-> w]
      BY <2>2, <2>4
    <3> QED BY <3>1
  <2>5. CASE ~(diff >= ReplayWindow \/ diff \in w.window)
    <3>1. accept(w, sid, pid) = [ok |-> TRUE, w |-> [w EXCEPT !.window = @ \union {diff}]]
      BY <2>2, <2>5
    <3> QED BY <3>1, <2>3
  <2> QED BY <2>4, <2>5
<1> QED BY <1>2, <1>3, <1>4

(***************************************************************************)
(* The tables.  The parts of the invariant take what they are about as     *)
(* parameters: a step that leaves it alone keeps them as they are.         *)
(*                                                                         *)
(* Agree is the heart of it.  While the reading task lives, an entry of    *)
(* the table of the manager names a flow that has not ended, and a flow    *)
(* that did not get its id too early is entered under it, also when it is  *)
(* closing (or the removal of its id could hit another one); no other flow *)
(* has its id, and what waits for a flow waits under an id that no such    *)
(* flow has (or the removal after the wait could hit it).                  *)
(***************************************************************************)
AssocOK(a) ==
    a \in [at : {"open", "routing", "connecting", "closed"}, client : {"none", "client", "here"},
           msg : Message]
CountOK(s, n) ==
    /\ s \in Seq(Inputs)
    /\ n \in [sent : Nat, arrived : Nat, faults : Nat, dials : Nat] /\ n.sent <= Len(s)
FlowOK(fl) == fl \in [Flows -> FlowRecord] /\ \A f \in Flows : Len(fl[f].q) <= FlowQueue
TableOK(t, fl) ==
    /\ t \in [Keys -> Flows \union {Nobody}]
    /\ \A k \in Keys : t[k] # Nobody => fl[t[k]].key = k /\ fl[t[k]].st # "none"
NetOK(k, n) ==
    n \in [air : [Flows -> SUBSET AirOf(k)], wire : [Flows -> Seq(Cell)], sid : Nat]

Alive(r) == r.st \in {"running", "sending", "closing"}
Sure(r) == Alive(r) /\ ~r.late
Alone(fl) == \A f, g \in Flows : Sure(fl[f]) /\ Alive(fl[g]) /\ fl[g].id = fl[f].id => g = f
Entered(fl, flows) ==
    /\ \A i \in DOMAIN flows : Alive(fl[flows[i]]) /\ fl[flows[i]].id = i
    /\ \A f \in Flows : Sure(fl[f]) => fl[f].id \in DOMAIN flows /\ flows[fl[f].id] = f
Awaited(fl, w) == w.to \in Flows /\ \A f \in Flows : Sure(fl[f]) /\ fl[f].id = w.id => f = w.to
Agree(k, fl, c) ==
    /\ k \notin Quic => c.udp = "none" /\ c.tunnel = "none"
    /\ c.udp = "none" => DOMAIN c.flows = {} /\ (k \in Quic => \A f \in Flows : fl[f].st = "none")
    /\ c.udp = "running" => Entered(fl, c.flows) /\ Alone(fl)
    /\ c.wait # NoAnswer => c.udp = "running" /\ Awaited(fl, c.wait)

TablesInv ==
    /\ kind \in Kinds /\ able \in BOOLEAN /\ control \in BOOLEAN
    /\ CountOK(script, count) /\ AssocOK(assoc) /\ FlowOK(flow) /\ TableOK(table, flow)
    /\ NetOK(kind, net) /\ IsConn(quic) /\ Agree(kind, flow, quic)

\* It implies what the run checks.
LEMMA TablesInvImplies ==
  ASSUME TablesInv
  PROVE  TablesAgree
<1>1. /\ script \in Seq(Inputs) /\ kind \in Kinds /\ able \in BOOLEAN /\ control \in BOOLEAN
      /\ assoc.at \in {"open", "routing", "connecting", "closed"}
      /\ assoc.client \in {"none", "client", "here"}
  BY DEF TablesInv, CountOK, AssocOK
<1>2. \A k \in Keys : table[k] = Nobody \/ (table[k] \in Flows /\ flow[table[k]].key = k)
  BY DEF TablesInv, TableOK
<1>3. \A f \in Flows : /\ flow[f].st \in {"none", "running", "sending", "closing", "ended"}
                       /\ Len(flow[f].q) <= FlowQueue
                       /\ Len(quic.answers[f]) <= AnswerQueue
  BY DEF TablesInv, FlowOK, FlowRecord, IsConn
<1>4. \A i \in DOMAIN quic.flows : i \in 1..MaxId /\ quic.flows[i] \in Flows
  BY DEF TablesInv, IsConn
<1>5. Cardinality(DOMAIN quic.reasm) <= MaxReasm
  BY DEF TablesInv, IsConn, IsReasm
<1>6. LiveFlowsAreReachable
  BY DEF TablesInv, Agree, Entered, Sure, Alive, LiveFlowsAreReachable
<1> QED BY <1>1, <1>2, <1>3, <1>4, <1>5, <1>6 DEF TablesAgree, TypeOK

LEMMA Constants ==
  /\ NoFlow \in FlowRecord /\ NoMessage \in Message /\ NoReplay \in Window
  /\ NoFlow.st = "none" /\ NoFlow.q = <<>> /\ NoFlow.part = NoPart /\ ~NoFlow.cut /\ ~NoFlow.late /\ NoFlow.sent = 0
  /\ Nobody \notin Flows
<1>1. PICK k : k \in Keys
  BY UdpRelayAssumption
<1>2. (CHOOSE x \in Keys : TRUE) \in Keys
  BY <1>1
<1>3. NoReplay \in Window
  BY DEF NoReplay, Window
<1>4. NoPart \in [len : Int, data : Seq(AnyPiece)]
  BY DEF NoPart
<1>5. NoMessage \in Message
  BY <1>2 DEF NoMessage, Message
<1>6. NoFlow \in FlowRecord
  BY <1>2, <1>3, <1>4 DEF NoFlow, FlowRecord
<1>7. Nobody \notin Flows
  BY QuicUdpAssumption DEF Nobody
<1> QED BY <1>3, <1>5, <1>6, <1>7 DEF NoFlow

LEMMA TablesInvInit ==
  ASSUME Init
  PROVE  TablesInv
<1>1. script \in Seq(Inputs) /\ kind \in Kinds /\ able \in BOOLEAN /\ control \in BOOLEAN
  BY CasesAssumption DEF Init
<1>2. CountOK(script, count)
  BY <1>1, CasesAssumption DEF Init, CountOK
<1>3. AssocOK(assoc)
  BY Constants DEF Init, AssocOK
<1>4. FlowOK(flow) /\ \A f \in Flows : flow[f] = NoFlow
  BY Constants, UdpRelayAssumption DEF Init, FlowOK
<1>5. TableOK(table, flow)
  BY DEF Init, TableOK
<1>6. NetOK(kind, net)
  BY DEF Init, NetOK
<1>7. quic = Config
  BY DEF Init
<1>8. IsReasm([k \in {} |-> NoReplay])
  BY EmptyIsReasm
<1>9. IsConn(quic)
  <2>1. \A f \in Flows : IsSeq(Config.answers[f]) /\ Len(Config.answers[f]) <= AnswerQueue
    <3>1. <<>> \in Seq(Nat)
      OBVIOUS
    <3> QED BY <3>1, QuicUdpAssumption DEF Config, IsSeq
  <2>2. IsReasm(Config.reasm)
    BY <1>8 DEF Config
  <2>3. Config.wait = [to |-> Config.wait.to, id |-> Config.wait.id, data |-> Config.wait.data]
    BY DEF Config, NoAnswer
  <2>4. DOMAIN Config.flows \subseteq 1..MaxId /\ Config.flows \in [DOMAIN Config.flows -> Flows]
    BY DEF Config
  <2>5. Config.answers = [f \in Flows |-> Config.answers[f]]
    BY DEF Config
  <2>6. /\ Config.tunnel \in {"none", "udp", "tcp", "up"} /\ Config.link \in BOOLEAN
        /\ Config.udp \in {"none", "running", "ended"} /\ Config.next \in Nat
        /\ Config.air \subseteq Datagram
    BY DEF Config
  <2>7. Config = [tunnel |-> Config.tunnel, link |-> Config.link, udp |-> Config.udp,
                  next |-> Config.next, flows |-> Config.flows, answers |-> Config.answers,
                  reasm |-> Config.reasm, wait |-> Config.wait, air |-> Config.air]
    BY DEF Config
  <2> QED BY <1>7, <2>1, <2>2, <2>3, <2>4, <2>5, <2>6, <2>7 DEF IsConn
<1>10. Agree(kind, flow, quic)
  BY <1>4, <1>7, Constants DEF Agree, Config
<1> QED BY <1>1, <1>2, <1>3, <1>4, <1>5, <1>6, <1>9, <1>10 DEF TablesInv

(***************************************************************************)
(* The steps of the shared connection.                                     *)
(***************************************************************************)
\* Its life: what else it holds does not change.
LEMMA LifeOfConn ==
  ASSUME NEW c, IsConn(c), NEW d,
         \/ d = [c EXCEPT !.tunnel = "none"] \/ d = [c EXCEPT !.tunnel = "udp"]
         \/ d = [c EXCEPT !.tunnel = "tcp"] \/ d = [c EXCEPT !.tunnel = "up", !.link = TRUE]
         \/ d = [c EXCEPT !.udp = "running"] \/ d = [c EXCEPT !.link = FALSE]
  PROVE  /\ IsConn(d)
         /\ d.flows = c.flows /\ d.answers = c.answers /\ d.reasm = c.reasm
         /\ d.wait = c.wait /\ d.air = c.air
<1>1. /\ d.flows = c.flows /\ d.answers = c.answers /\ d.reasm = c.reasm
      /\ d.wait = c.wait /\ d.air = c.air /\ d.next = c.next
      /\ d.tunnel \in {"none", "udp", "tcp", "up"} /\ d.link \in BOOLEAN
      /\ d.udp \in {"none", "running", "ended"}
      /\ d = [tunnel |-> d.tunnel, link |-> d.link, udp |-> d.udp, next |-> d.next,
              flows |-> d.flows, answers |-> d.answers, reasm |-> d.reasm, wait |-> d.wait,
              air |-> d.air]
  BY DEF IsConn
<1> QED BY <1>1 DEF IsConn

\* The id of a new flow is free.
LEMMA NewIdIsFree ==
  ASSUME NEW c, IsConn(c), CanRegister(c)
  PROVE  NewId(c) \in 1..MaxId /\ NewId(c) \notin DOMAIN c.flows
<1> DEFINE A == {i \in 0..MaxId : Free(c, IdAt(c, i))}
<1>1. A \in SUBSET Nat /\ A # {}
  BY DEF CanRegister
<1>2. PICK m \in A : \A k \in A : m <= k
  <2> HIDE DEF A
  <2> QED BY <1>1, LeastNatural
<1>3. Free(c, IdAt(c, m)) /\ \A j \in 0..(m - 1) : ~Free(c, IdAt(c, j))
  BY <1>2, QuicUdpAssumption
<1>4. FirstFree(c) \in 0..MaxId /\ Free(c, IdAt(c, FirstFree(c)))
  BY <1>2, <1>3 DEF FirstFree
<1>5. c.next \in Nat /\ MaxId \in Nat
  BY QuicUdpAssumption DEF IsConn
<1>6. NewId(c) \in 0..MaxId
  BY <1>4, <1>5 DEF NewId, IdAt
<1> QED BY <1>4, <1>5, <1>6 DEF NewId, Free

LEMMA RegisterIsConn ==
  ASSUME NEW c, IsConn(c), CanRegister(c), NEW f \in Flows
  PROVE  LET d == register(c, f)
             id == NewId(c)
         IN  /\ IsConn(d)
             /\ d.tunnel = c.tunnel /\ d.link = c.link /\ d.udp = c.udp
             /\ d.answers = c.answers /\ d.wait = c.wait
             /\ d.air = c.air /\ d.reasm = c.reasm
             /\ DOMAIN d.flows = DOMAIN c.flows \union {id} /\ d.flows[id] = f
             /\ \A i \in DOMAIN c.flows : d.flows[i] = c.flows[i]
<1> DEFINE d == register(c, f)
           id == NewId(c)
<1>1. id \in 1..MaxId /\ id \notin DOMAIN c.flows /\ MaxId \in Nat
  BY NewIdIsFree, QuicUdpAssumption
<1>2. /\ d.tunnel = c.tunnel /\ d.link = c.link /\ d.udp = c.udp /\ d.answers = c.answers
      /\ d.wait = c.wait /\ d.next = (id + 1) % (MaxId + 1)
      /\ d.flows = With(c.flows, id, f) /\ d.air = c.air /\ d.reasm = c.reasm
      /\ d = [tunnel |-> d.tunnel, link |-> d.link, udp |-> d.udp, next |-> d.next,
              flows |-> d.flows, answers |-> d.answers, reasm |-> d.reasm, wait |-> d.wait,
              air |-> d.air]
  <2> DEFINE next == (id + 1) % (MaxId + 1)
             flows == With(c.flows, id, f)
  <2>1. d = [c EXCEPT !.next = next, !.flows = flows]
    BY DEF register
  <2> HIDE DEF next, flows, d
  <2>2. d.next = next /\ d.flows = flows
    BY <2>1 DEF IsConn
  <2>3. /\ d.tunnel = c.tunnel /\ d.link = c.link /\ d.udp = c.udp /\ d.answers = c.answers
        /\ d.wait = c.wait /\ d.air = c.air /\ d.reasm = c.reasm
        /\ d = [tunnel |-> d.tunnel, link |-> d.link, udp |-> d.udp, next |-> d.next,
                flows |-> d.flows, answers |-> d.answers, reasm |-> d.reasm, wait |-> d.wait,
                air |-> d.air]
    BY <2>1 DEF IsConn
  <2> QED BY <2>2, <2>3 DEF next, flows
<1>3. /\ DOMAIN d.flows = DOMAIN c.flows \union {id} /\ d.flows[id] = f
      /\ \A i \in DOMAIN c.flows : d.flows[i] = c.flows[i]
      /\ d.flows \in [DOMAIN d.flows -> Flows]
  BY <1>1, <1>2 DEF With, IsConn
<1>4. DOMAIN d.flows \subseteq 1..MaxId
  BY <1>1, <1>3 DEF IsConn
<1>5. d.next \in Nat
  <2> HIDE DEF id, d
  <2> QED BY <1>1, <1>2
<1>6. IsReasm(d.reasm) /\ d.air \subseteq Datagram
  BY <1>2 DEF IsConn
<1> HIDE DEF d, id
<1>7. IsConn(d)
  BY <1>2, <1>3, <1>4, <1>5, <1>6 DEF IsConn
<1> QED BY <1>2, <1>3, <1>7 DEF d, id

LEMMA DissociateIsConn ==
  ASSUME NEW c, IsConn(c), NEW id
  PROVE  LET d == dissociate(c, id)
         IN  /\ IsConn(d)
             /\ d.tunnel = c.tunnel /\ d.link = c.link /\ d.udp = c.udp
             /\ d.answers = c.answers /\ d.wait = c.wait /\ d.air = c.air /\ d.reasm = c.reasm
             /\ DOMAIN d.flows = DOMAIN c.flows \ {id}
             /\ \A i \in DOMAIN d.flows : d.flows[i] = c.flows[i]
<1> DEFINE d == dissociate(c, id)
<1>1. /\ d.tunnel = c.tunnel /\ d.link = c.link /\ d.udp = c.udp /\ d.answers = c.answers
      /\ d.wait = c.wait /\ d.next = c.next /\ d.air = c.air /\ d.reasm = c.reasm
      /\ d.flows = Without(c.flows, {id})
      /\ d = [tunnel |-> d.tunnel, link |-> d.link, udp |-> d.udp, next |-> d.next,
              flows |-> d.flows, answers |-> d.answers, reasm |-> d.reasm, wait |-> d.wait,
              air |-> d.air]
  BY DEF IsConn, dissociate
<1>2. /\ DOMAIN d.flows = DOMAIN c.flows \ {id}
      /\ \A i \in DOMAIN d.flows : d.flows[i] = c.flows[i]
      /\ d.flows \in [DOMAIN d.flows -> Flows]
  BY <1>1 DEF Without, IsConn
<1> HIDE DEF d
<1>3. IsConn(d)
  BY <1>1, <1>2 DEF IsConn
<1> QED BY <1>1, <1>2, <1>3 DEF d

LEMMA SendIsConn ==
  ASSUME NEW c, IsConn(c), NEW id \in Nat, NEW n \in Nat, NEW k \in Keys, NEW s \in Data
  PROVE  LET d == send(c, id, n, k, s)
         IN  /\ IsConn(d)
             /\ d.tunnel = c.tunnel /\ d.link = c.link /\ d.udp = c.udp
             /\ d.answers = c.answers /\ d.wait = c.wait /\ d.reasm = c.reasm /\ d.flows = c.flows
             /\ d.air = c.air \union encode_packets(id, n, Echo(k, s))
<1> DEFINE d == send(c, id, n, k, s)
<1>1. /\ d.tunnel = c.tunnel /\ d.link = c.link /\ d.udp = c.udp /\ d.answers = c.answers
      /\ d.wait = c.wait /\ d.next = c.next /\ d.flows = c.flows /\ d.reasm = c.reasm
      /\ d.air = c.air \union encode_packets(id, n, Echo(k, s))
      /\ d = [tunnel |-> d.tunnel, link |-> d.link, udp |-> d.udp, next |-> d.next,
              flows |-> d.flows, answers |-> d.answers, reasm |-> d.reasm, wait |-> d.wait,
              air |-> d.air]
  <2> DEFINE air == c.air \union encode_packets(id, n, Echo(k, s))
  <2>1. d = [c EXCEPT !.air = air]
    BY DEF send
  <2> HIDE DEF air, d
  <2>2. d.air = air
    BY <2>1 DEF IsConn
  <2> QED BY <2>1, <2>2 DEF IsConn, air
<1>2. encode_packets(id, n, Echo(k, s)) \subseteq Datagram
  BY Encoded, EchoIsData
<1>3. d.air \subseteq Datagram
  BY <1>1, <1>2 DEF IsConn
<1> HIDE DEF d
<1>4. IsConn(d)
  BY <1>1, <1>3 DEF IsConn
<1> QED BY <1>1, <1>4 DEF d

LEMMA Sequences ==
  ASSUME NEW s, IsSeq(s)
  PROVE  /\ Len(s) \in Nat
         /\ \A x : IsSeq(Append(s, x)) /\ Len(Append(s, x)) = Len(s) + 1
         /\ s # <<>> => IsSeq(Tail(s)) /\ Len(Tail(s)) = Len(s) - 1
<1>1. PICK S : s \in Seq(S)
  BY DEF IsSeq
<1>2. ASSUME NEW x PROVE IsSeq(Append(s, x)) /\ Len(Append(s, x)) = Len(s) + 1
  <2>1. s \in Seq(S \union {x}) /\ x \in S \union {x}
    BY <1>1, SeqMonotonic
  <2>2. Append(s, x) \in Seq(S \union {x}) /\ Len(Append(s, x)) = Len(s) + 1
    BY <2>1, AppendProperties
  <2> QED BY <2>2 DEF IsSeq
<1>3. ASSUME s # <<>> PROVE IsSeq(Tail(s)) /\ Len(Tail(s)) = Len(s) - 1
  BY <1>1, <1>3, HeadTailProperties DEF IsSeq
<1>4. Len(s) \in Nat
  BY <1>1, LenProperties
<1> QED BY <1>2, <1>3, <1>4

\* Another queue of answers, another answer that waits, other datagrams under way.
WithAnswers(c, f, s) == [c EXCEPT !.answers[f] = s]
WithWait(c, to, id, x) == [c EXCEPT !.wait = [to |-> to, id |-> id, data |-> x]]
WithAir(c, air, map) == [c EXCEPT !.air = air, !.reasm = map]

LEMMA AnswersIsConn ==
  ASSUME NEW c, IsConn(c), NEW f \in Flows, NEW s, IsSeq(s), Len(s) <= AnswerQueue,
         NEW d, d = WithAnswers(c, f, s)
  PROVE  /\ IsConn(d)
         /\ d.tunnel = c.tunnel /\ d.link = c.link /\ d.udp = c.udp /\ d.flows = c.flows
         /\ d.wait = c.wait /\ d.air = c.air /\ d.reasm = c.reasm
         /\ d.answers[f] = s /\ \A g \in Flows \ {f} : d.answers[g] = c.answers[g]
<1> DEFINE a == [c.answers EXCEPT ![f] = s]
<1>1. d = [c EXCEPT !.answers = a]
  BY DEF WithAnswers
<1>2. a = [g \in Flows |-> a[g]] /\ a[f] = s /\ \A g \in Flows \ {f} : a[g] = c.answers[g]
  BY DEF IsConn
<1> HIDE DEF a
<1>3. d.answers = a
  BY <1>1 DEF IsConn
<1>4. /\ d.tunnel = c.tunnel /\ d.link = c.link /\ d.udp = c.udp /\ d.flows = c.flows
      /\ d.wait = c.wait /\ d.next = c.next /\ d.air = c.air /\ d.reasm = c.reasm
      /\ d = [tunnel |-> d.tunnel, link |-> d.link, udp |-> d.udp, next |-> d.next,
              flows |-> d.flows, answers |-> d.answers, reasm |-> d.reasm, wait |-> d.wait,
              air |-> d.air]
  BY <1>1 DEF IsConn
<1>5. \A g \in Flows : IsSeq(d.answers[g]) /\ Len(d.answers[g]) <= AnswerQueue
  BY <1>2, <1>3 DEF IsConn
<1>6. IsConn(d)
  BY <1>2, <1>3, <1>4, <1>5 DEF IsConn
<1> QED BY <1>2, <1>3, <1>4, <1>6

LEMMA WaitIsConn ==
  ASSUME NEW c, IsConn(c), NEW to, NEW id, NEW x,
         NEW d, d = WithWait(c, to, id, x)
  PROVE  /\ IsConn(d)
         /\ d.tunnel = c.tunnel /\ d.link = c.link /\ d.udp = c.udp /\ d.flows = c.flows
         /\ d.answers = c.answers /\ d.air = c.air /\ d.reasm = c.reasm
         /\ d.wait = [to |-> to, id |-> id, data |-> x]
<1> DEFINE w == [to |-> to, id |-> id, data |-> x]
<1>1. w = [to |-> w.to, id |-> w.id, data |-> w.data]
  OBVIOUS
<1> HIDE DEF w
<1>2. d = [c EXCEPT !.wait = w]
  BY DEF w, WithWait
<1>3. d.wait = w
  BY <1>2 DEF IsConn
<1>4. /\ d.tunnel = c.tunnel /\ d.link = c.link /\ d.udp = c.udp /\ d.flows = c.flows
      /\ d.answers = c.answers /\ d.next = c.next /\ d.air = c.air /\ d.reasm = c.reasm
      /\ d = [tunnel |-> d.tunnel, link |-> d.link, udp |-> d.udp, next |-> d.next,
              flows |-> d.flows, answers |-> d.answers, reasm |-> d.reasm, wait |-> d.wait,
              air |-> d.air]
  BY <1>2 DEF IsConn
<1>5. IsConn(d)
  BY <1>1, <1>3, <1>4 DEF IsConn
<1> QED BY <1>3, <1>4, <1>5 DEF w

LEMMA AirIsConn ==
  ASSUME NEW c, IsConn(c), NEW air, air \subseteq Datagram, NEW map, IsReasm(map),
         NEW d, d = WithAir(c, air, map)
  PROVE  /\ IsConn(d)
         /\ d.tunnel = c.tunnel /\ d.link = c.link /\ d.udp = c.udp /\ d.flows = c.flows
         /\ d.answers = c.answers /\ d.wait = c.wait /\ d.air = air /\ d.reasm = map
<1>1. /\ d.tunnel = c.tunnel /\ d.link = c.link /\ d.udp = c.udp /\ d.flows = c.flows
      /\ d.answers = c.answers /\ d.next = c.next /\ d.wait = c.wait
      /\ d.air = air /\ d.reasm = map
      /\ d = [tunnel |-> d.tunnel, link |-> d.link, udp |-> d.udp, next |-> d.next,
              flows |-> d.flows, answers |-> d.answers, reasm |-> d.reasm, wait |-> d.wait,
              air |-> d.air]
  BY DEF IsConn, WithAir
<1>2. IsConn(d)
  BY <1>1 DEF IsConn
<1> QED BY <1>1, <1>2

\* An answer is lost, goes into the queue of its flow, or waits.
LEMMA AnswerCases ==
  ASSUME NEW c, IsConn(c), NEW id, NEW x
  PROVE  LET d == Answer(c, id, x)
             f == c.flows[id]
         IN  /\ IsConn(d)
             /\ d.tunnel = c.tunnel /\ d.link = c.link /\ d.udp = c.udp /\ d.flows = c.flows
             /\ d.air = c.air /\ d.reasm = c.reasm
             /\ \/ d.answers = c.answers /\ d.wait = c.wait
                \/ /\ id \in DOMAIN c.flows /\ d.wait = c.wait
                   /\ d.answers[f] = Append(c.answers[f], x)
                   /\ \A g \in Flows \ {f} : d.answers[g] = c.answers[g]
                \/ /\ id \in DOMAIN c.flows /\ d.answers = c.answers
                   /\ d.wait = [to |-> f, id |-> id, data |-> x]
<1> DEFINE d == Answer(c, id, x)
           f == c.flows[id]
<1>1. CASE id \notin DOMAIN c.flows
  <2>1. d = c
    BY <1>1 DEF Answer
  <2> QED BY <2>1
<1>2. CASE id \in DOMAIN c.flows /\ Len(c.answers[f]) < AnswerQueue
  <2>1. f \in Flows
    BY <1>2 DEF IsConn
  <2> DEFINE s == Append(c.answers[f], x)
  <2>2. d = WithAnswers(c, f, s)
    BY <1>2 DEF Answer, Handed, WithAnswers
  <2>3. IsSeq(c.answers[f])
    BY <2>1 DEF IsConn
  <2>4. IsSeq(s) /\ Len(s) <= AnswerQueue
    BY <1>2, <2>3, Sequences, QuicUdpAssumption
  <2> HIDE DEF f, s, d
  <2>5. /\ IsConn(d)
        /\ d.tunnel = c.tunnel /\ d.link = c.link /\ d.udp = c.udp /\ d.flows = c.flows
        /\ d.wait = c.wait /\ d.air = c.air /\ d.reasm = c.reasm
        /\ d.answers[f] = s /\ \A g \in Flows \ {f} : d.answers[g] = c.answers[g]
    BY <2>1, <2>2, <2>4, AnswersIsConn
  <2> QED BY <2>5, <1>2 DEF d, f, s
<1>3. CASE id \in DOMAIN c.flows /\ ~(Len(c.answers[f]) < AnswerQueue)
  <2>1. d = WithWait(c, f, id, x)
    BY <1>3 DEF Answer, WithWait
  <2> HIDE DEF f, d
  <2>2. /\ IsConn(d)
        /\ d.tunnel = c.tunnel /\ d.link = c.link /\ d.udp = c.udp /\ d.flows = c.flows
        /\ d.answers = c.answers /\ d.air = c.air /\ d.reasm = c.reasm
        /\ d.wait = [to |-> f, id |-> id, data |-> x]
    BY <2>1, WaitIsConn
  <2> QED BY <2>2, <1>3 DEF d, f
<1> QED BY <1>1, <1>2, <1>3

\* One datagram is read: it is dropped, kept for later, or makes an answer.
LEMMA RecvCases ==
  ASSUME NEW c, IsConn(c), NEW dg \in c.air, NEW age
  PROVE  LET r == reassemble(Fresh(c.reasm, age), dg)
             d == recv_loop(c, dg, age)
             Read(map) == WithAir(c, c.air \ {dg}, map)
         IN  /\ IsReasm(Fresh(c.reasm, age)) /\ IsReasm(r.map)
             /\ \/ ~decode_packet(dg) /\ d = Read(c.reasm)
                \/ decode_packet(dg) /\ dg.total <= 1 /\ d = Answer(Read(c.reasm), dg.assoc, dg.data)
                \/ /\ decode_packet(dg) /\ dg.total > 1 /\ r.full
                   /\ d = Answer(Read(r.map), dg.assoc, r.data)
                \/ decode_packet(dg) /\ dg.total > 1 /\ ~r.full /\ d = Read(r.map)
<1> DEFINE r == reassemble(Fresh(c.reasm, age), dg)
           Read(map) == WithAir(c, c.air \ {dg}, map)
           arrived == [c EXCEPT !.air = @ \ {dg}]
<1>1. IsReasm(c.reasm) /\ dg \in Datagram
  BY DEF IsConn
<1>2. IsReasm(Fresh(c.reasm, age))
  <2>1. IsReasm(Without(c.reasm, {k \in DOMAIN c.reasm : c.reasm[k].created <= age}))
    BY <1>1, WithoutIsReasm
  <2> QED BY <2>1 DEF Fresh
<1>3. IsReasm(r.map)
  BY <1>1, <1>2, ReassembleIsReasm
<1>4. arrived = Read(c.reasm) /\ [arrived EXCEPT !.reasm = r.map] = Read(r.map)
  <2> DEFINE air == c.air \ {dg}
  <2>1. arrived = [c EXCEPT !.air = air] /\ \A map : Read(map) = [c EXCEPT !.air = air, !.reasm = map]
    BY DEF WithAir
  <2> HIDE DEF r
  <2>2. [c EXCEPT !.air = air] = [c EXCEPT !.air = air, !.reasm = c.reasm]
    <3> HIDE DEF air
    <3> QED BY DEF IsConn
  <2>3. [[c EXCEPT !.air = air] EXCEPT !.reasm = r.map] = [c EXCEPT !.air = air, !.reasm = r.map]
    <3> HIDE DEF air
    <3> QED BY DEF IsConn
  <2> QED BY <2>1, <2>2, <2>3
<1>5. recv_loop(c, dg, age) =
        IF ~decode_packet(dg) THEN arrived
        ELSE IF dg.total <= 1 THEN Answer(arrived, dg.assoc, dg.data)
        ELSE IF r.full THEN Answer([arrived EXCEPT !.reasm = r.map], dg.assoc, r.data)
        ELSE [arrived EXCEPT !.reasm = r.map]
  BY DEF recv_loop
<1>6. dg.total \in Nat
  BY <1>1 DEF Datagram
<1> HIDE DEF r, arrived, Read
<1>7. \/ ~decode_packet(dg) /\ recv_loop(c, dg, age) = Read(c.reasm)
      \/ decode_packet(dg) /\ dg.total <= 1 /\ recv_loop(c, dg, age) = Answer(Read(c.reasm), dg.assoc, dg.data)
      \/ decode_packet(dg) /\ dg.total > 1 /\ r.full /\ recv_loop(c, dg, age) = Answer(Read(r.map), dg.assoc, r.data)
      \/ decode_packet(dg) /\ dg.total > 1 /\ ~r.full /\ recv_loop(c, dg, age) = Read(r.map)
  BY <1>4, <1>5, <1>6
<1> QED BY <1>2, <1>3, <1>7 DEF r, Read

(***************************************************************************)
(* The steps of the association and of the flows.                          *)
(***************************************************************************)
\* A flow that goes on, or begins to close, is where it was.
LEMMA FlowGoesOn ==
  ASSUME NEW k, NEW t, NEW fl, NEW fm, NEW c, IsConn(c), TableOK(t, fl), Agree(k, fl, c),
         \A f \in Flows : /\ fm[f].id = fl[f].id /\ fm[f].key = fl[f].key /\ fm[f].late = fl[f].late
                          /\ fm[f].st = fl[f].st \/ (Alive(fl[f]) /\ Alive(fm[f]))
  PROVE  TableOK(t, fm) /\ Agree(k, fm, c)
<1>1. TableOK(t, fm)
  BY DEF TableOK, Alive
<1>2. \A f \in Flows : /\ Alive(fm[f]) <=> Alive(fl[f])
                       /\ Sure(fm[f]) <=> Sure(fl[f])
                       /\ fl[f].st = "none" => fm[f].st = "none"
  BY DEF Alive, Sure
<1>3. \A i \in DOMAIN c.flows : c.flows[i] \in Flows
  BY DEF IsConn
<1>4. (Entered(fl, c.flows) => Entered(fm, c.flows)) /\ (Alone(fl) => Alone(fm))
      /\ (Awaited(fl, c.wait) => Awaited(fm, c.wait))
  BY <1>2, <1>3 DEF Entered, Alone, Awaited
<1>5. Agree(k, fm, c)
  BY <1>2, <1>4 DEF Agree
<1> QED BY <1>1, <1>5

\* A connection that keeps its table keeps what is said of it.
LEMMA ConnGoesOn ==
  ASSUME NEW k, NEW fl, NEW c, NEW d, Agree(k, fl, c),
         d.flows = c.flows /\ d.wait = c.wait,
         k \in Quic \/ d.tunnel = c.tunnel, d.udp = c.udp
  PROVE  Agree(k, fl, d)
BY DEF Agree

LEMMA DatagramArrivesTables ==
  ASSUME TablesInv, DatagramArrives
  PROVE  TablesInv'
<1> DEFINE in == script[count.sent + 1]
           m == [n |-> count.sent + 1, key |-> in.key, size |-> in.size]
           to == table[in.key]
<1>1. script \in Seq(Inputs) /\ count.sent \in Nat /\ count.sent + 1 \in 1..Len(script)
  BY DEF TablesInv, CountOK, DatagramArrives
<1>2. in \in Inputs
  BY <1>1
<1>3. m \in Message /\ in.key \in Keys /\ in.src \in {"client", "here", "there"}
  BY <1>1, <1>2 DEF Inputs, Message
<1>4. CountOK(script', count')
  BY <1>1 DEF TablesInv, CountOK, DatagramArrives, Tick
<1>5. to \in Flows \union {Nobody}
  BY <1>3 DEF TablesInv, TableOK
<1> HIDE DEF in, m
<1>6. CASE ~Admitted(in.src) \/ ~parse_udp_datagram(in.form)
  <2>1. assoc' = [assoc EXCEPT !.client = IF Admitted(in.src) THEN in.src ELSE @] /\ UNCHANGED <<table, flow>>
    BY <1>6 DEF DatagramArrives, in
  <2>2. AssocOK(assoc')
    BY <2>1, <1>3 DEF TablesInv, AssocOK, Admitted
  <2> QED BY <1>4, <2>1, <2>2 DEF TablesInv, DatagramArrives
<1>7. CASE Admitted(in.src) /\ parse_udp_datagram(in.form) /\ try_send(to)
  <2>1. assoc' = [assoc EXCEPT !.client = in.src] /\ UNCHANGED table
        /\ flow' = [flow EXCEPT ![to].q = Append(@, m)]
    BY <1>7 DEF DatagramArrives, in, m
  <2>2. AssocOK(assoc')
    BY <2>1, <1>3, <1>7 DEF TablesInv, AssocOK, Admitted
  <2>3. to \in Flows /\ Len(flow[to].q) < FlowQueue
    BY <1>5, <1>7 DEF try_send
  <2>4. FlowOK(flow')
    <3>1. flow[to].q \in Seq(Message) /\ flow[to] \in FlowRecord
      BY <2>3 DEF TablesInv, FlowOK, FlowRecord
    <3>2. Append(flow[to].q, m) \in Seq(Message) /\ Len(Append(flow[to].q, m)) <= FlowQueue
      BY <3>1, <1>3, <2>3, AppendProperties, UdpRelayAssumption
    <3> HIDE DEF to
    <3>3. [flow[to] EXCEPT !.q = Append(@, m)] \in FlowRecord
      BY <3>1, <3>2 DEF FlowRecord
    <3>4. flow' \in [Flows -> FlowRecord]
      BY <3>3, <2>1 DEF TablesInv, FlowOK
    <3>5. \A f \in Flows : flow'[f].q = IF f = to THEN Append(flow[to].q, m) ELSE flow[f].q
      BY <2>1, <2>3, <3>1 DEF TablesInv, FlowOK, FlowRecord
    <3> QED BY <3>2, <3>4, <3>5 DEF TablesInv, FlowOK
  <2>5. \A f \in Flows : /\ flow'[f].id = flow[f].id /\ flow'[f].key = flow[f].key
                         /\ flow'[f].st = flow[f].st /\ flow'[f].late = flow[f].late
    <3> HIDE DEF to
    <3> QED BY <2>1, <2>3 DEF TablesInv, FlowOK, FlowRecord
  <2>6. TableOK(table, flow') /\ Agree(kind, flow', quic)
    BY <2>5, FlowGoesOn DEF TablesInv
  <2> QED BY <1>4, <2>1, <2>2, <2>4, <2>6 DEF TablesInv, DatagramArrives
<1>8. CASE Admitted(in.src) /\ parse_udp_datagram(in.form) /\ ~try_send(to)
  <2>1. /\ assoc' = [at |-> "routing", client |-> in.src, msg |-> m]
        /\ table' = [table EXCEPT ![in.key] = Nobody] /\ UNCHANGED flow
    BY <1>8 DEF DatagramArrives, in, m
  <2>2. AssocOK(assoc')
    BY <2>1, <1>3, <1>8 DEF TablesInv, AssocOK, Admitted
  <2>3. TableOK(table', flow)
    BY <2>1, <1>3 DEF TablesInv, TableOK
  <2> QED BY <1>4, <2>1, <2>2, <2>3 DEF TablesInv, DatagramArrives
<1> QED BY <1>6, <1>7, <1>8

\* The steps of the loop that touch neither table.
LEMMA DroppedTables ==
  ASSUME TablesInv, Dropped, quic' = quic
  PROVE  TablesInv'
<1>1. AssocOK(assoc')
  BY Constants DEF TablesInv, Dropped, Reopened, AssocOK
<1> QED BY <1>1 DEF TablesInv, Dropped

LEMMA LoopTables ==
  ASSUME TablesInv, RouteConnects \/ ControlCloses \/ AssociationEnds
  PROVE  TablesInv'
<1>1. AssocOK(assoc')
  BY DEF TablesInv, AssocOK, RouteConnects, ControlCloses, AssociationEnds
<1>2. TableOK(table', flow')
  BY DEF TablesInv, TableOK, RouteConnects, ControlCloses, AssociationEnds
<1>3. control' \in BOOLEAN
  BY DEF TablesInv, RouteConnects, ControlCloses, AssociationEnds
<1>4. UNCHANGED <<script, kind, able, flow, quic, net, count>>
  BY DEF RouteConnects, ControlCloses, AssociationEnds
<1> QED BY <1>1, <1>2, <1>3, <1>4 DEF TablesInv

\* A new flow has a number nobody has, and is entered in the association's table.
LEMMA SpawnTables ==
  ASSUME TablesInv, NEW id \in Nat, spawn_flow(id)
  PROVE  /\ AssocOK(assoc') /\ FlowOK(flow') /\ TableOK(table', flow')
         /\ NextFlow \in Flows /\ flow[NextFlow].st = "none"
         /\ flow'[NextFlow] = [NoFlow EXCEPT !.st = "running", !.key = assoc.msg.key, !.to = assoc.client,
                                             !.q = <<assoc.msg>>, !.id = id, !.late = Early(id)]
         /\ flow'[NextFlow].st = "running" /\ flow'[NextFlow].id = id /\ flow'[NextFlow].late = Early(id)
         /\ \A f \in Flows \ {NextFlow} : flow'[f] = flow[f]
<1> DEFINE new == [NoFlow EXCEPT !.st = "running", !.key = assoc.msg.key, !.to = assoc.client,
                                 !.q = <<assoc.msg>>, !.id = id, !.late = Early(id)]
<1>0. AssocOK(assoc')
  BY Constants DEF TablesInv, spawn_flow, Reopened, AssocOK
<1>1. assoc.msg \in Message /\ assoc.msg.key \in Keys /\ assoc.client \in {"none", "client", "here"}
  BY DEF TablesInv, AssocOK, Message
<1>2. <<assoc.msg>> \in Seq(Message) /\ Len(<<assoc.msg>>) = 1
  BY <1>1
<1>a. Early(id) \in BOOLEAN
  BY DEF Early
<1>3. /\ new \in FlowRecord /\ new.st = "running" /\ new.id = id /\ new.key = assoc.msg.key
      /\ Len(new.q) = 1 /\ new.late = Early(id)
  BY <1>1, <1>2, <1>a, Constants DEF FlowRecord
<1> HIDE DEF new
<1>4. NextFlow \in Flows /\ flow[NextFlow].st = "none"
  <2> DEFINE A == {f \in Flows : Unused(f)}
  <2>1. A \in SUBSET Nat /\ A # {}
    BY QuicUdpAssumption DEF spawn_flow
  <2>2. PICK f \in A : \A g \in A : f <= g
    <3> HIDE DEF A
    <3> QED BY <2>1, LeastNatural
  <2>3. \A g \in Flows : g < f => ~Unused(g)
    <3> SUFFICES ASSUME NEW g \in Flows, g < f, Unused(g) PROVE FALSE
      OBVIOUS
    <3>1. f <= g /\ f \in Nat /\ g \in Nat
      BY <2>1, <2>2
    <3> QED BY <3>1
  <2>4. Unused(NextFlow) /\ NextFlow \in Flows
    BY <2>2, <2>3 DEF NextFlow
  <2> QED BY <2>4 DEF Unused
<1>5. flow' = [flow EXCEPT ![NextFlow] = new] /\ table' = [table EXCEPT ![assoc.msg.key] = NextFlow]
  BY DEF spawn_flow, new
<1>6. flow'[NextFlow] = new /\ \A f \in Flows \ {NextFlow} : flow'[f] = flow[f]
  BY <1>4, <1>5 DEF TablesInv, FlowOK
<1>7. FlowOK(flow')
  <2>1. flow' \in [Flows -> FlowRecord]
    BY <1>3, <1>4, <1>5 DEF TablesInv, FlowOK
  <2>2. 1 <= FlowQueue
    BY UdpRelayAssumption
  <2>3. \A f \in Flows : Len(flow'[f].q) <= FlowQueue
    BY <1>3, <1>6, <2>2 DEF TablesInv, FlowOK
  <2> QED BY <2>1, <2>3 DEF FlowOK
<1>8. TableOK(table', flow')
  BY <1>1, <1>3, <1>4, <1>5, <1>6 DEF TablesInv, TableOK
<1> QED BY <1>0, <1>3, <1>4, <1>6, <1>7, <1>8 DEF new

LEMMA SessionOpensTables ==
  ASSUME TablesInv, SessionOpens
  PROVE  TablesInv'
<1>1. spawn_flow(0) /\ kind \notin Quic /\ UNCHANGED <<script, kind, able, control, quic, net, count>>
  BY DEF SessionOpens, Sockets, Streams, Quic
<1>2. AssocOK(assoc') /\ FlowOK(flow') /\ TableOK(table', flow')
  BY <1>1, SpawnTables
<1>3. Agree(kind, flow', quic)
  BY <1>1 DEF TablesInv, Agree, NoAnswer
<1> QED BY <1>1, <1>2, <1>3 DEF TablesInv

\* The id of the new flow is free, so no flow that is sure of its id has it; and
\* if anything else has it, the new flow is not sure of its own.
LEMMA FlowRegistersTables ==
  ASSUME TablesInv, FlowRegisters
  PROVE  TablesInv'
<1>1. CASE ~CanRegister(quic)
  <2>1. Dropped /\ quic' = quic
    BY <1>1 DEF FlowRegisters
  <2> QED BY <2>1, DroppedTables
<1>2. CASE CanRegister(quic)
  <2> DEFINE id == NewId(quic)
             g == NextFlow
  <2>1. /\ spawn_flow(id) /\ quic' = register(quic, g)
        /\ kind \in Quic /\ quic.udp # "none"
        /\ UNCHANGED <<script, kind, able, control, dial, net, got, count>>
    BY <1>2 DEF FlowRegisters
  <2>2. id \in 1..MaxId /\ id \notin DOMAIN quic.flows /\ id \in Nat /\ IsConn(quic)
    BY <1>2, NewIdIsFree, QuicUdpAssumption DEF TablesInv
  <2>3. /\ AssocOK(assoc') /\ FlowOK(flow') /\ TableOK(table', flow')
        /\ g \in Flows /\ flow[g].st = "none" /\ flow'[g].st = "running" /\ flow'[g].id = id
        /\ flow'[g].late = Early(id)
        /\ \A f \in Flows \ {g} : flow'[f] = flow[f]
    BY <2>1, <2>2, SpawnTables
  <2>4. /\ IsConn(quic')
        /\ quic'.tunnel = quic.tunnel /\ quic'.udp = quic.udp /\ quic'.wait = quic.wait
        /\ DOMAIN quic'.flows = DOMAIN quic.flows \union {id} /\ quic'.flows[id] = g
        /\ \A i \in DOMAIN quic.flows : quic'.flows[i] = quic.flows[i]
    BY <1>2, <2>1, <2>2, <2>3, RegisterIsConn
  <2> HIDE DEF id, g
  <2>5. ASSUME quic.udp = "running" PROVE Entered(flow, quic.flows) /\ Alone(flow)
    BY <2>5 DEF TablesInv, Agree
  <2>6. \A i \in DOMAIN quic.flows : quic.flows[i] \in Flows
    BY <2>2 DEF IsConn
  <2>a. Alive(flow'[g]) /\ ~Alive(flow[g]) /\ ~Sure(flow[g]) /\ (Sure(flow'[g]) => ~Early(id))
    BY <2>3 DEF Alive, Sure
  <2>b. ~Early(id) => /\ \A f \in Flows : Alive(flow[f]) => flow[f].id # id
                      /\ quic.wait # NoAnswer => quic.wait.id # id
    BY <2>1 DEF Early, Owns, Alive, Leftover
  <2>7. Agree(kind, flow', quic')
    <3>1. ASSUME quic.udp = "running" PROVE Entered(flow', quic'.flows)
      <4>1. ASSUME NEW i \in DOMAIN quic'.flows
            PROVE  Alive(flow'[quic'.flows[i]]) /\ flow'[quic'.flows[i]].id = i
        <5>1. CASE i = id
          BY <5>1, <2>3, <2>4, <2>a
        <5>2. CASE i # id
          <6>1. i \in DOMAIN quic.flows /\ quic'.flows[i] = quic.flows[i]
            BY <4>1, <5>2, <2>4
          <6>2. Alive(flow[quic.flows[i]]) /\ flow[quic.flows[i]].id = i /\ quic.flows[i] \in Flows
            BY <6>1, <2>5, <3>1, <2>6 DEF Entered
          <6>3. quic.flows[i] # g
            BY <6>2, <2>a
          <6> QED BY <6>1, <6>2, <6>3, <2>3
        <5> QED BY <5>1, <5>2
      <4>2. ASSUME NEW f \in Flows, Sure(flow'[f])
            PROVE  flow'[f].id \in DOMAIN quic'.flows /\ quic'.flows[flow'[f].id] = f
        <5>1. CASE f = g
          BY <5>1, <2>3, <2>4
        <5>2. CASE f # g
          <6>1. flow'[f] = flow[f] /\ Sure(flow[f])
            BY <4>2, <5>2, <2>3
          <6>2. flow[f].id \in DOMAIN quic.flows /\ quic.flows[flow[f].id] = f
            BY <6>1, <2>5, <3>1 DEF Entered
          <6> QED BY <6>1, <6>2, <2>4
        <5> QED BY <5>1, <5>2
      <4> QED BY <4>1, <4>2 DEF Entered
    <3>2. ASSUME quic.udp = "running" PROVE Alone(flow')
      <4> SUFFICES ASSUME NEW f \in Flows, NEW h \in Flows, Sure(flow'[f]), Alive(flow'[h]),
                          flow'[h].id = flow'[f].id
                   PROVE  h = f
        BY DEF Alone
      <4>1. CASE f = g
        <5> SUFFICES ASSUME h # g PROVE FALSE
          BY <4>1
        <5>1. flow'[h] = flow[h] /\ ~Early(id)
          BY <4>1, <2>3, <2>a
        <5> QED BY <5>1, <4>1, <2>3, <2>b
      <4>2. CASE f # g
        <5>1. flow'[f] = flow[f] /\ Sure(flow[f])
          BY <4>2, <2>3
        <5>2. flow[f].id \in DOMAIN quic.flows
          BY <5>1, <2>5, <3>2 DEF Entered
        <5>3. h # g
          BY <5>1, <5>2, <2>2, <2>3
        <5> QED BY <5>1, <5>3, <2>3, <2>5, <3>2 DEF Alone
      <4> QED BY <4>1, <4>2
    <3>3. quic'.wait # NoAnswer => quic'.udp = "running" /\ Awaited(flow', quic'.wait)
      <4> SUFFICES ASSUME quic.wait # NoAnswer
                   PROVE  quic.udp = "running" /\ Awaited(flow', quic.wait)
        BY <2>4
      <4>1. quic.udp = "running" /\ Awaited(flow, quic.wait)
        BY DEF TablesInv, Agree
      <4>2. ASSUME NEW f \in Flows, Sure(flow'[f]), flow'[f].id = quic.wait.id PROVE f = quic.wait.to
        <5>1. f # g
          BY <4>2, <2>3, <2>a, <2>b
        <5> QED BY <5>1, <4>1, <4>2, <2>3 DEF Awaited
      <4> QED BY <4>1, <4>2 DEF Awaited
    <3> QED BY <2>1, <2>4, <3>1, <3>2, <3>3 DEF Agree
  <2> QED BY <2>1, <2>3, <2>4, <2>7 DEF TablesInv
<1> QED BY <1>1, <1>2

\* The life of the tunnel.
LEMMA TunnelTables ==
  ASSUME TablesInv,
         \/ ManagerAsksForTunnel \/ TunnelFails \/ ManagerStarts \/ TunnelStarts \/ ConnectionBreaks
         \/ DialAsksForTunnel \/ DialTunnelFails \/ connect_tcp
  PROVE  TablesInv'
<1>1. AssocOK(assoc') /\ CountOK(script', count')
  <2>1. AssocOK(Reopened)
    BY Constants DEF TablesInv, Reopened, AssocOK
  <2>2. assoc' = assoc \/ assoc' = Reopened
    BY DEF ManagerAsksForTunnel, TunnelFails, ManagerStarts, TunnelStarts, ConnectionBreaks,
           DialAsksForTunnel, DialTunnelFails, connect_tcp, Dropped, Shared
  <2>3. script' = script /\ (count' = count \/ Tick("faults") \/ Tick("dials"))
    BY DEF ManagerAsksForTunnel, TunnelFails, ManagerStarts, TunnelStarts, ConnectionBreaks,
           DialAsksForTunnel, DialTunnelFails, connect_tcp, Dropped, Shared
  <2> QED BY <2>1, <2>2, <2>3 DEF TablesInv, CountOK, Tick
<1>2. /\ UNCHANGED <<script, kind, able, control, table, flow, net>>
      /\ \/ quic' = quic
         \/ quic' = [quic EXCEPT !.tunnel = "none"] /\ quic.tunnel \in {"udp", "tcp"}
         \/ quic' = [quic EXCEPT !.tunnel = "udp"] /\ kind \in Quic
         \/ quic' = [quic EXCEPT !.tunnel = "tcp"] /\ kind \in Quic
         \/ quic' = [quic EXCEPT !.tunnel = "up", !.link = TRUE] /\ quic.tunnel \in {"udp", "tcp"}
         \/ quic' = [quic EXCEPT !.udp = "running"] /\ kind \in Quic /\ quic.udp = "none"
         \/ quic' = [quic EXCEPT !.link = FALSE]
  BY DEF ManagerAsksForTunnel, TunnelFails, ManagerStarts, TunnelStarts, ConnectionBreaks,
         DialAsksForTunnel, DialTunnelFails, connect_tcp, Dropped, Shared, tunnel, start_failed,
         started, udp, ConnectionLost
<1>3. IsConn(quic)
  BY DEF TablesInv
<1>4. CASE quic' = quic
  BY <1>1, <1>2, <1>4 DEF TablesInv
<1>5. CASE quic' # quic
  <2>1. IsConn(quic') /\ quic'.flows = quic.flows /\ quic'.wait = quic.wait
    BY <1>2, <1>3, <1>5, LifeOfConn
  <2>2. quic'.udp = quic.udp \/ (kind \in Quic /\ quic.udp = "none" /\ quic'.udp = "running")
    BY <1>2, <1>3 DEF IsConn
  <2>3. kind \in Quic \/ quic'.tunnel = quic.tunnel
    <3>1. kind \notin Quic => quic.tunnel = "none"
      BY DEF TablesInv, Agree
    <3> QED BY <1>2, <1>3, <3>1 DEF IsConn
  <2>4. Agree(kind, flow, quic')
    <3>1. CASE quic'.udp = quic.udp
      BY <2>1, <2>3, <3>1 DEF TablesInv, Agree
    <3>2. CASE kind \in Quic /\ quic.udp = "none" /\ quic'.udp = "running"
      <4>1. DOMAIN quic'.flows = {} /\ \A f \in Flows : ~Alive(flow[f]) /\ ~Sure(flow[f])
        BY <2>1, <3>2 DEF TablesInv, Agree, Alive, Sure
      <4>2. Entered(flow, quic'.flows) /\ Alone(flow)
        BY <4>1 DEF Entered, Alone
      <4> QED BY <2>1, <3>2, <4>2 DEF TablesInv, Agree
    <3> QED BY <2>2, <3>1, <3>2
  <2> QED BY <1>1, <1>2, <2>1, <2>4 DEF TablesInv
<1> QED BY <1>4, <1>5

\* A task changes its own flow, and sends in its own name.
LEMMA TaskSendsTables ==
  ASSUME TablesInv, NEW f \in Flows, TaskSends(f)
  PROVE  TablesInv'
<1> DEFINE m == Head(flow[f].q)
           r == flow[f]
           k == flow[f].key
           x == Echo(k, Payload(m))
<1>1. /\ r \in FlowRecord /\ r.q \in Seq(Message) /\ r.q # <<>> /\ k \in Keys /\ r.id \in Nat
      /\ r.sent \in Nat /\ r.st = "running" /\ Len(r.q) <= FlowQueue
  BY DEF TablesInv, FlowOK, FlowRecord, TaskSends
<1>2. m \in Message /\ Tail(r.q) \in Seq(Message) /\ Len(Tail(r.q)) <= FlowQueue
  <2>1. /\ Head(r.q) \in Message /\ Tail(r.q) \in Seq(Message) /\ Len(Tail(r.q)) = Len(r.q) - 1
    BY <1>1, HeadTailProperties
  <2> HIDE DEF r
  <2>2. m \in Message
    BY <2>1 DEF r
  <2>3. Len(r.q) \in Nat /\ FlowQueue \in Nat
    BY <1>1, UdpRelayAssumption
  <2> QED BY <1>1, <2>1, <2>2, <2>3
<1>3. Payload(m) \in Data /\ x \in Data
  BY <1>1, <1>2, PayloadIsData, EchoIsData
<1>4. \E s \in {"running", "sending", "closing"}, c \in BOOLEAN :
        flow' = [flow EXCEPT ![f] = [r EXCEPT !.q = Tail(@), !.st = s, !.part = NoPart, !.cut = c, !.sent = @ + 1]]
  <2>1. r.cut \in BOOLEAN
    BY <1>1 DEF FlowRecord
  <2> DEFINE ok == kind \notin Quic \/ (able /\ CanSend(quic, Payload(m)))
             s == IF ~ok THEN "closing" ELSE IF kind \in Streams THEN "sending" ELSE r.st
             c == r.cut \/ flow[f].part # NoPart
  <2>2. s \in {"running", "sending", "closing"} /\ c \in BOOLEAN
    <3> HIDE DEF ok
    <3> QED BY <1>1, <2>1
  <2>3. flow' = [flow EXCEPT ![f] = [r EXCEPT !.q = Tail(@), !.st = s, !.part = NoPart, !.cut = c, !.sent = @ + 1]]
    BY <1>1 DEF TaskSends
  <2> QED BY <2>2, <2>3
<1> HIDE DEF m, r, k, x
<1>5. PICK s \in {"running", "sending", "closing"}, c \in BOOLEAN :
        flow' = [flow EXCEPT ![f] = [r EXCEPT !.q = Tail(@), !.st = s, !.part = NoPart, !.cut = c, !.sent = @ + 1]]
  BY <1>4
<1> DEFINE new == [r EXCEPT !.q = Tail(@), !.st = s, !.part = NoPart, !.cut = c, !.sent = @ + 1]
<1>6. /\ new \in FlowRecord /\ new.q = Tail(r.q) /\ new.st = s /\ new.id = r.id /\ new.key = r.key
      /\ new.late = r.late
  <2>1. NoPart \in [len : Int, data : Seq(AnyPiece)]
    BY DEF NoPart
  <2>2. r.sent + 1 \in Nat
    BY <1>1
  <2> QED BY <1>1, <1>2, <2>1, <2>2 DEF FlowRecord
<1> HIDE DEF new
<1>7. flow'[f] = new /\ (\A g \in Flows \ {f} : flow'[g] = flow[g]) /\ flow' \in [Flows -> FlowRecord]
  BY <1>5, <1>6 DEF TablesInv, FlowOK, new
<1>8. FlowOK(flow')
  BY <1>2, <1>6, <1>7 DEF TablesInv, FlowOK
<1>9. TableOK(table, flow') /\ Agree(kind, flow', quic)
  <2>1. \A g \in Flows : /\ flow'[g].id = flow[g].id /\ flow'[g].key = flow[g].key
                         /\ flow'[g].late = flow[g].late
                         /\ flow'[g].st = flow[g].st \/ (Alive(flow[g]) /\ Alive(flow'[g]))
    BY <1>1, <1>5, <1>6, <1>7 DEF r, Alive
  <2> QED BY <2>1, FlowGoesOn DEF TablesInv
<1>10. IsConn(quic') /\ Agree(kind, flow', quic')
  <2>1. CASE quic' = quic
    BY <2>1, <1>9 DEF TablesInv
  <2>2. CASE quic' # quic
    <3>1. quic' = send(quic, r.id, r.sent, k, Payload(m))
      BY <2>2 DEF TaskSends, r, k, m
    <3>2. IsConn(quic)
      BY DEF TablesInv
    <3>3. /\ IsConn(quic') /\ quic'.tunnel = quic.tunnel /\ quic'.udp = quic.udp
          /\ quic'.wait = quic.wait /\ quic'.flows = quic.flows
      <4>1. r.id \in Nat /\ r.sent \in Nat /\ k \in Keys /\ Payload(m) \in Data
        BY <1>1, <1>3
      <4> QED BY <3>1, <3>2, <4>1, SendIsConn
    <3> QED BY <3>3, <1>9, ConnGoesOn
  <2> QED BY <2>1, <2>2
<1>11. NetOK(kind, net')
  <2> DEFINE w == IF kind \in Streams THEN net.wire[f] \o encode_udp_packet(x) ELSE net.wire[f]
  <2>1. ServerAnswers(f, m) \subseteq AirOf(kind)
    <3>1. net.sid \in Nat
      BY DEF TablesInv, NetOK
    <3>2. CASE kind = "direct"
      <4>1. ServerAnswers(f, m) = {[data |-> x]}
        BY <3>2 DEF ServerAnswers, x, k
      <4> QED BY <4>1, <3>2, <1>3 DEF AirOf
    <3>3. CASE kind = "shadowsocks"
      <4>1. ServerAnswers(f, m) = {[target |-> k, data |-> x]}
        BY <3>3 DEF ServerAnswers, encrypt_packet, x, k
      <4> QED BY <4>1, <3>3, <1>1, <1>3 DEF AirOf
    <3>4. CASE kind = "ss2022"
      <4>1. ServerAnswers(f, m) = {[sid |-> net.sid, pid |-> r.sent, client |-> f, data |-> x]}
        BY <3>4 DEF ServerAnswers, request, response, x, k, r
      <4> QED BY <4>1, <3>1, <3>4, <1>1, <1>3 DEF AirOf
    <3>5. CASE kind \notin {"direct", "shadowsocks", "ss2022"}
      BY <3>5 DEF ServerAnswers
    <3> QED BY <3>2, <3>3, <3>4, <3>5
  <2>2. encode_udp_packet(x) \in Seq(Cell)
    <3> DEFINE h == [head |-> TRUE, len |-> Len(x), piece |-> [m |-> <<>>, i |-> 0]]
               t == [i \in 1..Len(x) |-> [head |-> FALSE, len |-> 0, piece |-> x[i]]]
    <3>1. Len(x) \in Nat /\ \A i \in 1..Len(x) : x[i] \in Piece
      BY <1>3 DEF Data
    <3>2. h \in Cell
      BY <3>1 DEF Cell, AnyPiece
    <3>3. \A i \in 1..Len(x) : [head |-> FALSE, len |-> 0, piece |-> x[i]] \in Cell
      BY <3>1 DEF Cell, AnyPiece
    <3>4. t \in Seq(Cell)
      <4>1. t \in [1..Len(x) -> Cell]
        BY <3>3
      <4> HIDE DEF t
      <4> QED BY <4>1, <3>1
    <3>5. <<h>> \in Seq(Cell)
      <4> HIDE DEF h
      <4> QED BY <3>2
    <3>6. encode_udp_packet(x) = <<h>> \o t
      BY DEF encode_udp_packet
    <3> HIDE DEF h, t
    <3> QED BY <3>4, <3>5, <3>6
  <2>3. w \in Seq(Cell)
    <3>1. net.wire[f] \in Seq(Cell)
      BY DEF TablesInv, NetOK
    <3> QED BY <3>1, <2>2
  <2>4. net' = [net EXCEPT !.air[f] = @ \union ServerAnswers(f, m), !.wire[f] = w]
    BY DEF TaskSends, Answered, m, x, k
  <2> HIDE DEF w
  <2> QED BY <2>1, <2>3, <2>4 DEF TablesInv, NetOK
<1> QED BY <1>8, <1>9, <1>10, <1>11 DEF TablesInv, TaskSends

\* One flow gets another record, and is where it was.
Put(fl, f, r) == [fl EXCEPT ![f] = r]
LEMMA PutTables ==
  ASSUME TablesInv, NEW f \in Flows, NEW r \in FlowRecord, flow' = Put(flow, f, r),
         r.q = flow[f].q, r.id = flow[f].id, r.key = flow[f].key, r.late = flow[f].late,
         r.st = flow[f].st \/ (Alive(flow[f]) /\ Alive(r))
  PROVE  /\ FlowOK(flow') /\ TableOK(table, flow') /\ Agree(kind, flow', quic)
         /\ flow'[f] = r /\ \A g \in Flows \ {f} : flow'[g] = flow[g]
<1>1. flow' \in [Flows -> FlowRecord] /\ flow'[f] = r /\ \A g \in Flows \ {f} : flow'[g] = flow[g]
  BY DEF TablesInv, FlowOK, Put
<1>2. FlowOK(flow')
  BY <1>1 DEF TablesInv, FlowOK
<1>3. \A g \in Flows : /\ flow'[g].id = flow[g].id /\ flow'[g].key = flow[g].key
                       /\ flow'[g].late = flow[g].late
                       /\ flow'[g].st = flow[g].st \/ (Alive(flow[g]) /\ Alive(flow'[g]))
  BY <1>1
<1>4. TableOK(table, flow') /\ Agree(kind, flow', quic)
  BY <1>3, FlowGoesOn DEF TablesInv
<1> QED BY <1>1, <1>2, <1>4

LEMMA FlowType ==
  ASSUME TablesInv, NEW f \in Flows
  PROVE  flow[f] \in FlowRecord
BY DEF TablesInv, FlowOK

LEMMA StatusTables ==
  ASSUME TablesInv, NEW f \in Flows, Alive(flow[f]), NEW st \in {"running", "sending", "closing"},
         flow' = [flow EXCEPT ![f].st = st]
  PROVE  FlowOK(flow') /\ TableOK(table, flow') /\ Agree(kind, flow', quic)
<1> DEFINE r == [flow[f] EXCEPT !.st = st]
<1>1. /\ r \in FlowRecord /\ r.q = flow[f].q /\ r.id = flow[f].id /\ r.key = flow[f].key /\ r.st = st
      /\ r.late = flow[f].late
  BY FlowType DEF FlowRecord
<1>2. flow' = Put(flow, f, r)
  BY DEF Put
<1> HIDE DEF r
<1>3. Alive(r)
  BY <1>1 DEF Alive
<1> QED BY <1>1, <1>2, <1>3, PutTables

LEMMA TaskSentTables ==
  ASSUME TablesInv, NEW f \in Flows, TaskSent(f)
  PROVE  TablesInv'
<1>1. Alive(flow[f]) /\ flow' = [flow EXCEPT ![f].st = "running"]
  BY DEF TaskSent, Alive
<1>2. FlowOK(flow') /\ TableOK(table, flow') /\ Agree(kind, flow', quic)
  BY <1>1, StatusTables
<1> QED BY <1>2 DEF TablesInv, TaskSent

LEMMA SocketReceivesTables ==
  ASSUME TablesInv, NEW f \in Flows, SocketReceives(f)
  PROVE  TablesInv'
<1>1. PICK p \in net.air[f] :
        LET d == IF kind = "ss2022" THEN decrypt(f, flow[f].replay, p) ELSE [ok |-> TRUE, w |-> NoReplay]
        IN  flow' = [flow EXCEPT ![f].replay = d.w, ![f].st = IF d.ok THEN @ ELSE "closing"]
  BY DEF SocketReceives
<1> DEFINE d == IF kind = "ss2022" THEN decrypt(f, flow[f].replay, p) ELSE [ok |-> TRUE, w |-> NoReplay]
<1>2. d.w \in Window
  <2>1. CASE kind = "ss2022"
    <3>1. p \in AirOf(kind) /\ flow[f].replay \in Window
      BY FlowType DEF TablesInv, NetOK, FlowRecord
    <3>2. p.sid \in Nat /\ p.pid \in Nat
      BY <2>1, <3>1 DEF AirOf
    <3>3. CASE parse_response_body(f, p)
      <4>1. d = accept(flow[f].replay, p.sid, p.pid)
        BY <2>1, <3>3 DEF decrypt
      <4> QED BY <4>1, <3>1, <3>2, AcceptIsWindow
    <3>4. CASE ~parse_response_body(f, p)
      <4>1. d = [ok |-> FALSE, w |-> flow[f].replay]
        BY <2>1, <3>4 DEF decrypt
      <4> QED BY <4>1, <3>1
    <3> QED BY <3>3, <3>4
  <2>2. CASE kind # "ss2022"
    <3>1. d = [ok |-> TRUE, w |-> NoReplay]
      BY <2>2
    <3> QED BY <3>1, Constants
  <2> QED BY <2>1, <2>2
<1> DEFINE st == IF d.ok THEN flow[f].st ELSE "closing"
           r == [flow[f] EXCEPT !.replay = d.w, !.st = st]
<1>3. flow' = Put(flow, f, r) /\ flow[f].st = "running"
  BY <1>1 DEF Put, SocketReceives
<1> HIDE DEF d
<1>4. st = flow[f].st \/ st = "closing"
  OBVIOUS
<1>a. st \in {"running", "closing"}
  BY <1>3
<1> HIDE DEF st
<1>5. /\ r \in FlowRecord /\ r.q = flow[f].q /\ r.id = flow[f].id /\ r.key = flow[f].key /\ r.st = st
      /\ r.late = flow[f].late
  BY <1>2, <1>a, FlowType DEF FlowRecord
<1> HIDE DEF r
<1>b. Alive(flow[f]) /\ Alive(r)
  BY <1>3, <1>5, <1>a DEF Alive
<1>6. FlowOK(flow') /\ TableOK(table, flow') /\ Agree(kind, flow', quic)
  BY <1>3, <1>5, <1>b, PutTables
<1>7. CountOK(script', count')
  BY DEF TablesInv, CountOK, SocketReceives, Tick
<1> QED BY <1>6, <1>7 DEF TablesInv, SocketReceives

LEMMA StreamReadsTables ==
  ASSUME TablesInv, NEW f \in Flows, StreamReads(f)
  PROVE  TablesInv'
<1>1. flow[f] \in FlowRecord /\ net.wire[f] \in Seq(Cell) /\ net.wire[f] # <<>> /\ flow[f].st = "running"
  BY FlowType DEF TablesInv, NetOK, StreamReads
<1>2. Head(net.wire[f]) \in Cell /\ Tail(net.wire[f]) \in Seq(Cell)
  BY <1>1, HeadTailProperties
<1>3. NetOK(kind, net')
  <2>1. net' = [net EXCEPT !.wire[f] = Tail(@)]
    BY DEF StreamReads
  <2> QED BY <1>2, <2>1 DEF TablesInv, NetOK
<1>4. FlowOK(flow') /\ TableOK(table, flow') /\ Agree(kind, flow', quic)
  <2>1. CASE flow' = [flow EXCEPT ![f].st = "closing"]
    BY <1>1, <2>1, StatusTables DEF Alive
  <2>2. CASE read_udp_packet(f)
    <3> DEFINE c == Head(net.wire[f])
               part == flow[f].part
               Part == [len : Int, data : Seq(AnyPiece)]
               lengths == IF c.head THEN {c.len} ELSE 0..2
               next == IF part = NoPart THEN {[len |-> n, data |-> <<>>] : n \in lengths}
                       ELSE {[part EXCEPT !.data = Append(@, c.piece)]}
    <3>1. part \in Part /\ c.len \in Nat /\ c.piece \in AnyPiece
      BY <1>1, <1>2 DEF FlowRecord, Cell
    <3>2. next \subseteq Part
      <4>1. lengths \subseteq Int
        BY <3>1
      <4>2. CASE part = NoPart
        <5>1. next = {[len |-> n, data |-> <<>>] : n \in lengths}
          BY <4>2
        <5>2. <<>> \in Seq(AnyPiece)
          OBVIOUS
        <5>3. \A n \in Int : [len |-> n, data |-> <<>>] \in Part
          BY <5>2
        <5> HIDE DEF lengths, next, Part
        <5> QED BY <4>1, <5>1, <5>3
      <4>3. CASE part # NoPart
        <5>1. next = {[part EXCEPT !.data = Append(@, c.piece)]}
          BY <4>3
        <5> HIDE DEF lengths, next, part, c
        <5>2. Append(part.data, c.piece) \in Seq(AnyPiece)
          BY <3>1, AppendProperties
        <5> QED BY <3>1, <5>1, <5>2
      <4> QED BY <4>2, <4>3
    <3>3. \E p \in next : flow' = [flow EXCEPT ![f].part = NoPart] \/ flow' = [flow EXCEPT ![f].part = p]
      BY <2>2 DEF read_udp_packet
    <3>4. NoPart \in Part
      BY DEF NoPart
    <3> HIDE DEF next, Part
    <3>5. PICK p \in Part : flow' = [flow EXCEPT ![f].part = p]
      BY <3>2, <3>3, <3>4
    <3> DEFINE r == [flow[f] EXCEPT !.part = p]
    <3>6. flow' = Put(flow, f, r)
      BY <3>5 DEF Put
    <3>7. /\ r \in FlowRecord /\ r.q = flow[f].q /\ r.id = flow[f].id /\ r.key = flow[f].key
          /\ r.st = flow[f].st /\ r.late = flow[f].late
      BY <1>1, <3>5 DEF FlowRecord, Part
    <3> HIDE DEF r
    <3> QED BY <3>6, <3>7, PutTables
  <2> QED BY <2>1, <2>2 DEF StreamReads
<1> QED BY <1>3, <1>4 DEF TablesInv, StreamReads

LEMMA QueueReceivesTables ==
  ASSUME TablesInv, NEW f \in Flows, QueueReceives(f)
  PROVE  TablesInv'
<1>1. CASE quic.answers[f] # <<>>
  <2> DEFINE s == Tail(quic.answers[f])
  <2>1. quic' = WithAnswers(quic, f, s) /\ UNCHANGED flow
    BY <1>1 DEF QueueReceives, WithAnswers
  <2>2. IsConn(quic) /\ IsSeq(quic.answers[f]) /\ Len(quic.answers[f]) <= AnswerQueue
    BY DEF TablesInv, IsConn
  <2>3. IsSeq(s) /\ Len(s) <= AnswerQueue
    BY <1>1, <2>2, Sequences, QuicUdpAssumption
  <2> HIDE DEF s
  <2>4. /\ IsConn(quic') /\ quic'.tunnel = quic.tunnel /\ quic'.udp = quic.udp
        /\ quic'.flows = quic.flows /\ quic'.wait = quic.wait
    BY <2>1, <2>2, <2>3, AnswersIsConn
  <2>5. Agree(kind, flow, quic')
    BY <2>4, ConnGoesOn DEF TablesInv
  <2> QED BY <2>1, <2>4, <2>5 DEF TablesInv, QueueReceives
<1>2. CASE quic.answers[f] = <<>>
  <2>1. flow' = [flow EXCEPT ![f].st = "closing"] /\ UNCHANGED quic /\ flow[f].st = "running"
    BY <1>2 DEF QueueReceives
  <2>2. FlowOK(flow') /\ TableOK(table, flow') /\ Agree(kind, flow', quic)
    BY <2>1, StatusTables DEF Alive
  <2> QED BY <2>1, <2>2 DEF TablesInv, QueueReceives
<1> QED BY <1>1, <1>2

LEMMA ClosesTables ==
  ASSUME TablesInv, NEW f \in Flows, SessionBreaks(f) \/ TaskEnds(f)
  PROVE  TablesInv'
<1>1. FlowOK(flow') /\ TableOK(table, flow') /\ Agree(kind, flow', quic)
  BY StatusTables DEF SessionBreaks, TaskEnds, Alive
<1>2. CountOK(script', count')
  BY DEF TablesInv, CountOK, SessionBreaks, TaskEnds, Tick
<1> QED BY <1>1, <1>2 DEF TablesInv, SessionBreaks, TaskEnds

\* The id that is removed is the flow's own.
LEMMA CloseTables ==
  ASSUME TablesInv, NEW f \in Flows, close(f)
  PROVE  TablesInv'
<1> DEFINE r == [flow[f] EXCEPT !.st = "ended", !.q = <<>>]
<1>1. r \in FlowRecord /\ r.q = <<>> /\ r.id = flow[f].id /\ r.key = flow[f].key /\ r.st = "ended"
  <2>1. <<>> \in Seq(Message) /\ flow[f] \in FlowRecord
    BY FlowType
  <2> QED BY <2>1 DEF FlowRecord
<1>2. flow' = [flow EXCEPT ![f] = r] /\ flow[f].st = "closing"
  BY DEF close
<1> HIDE DEF r
<1>3. flow' \in [Flows -> FlowRecord] /\ flow'[f] = r /\ \A g \in Flows \ {f} : flow'[g] = flow[g]
  BY <1>1, <1>2 DEF TablesInv, FlowOK
<1>4. FlowOK(flow')
  BY <1>1, <1>3, UdpRelayAssumption DEF TablesInv, FlowOK
<1>5. TableOK(table, flow')
  BY <1>1, <1>3 DEF TablesInv, TableOK
<1>6. IsConn(quic)
  BY DEF TablesInv
<1>7. CASE kind \in Quic
  <2>1. quic' = dissociate(quic, flow[f].id)
    BY <1>7 DEF close
  <2>2. /\ IsConn(quic') /\ quic'.tunnel = quic.tunnel /\ quic'.udp = quic.udp /\ quic'.wait = quic.wait
        /\ DOMAIN quic'.flows = DOMAIN quic.flows \ {flow[f].id}
        /\ \A i \in DOMAIN quic'.flows : quic'.flows[i] = quic.flows[i]
    BY <2>1, <1>6, DissociateIsConn
  <2>3. quic.udp # "none"
    BY <1>2, <1>7 DEF TablesInv, Agree
  <2>4. \A i \in DOMAIN quic.flows : quic.flows[i] \in Flows
    BY <1>6 DEF IsConn
  <2>5. Agree(kind, flow', quic')
    <3>a. /\ Alive(flow[f]) /\ ~Alive(flow'[f]) /\ ~Sure(flow'[f])
          /\ \A g \in Flows : Alive(flow'[g]) => g # f /\ Alive(flow[g])
          /\ \A g \in Flows : Sure(flow'[g]) => g # f /\ Sure(flow[g])
          /\ \A g \in Flows : flow'[g].id = flow[g].id
      BY <1>1, <1>2, <1>3 DEF Alive, Sure
    <3>1. ASSUME quic.udp = "running" PROVE Entered(flow', quic'.flows) /\ Alone(flow')
      <4>1. Entered(flow, quic.flows) /\ Alone(flow)
        BY <3>1 DEF TablesInv, Agree
      <4>2. \A i \in DOMAIN quic'.flows : Alive(flow'[quic'.flows[i]]) /\ flow'[quic'.flows[i]].id = i
        BY <4>1, <1>3, <2>2, <2>4 DEF Entered
      <4>3. ASSUME NEW g \in Flows, Sure(flow'[g])
            PROVE  flow'[g].id \in DOMAIN quic'.flows /\ quic'.flows[flow'[g].id] = g
        <5>1. g # f /\ Sure(flow[g]) /\ flow'[g].id = flow[g].id
          BY <3>a, <4>3
        <5>2. flow[g].id # flow[f].id
          BY <3>a, <4>1, <5>1 DEF Alone
        <5>3. flow[g].id \in DOMAIN quic.flows /\ quic.flows[flow[g].id] = g
          BY <4>1, <5>1 DEF Entered
        <5> QED BY <5>1, <5>2, <5>3, <2>2
      <4>4. Alone(flow')
        BY <3>a, <4>1 DEF Alone
      <4> QED BY <4>2, <4>3, <4>4 DEF Entered
    <3>2. quic'.wait # NoAnswer => quic'.udp = "running" /\ Awaited(flow', quic'.wait)
      BY <2>2, <3>a DEF TablesInv, Agree, Awaited
    <3> QED BY <1>7, <2>2, <2>3, <3>1, <3>2 DEF Agree
  <2> QED BY <1>4, <1>5, <2>2, <2>5 DEF TablesInv, close
<1>8. CASE kind \notin Quic
  <2>1. quic' = quic
    BY <1>8 DEF close
  <2>2. Agree(kind, flow', quic)
    BY <1>8 DEF TablesInv, Agree
  <2> QED BY <1>4, <1>5, <2>1, <2>2 DEF TablesInv, close
<1> QED BY <1>7, <1>8

(***************************************************************************)
(* The reading task.                                                       *)
(***************************************************************************)
LEMMA DemuxReadsTables ==
  ASSUME TablesInv, DemuxReads
  PROVE  TablesInv'
<1>1. PICK dg \in quic.air, age \in {0} \union {quic.reasm[k].created : k \in DOMAIN quic.reasm} :
        Shared(recv_loop(quic, dg, age))
  BY DEF DemuxReads
<1>2. UNCHANGED <<script, kind, able, control, assoc, table, flow, net, count>>
  BY <1>1 DEF Shared, DemuxReads
<1>3. IsConn(quic) /\ quic.udp = "running" /\ quic.wait = NoAnswer
  BY DEF TablesInv, DemuxReads
<1> DEFINE r == reassemble(Fresh(quic.reasm, age), dg)
           air == quic.air \ {dg}
<1>4. /\ IsReasm(r.map) /\ IsReasm(quic.reasm) /\ air \subseteq Datagram
      /\ \/ \E map \in {quic.reasm, r.map} : quic' = WithAir(quic, air, map)
         \/ \E map \in {quic.reasm, r.map}, x \in {dg.data, r.data} :
              quic' = Answer(WithAir(quic, air, map), dg.assoc, x)
  <2>1. IsReasm(quic.reasm) /\ air \subseteq Datagram
    BY <1>3 DEF IsConn
  <2> QED BY <2>1, <1>1, <1>3, RecvCases DEF Shared
<1> HIDE DEF r, air
<1>5. PICK map, x : /\ IsReasm(map)
                    /\ \/ quic' = WithAir(quic, air, map)
                       \/ quic' = Answer(WithAir(quic, air, map), dg.assoc, x)
  BY <1>4
<1> DEFINE c == WithAir(quic, air, map)
<1>6. /\ IsConn(c) /\ c.tunnel = quic.tunnel /\ c.udp = quic.udp /\ c.flows = quic.flows /\ c.wait = quic.wait
  BY <1>3, <1>4, <1>5, AirIsConn
<1> HIDE DEF c
<1>7. IsConn(quic') /\ quic'.tunnel = quic.tunnel /\ quic'.udp = quic.udp /\ quic'.flows = quic.flows
      /\ \/ quic'.wait = quic.wait
         \/ /\ dg.assoc \in DOMAIN quic.flows
            /\ quic'.wait = [to |-> quic.flows[dg.assoc], id |-> dg.assoc, data |-> x]
  <2>1. CASE quic' = c
    BY <1>6, <2>1
  <2>2. CASE quic' = Answer(c, dg.assoc, x)
    BY <1>6, <2>2, AnswerCases
  <2> QED BY <1>5, <2>1, <2>2 DEF c
<1>8. Agree(kind, flow, quic')
  <2>1. \A i \in DOMAIN quic.flows : quic.flows[i] \in Flows
    BY <1>3 DEF IsConn
  <2>2. quic'.wait # NoAnswer => Awaited(flow, quic'.wait)
    BY <1>3, <1>7, <2>1 DEF TablesInv, Agree, Entered, Awaited
  <2> QED BY <1>3, <1>7, <2>2 DEF TablesInv, Agree
<1> QED BY <1>2, <1>7, <1>8 DEF TablesInv

\* What is removed after the wait is of no flow that is sure of its id.
LEMMA DemuxHandsOverTables ==
  ASSUME TablesInv, DemuxHandsOver
  PROVE  TablesInv'
<1> DEFINE to == quic.wait.to
<1>1. IsConn(quic) /\ quic.udp = "running" /\ quic.wait # NoAnswer /\ to \in Flows
  BY DEF TablesInv, Agree, Awaited, DemuxHandsOver
<1>2. UNCHANGED <<script, kind, able, control, assoc, table, flow, net, count>>
  BY DEF Shared, DemuxHandsOver
<1>3. /\ IsConn(quic') /\ quic'.tunnel = quic.tunnel /\ quic'.udp = quic.udp /\ quic'.wait = NoAnswer
      /\ DOMAIN quic'.flows \subseteq DOMAIN quic.flows
      /\ \A i \in DOMAIN quic'.flows : quic'.flows[i] = quic.flows[i]
      /\ \A f \in Flows : Sure(flow[f]) /\ flow[f].id \in DOMAIN quic.flows => flow[f].id \in DOMAIN quic'.flows
  <2>1. CASE flow[to].st = "ended"
    <3> DEFINE c == dissociate(quic, quic.wait.id)
    <3>1. quic' = WithWait(c, Nobody, 0, <<>>)
      BY <2>1 DEF DemuxHandsOver, Shared, RemovedLate, WithWait, NoAnswer
    <3>2. /\ IsConn(c) /\ c.tunnel = quic.tunnel /\ c.udp = quic.udp
          /\ DOMAIN c.flows = DOMAIN quic.flows \ {quic.wait.id}
          /\ \A i \in DOMAIN c.flows : c.flows[i] = quic.flows[i]
      BY <1>1, DissociateIsConn
    <3>3. \A f \in Flows : Sure(flow[f]) => flow[f].id # quic.wait.id
      BY <1>1, <2>1 DEF TablesInv, Agree, Awaited, Sure, Alive
    <3> HIDE DEF c
    <3>4. /\ IsConn(quic') /\ quic'.tunnel = c.tunnel /\ quic'.udp = c.udp /\ quic'.flows = c.flows
          /\ quic'.wait = [to |-> Nobody, id |-> 0, data |-> <<>>]
      BY <3>1, <3>2, WaitIsConn
    <3> QED BY <3>2, <3>3, <3>4 DEF NoAnswer
  <2>2. CASE flow[to].st # "ended"
    <3> DEFINE s == Append(quic.answers[to], quic.wait.data)
               c == WithAnswers(quic, to, s)
    <3>1. quic' = WithWait(c, Nobody, 0, <<>>) /\ Len(quic.answers[to]) < AnswerQueue
      BY <2>2 DEF DemuxHandsOver, Shared, HandedLate, Handed, WithWait, WithAnswers, NoAnswer
    <3>2. IsSeq(s) /\ Len(s) <= AnswerQueue
      <4>1. IsSeq(quic.answers[to])
        BY <1>1 DEF IsConn
      <4> QED BY <3>1, <4>1, Sequences, QuicUdpAssumption
    <3> HIDE DEF s, to
    <3>3. IsConn(c) /\ c.tunnel = quic.tunnel /\ c.udp = quic.udp /\ c.flows = quic.flows
      BY <1>1, <3>2, AnswersIsConn
    <3> HIDE DEF c
    <3>4. /\ IsConn(quic') /\ quic'.tunnel = c.tunnel /\ quic'.udp = c.udp /\ quic'.flows = c.flows
          /\ quic'.wait = [to |-> Nobody, id |-> 0, data |-> <<>>]
      BY <3>1, <3>3, WaitIsConn
    <3> QED BY <3>3, <3>4 DEF NoAnswer
  <2> QED BY <2>1, <2>2
<1>4. Entered(flow, quic'.flows)
  BY <1>1, <1>3 DEF TablesInv, Agree, Entered
<1>5. Agree(kind, flow, quic')
  BY <1>1, <1>3, <1>4 DEF TablesInv, Agree
<1> QED BY <1>2, <1>3, <1>5 DEF TablesInv

LEMMA DemuxEndsTables ==
  ASSUME TablesInv, DemuxEnds
  PROVE  /\ TablesInv'
         /\ quic'.answers = quic.answers /\ quic'.wait = quic.wait /\ quic'.air = {}
         /\ DOMAIN quic'.flows = {} /\ DOMAIN quic'.reasm = {} /\ quic'.udp = "ended"
<1> DEFINE none == [i \in {} |-> Nobody]
           map == [k \in {} |-> NoReplay]
<1>1. IsConn(quic) /\ quic.udp = "running" /\ quic.wait = NoAnswer /\ IsReasm(map)
  BY EmptyIsReasm DEF TablesInv, DemuxEnds
<1>2. UNCHANGED <<script, kind, able, control, assoc, table, flow, net, count>>
  BY DEF Shared, DemuxEnds
<1>3. DOMAIN none = {} /\ none \in [{} -> Flows] /\ DOMAIN map = {}
  OBVIOUS
<1>4. quic' = [quic EXCEPT !.udp = "ended", !.flows = none, !.air = {}, !.reasm = map]
  BY DEF DemuxEnds, Shared, loop_ends
<1> HIDE DEF none, map
<1>5. /\ quic'.tunnel = quic.tunnel /\ quic'.link = quic.link /\ quic'.udp = "ended" /\ quic'.flows = none
      /\ quic'.answers = quic.answers /\ quic'.next = quic.next /\ quic'.wait = quic.wait
      /\ quic'.air = {} /\ quic'.reasm = map
      /\ quic' = [tunnel |-> quic'.tunnel, link |-> quic'.link, udp |-> quic'.udp, next |-> quic'.next,
              flows |-> quic'.flows, answers |-> quic'.answers, reasm |-> quic'.reasm, wait |-> quic'.wait,
              air |-> quic'.air]
  BY <1>1, <1>4 DEF IsConn
<1>6. IsConn(quic')
  BY <1>1, <1>3, <1>5 DEF IsConn
<1>7. Agree(kind, flow, quic')
  BY <1>1, <1>5 DEF TablesInv, Agree
<1> QED BY <1>2, <1>3, <1>5, <1>6, <1>7 DEF TablesInv

LEMMA ServerRestartsTables ==
  ASSUME TablesInv, ServerRestarts
  PROVE  TablesInv'
<1>1. NetOK(kind, net')
  BY DEF TablesInv, NetOK, ServerRestarts
<1>2. CountOK(script', count')
  BY DEF TablesInv, CountOK, ServerRestarts, Tick
<1> QED BY <1>1, <1>2 DEF TablesInv, ServerRestarts

LEMMA TablesInvNext ==
  ASSUME TablesInv, [Next]_vars
  PROVE  TablesInv'
<1>1. CASE DatagramArrives
  BY <1>1, DatagramArrivesTables
<1>2. CASE ControlCloses \/ AssociationEnds \/ RouteConnects
  BY <1>2, LoopTables
<1>3. CASE RouteBlocks \/ ConnectFails
  BY <1>3, DroppedTables DEF RouteBlocks, ConnectFails
<1>4. CASE SessionOpens
  BY <1>4, SessionOpensTables
<1>5. CASE FlowRegisters
  BY <1>5, FlowRegistersTables
<1>6. CASE \/ ManagerAsksForTunnel \/ TunnelFails \/ ManagerStarts \/ TunnelStarts \/ ConnectionBreaks
           \/ DialAsksForTunnel \/ DialTunnelFails \/ connect_tcp
  BY <1>6, TunnelTables
<1>7. ASSUME NEW f \in Flows,
             TaskStep(f) \/ TaskSent(f) \/ SocketReceives(f) \/ StreamReads(f) \/ SessionBreaks(f)
      PROVE  TablesInv'
  BY <1>7, TaskSendsTables, TaskSentTables, QueueReceivesTables, ClosesTables, CloseTables, SocketReceivesTables,
     StreamReadsTables DEF TaskStep
<1>8. CASE DemuxReads
  BY <1>8, DemuxReadsTables
<1>9. CASE DemuxHandsOver
  BY <1>9, DemuxHandsOverTables
<1>10. CASE DemuxEnds
  BY <1>10, DemuxEndsTables
<1>11. CASE ServerRestarts
  BY <1>11, ServerRestartsTables
<1>12. CASE UNCHANGED vars
  BY <1>12 DEF TablesInv, vars
<1> QED
  BY <1>1, <1>2, <1>3, <1>4, <1>5, <1>6, <1>7, <1>8, <1>9, <1>10, <1>11, <1>12
  DEF Next, AssociationStep

\* The tables, the queues and the datagrams on their way keep their form, and a
\* flow that lives is the one its id leads to: register, dissociate, the loop of
\* the association and the reading task keep it so.
THEOREM TablesInvHolds ==
  Spec => []TablesInv
<1>1. Init => TablesInv
  BY TablesInvInit
<1>2. TablesInv /\ [Next]_vars => TablesInv'
  BY TablesInvNext
<1> QED BY <1>1, <1>2, PTL DEF Spec

\* The tables of the association and of the manager agree with the flows: the
\* queues keep their bounds, a running flow is found under its id (register and
\* dissociate of the manager, try_send and spawn_flow of the association), if its
\* id was not given to it while something of a former flow was left.
THEOREM TheTablesAgree ==
  Spec => []TablesAgree
<1>1. TablesInv => TablesAgree
  BY TablesInvImplies
<1> QED BY <1>1, TablesInvHolds, PTL

-----------------------------------------------------------------------------
(***************************************************************************)
(* The answers.  H lists for every flow the numbers of the datagrams it    *)
(* was given, in their order; flow[f].sent of them were sent, the queue    *)
(* holds the rest.  No number is given to two flows or twice to one, and   *)
(* what is sent is determined by its number, so that an answer is known by *)
(* its flow f and its place j in H[f].  The invariant says where an answer *)
(* may be on its way - in the air, in a stream, among the fragments, in a  *)
(* queue - and that one which may still be given was not given yet.        *)
(***************************************************************************)
Msg(s, n) == [n |-> n, key |-> s[n].key, size |-> s[n].size]
Said(s, n) == Payload(Msg(s, n))

\* H is the history of the flows: numbers of datagrams up to n.
NumbersOK(s, n, H, fl) ==
    \A f \in Flows : \A j \in 1..Len(H[f]) : H[f][j] \in 1..n /\ s[H[f][j]].key = fl[f].key
QueueOK(s, h, r) ==
    /\ r.sent + Len(r.q) <= Len(h)
    /\ r.st # "ended" => r.sent + Len(r.q) = Len(h)
    /\ r.st = "none" => r = NoFlow
    /\ \A x \in 1..Len(r.q) : r.q[x] = Msg(s, h[r.sent + x])
Apart(H) ==
    \A f, g \in Flows : \A j \in 1..Len(H[f]), k \in 1..Len(H[g]) :
      H[f][j] = H[g][k] => f = g /\ j = k
PendingOK(s, n, H, a) ==
    a.at \in {"routing", "connecting"} =>
      /\ a.msg.n \in 1..n /\ a.msg = Msg(s, a.msg.n)
      /\ \A f \in Flows : \A j \in 1..Len(H[f]) : H[f][j] # a.msg.n
HistOK(s, n, H, fl, a) ==
    /\ H \in [Flows -> Seq(Nat)] /\ NumbersOK(s, n, H, fl)
    /\ \A f \in Flows : QueueOK(s, H[f], fl[f])
    /\ Apart(H) /\ PendingOK(s, n, H, a)

\* What the client was given, and what it was not given yet.
Given(g, x) == \E d \in DOMAIN g : Undisturbed(d) /\ d.data = x
Left(g, x) == x # <<>> => ~Given(g, x)
GotOK(s, n, once, g) ==
    /\ g = [d \in DOMAIN g |-> g[d]]
    /\ \A d \in DOMAIN g : Undisturbed(d) => \E i \in 1..n : s[i].key = d.key /\ d.data = Said(s, i)
    /\ once => \A d \in DOMAIN g : Undisturbed(d) /\ d.data # <<>> => g[d] = 1
UnsentOK(s, H, fl, a, g) ==
    /\ \A f \in Flows : \A j \in (fl[f].sent + 1)..Len(H[f]) : Left(g, Said(s, H[f][j]))
    /\ a.at \in {"routing", "connecting"} => Left(g, Said(s, a.msg.n))

\* Sockets: the packets in the air are answers; a number whose answer was given
\* is one the replay window refuses.
Seen(w, x) ==
    /\ w.sid = 1 /\ x <= w.highest
    /\ w.highest - x >= ReplayWindow \/ w.highest - x \in w.window
AirOK(s, k, H, fl, n) ==
    \A f \in Flows : \A p \in n.air[f] :
      \E j \in 1..fl[f].sent : /\ p.data = Said(s, H[f][j])
                               /\ k = "ss2022" => p.pid = j - 1 /\ p.sid \in 1..n.sid
ReplayOK(s, k, H, fl, n, g) ==
    k = "ss2022" /\ n.sid = 1 =>
      \A f \in Flows : \A j \in 1..fl[f].sent :
        Left(g, Said(s, H[f][j])) \/ Seen(fl[f].replay, j - 1)

\* Streams: unless something was cut, the wire holds what is left of the packets
\* after the r-th, packet j from place at[j] on (a place before 1 was read).
CellAt(x, i) ==
    IF i = 0 THEN [head |-> TRUE, len |-> Len(x), piece |-> [m |-> <<>>, i |-> 0]]
    ELSE [head |-> FALSE, len |-> 0, piece |-> x[i]]
Laid(x, n, wire, r, at) ==
    /\ r \in 0..n /\ at \in [Nat -> Int] /\ at[n + 1] = Len(wire) + 1
    /\ \A j \in (r + 1)..n :
         /\ at[j + 1] = at[j] + 1 + Len(x[j]) /\ at[j + 1] <= Len(wire) + 1
         /\ \A i \in 0..Len(x[j]) : at[j] + i >= 1 => wire[at[j] + i] = CellAt(x[j], i)
Begun(x, n, part, r, at) ==
    IF part = NoPart THEN at[r + 1] = 1
    ELSE /\ r < n /\ part.len = Len(x[r + 1]) /\ Len(part.data) < part.len
         /\ part.data = SubSeq(x[r + 1], 1, Len(part.data)) /\ at[r + 1] + Len(part.data) = 0
Framed(x, n, wire, part, r, at) == Laid(x, n, wire, r, at) /\ Begun(x, n, part, r, at)
WireOK(s, k, H, fl, n, g) ==
    \A f \in Flows :
      IF k \notin Streams THEN n.wire[f] = <<>>
      ELSE ~fl[f].cut => LET x == [j \in 1..fl[f].sent |-> Said(s, H[f][j])]
                         IN  \E r \in Nat, at \in [Nat -> Int] :
                               /\ Framed(x, fl[f].sent, n.wire[f], fl[f].part, r, at)
                               /\ \A j \in (r + 1)..fl[f].sent : Left(g, x[j])

\* QUIC: the fragments in the air and those put together are of answers that
\* were neither given nor queued; no fragment is in both places.
IsFragment(x, total, i, data) ==
    total = FragTotal(x) /\ i \in 0..(total - 1) /\ data = Chunk(x, i)
Queued(c, f, x) == \E i \in 1..Len(c.answers[f]) : c.answers[f][i] = x
Open(c, f, g, x) ==
    x # <<>> => ~Given(g, x) /\ (c.wait.to = f => c.wait.data # x) /\ ~Queued(c, f, x)
InAir(s, H, fl, c, g, f, dg) ==
    LET x == Said(s, H[f][dg.pkt + 1])
    IN  /\ dg.pkt < fl[f].sent /\ Open(c, f, g, x)
        /\ IsFragment(x, dg.total, dg.frag, dg.data)
        /\ PacketKey(dg) \in DOMAIN c.reasm => dg.frag \notin DOMAIN c.reasm[PacketKey(dg)].frags
InPart(s, H, fl, c, g, f, p, e) ==
    LET x == Said(s, H[f][p + 1])
    IN  /\ p < fl[f].sent /\ Open(c, f, g, x)
        /\ e.total = FragTotal(x) /\ e.total > 1
        /\ e.frags = [i \in DOMAIN e.frags |-> e.frags[i]]
        /\ \A i \in DOMAIN e.frags : IsFragment(x, e.total, i, e.frags[i])
PacketsOK(s, H, fl, c, g) ==
    c.udp = "running" => \A id \in DOMAIN c.flows : ~fl[c.flows[id]].late =>
      /\ \A dg \in c.air : dg.assoc = id => InAir(s, H, fl, c, g, c.flows[id], dg)
      /\ \A p \in Nat : <<id, p>> \in DOMAIN c.reasm =>
           InPart(s, H, fl, c, g, c.flows[id], p, c.reasm[<<id, p>>])
AnswersOK(s, H, fl, c, g) ==
    /\ \A f \in Flows : ~fl[f].late => \A i \in 1..Len(c.answers[f]) :
         /\ \E j \in 1..fl[f].sent : c.answers[f][i] = Said(s, H[f][j])
         /\ Left(g, c.answers[f][i])
         /\ \A k \in 1..Len(c.answers[f]) : c.answers[f][k] = c.answers[f][i] => k = i \/ c.answers[f][i] = <<>>
    /\ c.wait # NoAnswer /\ ~fl[c.wait.to].late =>
         /\ \E j \in 1..fl[c.wait.to].sent : c.wait.data = Said(s, H[c.wait.to][j])
         /\ c.wait.data # <<>> => ~Given(g, c.wait.data) /\ ~Queued(c, c.wait.to, c.wait.data)

Once(k, n) == k \notin {"direct", "shadowsocks"} /\ n.sid = 1
UnderWay(s, k, H, fl, n, c, g) ==
    /\ k \in Sockets => AirOK(s, k, H, fl, n) /\ ReplayOK(s, k, H, fl, n, g)
    /\ WireOK(s, k, H, fl, n, g)
    /\ k \in Quic => PacketsOK(s, H, fl, c, g) /\ AnswersOK(s, H, fl, c, g)
AnswersInv(H) ==
    /\ HistOK(script, count.sent, H, flow, assoc) /\ net.sid # 0
    /\ GotOK(script, count.sent, Once(kind, net), got)
    /\ UnsentOK(script, H, flow, assoc, got)
    /\ UnderWay(script, kind, H, flow, net, quic, got)
RepliesInv == \E H \in [Flows -> Seq(Nat)] : AnswersInv(H)

\* It implies what the run checks.
LEMMA RepliesInvImplies ==
  ASSUME RepliesInv
  PROVE  RepliesAreSound
<1>1. PICK H \in [Flows -> Seq(Nat)] : AnswersInv(H)
  BY DEF RepliesInv
<1>2. ASSUME NEW d \in DOMAIN got, Undisturbed(d) PROVE Genuine(d)
  <2>1. PICK n \in 1..count.sent : script[n].key = d.key /\ d.data = Said(script, n)
    BY <1>1, <1>2 DEF AnswersInv, GotOK
  <2>2. Msg(script, n) = [n |-> n, key |-> d.key, size |-> script[n].size]
    BY <2>1 DEF Msg
  <2> QED BY <2>1, <2>2 DEF Genuine, Said
<1>3. DeliveredOnce
  BY <1>1 DEF AnswersInv, GotOK, Once, DeliveredOnce
<1> QED BY <1>2, <1>3 DEF RepliesAreSound, RepliesAreGenuine

\* What was said under a number: pieces that name it, from the destination
\* itself, so that two answers with pieces are told apart.
LEMMA SaidIsData ==
  ASSUME NEW s \in Seq(Inputs), NEW n \in 1..Len(s)
  PROVE  /\ Msg(s, n) \in Message /\ Said(s, n) \in Data /\ s[n].key \in Keys
         /\ Echo(s[n].key, Said(s, n)) = Said(s, n)
         /\ \A m \in 1..Len(s) : Said(s, m) = Said(s, n) /\ Said(s, n) # <<>> => m = n
<1> DEFINE X(i) == [m |-> [n |-> n, key |-> s[n].key], i |-> i]
<1>1. s[n].key \in Keys /\ s[n].size \in Nat /\ n \in Nat /\ \A m \in 1..Len(s) : s[m].size \in Nat
  <2>1. \A m \in 1..Len(s) : s[m] \in Inputs
    OBVIOUS
  <2> QED BY <2>1 DEF Inputs
<1>2. Msg(s, n) \in Message
  BY <1>1 DEF Msg, Message
<1>3. Said(s, n) \in Data
  BY <1>2, PayloadIsData DEF Said
<1>4. \A m \in 1..Len(s) : Said(s, m) = [i \in 1..s[m].size |-> [m |-> [n |-> m, key |-> s[m].key], i |-> i]]
  BY DEF Said, Payload, Msg, Pieces
<1>a. \A m \in 1..Len(s) : /\ DOMAIN Said(s, m) = 1..s[m].size
                           /\ \A i \in 1..s[m].size : Said(s, m)[i] = [m |-> [n |-> m, key |-> s[m].key], i |-> i]
  <2> TAKE m \in 1..Len(s)
  <2>1. Said(s, m) = [i \in 1..s[m].size |-> [m |-> [n |-> m, key |-> s[m].key], i |-> i]]
    BY <1>4
  <2> HIDE DEF Said
  <2> QED BY <2>1
<1>5. Echo(s[n].key, Said(s, n)) = Said(s, n)
  <2>1. Echo(s[n].key, Said(s, n)) = [i \in 1..s[n].size |-> [X(i) EXCEPT !.m.key = s[n].key]]
    BY <1>a DEF Echo
  <2>2. \A i \in 1..s[n].size : [X(i) EXCEPT !.m.key = s[n].key] = X(i)
    OBVIOUS
  <2> QED BY <2>1, <2>2, <1>4
<1>6. ASSUME NEW m \in 1..Len(s), Said(s, m) = Said(s, n), Said(s, n) # <<>> PROVE m = n
  <2>1. s[n].size > 0
    <3> SUFFICES ASSUME s[n].size = 0 PROVE FALSE
      BY <1>1
    <3>1. Len(Said(s, n)) = 0
      BY <1>2, PayloadIsData DEF Said, Msg
    <3> QED BY <3>1, <1>3, <1>6 DEF Data
  <2>2. DOMAIN Said(s, n) = 1..s[n].size /\ DOMAIN Said(s, m) = 1..s[m].size
    BY <1>4
  <2>3. 1 \in 1..s[n].size /\ 1 \in 1..s[m].size
    BY <2>1, <2>2, <1>6, <1>1
  <2>4. Said(s, n)[1].m.n = n /\ Said(s, m)[1].m.n = m
    <3>1. Said(s, n)[1] = [m |-> [n |-> n, key |-> s[n].key], i |-> 1]
      BY <2>3, <1>a
    <3>2. Said(s, m)[1] = [m |-> [n |-> m, key |-> s[m].key], i |-> 1]
      BY <2>3, <1>a
    <3> QED BY <3>1, <3>2
  <2> QED BY <2>4, <1>6
<1> QED BY <1>1, <1>2, <1>3, <1>5, <1>6

\* What is under way stays as it is when the flows keep what they sent and read.
Same(H, fl, K, fm) ==
    \A f \in Flows : /\ fm[f].sent = fl[f].sent /\ fm[f].part = fl[f].part
                     /\ fm[f].cut = fl[f].cut /\ (fl[f].late => fm[f].late) /\ fm[f].replay = fl[f].replay
                     /\ fl[f].sent \in Nat
                     /\ \A j \in 1..fl[f].sent : K[f][j] = H[f][j]
LEMMA SameUnderWay ==
  ASSUME NEW s, NEW k, NEW H, NEW fl, NEW n, NEW c, NEW g, NEW K, NEW fm,
         Same(H, fl, K, fm), UnderWay(s, k, H, fl, n, c, g), IsConn(c), Agree(k, fl, c)
  PROVE  UnderWay(s, k, K, fm, n, c, g)
<1>1. k \in Sockets => AirOK(s, k, K, fm, n) /\ ReplayOK(s, k, K, fm, n, g)
  BY DEF UnderWay, Same, AirOK, ReplayOK
<1>2. WireOK(s, k, K, fm, n, g)
  <2> SUFFICES ASSUME NEW f \in Flows, k \in Streams, ~fm[f].cut
               PROVE  LET x == [j \in 1..fm[f].sent |-> Said(s, K[f][j])]
                      IN  \E r \in Nat, at \in [Nat -> Int] :
                               /\ Framed(x, fm[f].sent, n.wire[f], fm[f].part, r, at)
                               /\ \A j \in (r + 1)..fm[f].sent : Left(g, x[j])
    BY DEF UnderWay, WireOK
  <2>1. fm[f].sent = fl[f].sent /\ fm[f].part = fl[f].part /\ ~fl[f].cut
    BY DEF Same
  <2>2. [j \in 1..fm[f].sent |-> Said(s, K[f][j])] = [j \in 1..fl[f].sent |-> Said(s, H[f][j])]
    BY DEF Same
  <2>3. LET x == [j \in 1..fl[f].sent |-> Said(s, H[f][j])]
        IN  \E r \in Nat, at \in [Nat -> Int] :
                 /\ Framed(x, fl[f].sent, n.wire[f], fl[f].part, r, at)
                 /\ \A j \in (r + 1)..fl[f].sent : Left(g, x[j])
    BY <2>1 DEF UnderWay, WireOK
  <2> QED BY <2>1, <2>2, <2>3
<1>3. ASSUME k \in Quic PROVE PacketsOK(s, K, fm, c, g)
  <2> SUFFICES ASSUME c.udp = "running", NEW id \in DOMAIN c.flows, ~fm[c.flows[id]].late
               PROVE  /\ \A dg \in c.air : dg.assoc = id => InAir(s, K, fm, c, g, c.flows[id], dg)
                      /\ \A p \in Nat : <<id, p>> \in DOMAIN c.reasm =>
                           InPart(s, K, fm, c, g, c.flows[id], p, c.reasm[<<id, p>>])
    BY DEF PacketsOK
  <2> DEFINE f == c.flows[id]
  <2>1. f \in Flows /\ fm[f].sent = fl[f].sent /\ fl[f].sent \in Nat /\ ~fl[f].late
    BY DEF IsConn, Same
  <2>2. \A p \in Nat : p < fl[f].sent => K[f][p + 1] = H[f][p + 1]
    <3> HIDE DEF f
    <3> QED BY <2>1 DEF Same
  <2>3. \A dg \in c.air : dg.pkt \in Nat
    BY DEF IsConn, Datagram
  <2>4. /\ \A dg \in c.air : dg.assoc = id => InAir(s, H, fl, c, g, f, dg)
        /\ \A p \in Nat : <<id, p>> \in DOMAIN c.reasm => InPart(s, H, fl, c, g, f, p, c.reasm[<<id, p>>])
    BY <1>3, <2>1 DEF UnderWay, PacketsOK
  <2> HIDE DEF f
  <2>5. \A dg \in c.air : dg.assoc = id => InAir(s, K, fm, c, g, f, dg)
    BY <2>1, <2>2, <2>3, <2>4 DEF InAir
  <2>6. \A p \in Nat : <<id, p>> \in DOMAIN c.reasm => InPart(s, K, fm, c, g, f, p, c.reasm[<<id, p>>])
    BY <2>1, <2>2, <2>4 DEF InPart
  <2> QED BY <2>5, <2>6 DEF f
<1>4. ASSUME k \in Quic PROVE AnswersOK(s, K, fm, c, g)
  <2>1. c.wait # NoAnswer => c.wait.to \in Flows
    BY DEF Agree, Awaited
  <2> QED BY <1>4, <2>1 DEF UnderWay, AnswersOK, Same
<1> QED BY <1>1, <1>2, <1>3, <1>4 DEF UnderWay

LEMMA RepliesInvInit ==
  ASSUME Init
  PROVE  RepliesInv
<1> DEFINE H == [f \in Flows |-> <<>>]
<1>1. H \in [Flows -> Seq(Nat)] /\ \A f \in Flows : H[f] = <<>> /\ Len(H[f]) = 0
  OBVIOUS
<1> HIDE DEF H
<1>2. /\ assoc.at = "open" /\ count.sent = 0 /\ net.sid = 1 /\ DOMAIN got = {}
      /\ got = [d \in DOMAIN got |-> got[d]]
      /\ quic = Config /\ \A f \in Flows : flow[f] = NoFlow /\ net.wire[f] = <<>> /\ net.air[f] = {}
  BY DEF Init
<1>3. \A f \in Flows : flow[f].sent = 0 /\ flow[f].q = <<>> /\ Len(flow[f].q) = 0 /\ flow[f].part = NoPart
  BY <1>2, Constants
<1>4. HistOK(script, count.sent, H, flow, assoc)
  BY <1>1, <1>2, <1>3 DEF HistOK, NumbersOK, QueueOK, Apart, PendingOK
<1>5. GotOK(script, count.sent, Once(kind, net), got)
  BY <1>2 DEF GotOK
<1>6. UnsentOK(script, H, flow, assoc, got)
  BY <1>1, <1>2, <1>3 DEF UnsentOK
<1>7. AirOK(script, kind, H, flow, net) /\ ReplayOK(script, kind, H, flow, net, got)
  BY <1>2, <1>3 DEF AirOK, ReplayOK
<1>8. WireOK(script, kind, H, flow, net, got)
  <2> SUFFICES ASSUME NEW f \in Flows
               PROVE  LET x == [j \in 1..flow[f].sent |-> Said(script, H[f][j])]
                      IN  \E r \in Nat, at \in [Nat -> Int] :
                            /\ Framed(x, flow[f].sent, net.wire[f], flow[f].part, r, at)
                            /\ \A j \in (r + 1)..flow[f].sent : Left(got, x[j])
    BY <1>2 DEF WireOK
  <2> DEFINE x == [j \in 1..flow[f].sent |-> Said(script, H[f][j])]
             at == [j \in Nat |-> 1]
  <2>1. at \in [Nat -> Int] /\ at[1] = 1
    OBVIOUS
  <2> HIDE DEF x, at
  <2>2. Framed(x, flow[f].sent, net.wire[f], flow[f].part, 0, at)
    BY <2>1, <1>2, <1>3 DEF Framed, Laid, Begun
  <2>3. \A j \in (0 + 1)..flow[f].sent : Left(got, x[j])
    BY <1>3
  <2> QED BY <2>1, <2>2, <2>3 DEF x
<1>9. PacketsOK(script, H, flow, quic, got) /\ AnswersOK(script, H, flow, quic, got)
  BY <1>2 DEF Config, PacketsOK, AnswersOK
<1> QED BY <1>1, <1>2, <1>4, <1>5, <1>6, <1>7, <1>8, <1>9 DEF RepliesInv, AnswersInv, UnderWay

\* The number of a datagram that just came was never answered.
LEMMA NewIsLeft ==
  ASSUME NEW s \in Seq(Inputs), NEW n \in Nat, n + 1 <= Len(s), NEW once, NEW g, GotOK(s, n, once, g)
  PROVE  Left(g, Said(s, n + 1)) /\ GotOK(s, n + 1, once, g)
<1>1. ASSUME Said(s, n + 1) # <<>>, Given(g, Said(s, n + 1)) PROVE FALSE
  <2>1. PICK d \in DOMAIN g : Undisturbed(d) /\ d.data = Said(s, n + 1)
    BY <1>1 DEF Given
  <2>2. PICK i \in 1..n : d.data = Said(s, i)
    BY <2>1 DEF GotOK
  <2>3. i \in 1..Len(s) /\ n + 1 \in 1..Len(s) /\ i # n + 1
    BY <2>2
  <2> QED BY <2>1, <2>2, <2>3, <1>1, SaidIsData
<1>2. \A i \in 1..n : i \in 1..(n + 1)
  OBVIOUS
<1>3. GotOK(s, n + 1, once, g)
  BY <1>2 DEF GotOK
<1> QED BY <1>1, <1>3 DEF Left

\* What the history says, part by part.
LEMMA Parts ==
  ASSUME NEW H, AnswersInv(H)
  PROVE  /\ HistOK(script, count.sent, H, flow, assoc) /\ net.sid # 0
         /\ H \in [Flows -> Seq(Nat)]
         /\ NumbersOK(script, count.sent, H, flow)
         /\ \A f \in Flows : QueueOK(script, H[f], flow[f])
         /\ Apart(H) /\ PendingOK(script, count.sent, H, assoc)
         /\ GotOK(script, count.sent, Once(kind, net), got)
         /\ UnsentOK(script, H, flow, assoc, got)
         /\ UnderWay(script, kind, H, flow, net, quic, got)
<1>1. HistOK(script, count.sent, H, flow, assoc)
  BY DEF AnswersInv
<1>2. /\ H \in [Flows -> Seq(Nat)]
      /\ NumbersOK(script, count.sent, H, flow)
      /\ \A f \in Flows : QueueOK(script, H[f], flow[f])
      /\ Apart(H) /\ PendingOK(script, count.sent, H, assoc)
  BY <1>1 DEF HistOK
<1>3. /\ net.sid # 0 /\ GotOK(script, count.sent, Once(kind, net), got)
      /\ UnsentOK(script, H, flow, assoc, got)
      /\ UnderWay(script, kind, H, flow, net, quic, got)
  BY DEF AnswersInv
<1> QED BY <1>1, <1>2, <1>3

\* The script and the numbers of a flow.
LEMMA HistFacts ==
  ASSUME TablesInv, NEW H, AnswersInv(H)
  PROVE  /\ script \in Seq(Inputs) /\ count.sent \in Nat /\ count.sent <= Len(script)
         /\ \A f \in Flows :
              /\ flow[f].sent \in Nat /\ Len(H[f]) \in Nat /\ flow[f].sent <= Len(H[f])
              /\ Len(flow[f].q) \in Nat /\ flow[f].sent + Len(flow[f].q) <= Len(H[f])
              /\ \A j \in 1..Len(H[f]) : H[f][j] \in 1..Len(script) /\ H[f][j] \in 1..count.sent
<1>1. script \in Seq(Inputs) /\ count.sent \in Nat /\ count.sent <= Len(script) /\ Len(script) \in Nat
  BY DEF TablesInv, CountOK
<1>2. ASSUME NEW f \in Flows
      PROVE  /\ flow[f].sent \in Nat /\ Len(H[f]) \in Nat /\ flow[f].sent <= Len(H[f])
             /\ Len(flow[f].q) \in Nat /\ flow[f].sent + Len(flow[f].q) <= Len(H[f])
             /\ \A j \in 1..Len(H[f]) : H[f][j] \in 1..Len(script) /\ H[f][j] \in 1..count.sent
  <2>1. flow[f].sent \in Nat /\ flow[f].q \in Seq(Message)
    BY FlowType DEF FlowRecord
  <2>2. H[f] \in Seq(Nat) /\ QueueOK(script, H[f], flow[f]) /\ NumbersOK(script, count.sent, H, flow)
    BY Parts
  <2>3. Len(flow[f].q) \in Nat /\ Len(H[f]) \in Nat
    BY <2>1, <2>2
  <2>4. flow[f].sent + Len(flow[f].q) <= Len(H[f])
    BY <2>2 DEF QueueOK
  <2>5. \A j \in 1..Len(H[f]) : H[f][j] \in 1..count.sent
    BY <2>2 DEF NumbersOK
  <2>6. \A i \in 1..count.sent : i \in 1..Len(script)
    BY <1>1
  <2> QED BY <2>1, <2>3, <2>4, <2>5, <2>6
<1> QED BY <1>1, <1>2

LEMMA OneMore ==
  ASSUME NEW a \in Nat, NEW b \in Nat, NEW c \in Nat, a + b = c
  PROVE  a + (b + 1) = c + 1
OBVIOUS

\* A datagram of the client gets the next number: it goes to the queue of its
\* flow, is worked on, or is gone.
LEMMA DatagramArrivesReplies ==
  ASSUME TablesInv, RepliesInv, DatagramArrives
  PROVE  RepliesInv'
<1>0. PICK H \in [Flows -> Seq(Nat)] : AnswersInv(H)
  BY DEF RepliesInv
<1> DEFINE n == count.sent
           in == script[n + 1]
           m == Msg(script, n + 1)
           to == table[in.key]
<1>1. script \in Seq(Inputs) /\ n \in Nat /\ n + 1 <= Len(script) /\ n + 1 \in 1..Len(script)
  BY DEF TablesInv, CountOK, DatagramArrives
<1>2. count'.sent = n + 1
  BY DEF TablesInv, CountOK, DatagramArrives, Tick
<1>3. Left(got, Said(script, n + 1)) /\ GotOK(script, n + 1, Once(kind, net), got)
  BY <1>0, <1>1, NewIsLeft DEF AnswersInv
<1>4. HistOK(script, n, H, flow, assoc) /\ UnsentOK(script, H, flow, assoc, got)
      /\ UnderWay(script, kind, H, flow, net, quic, got) /\ net.sid # 0
  BY <1>0, Parts
<1>d. NumbersOK(script, n, H, flow) /\ Apart(H)
  BY <1>0, Parts
<1>5. UNCHANGED <<script, kind, net, quic, got>> /\ assoc.at = "open"
  BY DEF DatagramArrives
<1>a. m = [n |-> n + 1, key |-> in.key, size |-> in.size] /\ m.n = n + 1
  BY DEF Msg
<1>b. \A i \in 1..n : i \in 1..(n + 1) /\ i # n + 1
  BY <1>1
<1>c. n + 1 \in 1..(n + 1) /\ n + 1 \in Nat
  BY <1>1
<1> HIDE DEF n, m
<1>6. CASE flow' = flow /\ assoc'.at = "open"
  <2>1. HistOK(script, n + 1, H, flow', assoc')
    BY <1>4, <1>6, <1>b DEF HistOK, NumbersOK, PendingOK
  <2>2. UnsentOK(script, H, flow', assoc', got)
    BY <1>4, <1>6 DEF UnsentOK
  <2> QED BY <1>0, <1>2, <1>3, <1>4, <1>5, <1>6, <2>1, <2>2 DEF RepliesInv, AnswersInv
<1>7. CASE flow' = flow /\ assoc' = [at |-> "routing", client |-> in.src, msg |-> m]
  <2>1. HistOK(script, n + 1, H, flow', assoc')
    <3>1. NumbersOK(script, n + 1, H, flow)
      BY <1>4, <1>b DEF HistOK, NumbersOK
    <3>2. PendingOK(script, n + 1, H, assoc')
      <4>1. \A f \in Flows : \A j \in 1..Len(H[f]) : H[f][j] # n + 1
        BY <1>4, <1>b DEF HistOK, NumbersOK
      <4>2. assoc'.msg = m
        BY <1>7
      <4> QED BY <4>1, <4>2, <1>a, <1>c DEF PendingOK, m
    <3> QED BY <3>1, <3>2, <1>4, <1>7 DEF HistOK
  <2>2. UnsentOK(script, H, flow', assoc', got)
    BY <1>3, <1>4, <1>7, <1>a DEF UnsentOK
  <2> QED BY <1>0, <1>2, <1>3, <1>4, <1>5, <1>7, <2>1, <2>2 DEF RepliesInv, AnswersInv
<1>8. CASE flow' = [flow EXCEPT ![to].q = Append(@, m)] /\ try_send(to) /\ assoc'.at = "open"
  <2>0. in.key \in Keys
    <3>1. in \in Inputs
      BY <1>1 DEF n
    <3> QED BY <3>1 DEF Inputs
  <2>1. to \in Flows /\ flow[to].st # "ended" /\ flow[to].key = in.key /\ flow[to].st # "none"
    BY <1>8, <2>0 DEF TablesInv, TableOK, try_send
  <2> HIDE DEF to
  <2> DEFINE q == flow[to].q
             K == [H EXCEPT ![to] = Append(@, n + 1)]
  <2>2. /\ q \in Seq(Message) /\ flow[to] \in FlowRecord /\ H[to] \in Seq(Nat) /\ m \in Message
        /\ flow[to].sent \in Nat /\ Len(q) \in Nat /\ Len(H[to]) \in Nat
    BY <2>1, <1>0, <1>1, FlowType, SaidIsData DEF FlowRecord, m, n
  <2>3. flow[to].sent + Len(q) = Len(H[to])
    BY <2>1, <1>4 DEF HistOK, QueueOK
  <2>4. /\ flow'[to].q = Append(q, m) /\ flow'[to].sent = flow[to].sent /\ flow'[to].key = flow[to].key
        /\ flow'[to].st = flow[to].st /\ flow'[to].late = flow[to].late
        /\ flow'[to].part = flow[to].part /\ flow'[to].cut = flow[to].cut /\ flow'[to].replay = flow[to].replay
        /\ \A f \in Flows \ {to} : flow'[f] = flow[f]
    BY <1>8, <2>1, <2>2 DEF TablesInv, FlowOK, FlowRecord
  <2>5. /\ K \in [Flows -> Seq(Nat)] /\ K[to] = Append(H[to], n + 1) /\ Len(K[to]) = Len(H[to]) + 1
        /\ \A f \in Flows \ {to} : K[f] = H[f]
        /\ \A j \in 1..Len(H[to]) : K[to][j] = H[to][j]
        /\ K[to][Len(H[to]) + 1] = n + 1
    BY <2>1, <2>2, <1>0, <1>c, AppendProperties
  <2> HIDE DEF K
  <2>6. HistOK(script, n + 1, K, flow', assoc')
    <3>1. \A f \in Flows : \A j \in 1..Len(K[f]) : K[f][j] \in 1..(n + 1) /\ script[K[f][j]].key = flow'[f].key
      <4> TAKE f \in Flows
      <4> TAKE j \in 1..Len(K[f])
      <4>1. CASE f = to /\ j = Len(H[to]) + 1
        BY <4>1, <2>1, <2>4, <2>5, <1>c DEF in, n
      <4>2. CASE f = to /\ j # Len(H[to]) + 1
        <5>1. j \in 1..Len(H[to])
          BY <4>2, <2>2, <2>5
        <5>2. H[to][j] \in 1..n /\ script[H[to][j]].key = flow[to].key
          BY <5>1, <2>1, <1>d DEF NumbersOK
        <5> QED BY <4>2, <5>1, <5>2, <2>4, <2>5, <1>b
      <4>3. CASE f # to
        <5>1. K[f] = H[f] /\ flow'[f] = flow[f] /\ j \in 1..Len(H[f])
          BY <4>3, <2>4, <2>5
        <5>2. H[f][j] \in 1..n /\ script[H[f][j]].key = flow[f].key
          BY <5>1, <1>d DEF NumbersOK
        <5> QED BY <5>1, <5>2, <1>b
      <4> QED BY <4>1, <4>2, <4>3
    <3>2. ASSUME NEW f \in Flows PROVE QueueOK(script, K[f], flow'[f])
      <4>1. CASE f # to
        BY <4>1, <2>4, <2>5, <1>4 DEF HistOK
      <4>2. CASE f = to
        <5> DEFINE u == flow[to].sent
                   l == Len(H[to])
        <5>1. /\ Len(Append(q, m)) = Len(q) + 1 /\ Append(q, m)[Len(q) + 1] = m
              /\ \A x \in 1..Len(q) : Append(q, m)[x] = q[x]
          BY <2>2, AppendProperties
        <5>2. \A x \in 1..Len(q) : q[x] = Msg(script, H[to][u + x])
          BY <2>1, <1>4 DEF HistOK, QueueOK
        <5>3. u \in Nat /\ l \in Nat /\ Len(q) \in Nat /\ u + Len(q) = l
          BY <2>2, <2>3
        <5>4. Len(K[to]) = l + 1 /\ K[to][l + 1] = n + 1 /\ \A j \in 1..l : K[to][j] = H[to][j]
          BY <2>5
        <5> HIDE DEF u, l, q
        <5>5. ASSUME NEW x \in 1..(Len(q) + 1)
              PROVE  Append(q, m)[x] = Msg(script, K[to][u + x])
          <6>1. CASE x = Len(q) + 1
            <7>1. u + x = l + 1
              BY <6>1, <5>3, OneMore
            <7> QED BY <6>1, <7>1, <5>1, <5>4 DEF m
          <6>2. CASE x # Len(q) + 1
            <7>1. x \in 1..Len(q) /\ u + x \in 1..l
              BY <6>2, <5>3
            <7> QED BY <7>1, <5>1, <5>2, <5>4
          <6> QED BY <6>1, <6>2
        <5>6. u + Len(Append(q, m)) = l + 1
          BY <5>1, <5>3, OneMore
        <5>7. flow'[to].q = Append(q, m) /\ flow'[to].sent = u /\ flow'[to].st # "none"
          BY <2>1, <2>4 DEF q, u
        <5>8. QueueOK(script, K[to], flow'[to])
          BY <5>1, <5>3, <5>4, <5>5, <5>6, <5>7 DEF QueueOK
        <5> QED BY <4>2, <5>8
      <4> QED BY <4>1, <4>2
    <3>3. Apart(K)
      <4>1. ASSUME NEW f \in Flows, NEW j \in 1..Len(K[f])
            PROVE  \/ f = to /\ j = Len(H[to]) + 1 /\ K[f][j] = n + 1
                   \/ j \in 1..Len(H[f]) /\ K[f][j] = H[f][j] /\ K[f][j] # n + 1
        <5>1. CASE f = to /\ j = Len(H[to]) + 1
          BY <5>1, <2>5
        <5>2. CASE f = to /\ j # Len(H[to]) + 1
          <6>1. j \in 1..Len(H[to])
            BY <5>2, <2>2, <2>5
          <6> QED BY <5>2, <6>1, <2>5, <1>4, <1>b DEF HistOK, NumbersOK
        <5>3. CASE f # to
          BY <5>3, <2>5, <1>4, <1>b DEF HistOK, NumbersOK
        <5> QED BY <5>1, <5>2, <5>3
      <4>2. ASSUME NEW f \in Flows, NEW g \in Flows, NEW j \in 1..Len(K[f]), NEW k \in 1..Len(K[g]),
                   K[f][j] = K[g][k]
            PROVE  f = g /\ j = k
        <5>1. CASE K[f][j] = n + 1
          BY <5>1, <4>1, <4>2
        <5>2. CASE K[f][j] # n + 1
          <6>1. j \in 1..Len(H[f]) /\ k \in 1..Len(H[g]) /\ H[f][j] = H[g][k]
            BY <5>2, <4>1, <4>2
          <6> QED BY <6>1, <1>d DEF Apart
        <5> QED BY <5>1, <5>2
      <4> QED BY <4>2 DEF Apart
    <3>4. NumbersOK(script, n + 1, K, flow')
      BY <3>1 DEF NumbersOK
    <3>5. PendingOK(script, n + 1, K, assoc')
      BY <1>8 DEF PendingOK
    <3> QED BY <2>5, <3>2, <3>3, <3>4, <3>5 DEF HistOK
  <2>7. UnsentOK(script, K, flow', assoc', got)
    <3>1. ASSUME NEW f \in Flows, NEW j \in (flow'[f].sent + 1)..Len(K[f])
          PROVE  Left(got, Said(script, K[f][j]))
      <4>1. CASE f # to
        BY <4>1, <3>1, <2>4, <2>5, <1>4 DEF UnsentOK
      <4>2. CASE f = to /\ j = Len(H[to]) + 1
        BY <4>2, <2>5, <1>3
      <4>3. CASE f = to /\ j # Len(H[to]) + 1
        <5>1. j \in (flow[to].sent + 1)..Len(H[to]) /\ j \in 1..Len(H[to])
          BY <4>3, <3>1, <2>2, <2>4, <2>5
        <5> QED BY <4>3, <5>1, <2>5, <1>4 DEF UnsentOK
      <4> QED BY <4>1, <4>2, <4>3
    <3> QED BY <3>1, <1>8 DEF UnsentOK
  <2>8. UnderWay(script, kind, K, flow', net, quic, got)
    <3>1. Same(H, flow, K, flow')
      <4> SUFFICES ASSUME NEW f \in Flows
                   PROVE  /\ flow'[f].sent = flow[f].sent /\ flow'[f].part = flow[f].part
                          /\ flow'[f].cut = flow[f].cut /\ flow'[f].late = flow[f].late
                          /\ flow'[f].replay = flow[f].replay /\ flow[f].sent \in Nat
                          /\ \A j \in 1..flow[f].sent : K[f][j] = H[f][j]
        BY DEF Same
      <4>1. flow[f].sent \in Nat /\ Len(H[f]) \in Nat /\ flow[f].sent <= Len(H[f])
        BY <1>0, HistFacts
      <4>2. \A j \in 1..Len(H[f]) : K[f][j] = H[f][j]
        BY <2>5
      <4>3. \A j \in 1..flow[f].sent : j \in 1..Len(H[f])
        BY <4>1
      <4> QED BY <4>1, <4>2, <4>3, <2>4
    <3> QED BY <3>1, <1>4, SameUnderWay DEF TablesInv
  <2> QED BY <1>2, <1>3, <1>4, <1>5, <2>5, <2>6, <2>7, <2>8 DEF RepliesInv, AnswersInv
<1>9. \/ flow' = flow /\ assoc'.at = "open"
      \/ flow' = flow /\ assoc' = [at |-> "routing", client |-> in.src, msg |-> m]
      \/ flow' = [flow EXCEPT ![to].q = Append(@, m)] /\ try_send(to) /\ assoc'.at = "open"
  <2>1. AssocOK(assoc) /\ assoc.at = "open"
    BY <1>5 DEF TablesInv
  <2>2. \/ assoc' = [assoc EXCEPT !.client = IF Admitted(in.src) THEN in.src ELSE @] /\ UNCHANGED flow
        \/ try_send(to) /\ assoc' = [assoc EXCEPT !.client = in.src] /\ flow' = [flow EXCEPT ![to].q = Append(@, m)]
        \/ assoc' = [at |-> "routing", client |-> in.src, msg |-> m] /\ UNCHANGED flow
    BY <1>a DEF DatagramArrives, n
  <2> QED BY <2>1, <2>2 DEF AssocOK
<1> QED BY <1>6, <1>7, <1>8, <1>9

\* What is under way stays as it is when the connection only loses some of it:
\* a flow that has a new id has nothing under it, or got it too early.
Lost(fl, c, d) ==
    /\ d.answers = c.answers /\ d.wait = c.wait
    /\ d.udp = "running" /\ c.udp # "running" => DOMAIN d.flows = {}
    /\ d.air \subseteq c.air
    /\ \A key \in DOMAIN d.reasm : key \in DOMAIN c.reasm /\ d.reasm[key] = c.reasm[key]
    /\ \A id \in DOMAIN d.flows :
         \/ id \in DOMAIN c.flows /\ d.flows[id] = c.flows[id]
         \/ fl[d.flows[id]].late
         \/ /\ \A dg \in d.air : dg.assoc # id
            /\ \A p \in Nat : <<id, p>> \notin DOMAIN d.reasm
LEMMA LostUnderWay ==
  ASSUME NEW s, NEW k, NEW H, NEW fl, NEW n, NEW c, NEW g, NEW d,
         UnderWay(s, k, H, fl, n, c, g), Lost(fl, c, d)
  PROVE  UnderWay(s, k, H, fl, n, d, g)
<1>1. /\ k \in Sockets => AirOK(s, k, H, fl, n) /\ ReplayOK(s, k, H, fl, n, g)
      /\ WireOK(s, k, H, fl, n, g)
      /\ k \in Quic => PacketsOK(s, H, fl, c, g) /\ AnswersOK(s, H, fl, c, g)
  BY DEF UnderWay
<1>2. d.answers = c.answers /\ d.wait = c.wait
  BY DEF Lost
<1>3. \A f, x : Open(c, f, g, x) => Open(d, f, g, x)
  BY <1>2 DEF Open, Queued
<1>4. ASSUME PacketsOK(s, H, fl, c, g) PROVE PacketsOK(s, H, fl, d, g)
  <2> SUFFICES ASSUME d.udp = "running", NEW id \in DOMAIN d.flows, ~fl[d.flows[id]].late
               PROVE  /\ \A dg \in d.air : dg.assoc = id => InAir(s, H, fl, d, g, d.flows[id], dg)
                      /\ \A p \in Nat : <<id, p>> \in DOMAIN d.reasm =>
                           InPart(s, H, fl, d, g, d.flows[id], p, d.reasm[<<id, p>>])
    BY DEF PacketsOK
  <2>1. c.udp = "running"
    BY DEF Lost
  <2>2. CASE id \in DOMAIN c.flows /\ d.flows[id] = c.flows[id]
    <3> DEFINE f == c.flows[id]
    <3>1. /\ \A dg \in c.air : dg.assoc = id => InAir(s, H, fl, c, g, f, dg)
          /\ \A p \in Nat : <<id, p>> \in DOMAIN c.reasm => InPart(s, H, fl, c, g, f, p, c.reasm[<<id, p>>])
      BY <1>4, <2>1, <2>2 DEF PacketsOK
    <3>2. f = d.flows[id]
      BY <2>2
    <3>3. d.air \subseteq c.air /\ \A key \in DOMAIN d.reasm : key \in DOMAIN c.reasm /\ d.reasm[key] = c.reasm[key]
      BY DEF Lost
    <3> HIDE DEF f
    <3>4. ASSUME NEW dg \in d.air, dg.assoc = id PROVE InAir(s, H, fl, d, g, f, dg)
      <4>1. InAir(s, H, fl, c, g, f, dg)
        BY <3>1, <3>3, <3>4
      <4> QED BY <4>1, <1>3, <3>3 DEF InAir
    <3>5. ASSUME NEW p \in Nat, <<id, p>> \in DOMAIN d.reasm PROVE InPart(s, H, fl, d, g, f, p, d.reasm[<<id, p>>])
      <4>1. InPart(s, H, fl, c, g, f, p, d.reasm[<<id, p>>])
        BY <3>1, <3>3, <3>5
      <4> QED BY <4>1, <1>3 DEF InPart
    <3> QED BY <3>2, <3>4, <3>5
  <2>3. CASE /\ \A dg \in d.air : dg.assoc # id
             /\ \A p \in Nat : <<id, p>> \notin DOMAIN d.reasm
    BY <2>3
  <2> QED BY <2>2, <2>3 DEF Lost
<1>5. ASSUME AnswersOK(s, H, fl, c, g) PROVE AnswersOK(s, H, fl, d, g)
  BY <1>5, <1>2 DEF AnswersOK, Queued
<1> QED BY <1>1, <1>4, <1>5 DEF UnderWay

\* Steps that send, give and read nothing.
Quiet(r, t) ==
    \/ t = r
    \/ /\ t.sent = r.sent /\ t.part = r.part /\ t.cut = r.cut /\ t.late = r.late /\ t.replay = r.replay
       /\ t.key = r.key /\ t.st # "none"
       /\ (t.q = r.q /\ r.st # "ended") \/ (t.q = <<>> /\ t.st = "ended")
AtWork(a) == a.at \in {"routing", "connecting"}
LEMMA QuietReplies ==
  ASSUME TablesInv, RepliesInv, UNCHANGED <<script, kind, net, got>>, count'.sent = count.sent,
         \A f \in Flows : Quiet(flow[f], flow'[f]),
         AtWork(assoc') => AtWork(assoc) /\ assoc'.msg = assoc.msg,
         Lost(flow', quic, quic')
  PROVE  RepliesInv'
<1>1. PICK H \in [Flows -> Seq(Nat)] : AnswersInv(H)
  BY DEF RepliesInv
<1>2. /\ NumbersOK(script, count.sent, H, flow) /\ (\A f \in Flows : QueueOK(script, H[f], flow[f]))
      /\ Apart(H) /\ PendingOK(script, count.sent, H, assoc)
      /\ GotOK(script, count.sent, Once(kind, net), got)
      /\ UnsentOK(script, H, flow, assoc, got) /\ net.sid # 0
      /\ UnderWay(script, kind, H, flow, net, quic, got)
  BY <1>1, Parts
<1>3. ASSUME NEW f \in Flows
      PROVE  /\ flow'[f].sent = flow[f].sent /\ flow'[f].part = flow[f].part
             /\ flow'[f].cut = flow[f].cut /\ flow'[f].late = flow[f].late /\ flow'[f].replay = flow[f].replay
             /\ flow'[f].key = flow[f].key /\ flow[f].sent \in Nat
             /\ QueueOK(script, H[f], flow'[f])
  <2>1. Quiet(flow[f], flow'[f])
    OBVIOUS
  <2>2. QueueOK(script, H[f], flow[f])
    BY <1>2
  <2>3. flow[f].sent \in Nat /\ Len(flow[f].q) \in Nat /\ Len(H[f]) \in Nat
        /\ flow[f].sent <= Len(H[f])
    BY <1>1, HistFacts
  <2>4. CASE flow'[f] = flow[f]
    BY <2>2, <2>3, <2>4
  <2>5. CASE flow'[f] # flow[f] /\ flow'[f].q = flow[f].q /\ flow[f].st # "ended"
    BY <2>1, <2>2, <2>3, <2>5 DEF Quiet, QueueOK
  <2>6. CASE flow'[f] # flow[f] /\ flow'[f].q = <<>> /\ flow'[f].st = "ended"
    <3>1. Len(<<>>) = 0
      OBVIOUS
    <3> QED BY <2>1, <2>3, <2>6, <3>1 DEF Quiet, QueueOK
  <2> QED BY <2>1, <2>4, <2>5, <2>6 DEF Quiet
<1>4. NumbersOK(script, count.sent, H, flow')
  BY <1>2, <1>3 DEF NumbersOK
<1>5. PendingOK(script, count.sent, H, assoc') /\ UnsentOK(script, H, flow', assoc', got)
  <2>1. PendingOK(script, count.sent, H, assoc')
    BY <1>2 DEF PendingOK, AtWork
  <2>2. \A f \in Flows : \A j \in (flow'[f].sent + 1)..Len(H[f]) : Left(got, Said(script, H[f][j]))
    BY <1>2, <1>3 DEF UnsentOK
  <2>3. assoc'.at \in {"routing", "connecting"} => Left(got, Said(script, assoc'.msg.n))
    BY <1>2 DEF UnsentOK, AtWork
  <2> QED BY <2>1, <2>2, <2>3 DEF UnsentOK
<1>6. HistOK(script, count.sent, H, flow', assoc')
  BY <1>1, <1>2, <1>3, <1>4, <1>5 DEF HistOK
<1>7. Same(H, flow, H, flow')
  BY <1>3 DEF Same
<1>8. UnderWay(script, kind, H, flow', net, quic, got)
  BY <1>2, <1>7, SameUnderWay DEF TablesInv
<1>9. UnderWay(script, kind, H, flow', net, quic', got)
  BY <1>8, LostUnderWay
<1> QED BY <1>1, <1>2, <1>5, <1>6, <1>9 DEF RepliesInv, AnswersInv

LEMMA LoopReplies ==
  ASSUME TablesInv, RepliesInv, (Dropped /\ quic' = quic) \/ RouteConnects \/ ControlCloses \/ AssociationEnds
  PROVE  RepliesInv'
<1>1. UNCHANGED <<script, kind, net, got, flow, quic, count>>
  BY DEF Dropped, RouteConnects, ControlCloses, AssociationEnds
<1>2. AtWork(assoc') => AtWork(assoc) /\ assoc'.msg = assoc.msg
  <2>1. AssocOK(assoc)
    BY DEF TablesInv
  <2>2. \/ assoc' = [assoc EXCEPT !.at = "open", !.msg = NoMessage]
        \/ assoc.at = "routing" /\ assoc' = [assoc EXCEPT !.at = "connecting"]
        \/ assoc' = assoc \/ assoc' = [assoc EXCEPT !.at = "closed"]
    BY DEF Dropped, Reopened, RouteConnects, ControlCloses, AssociationEnds
  <2> QED BY <2>1, <2>2 DEF AssocOK, AtWork
<1>3. Lost(flow', quic, quic') /\ \A f \in Flows : Quiet(flow[f], flow'[f])
  BY <1>1 DEF Lost, Quiet
<1> QED BY <1>1, <1>2, <1>3, QuietReplies

LEMMA TunnelReplies ==
  ASSUME TablesInv, RepliesInv,
         \/ ManagerAsksForTunnel \/ TunnelFails \/ ManagerStarts \/ TunnelStarts \/ ConnectionBreaks
         \/ DialAsksForTunnel \/ DialTunnelFails \/ connect_tcp
  PROVE  RepliesInv'
<1>1. AtWork(assoc') => AtWork(assoc) /\ assoc'.msg = assoc.msg
  <2>1. AssocOK(assoc)
    BY DEF TablesInv
  <2>2. assoc' = assoc \/ assoc' = [assoc EXCEPT !.at = "open", !.msg = NoMessage]
    BY DEF ManagerAsksForTunnel, TunnelFails, ManagerStarts, TunnelStarts, ConnectionBreaks,
           DialAsksForTunnel, DialTunnelFails, connect_tcp, Dropped, Shared, Reopened
  <2> QED BY <2>1, <2>2 DEF AssocOK, AtWork
<1>2. count'.sent = count.sent
  <2>1. count' = count \/ Tick("faults") \/ Tick("dials")
    BY DEF ManagerAsksForTunnel, TunnelFails, ManagerStarts, TunnelStarts, ConnectionBreaks,
           DialAsksForTunnel, DialTunnelFails, connect_tcp, Dropped, Shared
  <2> QED BY <2>1 DEF TablesInv, CountOK, Tick
<1>3. /\ UNCHANGED <<script, kind, flow, net, got>>
      /\ \/ quic' = quic
         \/ quic' = [quic EXCEPT !.tunnel = "none"]
         \/ quic' = [quic EXCEPT !.tunnel = "udp"]
         \/ quic' = [quic EXCEPT !.tunnel = "tcp"]
         \/ quic' = [quic EXCEPT !.tunnel = "up", !.link = TRUE]
         \/ quic' = [quic EXCEPT !.udp = "running"] /\ quic.udp = "none"
         \/ quic' = [quic EXCEPT !.link = FALSE]
  BY DEF ManagerAsksForTunnel, TunnelFails, ManagerStarts, TunnelStarts, ConnectionBreaks,
         DialAsksForTunnel, DialTunnelFails, connect_tcp, Dropped, Shared, tunnel, start_failed,
         started, udp, ConnectionLost
<1>4. Lost(flow', quic, quic')
  <2>1. CASE quic' = quic
    BY <2>1 DEF Lost
  <2>2. CASE quic' # quic
    <3>1. IsConn(quic)
      BY DEF TablesInv
    <3>2. /\ quic'.flows = quic.flows /\ quic'.answers = quic.answers /\ quic'.reasm = quic.reasm
          /\ quic'.wait = quic.wait /\ quic'.air = quic.air
      BY <1>3, <2>2, <3>1, LifeOfConn
    <3>3. quic'.udp = quic.udp \/ quic.udp = "none"
      BY <1>3, <3>1 DEF IsConn
    <3>4. quic.udp = "none" => DOMAIN quic.flows = {}
      BY DEF TablesInv, Agree
    <3> QED BY <3>2, <3>3, <3>4 DEF Lost
  <2> QED BY <2>1, <2>2
<1>5. \A f \in Flows : Quiet(flow[f], flow'[f])
  BY <1>3 DEF Quiet
<1> QED BY <1>1, <1>2, <1>3, <1>4, <1>5, QuietReplies

\* A write returns; a flow begins to close, or ends.
LEMMA StatusReplies ==
  ASSUME TablesInv, RepliesInv, NEW f \in Flows, Alive(flow[f]), NEW st \in {"running", "closing"},
         flow' = [flow EXCEPT ![f].st = st],
         UNCHANGED <<script, kind, net, got, assoc, quic>>, count'.sent = count.sent
  PROVE  RepliesInv'
<1>1. ASSUME NEW g \in Flows PROVE Quiet(flow[g], flow'[g])
  <2>1. flow[f] \in FlowRecord
    BY FlowType
  <2>2. CASE g = f
    BY <2>1, <2>2 DEF TablesInv, FlowOK, FlowRecord, Quiet, Alive
  <2>3. CASE g # f
    BY <2>3 DEF TablesInv, FlowOK, Quiet
  <2> QED BY <2>2, <2>3
<1>2. Lost(flow', quic, quic')
  BY DEF Lost
<1> QED BY <1>1, <1>2, QuietReplies DEF AtWork

LEMMA TaskSentReplies ==
  ASSUME TablesInv, RepliesInv, NEW f \in Flows, TaskSent(f)
  PROVE  RepliesInv'
BY StatusReplies DEF TaskSent, Alive

LEMMA ClosesReplies ==
  ASSUME TablesInv, RepliesInv, NEW f \in Flows, SessionBreaks(f) \/ TaskEnds(f)
  PROVE  RepliesInv'
<1>1. count'.sent = count.sent
  BY DEF TablesInv, CountOK, SessionBreaks, TaskEnds, Tick
<1> QED BY <1>1, StatusReplies DEF SessionBreaks, TaskEnds, Alive

LEMMA CloseReplies ==
  ASSUME TablesInv, RepliesInv, NEW f \in Flows, close(f)
  PROVE  RepliesInv'
<1> DEFINE r == [flow[f] EXCEPT !.st = "ended", !.q = <<>>]
<1>1. /\ r.q = <<>> /\ r.key = flow[f].key /\ r.st = "ended" /\ r.sent = flow[f].sent
      /\ r.part = flow[f].part /\ r.cut = flow[f].cut /\ r.late = flow[f].late /\ r.replay = flow[f].replay
  BY FlowType DEF FlowRecord
<1>2. flow' = [flow EXCEPT ![f] = r]
  BY DEF close
<1> HIDE DEF r
<1>3. \A g \in Flows : Quiet(flow[g], flow'[g])
  BY <1>1, <1>2 DEF TablesInv, FlowOK, Quiet
<1>4. Lost(flow', quic, quic')
  <2>1. CASE quic' = quic
    BY <2>1 DEF Lost
  <2>2. CASE quic' = dissociate(quic, flow[f].id)
    <3>1. IsConn(quic)
      BY DEF TablesInv
    <3>2. /\ quic'.udp = quic.udp /\ quic'.answers = quic.answers /\ quic'.wait = quic.wait
          /\ quic'.air = quic.air /\ quic'.reasm = quic.reasm
          /\ DOMAIN quic'.flows = DOMAIN quic.flows \ {flow[f].id}
          /\ \A i \in DOMAIN quic'.flows : quic'.flows[i] = quic.flows[i]
      BY <2>2, <3>1, DissociateIsConn
    <3> QED BY <3>2 DEF Lost
  <2> QED BY <2>1, <2>2 DEF close
<1> QED BY <1>3, <1>4, QuietReplies DEF close, AtWork

LEMMA DemuxEndsReplies ==
  ASSUME TablesInv, RepliesInv, DemuxEnds
  PROVE  RepliesInv'
<1>1. UNCHANGED <<script, kind, net, got, assoc, flow, count>>
  BY DEF DemuxEnds, Shared
<1>2. Lost(flow', quic, quic')
  BY DemuxEndsTables DEF Lost
<1> QED BY <1>1, <1>2, QuietReplies DEF AtWork, Quiet

\* With another session the server no longer promises anything.
LEMMA ServerRestartsReplies ==
  ASSUME TablesInv, RepliesInv, ServerRestarts
  PROVE  RepliesInv'
<1>1. PICK H \in [Flows -> Seq(Nat)] : AnswersInv(H)
  BY DEF RepliesInv
<1>2. HistOK(script, count.sent, H, flow, assoc) /\ net.sid # 0
      /\ GotOK(script, count.sent, Once(kind, net), got)
      /\ UnsentOK(script, H, flow, assoc, got)
      /\ UnderWay(script, kind, H, flow, net, quic, got)
  BY <1>1, Parts
<1>3. /\ net' = [net EXCEPT !.sid = @ + 1] /\ kind = "ss2022"
      /\ UNCHANGED <<script, kind, assoc, flow, quic, got>>
  BY DEF ServerRestarts
<1>4. /\ net'.air = net.air /\ net'.wire = net.wire /\ net'.sid = net.sid + 1 /\ net.sid \in Nat
      /\ net'.sid # 0 /\ net'.sid # 1
  BY <1>2, <1>3 DEF TablesInv, NetOK
<1>5. count'.sent = count.sent
  BY DEF TablesInv, CountOK, ServerRestarts, Tick
<1>6. GotOK(script, count.sent, Once(kind, net'), got)
  BY <1>2, <1>4 DEF GotOK, Once
<1>7. AirOK(script, kind, H, flow, net')
  <2>1. AirOK(script, kind, H, flow, net)
    BY <1>2, <1>3 DEF UnderWay, Sockets
  <2>2. \A i \in 1..net.sid : i \in 1..net'.sid
    BY <1>4
  <2> QED BY <1>4, <2>1, <2>2 DEF AirOK
<1>8. ReplayOK(script, kind, H, flow, net', got)
  BY <1>4 DEF ReplayOK
<1>9. WireOK(script, kind, H, flow, net', got)
  BY <1>2, <1>3, <1>4 DEF UnderWay, WireOK, Streams
<1>10. UnderWay(script, kind, H, flow, net', quic, got)
  BY <1>3, <1>7, <1>8, <1>9 DEF UnderWay, Quic
<1> QED BY <1>1, <1>2, <1>3, <1>4, <1>5, <1>6, <1>10 DEF RepliesInv, AnswersInv

\* A new flow begins with the datagram that was worked on.
LEMMA SpawnReplies ==
  ASSUME TablesInv, RepliesInv, NEW id \in Nat, spawn_flow(id), AtWork(assoc),
         UNCHANGED <<script, kind, net, got>>, count'.sent = count.sent, Lost(flow', quic, quic')
  PROVE  RepliesInv'
<1>1. PICK H \in [Flows -> Seq(Nat)] : AnswersInv(H)
  BY DEF RepliesInv
<1> DEFINE g == NextFlow
           m == assoc.msg
           n == assoc.msg.n
           K == [H EXCEPT ![g] = <<n>>]
<1>2. /\ NumbersOK(script, count.sent, H, flow) /\ (\A f \in Flows : QueueOK(script, H[f], flow[f]))
      /\ Apart(H) /\ PendingOK(script, count.sent, H, assoc)
      /\ GotOK(script, count.sent, Once(kind, net), got)
      /\ UnsentOK(script, H, flow, assoc, got) /\ net.sid # 0
      /\ UnderWay(script, kind, H, flow, net, quic, got)
  BY <1>1, Parts
<1>3. /\ g \in Flows /\ flow[g].st = "none" /\ (\A f \in Flows \ {g} : flow'[f] = flow[f])
      /\ flow'[g] = [NoFlow EXCEPT !.st = "running", !.key = assoc.msg.key, !.to = assoc.client,
                                   !.q = <<assoc.msg>>, !.id = id, !.late = Early(id)]
  BY SpawnTables
<1>4. n \in 1..count.sent /\ m = Msg(script, n) /\ \A f \in Flows : \A j \in 1..Len(H[f]) : H[f][j] # n
  BY <1>2 DEF PendingOK, AtWork
<1>5. n \in Nat /\ count.sent \in Nat
  BY <1>1, <1>4, HistFacts
<1>6. Left(got, Said(script, n))
  BY <1>2 DEF UnsentOK, AtWork
<1>7. assoc'.at = "open"
  BY DEF TablesInv, AssocOK, spawn_flow, Reopened
<1>8. script[n].key = m.key
  BY <1>4 DEF Msg
<1> HIDE DEF g, m, n
<1>9. flow[g] = NoFlow
  BY <1>2, <1>3 DEF QueueOK
<1>10. /\ flow'[g].key = m.key /\ flow'[g].st = "running" /\ flow'[g].q = <<m>>
       /\ flow'[g].sent = 0 /\ flow'[g].part = NoFlow.part /\ flow'[g].cut = NoFlow.cut
       /\ flow'[g].replay = NoFlow.replay /\ NoFlow.sent = 0
  BY <1>3, Constants DEF m, FlowRecord
<1>11. Len(H[g]) = 0
  <2>1. QueueOK(script, H[g], NoFlow)
    BY <1>2, <1>3, <1>9
  <2>2. NoFlow.sent = 0 /\ NoFlow.q = <<>> /\ NoFlow.st = "none" /\ Len(<<>>) = 0
    BY Constants
  <2>3. NoFlow.sent + Len(NoFlow.q) = Len(H[g])
    BY <2>1, <2>2 DEF QueueOK
  <2> QED BY <2>2, <2>3
<1>12. /\ K \in [Flows -> Seq(Nat)] /\ K[g] = <<n>> /\ Len(K[g]) = 1 /\ K[g][1] = n
       /\ \A f \in Flows \ {g} : K[f] = H[f]
  BY <1>3, <1>5
<1> HIDE DEF K
<1>13. NumbersOK(script, count.sent, K, flow')
  <2> SUFFICES ASSUME NEW f \in Flows, NEW j \in 1..Len(K[f])
               PROVE  K[f][j] \in 1..count.sent /\ script[K[f][j]].key = flow'[f].key
    BY DEF NumbersOK
  <2>1. CASE f = g
    <3>1. j = 1
      BY <2>1, <1>12
    <3> QED BY <2>1, <3>1, <1>4, <1>8, <1>10, <1>12
  <2>2. CASE f # g
    <3>1. K[f] = H[f] /\ flow'[f] = flow[f]
      BY <2>2, <1>3, <1>12
    <3> QED BY <3>1, <1>2 DEF NumbersOK
  <2> QED BY <2>1, <2>2
<1>14. ASSUME NEW f \in Flows PROVE QueueOK(script, K[f], flow'[f])
  <2>1. CASE f = g
    <3>1. Len(<<m>>) = 1 /\ <<m>>[1] = m
      OBVIOUS
    <3>2. QueueOK(script, K[g], flow'[g])
      BY <3>1, <1>4, <1>10, <1>12 DEF QueueOK
    <3> QED BY <2>1, <3>2
  <2>2. CASE f # g
    BY <2>2, <1>2, <1>3, <1>12
  <2> QED BY <2>1, <2>2
<1>15. Apart(K)
  <2>1. ASSUME NEW f \in Flows, NEW j \in 1..Len(K[f])
        PROVE  \/ f = g /\ j = 1 /\ K[f][j] = n
               \/ j \in 1..Len(H[f]) /\ K[f][j] = H[f][j] /\ K[f][j] # n
    <3>1. CASE f = g
      BY <3>1, <1>12
    <3>2. CASE f # g
      BY <3>2, <1>4, <1>12
    <3> QED BY <3>1, <3>2
  <2>2. ASSUME NEW f \in Flows, NEW h \in Flows, NEW j \in 1..Len(K[f]), NEW k \in 1..Len(K[h]),
               K[f][j] = K[h][k]
        PROVE  f = h /\ j = k
    <3>1. CASE K[f][j] = n
      BY <3>1, <2>1, <2>2
    <3>2. CASE K[f][j] # n
      <4>1. j \in 1..Len(H[f]) /\ k \in 1..Len(H[h]) /\ H[f][j] = H[h][k]
        BY <3>2, <2>1, <2>2
      <4> QED BY <4>1, <1>2 DEF Apart
    <3> QED BY <3>1, <3>2
  <2> QED BY <2>2 DEF Apart
<1>16. HistOK(script, count.sent, K, flow', assoc')
  <2>1. PendingOK(script, count.sent, K, assoc')
    BY <1>7 DEF PendingOK
  <2> QED BY <2>1, <1>12, <1>13, <1>14, <1>15 DEF HistOK
<1>17. UnsentOK(script, K, flow', assoc', got)
  <2> SUFFICES ASSUME NEW f \in Flows, NEW j \in (flow'[f].sent + 1)..Len(K[f])
               PROVE  Left(got, Said(script, K[f][j]))
    BY <1>7 DEF UnsentOK
  <2>1. CASE f = g
    <3>1. j = 1
      BY <2>1, <1>10, <1>12
    <3> QED BY <2>1, <3>1, <1>6, <1>12
  <2>2. CASE f # g
    BY <2>2, <1>2, <1>3, <1>12 DEF UnsentOK
  <2> QED BY <2>1, <2>2
<1>18. Same(H, flow, K, flow')
  <2>1. \A f \in Flows : flow[f].sent \in Nat
    BY <1>1, HistFacts
  <2>2. ASSUME NEW f \in Flows
        PROVE  /\ flow'[f].sent = flow[f].sent /\ flow'[f].part = flow[f].part
               /\ flow'[f].cut = flow[f].cut /\ (flow[f].late => flow'[f].late)
               /\ flow'[f].replay = flow[f].replay
               /\ \A j \in 1..flow[f].sent : K[f][j] = H[f][j]
    <3>1. CASE f = g
      <4>1. flow[f].sent = 0
        BY <3>1, <1>9, <1>10
      <4> QED BY <3>1, <4>1, <1>9, <1>10, Constants
    <3>2. CASE f # g
      BY <3>2, <1>3, <1>12
    <3> QED BY <3>1, <3>2
  <2> QED BY <2>1, <2>2 DEF Same
<1>19. UnderWay(script, kind, K, flow', net, quic, got)
  BY <1>2, <1>18, SameUnderWay DEF TablesInv
<1>20. UnderWay(script, kind, K, flow', net, quic', got)
  BY <1>19, LostUnderWay
<1> QED BY <1>2, <1>12, <1>16, <1>17, <1>20 DEF RepliesInv, AnswersInv

LEMMA SessionOpensReplies ==
  ASSUME TablesInv, RepliesInv, SessionOpens
  PROVE  RepliesInv'
<1>1. /\ spawn_flow(0) /\ AtWork(assoc)
      /\ UNCHANGED <<script, kind, quic, net, got, count>>
  BY DEF SessionOpens, AtWork
<1>2. Lost(flow', quic, quic')
  BY <1>1 DEF Lost
<1> QED BY <1>1, <1>2, SpawnReplies

\* Nothing of a former flow is left under the new id, or it came too early.
LEMMA FlowRegistersReplies ==
  ASSUME TablesInv, RepliesInv, FlowRegisters
  PROVE  RepliesInv'
<1>1. CASE ~CanRegister(quic)
  <2>1. Dropped /\ quic' = quic
    BY <1>1 DEF FlowRegisters
  <2> QED BY <2>1, LoopReplies
<1>2. CASE CanRegister(quic)
  <2> DEFINE id == NewId(quic)
  <2>1. /\ spawn_flow(id) /\ quic' = register(quic, NextFlow) /\ AtWork(assoc) /\ kind \in Quic
        /\ UNCHANGED <<script, kind, net, got, count>>
    BY <1>2 DEF FlowRegisters, AtWork
  <2>2. id \in Nat /\ IsConn(quic)
    BY <1>2, NewIdIsFree, QuicUdpAssumption DEF TablesInv
  <2>3. NextFlow \in Flows /\ flow'[NextFlow].late = Early(id)
    BY <2>1, <2>2, SpawnTables
  <2>4. /\ quic'.udp = quic.udp /\ quic'.answers = quic.answers /\ quic'.wait = quic.wait
        /\ quic'.air = quic.air /\ quic'.reasm = quic.reasm
        /\ DOMAIN quic'.flows = DOMAIN quic.flows \union {id} /\ quic'.flows[id] = NextFlow
        /\ \A i \in DOMAIN quic.flows : quic'.flows[i] = quic.flows[i]
    BY <1>2, <2>1, <2>2, <2>3, RegisterIsConn
  <2> HIDE DEF id
  <2>5. Lost(flow', quic, quic')
    <3>1. ~Early(id) => /\ \A dg \in quic.air : dg.assoc # id
                        /\ \A k \in DOMAIN quic.reasm : k[1] # id
      BY <2>1 DEF Early, Leftover
    <3>2. ~Early(id) => \A p \in Nat : <<id, p>> \notin DOMAIN quic.reasm
      BY <3>1
    <3>3. \A i \in DOMAIN quic'.flows : i = id \/ i \in DOMAIN quic.flows
      BY <2>4
    <3> QED BY <2>3, <2>4, <3>1, <3>2, <3>3 DEF Lost
  <2> QED BY <2>1, <2>2, <2>5, SpawnReplies
<1> QED BY <1>1, <1>2

\* Two answers with pieces are told apart.
LEMMA Distinct ==
  ASSUME TablesInv, NEW H, AnswersInv(H), NEW f \in Flows, NEW g \in Flows,
         NEW j \in 1..Len(H[f]), NEW k \in 1..Len(H[g]),
         Said(script, H[f][j]) = Said(script, H[g][k]), Said(script, H[f][j]) # <<>>
  PROVE  f = g /\ j = k
<1>1. H[f][j] \in 1..Len(script) /\ H[g][k] \in 1..Len(script) /\ script \in Seq(Inputs)
  BY HistFacts
<1>2. H[f][j] = H[g][k]
  BY <1>1, SaidIsData
<1> QED BY <1>2, Parts DEF Apart

\* The client is given a datagram.
LEMMA DeliveredIsGiven ==
  ASSUME NEW s, NEW n, NEW once, NEW g, GotOK(s, n, once, g), NEW d,
         Undisturbed(d) => \E i \in 1..n : s[i].key = d.key /\ d.data = Said(s, i),
         once /\ Undisturbed(d) => Left(g, d.data),
         NEW h, h = With(g, d, 1 + IF d \in DOMAIN g THEN g[d] ELSE 0)
  PROVE  /\ GotOK(s, n, once, h)
         /\ \A x : Given(h, x) => Given(g, x) \/ (Undisturbed(d) /\ x = d.data)
<1> DEFINE v == 1 + IF d \in DOMAIN g THEN g[d] ELSE 0
<1>1. /\ DOMAIN h = DOMAIN g \union {d} /\ h[d] = v
      /\ \A e \in DOMAIN g : e # d => h[e] = g[e]
      /\ h = [e \in DOMAIN h |-> h[e]]
  <2> HIDE DEF v
  <2>1. h = With(g, d, v)
    BY DEF v
  <2> QED BY <2>1 DEF With
<1>2. \A e \in DOMAIN h : Undisturbed(e) => \E i \in 1..n : s[i].key = e.key /\ e.data = Said(s, i)
  BY <1>1 DEF GotOK
<1>3. ASSUME once, NEW e \in DOMAIN h, Undisturbed(e), e.data # <<>> PROVE h[e] = 1
  <2>1. CASE e = d
    <3>1. d \notin DOMAIN g
      BY <1>3, <2>1 DEF Left, Given
    <3>2. v = 1
      BY <3>1
    <3> QED BY <2>1, <3>2, <1>1
  <2>2. CASE e # d
    BY <1>1, <1>3, <2>2 DEF GotOK
  <2> QED BY <2>1, <2>2
<1>4. GotOK(s, n, once, h)
  BY <1>1, <1>2, <1>3 DEF GotOK
<1>5. \A x : Given(h, x) => Given(g, x) \/ (Undisturbed(d) /\ x = d.data)
  BY <1>1 DEF Given
<1> QED BY <1>4, <1>5

\* What was not given stays so, but for what is given now.
LEMMA OthersAreLeft ==
  ASSUME TablesInv, NEW H, AnswersInv(H), NEW f \in Flows, NEW j \in 1..flow[f].sent,
         NEW h, \A x : Given(h, x) => Given(got, x) \/ x = Said(script, H[f][j])
  PROVE  /\ \A g \in Flows : \A k \in 1..Len(H[g]) :
              Left(got, Said(script, H[g][k])) => Left(h, Said(script, H[g][k])) \/ (g = f /\ k = j)
         /\ UnsentOK(script, H, flow, assoc, h)
<1>1. j \in 1..Len(H[f])
  <2>1. flow[f].sent \in Nat /\ Len(H[f]) \in Nat /\ flow[f].sent <= Len(H[f])
    BY HistFacts
  <2> QED BY <2>1
<1>2. ASSUME NEW g \in Flows, NEW k \in 1..Len(H[g]), Left(got, Said(script, H[g][k])),
             ~Left(h, Said(script, H[g][k]))
      PROVE  g = f /\ k = j
  <2>1. Said(script, H[g][k]) # <<>> /\ Said(script, H[g][k]) = Said(script, H[f][j])
    BY <1>2 DEF Left
  <2> QED BY <2>1, <1>1, Distinct
<1>3. ASSUME NEW g \in Flows, NEW k \in (flow[g].sent + 1)..Len(H[g])
      PROVE  Left(h, Said(script, H[g][k]))
  <2>1. flow[g].sent \in Nat /\ flow[f].sent \in Nat /\ Len(H[g]) \in Nat
    BY HistFacts
  <2>2. k \in 1..Len(H[g]) /\ ~(g = f /\ k = j)
    BY <1>3, <2>1
  <2>3. Left(got, Said(script, H[g][k]))
    BY Parts DEF UnsentOK
  <2> QED BY <2>2, <2>3, <1>2
<1>4. ASSUME AtWork(assoc) PROVE Left(h, Said(script, assoc.msg.n))
  <2>1. Left(got, Said(script, assoc.msg.n))
    BY <1>4, Parts DEF UnsentOK, AtWork
  <2>2. assoc.msg.n \in 1..count.sent /\ H[f][j] # assoc.msg.n
    BY <1>1, <1>4, Parts DEF PendingOK, AtWork
  <2>3. script \in Seq(Inputs) /\ count.sent \in Nat /\ count.sent <= Len(script) /\ H[f][j] \in 1..Len(script)
    BY <1>1, HistFacts
  <2>4. assoc.msg.n \in 1..Len(script)
    BY <2>2, <2>3
  <2>5. Said(script, assoc.msg.n) = Said(script, H[f][j]) => Said(script, assoc.msg.n) = <<>>
    BY <2>2, <2>3, <2>4, SaidIsData
  <2> QED BY <2>1, <2>5 DEF Left
<1>5. UnsentOK(script, H, flow, assoc, h)
  BY <1>3, <1>4 DEF UnsentOK, AtWork
<1> QED BY <1>2, <1>5

\* A flow that reads an answer keeps its queue.
OnlyReads(fl, fm) ==
    \A f \in Flows : /\ fm[f].sent = fl[f].sent /\ fm[f].q = fl[f].q /\ fm[f].key = fl[f].key
                     /\ fm[f].st = fl[f].st \/ (fl[f].st = "running" /\ fm[f].st = "closing")
                     /\ fl[f].st = "none" => fm[f] = fl[f]
LEMMA ReadingFlow ==
  ASSUME NEW s, NEW n, NEW H, NEW fl, NEW a, NEW g, NEW fm,
         HistOK(s, n, H, fl, a), UnsentOK(s, H, fl, a, g), OnlyReads(fl, fm)
  PROVE  HistOK(s, n, H, fm, a) /\ UnsentOK(s, H, fm, a, g)
<1> USE DEF OnlyReads
<1>1. /\ H \in [Flows -> Seq(Nat)] /\ NumbersOK(s, n, H, fl) /\ (\A f \in Flows : QueueOK(s, H[f], fl[f]))
      /\ Apart(H) /\ PendingOK(s, n, H, a)
  BY DEF HistOK
<1>2. NumbersOK(s, n, H, fm)
  BY <1>1 DEF NumbersOK
<1>3. ASSUME NEW f \in Flows PROVE QueueOK(s, H[f], fm[f])
  <2>1. QueueOK(s, H[f], fl[f])
    BY <1>1
  <2> QED BY <2>1 DEF QueueOK
<1>4. UnsentOK(s, H, fm, a, g)
  BY DEF UnsentOK
<1> QED BY <1>1, <1>2, <1>3, <1>4 DEF HistOK

\* The replay window: what is accepted was not seen before and is seen then,
\* and what was seen stays so, though the window moved.
LEMMA AcceptOnce ==
  ASSUME NEW w \in Window, NEW pid \in Nat, accept(w, 1, pid).ok
  PROVE  /\ ~Seen(w, pid) /\ Seen(accept(w, 1, pid).w, pid)
         /\ \A x \in Nat : Seen(w, x) => Seen(accept(w, 1, pid).w, x)
<1>0. w.highest \in Nat /\ w.window \in SUBSET Nat /\ ReplayWindow \in Nat \ {0}
  BY PacketsAssumption DEF Window
<1>1. CASE w.sid # 1
  <2>1. accept(w, 1, pid).w = [sid |-> 1, highest |-> pid, window |-> {0}]
    BY <1>1 DEF accept
  <2>2. ~Seen(w, pid) /\ \A x \in Nat : ~Seen(w, x)
    BY <1>1 DEF Seen
  <2>3. Seen([sid |-> 1, highest |-> pid, window |-> {0}], pid)
    BY <1>0 DEF Seen
  <2> QED BY <2>1, <2>2, <2>3
<1>2. CASE w.sid = 1 /\ pid > w.highest
  <2> DEFINE shift == pid - w.highest
             new == {0} \union {b + shift : b \in {x \in w.window : x + shift < ReplayWindow}}
             v == [w EXCEPT !.highest = pid, !.window = new]
  <2>1. accept(w, 1, pid).w = v
    BY <1>2 DEF accept
  <2>2. 0 \in new /\ \A b \in w.window : b + shift < ReplayWindow => b + shift \in new
    OBVIOUS
  <2>3. shift \in Nat /\ shift = pid - w.highest
    BY <1>0, <1>2
  <2> HIDE DEF new, shift
  <2>4. v.sid = 1 /\ v.highest = pid /\ v.window = new
    BY <1>2 DEF Window
  <2> HIDE DEF v
  <2>5. ~Seen(w, pid)
    BY <1>0, <1>2 DEF Seen
  <2>6. Seen(v, pid)
    BY <1>0, <2>2, <2>4 DEF Seen
  <2>7. ASSUME NEW x \in Nat, Seen(w, x) PROVE Seen(v, x)
    <3>1. x <= w.highest /\ (w.highest - x >= ReplayWindow \/ w.highest - x \in w.window)
      BY <2>7 DEF Seen
    <3>2. pid - x = (w.highest - x) + shift /\ x <= pid
      BY <1>0, <1>2, <2>3, <3>1
    <3>3. pid - x >= ReplayWindow \/ pid - x \in new
      <4>1. CASE w.highest - x >= ReplayWindow
        BY <4>1, <1>0, <2>3, <3>2
      <4>2. CASE w.highest - x \in w.window /\ (w.highest - x) + shift < ReplayWindow
        BY <4>2, <2>2, <3>2
      <4>3. CASE ~((w.highest - x) + shift < ReplayWindow)
        BY <4>3, <1>0, <2>3, <3>2
      <4> QED BY <3>1, <4>1, <4>2, <4>3
    <3> QED BY <2>4, <3>2, <3>3 DEF Seen
  <2> QED BY <2>1, <2>5, <2>6, <2>7
<1>3. CASE w.sid = 1 /\ ~(pid > w.highest)
  <2> DEFINE diff == w.highest - pid
             v == [w EXCEPT !.window = @ \union {diff}]
  <2>1. accept(w, 1, pid) =
          IF diff >= ReplayWindow \/ diff \in w.window THEN [ok |-> FALSE, w |-> w]
          ELSE [ok |-> TRUE, w |-> v]
    BY <1>3 DEF accept
  <2>2. diff \in Nat /\ pid <= w.highest
    BY <1>0, <1>3
  <2> HIDE DEF v
  <2>3. ~(diff >= ReplayWindow) /\ diff \notin w.window /\ accept(w, 1, pid).w = v
    BY <2>1
  <2>4. v.sid = 1 /\ v.highest = w.highest /\ v.window = w.window \union {diff}
    BY <1>3 DEF Window, v
  <2>5. ~Seen(w, pid)
    BY <2>3 DEF Seen
  <2>6. Seen(v, pid)
    BY <2>2, <2>4 DEF Seen
  <2>7. \A x \in Nat : Seen(w, x) => Seen(v, x)
    BY <2>4 DEF Seen
  <2> QED BY <2>3, <2>5, <2>6, <2>7
<1> QED BY <1>1, <1>2, <1>3

\* What is refused leaves the window alone.
LEMMA RefusedIsQuiet ==
  ASSUME NEW w, NEW sid, NEW pid, ~accept(w, sid, pid).ok
  PROVE  accept(w, sid, pid).w = w
<1>1. CASE w.sid # sid
  <2>1. accept(w, sid, pid).ok
    BY <1>1 DEF accept
  <2> QED BY <2>1
<1>2. CASE w.sid = sid /\ pid > w.highest
  <2>1. accept(w, sid, pid).ok
    BY <1>2 DEF accept
  <2> QED BY <2>1
<1>3. CASE w.sid = sid /\ ~(pid > w.highest)
  BY <1>3 DEF accept
<1> QED BY <1>1, <1>2, <1>3

LEMMA SocketReceivesReplies ==
  ASSUME TablesInv, RepliesInv, NEW f \in Flows, SocketReceives(f)
  PROVE  RepliesInv'
<1>1. PICK H \in [Flows -> Seq(Nat)] : AnswersInv(H)
  BY DEF RepliesInv
<1>2. PICK p \in net.air[f] :
        LET d == IF kind = "ss2022" THEN decrypt(f, flow[f].replay, p) ELSE [ok |-> TRUE, w |-> NoReplay]
        IN  /\ flow' = [flow EXCEPT ![f].replay = d.w, ![f].st = IF d.ok THEN @ ELSE "closing"]
            /\ IF d.ok THEN Delivered(encode_udp_datagram(f, decrypt_packet(p))) ELSE UNCHANGED got
  BY DEF SocketReceives
<1> DEFINE d == IF kind = "ss2022" THEN decrypt(f, flow[f].replay, p) ELSE [ok |-> TRUE, w |-> NoReplay]
           st == IF d.ok THEN flow[f].st ELSE "closing"
           r == [flow[f] EXCEPT !.replay = d.w, !.st = st]
<1>3. flow' = Put(flow, f, r) /\ IF d.ok THEN Delivered(encode_udp_datagram(f, p.data)) ELSE UNCHANGED got
  BY <1>2 DEF Put, decrypt_packet
<1>4. /\ UNCHANGED <<script, kind, assoc, quic, net>> /\ count'.sent = count.sent
      /\ flow[f].st = "running" /\ kind \in Sockets
  BY DEF TablesInv, CountOK, SocketReceives, Tick
<1>5. ~d.ok => d.w = flow[f].replay
  BY RefusedIsQuiet DEF decrypt
<1>6. /\ HistOK(script, count.sent, H, flow, assoc) /\ net.sid # 0
      /\ NumbersOK(script, count.sent, H, flow)
      /\ GotOK(script, count.sent, Once(kind, net), got)
      /\ UnderWay(script, kind, H, flow, net, quic, got)
  BY <1>1, Parts
<1>7. AirOK(script, kind, H, flow, net) /\ ReplayOK(script, kind, H, flow, net, got)
  BY <1>4, <1>6 DEF UnderWay
<1>8. PICK j \in 1..flow[f].sent : /\ p.data = Said(script, H[f][j])
                                   /\ kind = "ss2022" => p.pid = j - 1 /\ p.sid \in 1..net.sid
  BY <1>7 DEF AirOK
<1>9. /\ \A g \in Flows : /\ flow[g].sent \in Nat /\ Len(H[g]) \in Nat /\ flow[g].sent <= Len(H[g])
                          /\ flow[g].replay \in Window
      /\ j \in 1..Len(H[f]) /\ j - 1 \in Nat
  <2>1. \A g \in Flows : flow[g].sent \in Nat /\ Len(H[g]) \in Nat /\ flow[g].sent <= Len(H[g])
    BY <1>1, HistFacts
  <2>2. \A g \in Flows : flow[g].replay \in Window
    BY FlowType DEF FlowRecord
  <2> QED BY <2>1, <2>2
<1>10. kind = "ss2022" /\ net.sid = 1 /\ d.ok =>
         /\ ~Seen(flow[f].replay, j - 1) /\ Seen(d.w, j - 1)
         /\ \A x \in Nat : Seen(flow[f].replay, x) => Seen(d.w, x)
  <2> SUFFICES ASSUME kind = "ss2022", net.sid = 1, d.ok
               PROVE  /\ ~Seen(flow[f].replay, j - 1) /\ Seen(d.w, j - 1)
                      /\ \A x \in Nat : Seen(flow[f].replay, x) => Seen(d.w, x)
    OBVIOUS
  <2>1. d = decrypt(f, flow[f].replay, p) /\ p.pid = j - 1 /\ p.sid = 1
    BY <1>8
  <2> HIDE DEF d
  <2>2. d = accept(flow[f].replay, 1, j - 1)
    BY <2>1 DEF decrypt
  <2> QED BY <2>2, <1>9, AcceptOnce
<1>a. /\ r.sent = flow[f].sent /\ r.q = flow[f].q /\ r.key = flow[f].key /\ r.part = flow[f].part
      /\ r.cut = flow[f].cut /\ r.late = flow[f].late /\ r.replay = d.w /\ r.st = st
  <2> HIDE DEF d, st
  <2> QED BY FlowType DEF FlowRecord
<1>b. flow'[f] = r /\ \A g \in Flows \ {f} : flow'[g] = flow[g]
  <2> HIDE DEF r
  <2> QED BY <1>3 DEF TablesInv, FlowOK, Put
<1> HIDE DEF d, r
<1>11. CASE ~d.ok
  <2>1. \A g \in Flows : Quiet(flow[g], flow'[g])
    <3>1. Quiet(flow[f], r)
      BY <1>4, <1>5, <1>11, <1>a DEF Quiet
    <3> QED BY <3>1, <1>b DEF Quiet
  <2>2. Lost(flow', quic, quic') /\ got' = got
    BY <1>3, <1>4, <1>11 DEF Lost
  <2> QED BY <1>4, <2>1, <2>2, QuietReplies DEF AtWork
<1>12. CASE d.ok
  <2> DEFINE e == encode_udp_datagram(f, p.data)
             once == Once(kind, net)
  <2>1. got' = With(got, e, 1 + IF e \in DOMAIN got THEN got[e] ELSE 0)
    BY <1>3, <1>12 DEF Delivered
  <2>2. e.data = Said(script, H[f][j]) /\ e.key = flow[f].key
    BY <1>8 DEF encode_udp_datagram
  <2>3. H[f][j] \in 1..count.sent /\ script[H[f][j]].key = flow[f].key
    BY <1>6, <1>9 DEF NumbersOK
  <2>4. once => kind = "ss2022" /\ net.sid = 1
    BY <1>4 DEF Once, Sockets
  <2>5. once => Left(got, e.data)
    BY <2>2, <2>4, <1>7, <1>10, <1>12 DEF ReplayOK
  <2> HIDE DEF e, once
  <2>6. \E i \in 1..count.sent : script[i].key = e.key /\ e.data = Said(script, i)
    BY <2>2, <2>3
  <2>7. GotOK(script, count.sent, once, got')
        /\ \A x : Given(got', x) => Given(got, x) \/ (Undisturbed(e) /\ x = e.data)
    BY <1>6, <2>1, <2>5, <2>6, DeliveredIsGiven DEF once
  <2>8. /\ \A g \in Flows : \A k \in 1..Len(H[g]) :
             Left(got, Said(script, H[g][k])) => Left(got', Said(script, H[g][k])) \/ (g = f /\ k = j)
        /\ UnsentOK(script, H, flow, assoc, got')
    BY <1>1, <2>2, <2>7, OthersAreLeft
  <2>9. HistOK(script, count.sent, H, flow', assoc) /\ UnsentOK(script, H, flow', assoc, got')
    <3>1. \A g \in Flows :
            /\ flow'[g].sent = flow[g].sent /\ flow'[g].q = flow[g].q /\ flow'[g].key = flow[g].key
            /\ flow'[g].st = flow[g].st /\ (flow[g].st = "none" => flow'[g] = flow[g])
      BY <1>4, <1>12, <1>a, <1>b
    <3>2. OnlyReads(flow, flow')
      BY <3>1 DEF OnlyReads
    <3> QED BY <3>2, <1>6, <2>8, ReadingFlow
  <2>10. AirOK(script, kind, H, flow', net)
    <3>1. \A g \in Flows : flow'[g].sent = flow[g].sent
      BY <1>a, <1>b
    <3> QED BY <3>1, <1>7 DEF AirOK
  <2>11. ReplayOK(script, kind, H, flow', net, got')
    <3> SUFFICES ASSUME kind = "ss2022", net.sid = 1, NEW g \in Flows, NEW k \in 1..flow'[g].sent
                 PROVE  Left(got', Said(script, H[g][k])) \/ Seen(flow'[g].replay, k - 1)
      BY DEF ReplayOK
    <3>1. k \in 1..flow[g].sent /\ k \in 1..Len(H[g]) /\ k - 1 \in Nat
      <4>1. flow'[g].sent = flow[g].sent
        BY <1>a, <1>b
      <4> QED BY <4>1, <1>9
    <3>2. Left(got, Said(script, H[g][k])) \/ Seen(flow[g].replay, k - 1)
      BY <1>7, <3>1 DEF ReplayOK
    <3>3. CASE g = f
      <4>1. flow'[g].replay = d.w
        BY <3>3, <1>a, <1>b
      <4>2. CASE k = j
        BY <3>3, <4>1, <4>2, <1>10, <1>12
      <4>3. CASE k # j
        BY <3>1, <3>2, <3>3, <4>1, <4>3, <1>10, <1>12, <2>8
      <4> QED BY <4>2, <4>3
    <3>4. CASE g # f
      <4>1. flow'[g] = flow[g]
        BY <3>4, <1>b
      <4> QED BY <3>1, <3>2, <3>4, <4>1, <2>8
    <3> QED BY <3>3, <3>4
  <2>12. WireOK(script, kind, H, flow', net, got')
    <3>1. kind \notin Streams
      BY <1>4 DEF Sockets, Streams
    <3> QED BY <3>1, <1>6 DEF UnderWay, WireOK
  <2>13. UnderWay(script, kind, H, flow', net, quic, got')
    <3>1. kind \notin Quic
      BY <1>4 DEF Sockets, Quic
    <3> QED BY <3>1, <2>10, <2>11, <2>12 DEF UnderWay
  <2> QED BY <1>1, <1>4, <1>6, <2>7, <2>9, <2>13 DEF RepliesInv, AnswersInv, once
<1> QED BY <1>11, <1>12

LEMMA Shifted ==
  ASSUME NEW at \in [Nat -> Int], NEW to, to = [j \in Nat |-> at[j] - 1]
  PROVE  to \in [Nat -> Int] /\ \A j \in Nat : to[j] = at[j] - 1 /\ at[j] \in Int
OBVIOUS

\* A place one nearer.
LEMMA OneLess ==
  ASSUME NEW a \in Int, NEW b \in Int, NEW k \in Nat, NEW l \in Nat, b = a + 1 + k, b <= l + 1,
         NEW c, c = a - 1, NEW d, d = b - 1, NEW m, m = l - 1
  PROVE  /\ d = c + 1 + k /\ d <= m + 1
         /\ \A i \in 0..k : c + i >= 1 => a + i >= 1 /\ c + i \in 1..m /\ (c + i) + 1 = a + i
OBVIOUS

\* A cell of the stream is read: every packet comes one place nearer.
LEMMA LaidShifts ==
  ASSUME NEW n \in Nat, NEW x \in [1..n -> Data], NEW wire \in Seq(Cell), wire # <<>>,
         NEW r, NEW at, Laid(x, n, wire, r, at),
         NEW to, to = [j \in Nat |-> at[j] - 1]
  PROVE  /\ Laid(x, n, Tail(wire), r, to)
         /\ r < n => Laid(x, n, Tail(wire), r + 1, to)
         /\ \A j \in Nat : to[j] = at[j] - 1 /\ at[j] \in Int
<1>1. r \in 0..n /\ at \in [Nat -> Int] /\ at[n + 1] = Len(wire) + 1
  BY DEF Laid
<1>2. to \in [Nat -> Int] /\ \A j \in Nat : to[j] = at[j] - 1 /\ at[j] \in Int
  BY <1>1, Shifted
<1>3. Len(wire) \in Nat /\ Len(wire) > 0 /\ Len(Tail(wire)) = Len(wire) - 1
      /\ \A i \in 1..(Len(wire) - 1) : Tail(wire)[i] = wire[i + 1]
  BY HeadTailProperties, LenProperties, EmptySeq
<1>4. to[n + 1] = Len(Tail(wire)) + 1
  <2>1. to[n + 1] = at[n + 1] - 1
    BY <1>2
  <2> QED BY <2>1, <1>1, <1>3
<1>5. ASSUME NEW j \in (r + 1)..n
      PROVE  /\ to[j + 1] = to[j] + 1 + Len(x[j]) /\ to[j + 1] <= Len(Tail(wire)) + 1
             /\ \A i \in 0..Len(x[j]) : to[j] + i >= 1 => Tail(wire)[to[j] + i] = CellAt(x[j], i)
  <2>1. /\ at[j + 1] = at[j] + 1 + Len(x[j]) /\ at[j + 1] <= Len(wire) + 1
        /\ \A i \in 0..Len(x[j]) : at[j] + i >= 1 => wire[at[j] + i] = CellAt(x[j], i)
    BY DEF Laid
  <2>2. j \in Nat /\ j + 1 \in Nat /\ j \in 1..n
    BY <1>1
  <2>3. Len(x[j]) \in Nat /\ at[j] \in Int /\ at[j + 1] \in Int
    BY <1>2, <2>2 DEF Data
  <2>4. to[j] = at[j] - 1 /\ to[j + 1] = at[j + 1] - 1
    BY <1>2, <2>2
  <2> DEFINE l == Len(wire)
             m == Len(Tail(wire))
             k == Len(x[j])
             a == at[j]
             b == at[j + 1]
             c == to[j]
             d == to[j + 1]
  <2>7. /\ l \in Nat /\ m = l - 1 /\ k \in Nat /\ a \in Int /\ b \in Int /\ b = a + 1 + k /\ b <= l + 1
        /\ c = a - 1 /\ d = b - 1
    BY <2>1, <2>3, <2>4, <1>3
  <2> HIDE DEF l, m, k, a, b, c, d
  <2>6. /\ d = c + 1 + k /\ d <= m + 1
        /\ \A i \in 0..k : c + i >= 1 => a + i >= 1 /\ c + i \in 1..m /\ (c + i) + 1 = a + i
    BY <2>7, OneLess
  <2>5. ASSUME NEW i \in 0..Len(x[j]), to[j] + i >= 1 PROVE Tail(wire)[to[j] + i] = CellAt(x[j], i)
    <3>1. at[j] + i >= 1 /\ to[j] + i \in 1..m /\ (to[j] + i) + 1 = at[j] + i
      BY <2>5, <2>6 DEF k, a, c
    <3>2. wire[at[j] + i] = CellAt(x[j], i)
      BY <2>1, <3>1
    <3>3. Tail(wire)[to[j] + i] = wire[(to[j] + i) + 1]
      BY <3>1, <2>7, <1>3 DEF l
    <3> QED BY <3>1, <3>2, <3>3
  <2> QED BY <2>5, <2>6 DEF m, k, c, d
<1>6. Laid(x, n, Tail(wire), r, to)
  BY <1>1, <1>2, <1>4, <1>5 DEF Laid
<1>7. ASSUME r < n PROVE Laid(x, n, Tail(wire), r + 1, to)
  <2>1. r + 1 \in 0..n /\ \A j \in ((r + 1) + 1)..n : j \in (r + 1)..n
    BY <1>1, <1>7
  <2> QED BY <1>2, <1>4, <1>5, <2>1 DEF Laid
<1> QED BY <1>2, <1>6, <1>7

\* The head of a packet.
LEMMA FramedHead ==
  ASSUME NEW n \in Nat, NEW x \in [1..n -> Data], NEW wire \in Seq(Cell), wire # <<>>,
         NEW r, NEW at, Framed(x, n, wire, NoPart, r, at)
  PROVE  /\ r \in 0..(n - 1) /\ Head(wire).head /\ Head(wire).len = Len(x[r + 1])
         /\ x[r + 1] = <<>> => \E to \in [Nat -> Int] : Framed(x, n, Tail(wire), NoPart, r + 1, to)
         /\ x[r + 1] # <<>> => \E to \in [Nat -> Int] :
              Framed(x, n, Tail(wire), [len |-> Len(x[r + 1]), data |-> <<>>], r, to)
<1> DEFINE to == [j \in Nat |-> at[j] - 1]
           y == r + 1
           part == [len |-> Len(x[y]), data |-> <<>>]
<1>1. Laid(x, n, wire, r, at) /\ at[y] = 1
  BY DEF Framed, Begun
<1>2. r \in 0..n /\ at \in [Nat -> Int] /\ at[n + 1] = Len(wire) + 1
  BY <1>1 DEF Laid
<1>3. Len(wire) \in Nat /\ Len(wire) > 0 /\ Head(wire) = wire[1]
  BY HeadTailProperties, LenProperties, EmptySeq
<1>4. r \in 0..(n - 1) /\ r < n /\ y \in 1..n /\ y \in (r + 1)..n /\ y \in Nat /\ y + 1 \in Nat /\ r \in Nat
  BY <1>1, <1>2, <1>3
<1>5. x[y] \in Data /\ Len(x[y]) \in Nat /\ (x[y] = <<>> <=> Len(x[y]) = 0)
  <2>1. x[y] \in Data
    BY <1>4
  <2> QED BY <2>1, EmptySeq, LenProperties DEF Data
<1>6. /\ at[y + 1] = at[y] + 1 + Len(x[y])
      /\ \A i \in 0..Len(x[y]) : at[y] + i >= 1 => wire[at[y] + i] = CellAt(x[y], i)
  <2> HIDE DEF y
  <2> QED BY <1>1, <1>4 DEF Laid
<1>9. /\ Laid(x, n, Tail(wire), r, to) /\ Laid(x, n, Tail(wire), y, to)
      /\ to[y] = at[y] - 1 /\ to[y + 1] = at[y + 1] - 1 /\ to \in [Nat -> Int]
      /\ at[y] \in Int
  <2>1. /\ Laid(x, n, Tail(wire), r, to)
        /\ r < n => Laid(x, n, Tail(wire), r + 1, to)
        /\ \A j \in Nat : to[j] = at[j] - 1 /\ at[j] \in Int
    BY <1>1, LaidShifts
  <2>2. to \in [Nat -> Int]
    BY <1>2, Shifted
  <2>3. Laid(x, n, Tail(wire), y, to)
    BY <2>1, <1>4
  <2> HIDE DEF to, y
  <2> QED BY <2>1, <2>2, <2>3, <1>4
<1>7. Head(wire) = CellAt(x[y], 0)
  <2> HIDE DEF y
  <2>1. 0 \in 0..Len(x[y]) /\ at[y] + 0 = 1
    BY <1>1, <1>5
  <2> QED BY <2>1, <1>3, <1>6
<1>8. Head(wire).head /\ Head(wire).len = Len(x[y])
  BY <1>7 DEF CellAt
<1>10. ASSUME x[y] = <<>> PROVE Framed(x, n, Tail(wire), NoPart, y, to)
  <2> HIDE DEF y, to
  <2>1. to[y + 1] = 1
    BY <1>1, <1>5, <1>6, <1>9, <1>10
  <2> QED BY <1>9, <2>1 DEF Framed, Begun
<1>11. ASSUME x[y] # <<>> PROVE Framed(x, n, Tail(wire), part, r, to)
  <2>1. part # NoPart
    BY <1>5 DEF NoPart
  <2>2. Len(part.data) = 0 /\ SubSeq(x[y], 1, 0) = <<>> /\ part.len = Len(x[y]) /\ part.data = <<>>
    <3>1. SubSeq(x[y], 1, 0) = <<>>
      BY <1>5, SubSeqProperties, EmptySeq DEF Data
    <3> QED BY <3>1
  <2> HIDE DEF part, to
  <2>3. to[y] + Len(part.data) = 0 /\ Len(part.data) < part.len
    <3> HIDE DEF y
    <3>1. to[y] = 0
      BY <1>1, <1>9
    <3>2. Len(x[y]) > 0
      BY <1>5, <1>11
    <3> QED BY <3>1, <3>2, <2>2
  <2>4. Begun(x, n, part, r, to)
    BY <1>4, <2>1, <2>2, <2>3 DEF Begun
  <2> QED BY <1>9, <2>4 DEF Framed
<1> HIDE DEF to
<1> QED BY <1>4, <1>8, <1>9, <1>10, <1>11

\* A piece of a packet: the last one, or one of those before.
LEMMA FramedPiece ==
  ASSUME NEW n \in Nat, NEW x \in [1..n -> Data], NEW wire \in Seq(Cell), wire # <<>>,
         NEW r, NEW at, NEW part, part # NoPart, part.data \in Seq(AnyPiece),
         Framed(x, n, wire, part, r, at),
         NEW new, new.len = part.len, new.data = Append(part.data, Head(wire).piece)
  PROVE  /\ r \in 0..(n - 1)
         /\ Len(new.data) = new.len =>
              new.data = x[r + 1] /\ \E to \in [Nat -> Int] : Framed(x, n, Tail(wire), NoPart, r + 1, to)
         /\ Len(new.data) # new.len => \E to \in [Nat -> Int] : Framed(x, n, Tail(wire), new, r, to)
<1> DEFINE to == [j \in Nat |-> at[j] - 1]
           y == r + 1
           d == part.data
           u == Len(d)
           l == Len(x[y])
<1>1. /\ Laid(x, n, wire, r, at) /\ r < n /\ part.len = l /\ u < part.len
      /\ d = SubSeq(x[y], 1, u) /\ at[y] + u = 0
  BY DEF Framed, Begun
<1>2. r \in 0..n /\ r < n /\ at \in [Nat -> Int]
  BY <1>1 DEF Laid
<1>3. Len(wire) \in Nat /\ Len(wire) > 0 /\ Head(wire) = wire[1]
  BY HeadTailProperties, LenProperties, EmptySeq
<1>4. r \in 0..(n - 1) /\ y \in 1..n /\ y \in (r + 1)..n /\ y \in Nat /\ y + 1 \in Nat
  BY <1>2
<1>5. x[y] \in Seq(Piece) /\ l \in Nat /\ d \in Seq(AnyPiece) /\ u \in Nat
  <2>1. x[y] \in Seq(Piece)
    BY <1>4 DEF Data
  <2> QED BY <2>1, LenProperties
<1>6. /\ at[y + 1] = at[y] + 1 + l
      /\ \A i \in 0..l : at[y] + i >= 1 => wire[at[y] + i] = CellAt(x[y], i)
  <2> HIDE DEF y
  <2> QED BY <1>1, <1>4 DEF Laid
<1>7. /\ Laid(x, n, Tail(wire), r, to) /\ Laid(x, n, Tail(wire), y, to)
      /\ to[y] = at[y] - 1 /\ to[y + 1] = at[y + 1] - 1 /\ to \in [Nat -> Int]
      /\ at[y] \in Int
  <2>1. /\ Laid(x, n, Tail(wire), r, to)
        /\ r < n => Laid(x, n, Tail(wire), r + 1, to)
        /\ \A j \in Nat : to[j] = at[j] - 1 /\ at[j] \in Int
    BY <1>1, LaidShifts
  <2>2. to \in [Nat -> Int]
    BY <1>2, Shifted
  <2>3. Laid(x, n, Tail(wire), y, to)
    BY <2>1, <1>1
  <2> HIDE DEF to, y
  <2> QED BY <2>1, <2>2, <2>3, <1>4
<1>8. Head(wire).piece = x[y][u + 1]
  <2> HIDE DEF y, l, u
  <2>1. u + 1 \in 0..l /\ at[y] + (u + 1) = 1 /\ u + 1 # 0
    BY <1>1, <1>5, <1>7
  <2>2. Head(wire) = CellAt(x[y], u + 1)
    BY <2>1, <1>3, <1>6
  <2> QED BY <2>1, <2>2 DEF CellAt
<1>9. new.len = l /\ new.data = Append(d, x[y][u + 1])
  BY <1>1, <1>8
<1>10. new.data = SubSeq(x[y], 1, u + 1) /\ Len(new.data) = u + 1
  <2>1. 1 \in 1..l /\ u + 1 \in 1..l
    BY <1>1, <1>5
  <2>2. SubSeq(x[y], 1, u + 1) = Append(SubSeq(x[y], 1, u), x[y][u + 1])
    <3> HIDE DEF y
    <3> QED BY <1>5, <2>1, SubSeqRecursiveSecond
  <2>3. Len(Append(d, x[y][u + 1])) = u + 1
    <3>1. x[y][u + 1] \in AnyPiece
      <4>1. x[y][u + 1] \in Piece
        BY <1>5, <2>1
      <4> QED BY <4>1 DEF AnyPiece
    <3> QED BY <3>1, <1>5, AppendProperties
  <2> QED BY <2>2, <2>3, <1>1, <1>9
<1> HIDE DEF to, d, u
<1>11. ASSUME Len(new.data) = new.len
       PROVE  new.data = x[y] /\ Framed(x, n, Tail(wire), NoPart, y, to)
  <2>1. u + 1 = l
    BY <1>9, <1>10, <1>11
  <2>2. new.data = x[y]
    <3> HIDE DEF y
    <3> QED BY <2>1, <1>5, <1>10, SubSeqFull
  <2> HIDE DEF y, l
  <2>3. to[y + 1] = 1
    <3> DEFINE a == at[y]
    <3>1. a \in Int /\ a + u = 0 /\ to[y + 1] = (a + 1 + l) - 1 /\ u \in Nat /\ l \in Nat
      BY <1>1, <1>5, <1>6, <1>7
    <3> HIDE DEF a
    <3> QED BY <2>1, <3>1
  <2> QED BY <2>2, <2>3, <1>7 DEF Framed, Begun
<1>12. ASSUME Len(new.data) # new.len PROVE Framed(x, n, Tail(wire), new, r, to)
  <2>1. new # NoPart
    <3>1. new.len # NoPart.len
      BY <1>5, <1>9 DEF NoPart
    <3> QED BY <3>1
  <2>2. Len(new.data) < new.len
    <3> HIDE DEF l
    <3> QED BY <1>1, <1>5, <1>9, <1>10, <1>12
  <2>3. new.data = SubSeq(x[y], 1, Len(new.data))
    BY <1>10
  <2>4. to[y] + Len(new.data) = 0
    <3> HIDE DEF l, y
    <3> DEFINE a == at[y]
               b == to[y]
               v == Len(new.data)
    <3>1. a \in Int /\ a + u = 0 /\ b = a - 1 /\ u \in Nat /\ v = u + 1
      BY <1>1, <1>5, <1>7, <1>10
    <3> HIDE DEF a, b, v
    <3>2. b + v = 0
      BY <3>1
    <3> QED BY <3>2 DEF b, v
  <2> QED BY <2>1, <2>2, <2>3, <2>4, <1>1, <1>7, <1>9 DEF Framed, Begun
<1> QED BY <1>4, <1>7, <1>11, <1>12

\* The answers of a flow, in the order they were sent.
Answers(H, f) == [j \in 1..flow[f].sent |-> Said(script, H[f][j])]
LEMMA AnswersAreData ==
  ASSUME TablesInv, NEW H, AnswersInv(H), NEW f \in Flows
  PROVE  /\ flow[f].sent \in Nat /\ Answers(H, f) \in [1..flow[f].sent -> Data]
         /\ \A j \in 1..flow[f].sent : j \in 1..Len(H[f]) /\ Answers(H, f)[j] = Said(script, H[f][j])
<1>1. /\ script \in Seq(Inputs) /\ flow[f].sent \in Nat /\ Len(H[f]) \in Nat /\ flow[f].sent <= Len(H[f])
      /\ \A j \in 1..Len(H[f]) : H[f][j] \in 1..Len(script)
  BY HistFacts
<1>2. \A j \in 1..flow[f].sent : j \in 1..Len(H[f])
  BY <1>1
<1>3. \A j \in 1..flow[f].sent : Said(script, H[f][j]) \in Data
  BY <1>1, <1>2, SaidIsData
<1> QED BY <1>1, <1>2, <1>3 DEF Answers

\* A cell of a stream is read, and the client may be given something.
LEMMA StreamStep ==
  ASSUME TablesInv, NEW H \in [Flows -> Seq(Nat)], AnswersInv(H), kind \in Streams, NEW f \in Flows,
         UNCHANGED <<script, kind, assoc, quic, count>>, flow[f].st = "running",
         net'.wire[f] = Tail(net.wire[f]), net'.sid = net.sid,
         \A g \in Flows \ {f} : net'.wire[g] = net.wire[g] /\ flow'[g] = flow[g],
         flow'[f].sent = flow[f].sent, flow'[f].q = flow[f].q, flow'[f].key = flow[f].key,
         flow'[f].st \in {"running", "closing"}, flow'[f].cut = flow[f].cut,
         GotOK(script, count.sent, Once(kind, net), got'), UnsentOK(script, H, flow, assoc, got'),
         \A g \in Flows \ {f} : \A k \in 1..Len(H[g]) :
           Left(got, Said(script, H[g][k])) => Left(got', Said(script, H[g][k])),
         ~flow[f].cut => \E r \in Nat, at \in [Nat -> Int] :
           /\ Framed(Answers(H, f), flow[f].sent, Tail(net.wire[f]), flow'[f].part, r, at)
           /\ \A j \in (r + 1)..flow[f].sent : Left(got', Said(script, H[f][j]))
  PROVE  RepliesInv'
<1>1. /\ HistOK(script, count.sent, H, flow, assoc) /\ net.sid # 0
      /\ UnderWay(script, kind, H, flow, net, quic, got)
  BY Parts
<1>4. HistOK(script, count.sent, H, flow', assoc) /\ UnsentOK(script, H, flow', assoc, got')
  <2>1. \A g \in Flows :
          /\ flow'[g].sent = flow[g].sent /\ flow'[g].q = flow[g].q /\ flow'[g].key = flow[g].key
          /\ flow'[g].st = flow[g].st \/ (flow[g].st = "running" /\ flow'[g].st = "closing")
          /\ flow[g].st = "none" => flow'[g] = flow[g]
    OBVIOUS
  <2> DEFINE h == got'
             fm == flow'
  <2>2. UnsentOK(script, H, flow, assoc, h)
    OBVIOUS
  <2> HIDE DEF h, fm
  <2>3. OnlyReads(flow, fm)
    BY <2>1 DEF fm, OnlyReads
  <2>4. HistOK(script, count.sent, H, fm, assoc) /\ UnsentOK(script, H, fm, assoc, h)
    BY <2>2, <2>3, <1>1, ReadingFlow
  <2> QED BY <2>4 DEF h, fm
<1>5. WireOK(script, kind, H, flow', net', got')
  <2> SUFFICES ASSUME NEW g \in Flows, ~flow'[g].cut
               PROVE  LET x == [j \in 1..flow'[g].sent |-> Said(script, H[g][j])]
                      IN  \E r \in Nat, at \in [Nat -> Int] :
                            /\ Framed(x, flow'[g].sent, net'.wire[g], flow'[g].part, r, at)
                            /\ \A j \in (r + 1)..flow'[g].sent : Left(got', x[j])
    BY DEF WireOK
  <2> DEFINE x == [j \in 1..flow'[g].sent |-> Said(script, H[g][j])]
  <2>0. /\ flow[g].sent \in Nat
        /\ \A j \in 1..flow[g].sent : j \in 1..Len(H[g]) /\ Answers(H, g)[j] = Said(script, H[g][j])
    BY AnswersAreData
  <2>1. flow'[g].sent = flow[g].sent
    OBVIOUS
  <2>2. x = Answers(H, g)
    BY <2>1 DEF Answers
  <2>3. \A r \in Nat : \A j \in (r + 1)..flow[g].sent : j \in 1..flow[g].sent
    BY <2>0
  <2> HIDE DEF x
  <2>4. CASE g = f
    <3>1. PICK r \in Nat, at \in [Nat -> Int] :
           /\ Framed(Answers(H, f), flow[f].sent, Tail(net.wire[f]), flow'[f].part, r, at)
           /\ \A j \in (r + 1)..flow[f].sent : Left(got', Said(script, H[f][j]))
      BY <2>4
    <3>2. Framed(x, flow'[g].sent, net'.wire[g], flow'[g].part, r, at)
      BY <2>1, <2>2, <2>4, <3>1
    <3>3. \A j \in (r + 1)..flow'[g].sent : Left(got', x[j])
      BY <2>0, <2>1, <2>2, <2>3, <2>4, <3>1
    <3> QED BY <3>2, <3>3 DEF x
  <2>5. CASE g # f
    <3>1. flow'[g] = flow[g] /\ net'.wire[g] = net.wire[g]
      BY <2>5
    <3>2. PICK r \in Nat, at \in [Nat -> Int] :
            /\ Framed(Answers(H, g), flow[g].sent, net.wire[g], flow[g].part, r, at)
            /\ \A j \in (r + 1)..flow[g].sent : Left(got, Answers(H, g)[j])
      BY <3>1, <1>1 DEF UnderWay, WireOK, Answers
    <3>3. Framed(x, flow'[g].sent, net'.wire[g], flow'[g].part, r, at)
      BY <2>2, <3>1, <3>2
    <3>4. ASSUME NEW j \in (r + 1)..flow'[g].sent PROVE Left(got', x[j])
      <4>1. j \in (r + 1)..flow[g].sent /\ j \in 1..flow[g].sent
        BY <2>1, <2>3
      <4>2. j \in 1..Len(H[g]) /\ x[j] = Said(script, H[g][j]) /\ Left(got, x[j])
        BY <4>1, <2>0, <2>2, <3>2
      <4> QED BY <4>2, <2>5
    <3> QED BY <3>3, <3>4 DEF x
  <2> QED BY <2>4, <2>5
<1>6. UnderWay(script, kind, H, flow', net', quic, got')
  <2>1. kind \notin Sockets /\ kind \notin Quic
    BY DEF Streams, Sockets, Quic
  <2> QED BY <2>1, <1>5 DEF UnderWay
<1>7. Once(kind, net') = Once(kind, net)
  BY DEF Once
<1> QED BY <1>1, <1>4, <1>6, <1>7 DEF RepliesInv, AnswersInv

\* What a reader may have after one more cell.
Reads(part, c) ==
    IF part = NoPart THEN {[len |-> n, data |-> <<>>] : n \in IF c.head THEN {c.len} ELSE 0..2}
    ELSE {[part EXCEPT !.data = Append(@, c.piece)]}

\* A reader that lost nothing has a whole packet or a longer piece of it.
LEMMA ReadsFramed ==
  ASSUME NEW n \in Nat, NEW x \in [1..n -> Data], NEW wire \in Seq(Cell), wire # <<>>,
         NEW r, NEW at, NEW part \in [len : Int, data : Seq(AnyPiece)],
         Framed(x, n, wire, part, r, at), NEW p \in Reads(part, Head(wire))
  PROVE  /\ r \in 0..(n - 1)
         /\ Len(p.data) = p.len =>
              p.data = x[r + 1] /\ \E to \in [Nat -> Int] : Framed(x, n, Tail(wire), NoPart, r + 1, to)
         /\ Len(p.data) # p.len => \E to \in [Nat -> Int] : Framed(x, n, Tail(wire), p, r, to)
<1>1. CASE part = NoPart
  <2>1. /\ r \in 0..(n - 1) /\ Head(wire).head /\ Head(wire).len = Len(x[r + 1])
        /\ x[r + 1] = <<>> => \E to \in [Nat -> Int] : Framed(x, n, Tail(wire), NoPart, r + 1, to)
        /\ x[r + 1] # <<>> => \E to \in [Nat -> Int] :
             Framed(x, n, Tail(wire), [len |-> Len(x[r + 1]), data |-> <<>>], r, to)
    BY <1>1, FramedHead
  <2>2. p = [len |-> Len(x[r + 1]), data |-> <<>>]
    BY <1>1, <2>1 DEF Reads
  <2>3. x[r + 1] \in Data
    <3>1. r + 1 \in 1..n
      BY <2>1
    <3> QED BY <3>1
  <2>4. Len(p.data) = 0 /\ p.data = <<>> /\ p.len = Len(x[r + 1])
    BY <2>2
  <2>5. x[r + 1] = <<>> <=> Len(x[r + 1]) = 0
    BY <2>3, EmptySeq, LenProperties DEF Data
  <2> QED BY <2>1, <2>2, <2>4, <2>5
<1>2. CASE part # NoPart
  <2>1. p = [part EXCEPT !.data = Append(@, Head(wire).piece)]
    BY <1>2 DEF Reads
  <2>2. p.len = part.len /\ p.data = Append(part.data, Head(wire).piece)
    BY <2>1
  <2>3. part.data \in Seq(AnyPiece)
    OBVIOUS
  <2> QED BY <1>2, <2>2, <2>3, FramedPiece
<1> QED BY <1>1, <1>2

LEMMA StreamReadsReplies ==
  ASSUME TablesInv, RepliesInv, NEW f \in Flows, StreamReads(f)
  PROVE  RepliesInv'
<1>1. PICK H \in [Flows -> Seq(Nat)] : AnswersInv(H)
  BY DEF RepliesInv
<1>2. /\ UNCHANGED <<script, kind, assoc, quic, count>> /\ flow[f].st = "running" /\ net.wire[f] # <<>>
      /\ net' = [net EXCEPT !.wire[f] = Tail(@)]
      /\ \/ read_udp_packet(f)
         \/ /\ flow[f].part = NoPart /\ ~Head(net.wire[f]).head
            /\ flow' = [flow EXCEPT ![f].st = "closing"] /\ UNCHANGED got
  BY DEF StreamReads
<1>3. net'.wire[f] = Tail(net.wire[f]) /\ net'.sid = net.sid /\ \A g \in Flows \ {f} : net'.wire[g] = net.wire[g]
  BY <1>2 DEF TablesInv, NetOK
<1>4. /\ flow[f] \in FlowRecord /\ flow[f].part \in [len : Int, data : Seq(AnyPiece)]
      /\ flow[f].cut \in BOOLEAN /\ net.wire[f] \in Seq(Cell)
  BY FlowType DEF FlowRecord, TablesInv, NetOK
<1>5. /\ NumbersOK(script, count.sent, H, flow) /\ GotOK(script, count.sent, Once(kind, net), got)
      /\ UnsentOK(script, H, flow, assoc, got)
      /\ UnderWay(script, kind, H, flow, net, quic, got)
  BY <1>1, Parts
<1>6. kind \in Streams
  BY <1>2, <1>5 DEF UnderWay, WireOK
<1>7. /\ flow[f].sent \in Nat /\ Answers(H, f) \in [1..flow[f].sent -> Data]
      /\ \A j \in 1..flow[f].sent : j \in 1..Len(H[f]) /\ Answers(H, f)[j] = Said(script, H[f][j])
  BY <1>1, AnswersAreData
<1> DEFINE n == flow[f].sent
           x == Answers(H, f)
           wire == net.wire[f]
           part == flow[f].part
<1>8. ASSUME ~flow[f].cut
      PROVE  \E r \in Nat, at \in [Nat -> Int] :
               Framed(x, n, wire, part, r, at) /\ \A j \in (r + 1)..n : Left(got, x[j])
  BY <1>5, <1>6, <1>8 DEF UnderWay, WireOK, Answers
<1> HIDE DEF x
<1>9. CASE /\ flow[f].part = NoPart /\ ~Head(net.wire[f]).head
           /\ flow' = [flow EXCEPT ![f].st = "closing"] /\ UNCHANGED got
  <2>1. /\ flow'[f].sent = flow[f].sent /\ flow'[f].q = flow[f].q /\ flow'[f].key = flow[f].key
        /\ flow'[f].st = "closing" /\ flow'[f].cut = flow[f].cut
        /\ \A g \in Flows \ {f} : flow'[g] = flow[g]
    BY <1>9, <1>4 DEF TablesInv, FlowOK, FlowRecord
  <2>2. flow[f].cut
    <3> SUFFICES ASSUME ~flow[f].cut PROVE FALSE
      OBVIOUS
    <3>1. PICK r \in Nat, at \in [Nat -> Int] : Framed(x, n, wire, NoPart, r, at)
      BY <1>8, <1>9
    <3> QED BY <1>2, <1>4, <1>7, <1>9, <3>1, FramedHead DEF x
  <2>3. got' = got
    BY <1>9
  <2> HIDE DEF n, wire, part
  <2> QED BY <1>1, <1>2, <1>3, <1>5, <1>6, <2>1, <2>2, <2>3, StreamStep
<1>10. CASE read_udp_packet(f)
  <2>1. PICK p \in Reads(part, Head(wire)) :
          IF Len(p.data) = p.len
          THEN /\ Delivered(encode_udp_datagram(f, p.data))
               /\ flow' = [flow EXCEPT ![f].part = NoPart]
          ELSE flow' = [flow EXCEPT ![f].part = p] /\ UNCHANGED got
    BY <1>10 DEF read_udp_packet, Reads
  <2> DEFINE new == IF Len(p.data) = p.len THEN NoPart ELSE p
             e == encode_udp_datagram(f, p.data)
             once == Once(kind, net)
  <2>2. flow' = [flow EXCEPT ![f].part = new]
    BY <2>1
  <2> HIDE DEF new
  <2>3. /\ flow'[f].sent = flow[f].sent /\ flow'[f].q = flow[f].q /\ flow'[f].key = flow[f].key
        /\ flow'[f].st = "running" /\ flow'[f].cut = flow[f].cut /\ flow'[f].part = new
        /\ \A g \in Flows \ {f} : flow'[g] = flow[g]
    BY <1>2, <1>4, <2>2 DEF TablesInv, FlowOK, FlowRecord
  <2>4. e.data = p.data /\ e.key = flow[f].key /\ e.cut = flow[f].cut
    BY DEF encode_udp_datagram
  <2> HIDE DEF e, once
  <2>5. CASE flow[f].cut
    <3>1. GotOK(script, count.sent, once, got') /\ \A y : Given(got', y) => Given(got, y)
      <4>1. CASE Len(p.data) = p.len
        <5>1. got' = With(got, e, 1 + IF e \in DOMAIN got THEN got[e] ELSE 0)
          BY <2>1, <4>1 DEF Delivered, e
        <5>2. ~Undisturbed(e) /\ GotOK(script, count.sent, once, got)
          BY <2>4, <2>5, <1>5 DEF once, Undisturbed
        <5> DEFINE h == got'
        <5>3. h = With(got, e, 1 + IF e \in DOMAIN got THEN got[e] ELSE 0)
          BY <5>1
        <5> HIDE DEF h
        <5>4. /\ GotOK(script, count.sent, once, h)
              /\ \A y : Given(h, y) => Given(got, y) \/ (Undisturbed(e) /\ y = e.data)
          BY <5>2, <5>3, DeliveredIsGiven
        <5> QED BY <5>2, <5>4 DEF h
      <4>2. CASE Len(p.data) # p.len
        BY <4>2, <2>1, <1>5 DEF once
      <4> QED BY <4>1, <4>2
    <3>2. \A y : Left(got, y) => Left(got', y)
      BY <3>1 DEF Left
    <3>3. UnsentOK(script, H, flow, assoc, got')
      BY <1>5, <3>2 DEF UnsentOK
    <3> HIDE DEF n, wire, part
    <3> QED BY <1>1, <1>2, <1>3, <1>6, <2>3, <2>5, <3>1, <3>2, <3>3, StreamStep DEF once
  <2>6. CASE ~flow[f].cut
    <3>1. PICK r \in Nat, at \in [Nat -> Int] :
            Framed(x, n, wire, part, r, at) /\ \A j \in (r + 1)..n : Left(got, x[j])
      BY <1>8, <2>6
    <3>2. /\ r \in 0..(n - 1)
          /\ Len(p.data) = p.len =>
               p.data = x[r + 1] /\ \E to \in [Nat -> Int] : Framed(x, n, Tail(wire), NoPart, r + 1, to)
          /\ Len(p.data) # p.len => \E to \in [Nat -> Int] : Framed(x, n, Tail(wire), p, r, to)
      <4> HIDE DEF n, wire, part
      <4> QED BY <1>2, <1>4, <1>7, <3>1, ReadsFramed DEF n, x, wire, part
    <3> DEFINE j == r + 1
    <3>3. /\ j \in 1..n /\ j \in (r + 1)..n /\ j \in 1..Len(H[f]) /\ x[j] = Said(script, H[f][j])
      <4>1. j \in 1..n /\ j \in (r + 1)..n
        <5>1. n \in Nat /\ r \in 0..(n - 1)
          BY <1>7, <3>2
        <5> HIDE DEF n
        <5> QED BY <5>1
      <4> QED BY <4>1, <1>7 DEF x
    <3> HIDE DEF j
    <3>4. /\ r \in Nat /\ j \in Nat /\ j = r + 1 /\ n \in Nat
      BY <1>7, <3>1 DEF j
    <3>5. CASE Len(p.data) # p.len
      <4>1. got' = got /\ new = p
        BY <2>1, <3>5 DEF new
      <4>2. \E q \in Nat, to \in [Nat -> Int] :
              /\ Framed(x, n, Tail(wire), flow'[f].part, q, to)
              /\ \A k \in (q + 1)..n : Left(got', Said(script, H[f][k]))
        <5>1. PICK to \in [Nat -> Int] : Framed(x, n, Tail(wire), p, r, to)
          BY <3>2, <3>5
        <5>2. \A k \in (r + 1)..n : k \in 1..n
          BY <3>4
        <5>3. \A k \in (r + 1)..n : Left(got', Said(script, H[f][k]))
          BY <5>2, <4>1, <3>1, <1>7 DEF x
        <5> QED BY <5>1, <5>3, <4>1, <2>3
      <4> QED BY <1>1, <1>2, <1>3, <1>5, <1>6, <2>3, <4>1, <4>2, StreamStep DEF x
    <3>6. CASE Len(p.data) = p.len
      <4>1. got' = With(got, e, 1 + IF e \in DOMAIN got THEN got[e] ELSE 0) /\ new = NoPart
        BY <2>1, <3>6 DEF Delivered, e, new
      <4>2. e.data = Said(script, H[f][j])
        BY <2>4, <3>2, <3>3, <3>4, <3>6
      <4>3. Left(got, e.data)
        BY <3>1, <3>3, <4>2
      <4>4. H[f][j] \in 1..count.sent /\ script[H[f][j]].key = e.key
        BY <1>5, <3>3, <2>4 DEF NumbersOK
      <4>5. /\ GotOK(script, count.sent, once, got')
            /\ \A y : Given(got', y) => Given(got, y) \/ y = Said(script, H[f][j])
        <5>1. Undisturbed(e) => \E i \in 1..count.sent : script[i].key = e.key /\ e.data = Said(script, i)
          BY <4>2, <4>4
        <5> QED BY <5>1, <4>1, <4>2, <4>3, <1>5, DeliveredIsGiven DEF once
      <4>6. /\ \A g \in Flows : \A k \in 1..Len(H[g]) :
                 Left(got, Said(script, H[g][k])) => Left(got', Said(script, H[g][k])) \/ (g = f /\ k = j)
            /\ UnsentOK(script, H, flow, assoc, got')
        <5> DEFINE h == got'
        <5>1. \A y : Given(h, y) => Given(got, y) \/ y = Said(script, H[f][j])
          BY <4>5
        <5> HIDE DEF h
        <5> QED BY <1>1, <3>3, <5>1, OthersAreLeft DEF h
      <4>7. \E q \in Nat, to \in [Nat -> Int] :
              /\ Framed(x, n, Tail(wire), flow'[f].part, q, to)
              /\ \A k \in (q + 1)..n : Left(got', Said(script, H[f][k]))
        <5>1. PICK to \in [Nat -> Int] : Framed(x, n, Tail(wire), NoPart, j, to)
          BY <3>2, <3>4, <3>6
        <5>2. \A k \in (j + 1)..n : k \in 1..n /\ k \in (r + 1)..n /\ k # j
          BY <3>4
        <5>3. \A k \in (j + 1)..n : Left(got', Said(script, H[f][k]))
          BY <5>2, <4>6, <3>1, <1>7 DEF x
        <5> QED BY <5>1, <5>3, <4>1, <2>3, <3>4
      <4>8. \A g \in Flows \ {f} : \A k \in 1..Len(H[g]) :
              Left(got, Said(script, H[g][k])) => Left(got', Said(script, H[g][k]))
        BY <4>6
      <4> QED BY <1>1, <1>2, <1>3, <1>6, <2>3, <4>5, <4>6, <4>7, <4>8, StreamStep DEF x, once
    <3> QED BY <3>5, <3>6
  <2> QED BY <1>4, <2>5, <2>6
<1> QED BY <1>2, <1>9, <1>10

LEMMA NextPlace ==
  ASSUME NEW n \in Nat, NEW l \in Nat, NEW i \in 1..(l - 1)
  PROVE  i \in Nat /\ i + 1 \in 1..l /\ n + (i + 1) = (n + 1) + i
OBVIOUS

\* The task sends the next datagram of its history.
LEMMA SendFacts ==
  ASSUME TablesInv, NEW H, AnswersInv(H), NEW f \in Flows, TaskSends(f),
         NEW n, n = flow[f].sent, NEW y, y = n + 1, NEW x, x = Said(script, H[f][y])
  PROVE  /\ n \in Nat /\ y \in 1..Len(H[f]) /\ x \in Data /\ Left(got, x)
         /\ Payload(Head(flow[f].q)) = x /\ Echo(flow[f].key, x) = x
         /\ flow[f].st = "running" /\ flow'[f].sent = y /\ flow'[f].part = NoPart
         /\ flow'[f].cut = (flow[f].cut \/ flow[f].part # NoPart)
         /\ flow'[f].replay = flow[f].replay /\ flow'[f].late = flow[f].late
         /\ \A g \in Flows \ {f} : flow'[g] = flow[g]
         /\ HistOK(script, count.sent, H, flow', assoc) /\ UnsentOK(script, H, flow', assoc, got)
<1> DEFINE r == flow[f]
           m == Head(r.q)
           s == IF ~(kind \notin Quic \/ (able /\ CanSend(quic, Payload(m)))) THEN "closing"
                ELSE IF kind \in Streams THEN "sending" ELSE r.st
           c == r.cut \/ r.part # NoPart
           new == [r EXCEPT !.q = Tail(@), !.st = s, !.part = NoPart, !.cut = c, !.sent = @ + 1]
<1>1. /\ r \in FlowRecord /\ r.q \in Seq(Message) /\ r.q # <<>> /\ r.st = "running" /\ r.sent \in Nat
      /\ flow' = [flow EXCEPT ![f] = new]
  BY FlowType DEF FlowRecord, TaskSends
<1>2. /\ script \in Seq(Inputs) /\ n \in Nat /\ Len(H[f]) \in Nat /\ n + Len(r.q) <= Len(H[f])
      /\ \A j \in 1..Len(H[f]) : H[f][j] \in 1..Len(script)
  BY HistFacts
<1>3. /\ m = r.q[1] /\ Len(r.q) \in Nat /\ Len(r.q) >= 1 /\ Len(Tail(r.q)) = Len(r.q) - 1
      /\ \A i \in 1..(Len(r.q) - 1) : Tail(r.q)[i] = r.q[i + 1]
  BY <1>1, HeadTailProperties, LenProperties, EmptySeq
<1>4. /\ QueueOK(script, H[f], r) /\ NumbersOK(script, count.sent, H, flow) /\ H \in [Flows -> Seq(Nat)]
      /\ (\A g \in Flows : QueueOK(script, H[g], flow[g])) /\ Apart(H)
      /\ PendingOK(script, count.sent, H, assoc) /\ UnsentOK(script, H, flow, assoc, got)
  BY Parts
<1>5. /\ new.q = Tail(r.q) /\ new.st = s /\ new.part = NoPart /\ new.cut = c /\ new.sent = n + 1
      /\ new.key = r.key /\ new.replay = r.replay /\ new.late = r.late
  <2> HIDE DEF s, c
  <2> QED BY <1>1 DEF FlowRecord
<1>6. s \in {"running", "sending", "closing"}
  BY <1>1
<1> HIDE DEF m, r, s, new
<1>7. flow'[f] = new /\ (\A g \in Flows \ {f} : flow'[g] = flow[g])
  BY <1>1 DEF TablesInv, FlowOK
<1>8. y \in 1..Len(H[f]) /\ y \in (n + 1)..Len(H[f])
  BY <1>2, <1>3
<1>9. m = Msg(script, H[f][y])
  <2>1. 1 \in 1..Len(r.q) /\ r.sent + 1 = y
    BY <1>1, <1>3 DEF r
  <2> QED BY <2>1, <1>3, <1>4 DEF QueueOK
<1>10. /\ Payload(m) = x /\ x \in Data /\ script[H[f][y]].key = r.key /\ Echo(r.key, x) = x
  <2>1. script[H[f][y]].key = r.key
    BY <1>4, <1>8 DEF NumbersOK, r
  <2>2. x \in Data /\ Echo(script[H[f][y]].key, x) = x
    BY <1>2, <1>8, SaidIsData
  <2> QED BY <2>1, <2>2, <1>9 DEF Said
<1>11. Left(got, x)
  BY <1>4, <1>8 DEF UnsentOK
<1>12. QueueOK(script, H[f], new)
  <2> DEFINE l == Len(r.q)
             t == Tail(r.q)
  <2>1. /\ n + l <= Len(H[f]) /\ (r.st # "ended" => n + l = Len(H[f]))
        /\ \A i \in 1..l : r.q[i] = Msg(script, H[f][n + i])
    BY <1>4 DEF QueueOK, r
  <2>2. new.sent + Len(new.q) = Len(H[f])
    <3>1. n + l = Len(H[f]) /\ Len(t) = l - 1 /\ l \in Nat
      BY <2>1, <1>1, <1>3
    <3> HIDE DEF l, t
    <3>2. (n + 1) + Len(t) = Len(H[f])
      BY <3>1, <1>2
    <3> QED BY <3>2, <1>5 DEF t
  <2>3. ASSUME NEW i \in 1..Len(new.q) PROVE new.q[i] = Msg(script, H[f][new.sent + i])
    <3>1. i \in 1..(l - 1) /\ i + 1 \in 1..l /\ n + (i + 1) = (n + 1) + i /\ i \in Nat
      <4>1. i \in 1..(l - 1) /\ l \in Nat
        BY <1>3, <1>5
      <4>2. n \in Nat
        BY <1>2
      <4> HIDE DEF l
      <4> QED BY <4>1, <4>2, NextPlace
    <3>2. new.q[i] = r.q[i + 1] /\ r.q[i + 1] = Msg(script, H[f][n + (i + 1)])
      BY <3>1, <2>1, <1>3, <1>5
    <3> QED BY <3>1, <3>2, <1>5
  <2>4. new.st # "none"
    BY <1>5, <1>6
  <2>5. new.sent + Len(new.q) <= Len(H[f])
    BY <2>2, <1>2
  <2> QED BY <2>2, <2>3, <2>4, <2>5 DEF QueueOK
<1>13. HistOK(script, count.sent, H, flow', assoc)
  <2>1. NumbersOK(script, count.sent, H, flow')
    <3>1. \A g \in Flows : flow'[g].key = flow[g].key
      BY <1>5, <1>7 DEF r
    <3> QED BY <3>1, <1>4 DEF NumbersOK
  <2>2. \A g \in Flows : QueueOK(script, H[g], flow'[g])
    BY <1>4, <1>7, <1>12
  <2> QED BY <2>1, <2>2, <1>4 DEF HistOK
<1>14. UnsentOK(script, H, flow', assoc, got)
  <2>1. \A j \in (y + 1)..Len(H[f]) : j \in (n + 1)..Len(H[f])
    BY <1>2, <1>8
  <2>2. ASSUME NEW g \in Flows, NEW j \in (flow'[g].sent + 1)..Len(H[g]) PROVE Left(got, Said(script, H[g][j]))
    <3>1. CASE g = f
      <4>1. j \in (n + 1)..Len(H[f])
        BY <2>1, <1>5, <1>7, <3>1
      <4> QED BY <4>1, <3>1, <1>4 DEF UnsentOK
    <3>2. CASE g # f
      BY <3>2, <1>4, <1>7 DEF UnsentOK
    <3> QED BY <3>1, <3>2
  <2> QED BY <2>2, <1>4 DEF UnsentOK
<1> QED BY <1>1, <1>2, <1>5, <1>7, <1>8, <1>10, <1>11, <1>13, <1>14 DEF m, r

\* What the network holds after a datagram was sent.
LEMMA NetAfterSend ==
  ASSUME TablesInv, NEW f \in Flows, TaskSends(f), NEW x, x = Echo(flow[f].key, Payload(Head(flow[f].q))),
         Payload(Head(flow[f].q)) = x
  PROVE  /\ net'.sid = net.sid
         /\ \A g \in Flows \ {f} : net'.air[g] = net.air[g] /\ net'.wire[g] = net.wire[g]
         /\ net'.wire[f] = IF kind \in Streams THEN net.wire[f] \o encode_udp_packet(x) ELSE net.wire[f]
         /\ \A p \in net'.air[f] : p \in net.air[f] \/ (/\ p.data = x
                                                        /\ kind = "ss2022" => p.pid = flow[f].sent /\ p.sid = net.sid)
<1> DEFINE m == Head(flow[f].q)
           w == IF kind \in Streams THEN net.wire[f] \o encode_udp_packet(x) ELSE net.wire[f]
           a == net.air[f] \union ServerAnswers(f, m)
<1>1. net' = [net EXCEPT !.air[f] = a, !.wire[f] = w]
  BY DEF TaskSends, Answered
<1>2. ASSUME NEW p \in ServerAnswers(f, m)
      PROVE  p.data = x /\ (kind = "ss2022" => p.pid = flow[f].sent /\ p.sid = net.sid)
  <2>1. CASE kind = "direct"
    <3>1. ServerAnswers(f, m) = {[data |-> x]}
      BY <2>1 DEF ServerAnswers
    <3> QED BY <3>1, <2>1
  <2>2. CASE kind = "shadowsocks"
    <3>1. ServerAnswers(f, m) = {[target |-> flow[f].key, data |-> x]}
      BY <2>2 DEF ServerAnswers, encrypt_packet
    <3> QED BY <3>1, <2>2
  <2>3. CASE kind = "ss2022"
    <3>1. ServerAnswers(f, m) = {[sid |-> net.sid, pid |-> flow[f].sent, client |-> f, data |-> x]}
      BY <2>3 DEF ServerAnswers, request, response
    <3> QED BY <3>1
  <2>4. CASE kind \notin {"direct", "shadowsocks", "ss2022"}
    BY <1>2, <2>4 DEF ServerAnswers
  <2> QED BY <2>1, <2>2, <2>3, <2>4
<1>3. \A p \in a : p \in net.air[f] \/ p \in ServerAnswers(f, m)
  OBVIOUS
<1> HIDE DEF w, a
<1>4. /\ net'.sid = net.sid /\ net'.wire[f] = w /\ net'.air[f] = a
      /\ \A g \in Flows \ {f} : net'.air[g] = net.air[g] /\ net'.wire[g] = net.wire[g]
  BY <1>1 DEF TablesInv, NetOK
<1> QED BY <1>2, <1>3, <1>4 DEF w

LEMMA SocketSends ==
  ASSUME TablesInv, NEW H, AnswersInv(H), NEW f \in Flows, TaskSends(f), kind \in Sockets
  PROVE  AirOK(script, kind, H, flow', net') /\ ReplayOK(script, kind, H, flow', net', got)
<1> DEFINE n == flow[f].sent
           y == n + 1
           x == Said(script, H[f][y])
<1>1. /\ n \in Nat /\ y \in 1..Len(H[f]) /\ x \in Data /\ Left(got, x)
      /\ Payload(Head(flow[f].q)) = x /\ Echo(flow[f].key, x) = x
      /\ flow'[f].sent = y /\ flow'[f].replay = flow[f].replay
      /\ \A g \in Flows \ {f} : flow'[g] = flow[g]
  BY SendFacts
<1>2. /\ net'.sid = net.sid
      /\ \A g \in Flows \ {f} : net'.air[g] = net.air[g]
      /\ \A p \in net'.air[f] : p \in net.air[f] \/ (/\ p.data = x
                                                     /\ kind = "ss2022" => p.pid = n /\ p.sid = net.sid)
  BY <1>1, NetAfterSend
<1>3. AirOK(script, kind, H, flow, net) /\ ReplayOK(script, kind, H, flow, net, got) /\ net.sid # 0 /\ net.sid \in Nat
  BY Parts DEF UnderWay, TablesInv, NetOK
<1>4. \A j \in 1..y : j \in 1..n \/ j = y
  BY <1>1
<1>5. \A j \in 1..n : j \in 1..y
  BY <1>1
<1>6. y \in 1..y /\ y - 1 = n
  BY <1>1
<1>7. net.sid \in 1..net.sid
  BY <1>3
<1> HIDE DEF n, y, x
<1>8. AirOK(script, kind, H, flow', net')
  <2> SUFFICES ASSUME NEW g \in Flows, NEW p \in net'.air[g]
               PROVE  \E j \in 1..flow'[g].sent :
                        /\ p.data = Said(script, H[g][j])
                        /\ kind = "ss2022" => p.pid = j - 1 /\ p.sid \in 1..net'.sid
    BY DEF AirOK
  <2>1. CASE g # f
    BY <2>1, <1>1, <1>2, <1>3 DEF AirOK
  <2>2. CASE g = f /\ p \in net.air[f]
    <3>1. PICK j \in 1..n : /\ p.data = Said(script, H[f][j])
                            /\ kind = "ss2022" => p.pid = j - 1 /\ p.sid \in 1..net.sid
      BY <2>2, <1>3 DEF AirOK, n
    <3> QED BY <2>2, <3>1, <1>1, <1>2, <1>5
  <2>3. CASE g = f /\ p \notin net.air[f]
    BY <2>3, <1>1, <1>2, <1>6, <1>7 DEF x
  <2> QED BY <2>1, <2>2, <2>3
<1>9. ReplayOK(script, kind, H, flow', net', got)
  <2> SUFFICES ASSUME kind = "ss2022", net'.sid = 1, NEW g \in Flows, NEW j \in 1..flow'[g].sent
               PROVE  Left(got, Said(script, H[g][j])) \/ Seen(flow'[g].replay, j - 1)
    BY DEF ReplayOK
  <2>1. CASE g # f
    BY <2>1, <1>1, <1>2, <1>3 DEF ReplayOK
  <2>2. CASE g = f /\ j \in 1..n
    BY <2>2, <1>1, <1>2, <1>3 DEF ReplayOK, n
  <2>3. CASE g = f /\ j = y
    BY <2>3, <1>1 DEF x
  <2> QED BY <2>1, <2>2, <2>3, <1>1, <1>4
<1> QED BY <1>8, <1>9

Joins(s, t, w) ==
    /\ w \in Seq(Cell) /\ Len(w) = Len(s) + Len(t)
    /\ \A i \in 1..Len(s) : w[i] = s[i]
    /\ \A i \in 1..Len(t) : w[Len(s) + i] = t[i]
LEMMA Concatenated ==
  ASSUME NEW s \in Seq(Cell), NEW t \in Seq(Cell), NEW w, w = s \o t
  PROVE  Joins(s, t, w)
<1>1. /\ w \in Seq(Cell) /\ Len(w) = Len(s) + Len(t) /\ Len(s) \in Nat /\ Len(t) \in Nat
      /\ \A i \in 1..(Len(s) + Len(t)) : w[i] = IF i <= Len(s) THEN s[i] ELSE t[i - Len(s)]
  BY ConcatProperties
<1>2. \A i \in 1..Len(s) : w[i] = s[i]
  BY <1>1
<1>3. ASSUME NEW i \in 1..Len(t) PROVE w[Len(s) + i] = t[i]
  <2> DEFINE k == Len(s)
             l == Len(t)
             j == k + i
  <2>1. j \in 1..(k + l) /\ ~(j <= k) /\ j - k = i
    BY <1>1
  <2> HIDE DEF k, j, l
  <2>2. w[j] = t[j - k]
    BY <2>1, <1>1 DEF k, l
  <2> QED BY <2>1, <2>2 DEF j, k
<1> QED BY <1>1, <1>2, <1>3 DEF Joins

\* The cells of a packet: its head and its pieces.
LEMMA PacketCells ==
  ASSUME NEW x \in Data, NEW s, s = encode_udp_packet(x)
  PROVE  /\ s \in Seq(Cell) /\ Len(s) = 1 + Len(x)
         /\ \A i \in 0..Len(x) : s[1 + i] = CellAt(x, i)
<1> DEFINE h == [head |-> TRUE, len |-> Len(x), piece |-> [m |-> <<>>, i |-> 0]]
           t == [i \in 1..Len(x) |-> [head |-> FALSE, len |-> 0, piece |-> x[i]]]
<1>1. Len(x) \in Nat /\ \A i \in 1..Len(x) : x[i] \in Piece
  BY DEF Data
<1>2. h \in Cell
  BY <1>1 DEF Cell, AnyPiece
<1>3. \A i \in 1..Len(x) : [head |-> FALSE, len |-> 0, piece |-> x[i]] \in Cell
  BY <1>1 DEF Cell, AnyPiece
<1>4. t \in Seq(Cell) /\ Len(t) = Len(x)
  <2>1. t \in [1..Len(x) -> Cell]
    BY <1>3
  <2> HIDE DEF t
  <2> QED BY <2>1, <1>1
<1>5. <<h>> \in Seq(Cell) /\ Len(<<h>>) = 1 /\ <<h>>[1] = h
  <2> HIDE DEF h
  <2> QED BY <1>2
<1>6. s = <<h>> \o t
  BY DEF encode_udp_packet
<1>7. h = CellAt(x, 0) /\ \A i \in 1..Len(x) : t[i] = CellAt(x, i)
  BY <1>1 DEF CellAt
<1> HIDE DEF h, t
<1> DEFINE u == <<h>>
<1>8. /\ s \in Seq(Cell) /\ Len(s) = 1 + Len(x) /\ s[1] = h
      /\ \A i \in 1..Len(x) : s[1 + i] = t[i]
  <2>1. s = u \o t /\ u \in Seq(Cell) /\ Len(u) = 1 /\ t \in Seq(Cell) /\ u[1] = h /\ 1 \in 1..1
    BY <1>4, <1>5, <1>6
  <2> HIDE DEF u
  <2>2. /\ s \in Seq(Cell) /\ Len(s) = Len(u) + Len(t)
        /\ \A i \in 1..Len(u) : s[i] = u[i]
        /\ \A i \in 1..Len(t) : s[Len(u) + i] = t[i]
    <3>1. Joins(u, t, s)
      BY <2>1, Concatenated
    <3> QED BY <3>1 DEF Joins
  <2> QED BY <2>1, <2>2, <1>4
<1>9. ASSUME NEW i \in 0..Len(x) PROVE s[1 + i] = CellAt(x, i)
  <2>1. CASE i = 0
    BY <2>1, <1>7, <1>8
  <2>2. CASE i # 0
    <3>1. i \in 1..Len(x)
      BY <2>2, <1>1
    <3> QED BY <3>1, <1>7, <1>8
  <2> QED BY <2>1, <2>2
<1> QED BY <1>8, <1>9

\* The places of a packet that comes after the others.
LEMMA PlaceAfter ==
  ASSUME NEW n \in Nat, NEW y, y = n + 1, NEW at \in [Nat -> Int], NEW v \in Int,
         NEW to, to = [at EXCEPT ![y + 1] = v]
  PROVE  to \in [Nat -> Int] /\ to[y + 1] = v /\ \A j \in Nat : j <= y => to[j] = at[j]
OBVIOUS

OneLonger(x, n, xx, z) == (\A j \in 1..n : xx[j] = x[j]) /\ xx[n + 1] = z
Readable(x, n, wire, r) == r \in 0..n /\ \E at \in [Nat -> Int] : Framed(x, n, wire, NoPart, r, at)
LEMMA FramedMore ==
  ASSUME NEW n \in Nat, NEW x \in [1..n -> Data], NEW y, y = n + 1, NEW z \in Data,
         NEW xx, OneLonger(x, n, xx, z),
         NEW wire \in Seq(Cell), NEW r, NEW at, Framed(x, n, wire, NoPart, r, at),
         NEW ww, Joins(wire, encode_udp_packet(z), ww)
  PROVE  r \in 0..n /\ Readable(xx, y, ww, r)
<1> DEFINE s == encode_udp_packet(z)
           l == Len(wire)
           v == l + 2 + Len(z)
           to == [at EXCEPT ![y + 1] = v]
<1>0. (\A j \in 1..n : xx[j] = x[j]) /\ xx[y] = z
  BY DEF OneLonger
<1>1. Laid(x, n, wire, r, at) /\ at[r + 1] = 1
  BY DEF Framed, Begun
<1>2. r \in 0..n /\ at \in [Nat -> Int] /\ at[y] = l + 1
  BY <1>1 DEF Laid
<1>3. s \in Seq(Cell) /\ Len(s) = 1 + Len(z) /\ \A i \in 0..Len(z) : s[1 + i] = CellAt(z, i)
  BY PacketCells
<1>4. Len(z) \in Nat /\ l \in Nat
  BY DEF Data
<1> HIDE DEF s
<1>5. /\ Len(ww) = l + (1 + Len(z))
      /\ \A i \in 1..l : ww[i] = wire[i]
      /\ \A i \in 1..(1 + Len(z)) : ww[l + i] = s[i]
  <2>1. /\ Len(ww) = Len(wire) + Len(s)
        /\ \A i \in 1..Len(wire) : ww[i] = wire[i]
        /\ \A i \in 1..Len(s) : ww[Len(wire) + i] = s[i]
    BY DEF Joins, s
  <2> QED BY <2>1, <1>3
<1> HIDE DEF l
<1>6. v \in Int /\ v = Len(ww) + 1
  BY <1>4, <1>5
<1> HIDE DEF v
<1>7. to \in [Nat -> Int] /\ to[y + 1] = v /\ \A j \in Nat : j <= y => to[j] = at[j]
  BY <1>2, <1>6, PlaceAfter
<1> HIDE DEF to
<1>8. ASSUME NEW j \in (r + 1)..n
      PROVE  /\ to[j + 1] = to[j] + 1 + Len(xx[j]) /\ to[j + 1] <= Len(ww) + 1
             /\ \A i \in 0..Len(xx[j]) : to[j] + i >= 1 => ww[to[j] + i] = CellAt(xx[j], i)
  <2>1. /\ at[j + 1] = at[j] + 1 + Len(x[j]) /\ at[j + 1] <= l + 1
        /\ \A i \in 0..Len(x[j]) : at[j] + i >= 1 => wire[at[j] + i] = CellAt(x[j], i)
    BY <1>1 DEF Laid, l
  <2>2. j \in Nat /\ j + 1 \in Nat /\ j \in 1..n /\ j <= y /\ j + 1 <= y
    BY <1>2
  <2>3. to[j] = at[j] /\ to[j + 1] = at[j + 1] /\ at[j] \in Int /\ at[j + 1] \in Int /\ xx[j] = x[j]
        /\ Len(x[j]) \in Nat
    <3>1. x[j] \in Data
      BY <2>2
    <3>2. Len(x[j]) \in Nat
      BY <3>1 DEF Data
    <3>3. to[j] = at[j] /\ xx[j] = x[j]
      BY <1>0, <1>7, <2>2
    <3> DEFINE u == j + 1
    <3>4. u \in Nat /\ u <= y
      BY <2>2
    <3> HIDE DEF u
    <3>5. to[u] = at[u] /\ at[u] \in Int
      BY <3>4, <1>2, <1>7
    <3>6. at[j] \in Int
      BY <1>2, <2>2
    <3> QED BY <3>2, <3>3, <3>5, <3>6 DEF u
  <2> DEFINE a == at[j]
             b == at[j + 1]
             k == Len(x[j])
             w == Len(ww)
             e == Len(z)
  <2>4. a \in Int /\ b \in Int /\ k \in Nat /\ b = a + 1 + k /\ b <= l + 1 /\ l \in Nat /\ e \in Nat /\ w = l + (1 + e)
    BY <2>1, <2>3, <1>4, <1>5
  <2> HIDE DEF a, b, k, w, e
  <2>5. /\ b <= w + 1
        /\ \A i \in 0..k : a + i >= 1 => a + i \in 1..l
    BY <2>4
  <2>6. ASSUME NEW i \in 0..k, a + i >= 1 PROVE ww[a + i] = CellAt(xx[j], i)
    <3>1. ww[a + i] = wire[a + i]
      BY <2>5, <2>6, <1>5 DEF e
    <3> QED BY <3>1, <2>1, <2>3, <2>6 DEF a, k
  <2> QED BY <2>1, <2>3, <2>5, <2>6 DEF a, b, k, w
<1>9. /\ to[y + 1] = to[y] + 1 + Len(xx[y]) /\ to[y + 1] <= Len(ww) + 1
      /\ \A i \in 0..Len(xx[y]) : to[y] + i >= 1 => ww[to[y] + i] = CellAt(xx[y], i)
  <2>1. to[y] = l + 1 /\ y \in Nat
    BY <1>2, <1>7
  <2> DEFINE e == Len(z)
             w == Len(ww)
  <2>2. e \in Nat /\ l \in Nat /\ w = l + (1 + e) /\ v = w + 1
    BY <1>4, <1>5, <1>6
  <2> HIDE DEF e, w
  <2>3. /\ v = (l + 1) + 1 + e /\ v <= w + 1
        /\ \A i \in 0..e : 1 + i \in 1..(1 + e) /\ (l + 1) + i = l + (1 + i)
    BY <2>2
  <2>4. ASSUME NEW i \in 0..e PROVE ww[(l + 1) + i] = CellAt(z, i)
    <3>1. ww[l + (1 + i)] = s[1 + i]
      BY <2>3, <1>5 DEF e
    <3> QED BY <3>1, <2>3, <1>3 DEF e
  <2> QED BY <2>1, <2>3, <2>4, <1>0, <1>7 DEF e, w
<1>10. /\ r \in 0..y /\ (\A j \in (r + 1)..y : j \in (r + 1)..n \/ j = y) /\ r + 1 \in Nat /\ r + 1 <= y
  BY <1>2
<1>11. Laid(xx, y, ww, r, to)
  <2>1. to[y + 1] = Len(ww) + 1
    BY <1>6, <1>7
  <2> QED BY <1>7, <1>8, <1>9, <1>10, <2>1 DEF Laid
<1>12. Begun(xx, y, NoPart, r, to)
  BY <1>1, <1>7, <1>10 DEF Begun
<1> QED BY <1>2, <1>7, <1>10, <1>11, <1>12 DEF Framed, Readable

LEMMA StreamSends ==
  ASSUME TablesInv, NEW H, AnswersInv(H), NEW f \in Flows, TaskSends(f)
  PROVE  WireOK(script, kind, H, flow', net', got)
<1> DEFINE n == flow[f].sent
           y == n + 1
           z == Said(script, H[f][y])
           xx == [j \in 1..flow'[f].sent |-> Said(script, H[f][j])]
<1>1. /\ n \in Nat /\ y \in 1..Len(H[f]) /\ z \in Data /\ Left(got, z)
      /\ Payload(Head(flow[f].q)) = z /\ Echo(flow[f].key, z) = z
      /\ flow'[f].sent = y /\ flow'[f].part = NoPart
      /\ flow'[f].cut = (flow[f].cut \/ flow[f].part # NoPart)
      /\ \A g \in Flows \ {f} : flow'[g] = flow[g]
  BY SendFacts
<1>2. /\ \A g \in Flows \ {f} : net'.wire[g] = net.wire[g]
      /\ net'.wire[f] = IF kind \in Streams THEN net.wire[f] \o encode_udp_packet(z) ELSE net.wire[f]
  BY <1>1, NetAfterSend
<1>3. WireOK(script, kind, H, flow, net, got)
  BY Parts DEF UnderWay
<1>4. CASE kind \notin Streams
  BY <1>2, <1>3, <1>4 DEF WireOK
<1>5. CASE kind \in Streams
  <2> SUFFICES ASSUME NEW g \in Flows, ~flow'[g].cut
               PROVE  LET x == [j \in 1..flow'[g].sent |-> Said(script, H[g][j])]
                      IN  \E r \in Nat, at \in [Nat -> Int] :
                            /\ Framed(x, flow'[g].sent, net'.wire[g], flow'[g].part, r, at)
                            /\ \A j \in (r + 1)..flow'[g].sent : Left(got, x[j])
    BY <1>5 DEF WireOK
  <2>1. CASE g # f
    <3>1. flow'[g] = flow[g] /\ net'.wire[g] = net.wire[g]
      BY <2>1, <1>1, <1>2
    <3> QED BY <3>1, <1>3, <1>5 DEF WireOK
  <2>2. CASE g = f
    <3>1. ~flow[f].cut /\ flow[f].part = NoPart
      BY <2>2, <1>1
    <3>2. PICK r \in Nat, at \in [Nat -> Int] :
            /\ Framed(Answers(H, f), n, net.wire[f], NoPart, r, at)
            /\ \A j \in (r + 1)..n : Left(got, Answers(H, f)[j])
      BY <3>1, <1>3, <1>5 DEF WireOK, Answers
    <3>3. /\ Answers(H, f) \in [1..n -> Data]
          /\ \A j \in 1..n : Answers(H, f)[j] = Said(script, H[f][j])
      BY AnswersAreData
    <3>4. /\ \A j \in 1..n : j \in 1..y
          /\ y \in 1..y
      BY <1>1
    <3>5. /\ \A j \in 1..y : xx[j] = Said(script, H[f][j])
      BY <1>1
    <3>6. (\A j \in 1..n : xx[j] = Answers(H, f)[j]) /\ xx[y] = z
      BY <3>3, <3>4, <3>5
    <3>7. net.wire[f] \in Seq(Cell) /\ net'.wire[f] = net.wire[f] \o encode_udp_packet(z)
      BY <1>2, <1>5 DEF TablesInv, NetOK
    <3> HIDE DEF xx, z, n
    <3>8. r \in 0..n /\ \E to \in [Nat -> Int] : Framed(xx, y, net'.wire[f], NoPart, r, to)
      <4> DEFINE w == net.wire[f]
                 ww == net'.wire[f]
                 u == y
                 x == Answers(H, f)
      <4>1. u = n + 1 /\ n \in Nat /\ z \in Data /\ x \in [1..n -> Data] /\ w \in Seq(Cell)
            /\ OneLonger(x, n, xx, z) /\ Joins(w, encode_udp_packet(z), ww) /\ Framed(x, n, w, NoPart, r, at)
        <5>1. Joins(w, encode_udp_packet(z), ww)
          <6>1. encode_udp_packet(z) \in Seq(Cell)
            BY <1>1, PacketCells
          <6> QED BY <6>1, <3>7, Concatenated
        <5> QED BY <1>1, <3>2, <3>3, <3>6, <5>1, <3>7 DEF OneLonger
      <4> HIDE DEF w, ww, u, x
      <4>2. r \in 0..n /\ Readable(xx, u, ww, r)
        BY <4>1, FramedMore
      <4> QED BY <4>2 DEF u, ww, Readable
    <3>9. PICK to \in [Nat -> Int] : Framed(xx, y, net'.wire[f], NoPart, r, to)
      BY <3>8
    <3>10. ASSUME NEW j \in (r + 1)..y PROVE Left(got, xx[j])
      <4>1. (j \in (r + 1)..n /\ j \in 1..n) \/ j = y
        BY <1>1, <3>8
      <4>2. CASE j \in (r + 1)..n /\ j \in 1..n
        BY <4>2, <3>2, <3>6
      <4>3. CASE j = y
        BY <4>3, <3>6, <1>1
      <4> QED BY <4>1, <4>2, <4>3
    <3>11. Framed(xx, flow'[f].sent, net'.wire[f], flow'[f].part, r, to)
      BY <3>9, <1>1
    <3>12. \A j \in (r + 1)..flow'[f].sent : Left(got, xx[j])
      BY <3>10, <1>1
    <3> QED BY <2>2, <3>11, <3>12 DEF xx
  <2> QED BY <2>1, <2>2
<1> QED BY <1>4, <1>5

\* An answer that a flow waits for is in no queue yet.
LEMMA NewIsOpen ==
  ASSUME TablesInv, NEW H, AnswersInv(H), kind \in Quic, NEW f \in Flows,
         NEW y \in 1..Len(H[f]), y = flow[f].sent + 1, NEW x, x = Said(script, H[f][y]), Left(got, x), ~flow[f].late
  PROVE  Open(quic, f, got, x)
<1> SUFFICES ASSUME x # <<>> PROVE ~Given(got, x) /\ (quic.wait.to = f => quic.wait.data # x) /\ ~Queued(quic, f, x)
  BY DEF Open
<1>1. /\ \A i \in 1..Len(quic.answers[f]) : \E j \in 1..flow[f].sent : quic.answers[f][i] = Said(script, H[f][j])
      /\ quic.wait # NoAnswer /\ quic.wait.to = f => \E j \in 1..flow[f].sent : quic.wait.data = Said(script, H[f][j])
  BY Parts DEF UnderWay, AnswersOK
<1>2. ASSUME NEW g \in Flows, NEW j \in 1..flow[g].sent, x = Said(script, H[g][j]) PROVE FALSE
  <2>1. flow[g].sent \in Nat /\ Len(H[g]) \in Nat /\ flow[g].sent <= Len(H[g])
    BY HistFacts
  <2>2. j \in 1..Len(H[g]) /\ j # flow[g].sent + 1
    BY <2>1
  <2>3. Said(script, H[f][y]) = Said(script, H[g][j]) /\ Said(script, H[f][y]) # <<>>
    BY <1>2
  <2>4. f = g /\ y = j
    BY <2>2, <2>3, Distinct
  <2> QED BY <2>2, <2>4
<1>3. ~Given(got, x)
  BY DEF Left
<1>4. ~Queued(quic, f, x)
  BY <1>1, <1>2 DEF Queued
<1>5. quic.wait.to = f => quic.wait.data # x
  <2>1. CASE quic.wait = NoAnswer
    BY <2>1 DEF NoAnswer
  <2>2. CASE quic.wait # NoAnswer
    BY <2>2, <1>1, <1>2
  <2> QED BY <2>1, <2>2
<1> QED BY <1>3, <1>4, <1>5

\* A flow that sent more keeps what is under way.
LEMMA SentMore ==
  ASSUME NEW s, NEW H, NEW c, IsConn(c), NEW g, NEW fl, NEW fm,
         \A f \in Flows : fl[f].sent \in Nat /\ fm[f].sent \in Nat /\ fl[f].sent <= fm[f].sent
                          /\ (fl[f].late => fm[f].late),
         NEW k, Agree(k, fl, c)
  PROVE  /\ AnswersOK(s, H, fl, c, g) => AnswersOK(s, H, fm, c, g)
         /\ PacketsOK(s, H, fl, c, g) => PacketsOK(s, H, fm, c, g)
         /\ \A f \in Flows : \A dg \in Datagram : InAir(s, H, fl, c, g, f, dg) => InAir(s, H, fm, c, g, f, dg)
<1>1. \A f \in Flows : \A j \in 1..fl[f].sent : j \in 1..fm[f].sent
  OBVIOUS
<1>2. \A f \in Flows : \A p \in Nat : p < fl[f].sent => p < fm[f].sent
  OBVIOUS
<1>3. ASSUME AnswersOK(s, H, fl, c, g) PROVE AnswersOK(s, H, fm, c, g)
  <2>1. c.wait # NoAnswer => c.wait.to \in Flows
    BY DEF Agree, Awaited
  <2> QED BY <1>1, <1>3, <2>1 DEF AnswersOK
<1>4. ASSUME NEW f \in Flows, NEW dg \in Datagram, InAir(s, H, fl, c, g, f, dg) PROVE InAir(s, H, fm, c, g, f, dg)
  <2>1. dg.pkt \in Nat
    BY DEF Datagram
  <2> QED BY <1>2, <1>4, <2>1 DEF InAir
<1>5. ASSUME PacketsOK(s, H, fl, c, g) PROVE PacketsOK(s, H, fm, c, g)
  <2> SUFFICES ASSUME c.udp = "running", NEW id \in DOMAIN c.flows, ~fm[c.flows[id]].late
               PROVE  /\ \A dg \in c.air : dg.assoc = id => InAir(s, H, fm, c, g, c.flows[id], dg)
                      /\ \A p \in Nat : <<id, p>> \in DOMAIN c.reasm =>
                           InPart(s, H, fm, c, g, c.flows[id], p, c.reasm[<<id, p>>])
    BY DEF PacketsOK
  <2>1. c.flows[id] \in Flows /\ c.air \subseteq Datagram /\ ~fl[c.flows[id]].late
    BY DEF IsConn
  <2>2. \A dg \in c.air : dg.assoc = id => InAir(s, H, fl, c, g, c.flows[id], dg)
    BY <1>5, <2>1 DEF PacketsOK
  <2>3. ASSUME NEW p \in Nat, <<id, p>> \in DOMAIN c.reasm
        PROVE  InPart(s, H, fm, c, g, c.flows[id], p, c.reasm[<<id, p>>])
    <3>1. InPart(s, H, fl, c, g, c.flows[id], p, c.reasm[<<id, p>>])
      BY <1>5, <2>1, <2>3 DEF PacketsOK
    <3> QED BY <3>1, <2>1, <1>2 DEF InPart
  <2> QED BY <2>1, <2>2, <2>3, <1>4
<1> QED BY <1>3, <1>4, <1>5

\* The same queues and fragments under another air.
LEMMA SameQueues ==
  ASSUME NEW s, NEW H, NEW fl, NEW c, NEW d, NEW g,
         d.answers = c.answers, d.wait = c.wait, d.reasm = c.reasm, d.flows = c.flows, d.udp = c.udp
  PROVE  /\ AnswersOK(s, H, fl, c, g) => AnswersOK(s, H, fl, d, g)
         /\ \A f, dg : InAir(s, H, fl, c, g, f, dg) => InAir(s, H, fl, d, g, f, dg)
         /\ \A f, p, e : InPart(s, H, fl, c, g, f, p, e) => InPart(s, H, fl, d, g, f, p, e)
<1>1. \A f, x : Queued(d, f, x) = Queued(c, f, x)
  BY DEF Queued
<1>2. \A f, x : Open(c, f, g, x) => Open(d, f, g, x)
  BY <1>1 DEF Open
<1>3. AnswersOK(s, H, fl, c, g) => AnswersOK(s, H, fl, d, g)
  BY <1>1 DEF AnswersOK
<1> QED BY <1>2, <1>3 DEF InAir, InPart

LEMMA QuicSends ==
  ASSUME TablesInv, NEW H, AnswersInv(H), NEW f \in Flows, TaskSends(f), kind \in Quic
  PROVE  PacketsOK(script, H, flow', quic', got) /\ AnswersOK(script, H, flow', quic', got)
<1> DEFINE n == flow[f].sent
           y == n + 1
           x == Said(script, H[f][y])
           id == flow[f].id
<1>1. /\ n \in Nat /\ y \in 1..Len(H[f]) /\ x \in Data /\ Left(got, x)
      /\ Payload(Head(flow[f].q)) = x /\ Echo(flow[f].key, x) = x /\ flow[f].st = "running"
      /\ flow'[f].sent = y /\ flow'[f].late = flow[f].late /\ \A g \in Flows \ {f} : flow'[g] = flow[g]
  BY SendFacts
<1>2. PacketsOK(script, H, flow, quic, got) /\ AnswersOK(script, H, flow, quic, got)
  BY Parts DEF UnderWay
<1>3. IsConn(quic) /\ Agree(kind, flow, quic) /\ flow[f] \in FlowRecord /\ id \in Nat /\ flow[f].key \in Keys
  BY FlowType DEF TablesInv, FlowRecord
<1>4. \A g \in Flows : flow[g].sent \in Nat /\ flow'[g].sent \in Nat /\ flow[g].sent <= flow'[g].sent
                       /\ flow'[g].late = flow[g].late
  <2>1. \A g \in Flows : flow[g].sent \in Nat
    BY HistFacts
  <2>2. y \in Nat /\ n <= y
    BY <1>1
  <2> QED BY <2>1, <2>2, <1>1
<1>5. /\ PacketsOK(script, H, flow', quic, got) /\ AnswersOK(script, H, flow', quic, got)
  BY <1>2, <1>3, <1>4, SentMore
<1>6. CASE quic' = quic
  BY <1>5, <1>6
<1>7. CASE quic' # quic
  <2>1. quic' = send(quic, id, n, flow[f].key, x)
    BY <1>7, <1>1 DEF TaskSends
  <2>2. /\ quic'.udp = quic.udp /\ quic'.answers = quic.answers /\ quic'.wait = quic.wait
        /\ quic'.reasm = quic.reasm /\ quic'.flows = quic.flows
        /\ quic'.air = quic.air \union encode_packets(id, n, x)
    <3> DEFINE k == flow[f].key
               d == quic'
    <3>1. id \in Nat /\ n \in Nat /\ k \in Keys /\ x \in Data /\ Echo(k, x) = x /\ IsConn(quic)
          /\ d = send(quic, id, n, k, x)
      BY <2>1, <1>1, <1>3
    <3> HIDE DEF k, d, id, n, x
    <3>2. /\ d.udp = quic.udp /\ d.answers = quic.answers /\ d.wait = quic.wait
          /\ d.reasm = quic.reasm /\ d.flows = quic.flows
          /\ d.air = quic.air \union encode_packets(id, n, Echo(k, x))
      BY <3>1, SendIsConn
    <3> QED BY <3>1, <3>2 DEF d
  <2>3. AnswersOK(script, H, flow', quic', got)
    BY <1>5, <2>2, SameQueues
  <2>4. ~flow[f].late => Open(quic, f, got, x)
    BY <1>1, NewIsOpen
  <2> HIDE DEF x, y, id
  <2>5. ASSUME quic.udp = "running", NEW dg \in encode_packets(id, n, x), NEW i \in DOMAIN quic.flows, dg.assoc = i,
               ~flow[quic.flows[i]].late
        PROVE  InAir(script, H, flow', quic, got, quic.flows[i], dg)
    <3>1. /\ dg.assoc = id /\ dg.pkt = n /\ dg.total = FragTotal(x)
          /\ dg.frag \in 0..(FragTotal(x) - 1) /\ dg.data = Chunk(x, dg.frag)
      BY <1>1, <1>3, Encoded
    <3>2. quic.flows[i] = f /\ ~flow[f].late
      <4>1. quic.flows[i] \in Flows /\ Sure(flow[quic.flows[i]]) /\ flow[quic.flows[i]].id = i /\ Alone(flow)
        BY <1>3, <2>5 DEF Agree, Entered, IsConn, Sure
      <4>2. Alive(flow[f]) /\ flow[f].id = i
        BY <1>1, <2>5, <3>1 DEF Alive, id
      <4>3. f = quic.flows[i]
        BY <4>1, <4>2 DEF Alone
      <4> QED BY <4>3, <2>5
    <3>3. PacketKey(dg) \notin DOMAIN quic.reasm
      <4> SUFFICES ASSUME <<i, n>> \in DOMAIN quic.reasm PROVE FALSE
        BY <2>5, <3>1 DEF PacketKey
      <4>1. InPart(script, H, flow, quic, got, f, n, quic.reasm[<<i, n>>])
        BY <1>1, <1>2, <2>5, <3>2 DEF PacketsOK
      <4>2. n < n
        BY <4>1 DEF InPart
      <4> QED BY <4>2, <1>1
    <3>4. IsFragment(x, dg.total, dg.frag, dg.data)
      BY <3>1 DEF IsFragment
    <3>5. n < y /\ x = Said(script, H[f][n + 1])
      BY <1>1 DEF x, y
    <3> QED BY <1>1, <2>4, <3>1, <3>2, <3>3, <3>4, <3>5 DEF InAir
  <2>6. PacketsOK(script, H, flow', quic', got)
    <3> SUFFICES ASSUME quic'.udp = "running", NEW i \in DOMAIN quic'.flows, ~flow'[quic'.flows[i]].late
                 PROVE  /\ \A dg \in quic'.air : dg.assoc = i => InAir(script, H, flow', quic', got, quic'.flows[i], dg)
                        /\ \A p \in Nat : <<i, p>> \in DOMAIN quic'.reasm =>
                             InPart(script, H, flow', quic', got, quic'.flows[i], p, quic'.reasm[<<i, p>>])
      BY DEF PacketsOK
    <3>1. quic.udp = "running" /\ i \in DOMAIN quic.flows /\ ~flow'[quic.flows[i]].late
      BY <2>2
    <3>a. quic.flows[i] \in Flows /\ ~flow[quic.flows[i]].late
      BY <3>1, <1>3, <1>4 DEF IsConn
    <3>2. \A dg \in quic'.air : dg.assoc = i => InAir(script, H, flow', quic, got, quic.flows[i], dg)
      BY <3>1, <3>a, <1>5, <2>2, <2>5 DEF PacketsOK
    <3>3. \A p \in Nat : <<i, p>> \in DOMAIN quic.reasm =>
                             InPart(script, H, flow', quic, got, quic.flows[i], p, quic.reasm[<<i, p>>])
      BY <3>1, <1>5 DEF PacketsOK
    <3>4. /\ \A g, dg : InAir(script, H, flow', quic, got, g, dg) => InAir(script, H, flow', quic', got, g, dg)
          /\ \A g, p, e : InPart(script, H, flow', quic, got, g, p, e) => InPart(script, H, flow', quic', got, g, p, e)
      BY <2>2, SameQueues
    <3> QED BY <3>2, <3>3, <3>4, <2>2
  <2> QED BY <2>3, <2>6
<1> QED BY <1>6, <1>7

LEMMA TaskSendsReplies ==
  ASSUME TablesInv, RepliesInv, NEW f \in Flows, TaskSends(f)
  PROVE  RepliesInv'
<1>1. PICK H \in [Flows -> Seq(Nat)] : AnswersInv(H)
  BY DEF RepliesInv
<1>2. UNCHANGED <<script, kind, assoc, got, count>>
  BY DEF TaskSends
<1>3. /\ HistOK(script, count.sent, H, flow', assoc) /\ UnsentOK(script, H, flow', assoc, got)
      /\ Payload(Head(flow[f].q)) = Echo(flow[f].key, Payload(Head(flow[f].q)))
  BY <1>1, SendFacts
<1>4. net.sid # 0 /\ GotOK(script, count.sent, Once(kind, net), got)
  BY <1>1, Parts
<1>5. net'.sid = net.sid
  BY <1>3, NetAfterSend
<1>6. UnderWay(script, kind, H, flow', net', quic', got)
  <2>1. WireOK(script, kind, H, flow', net', got)
    BY <1>1, StreamSends
  <2>2. kind \in Sockets => AirOK(script, kind, H, flow', net') /\ ReplayOK(script, kind, H, flow', net', got)
    BY <1>1, SocketSends
  <2>3. kind \in Quic => PacketsOK(script, H, flow', quic', got) /\ AnswersOK(script, H, flow', quic', got)
    BY <1>1, QuicSends
  <2> QED BY <2>1, <2>2, <2>3 DEF UnderWay
<1>7. Once(kind, net') = Once(kind, net)
  BY <1>5 DEF Once
<1> QED BY <1>1, <1>2, <1>3, <1>4, <1>5, <1>6, <1>7 DEF RepliesInv, AnswersInv

\* A step of the shared connection, or of a flow that is given an answer of it.
LEMMA QuicStep ==
  ASSUME TablesInv, NEW H \in [Flows -> Seq(Nat)], AnswersInv(H), kind \in Quic,
         UNCHANGED <<script, kind, assoc, count, net, flow>>,
         GotOK(script, count.sent, Once(kind, net), got'), UnsentOK(script, H, flow, assoc, got'),
         PacketsOK(script, H, flow, quic', got'), AnswersOK(script, H, flow, quic', got')
  PROVE  RepliesInv'
<1>1. /\ HistOK(script, count.sent, H, flow, assoc) /\ net.sid # 0
      /\ UnderWay(script, kind, H, flow, net, quic, got)
  BY Parts
<1>2. kind \notin Sockets /\ kind \notin Streams
  BY DEF Quic, Sockets, Streams
<1>3. WireOK(script, kind, H, flow, net, got')
  BY <1>1, <1>2 DEF UnderWay, WireOK
<1>4. UnderWay(script, kind, H, flow, net, quic', got')
  BY <1>2, <1>3 DEF UnderWay
<1> QED BY <1>1, <1>4 DEF RepliesInv, AnswersInv

\* Nothing new is in the air, and what is open stays so.
LEMMA PacketsKept ==
  ASSUME NEW s, NEW H, NEW fl, NEW c, NEW d, NEW g, NEW h, PacketsOK(s, H, fl, c, g),
         c.air \subseteq Datagram, \A i \in DOMAIN c.flows : fl[c.flows[i]].sent \in Nat,
         d.udp = c.udp, d.air = c.air, d.reasm = c.reasm,
         \A i \in DOMAIN d.flows : i \in DOMAIN c.flows /\ d.flows[i] = c.flows[i],
         \A i \in DOMAIN c.flows : \A k \in 1..fl[c.flows[i]].sent :
           Open(c, c.flows[i], g, Said(s, H[c.flows[i]][k])) => Open(d, c.flows[i], h, Said(s, H[c.flows[i]][k]))
  PROVE  PacketsOK(s, H, fl, d, h)
<1> SUFFICES ASSUME d.udp = "running", NEW i \in DOMAIN d.flows, ~fl[d.flows[i]].late
             PROVE  /\ \A dg \in d.air : dg.assoc = i => InAir(s, H, fl, d, h, d.flows[i], dg)
                    /\ \A p \in Nat : <<i, p>> \in DOMAIN d.reasm =>
                         InPart(s, H, fl, d, h, d.flows[i], p, d.reasm[<<i, p>>])
  BY DEF PacketsOK
<1> DEFINE f == c.flows[i]
<1>1. i \in DOMAIN c.flows /\ d.flows[i] = f /\ fl[f].sent \in Nat
  OBVIOUS
<1>2. \A p \in Nat : p < fl[f].sent => p + 1 \in 1..fl[f].sent
  BY <1>1
<1>3. ASSUME NEW dg \in d.air, dg.assoc = i PROVE InAir(s, H, fl, d, h, f, dg)
  <2>1. InAir(s, H, fl, c, g, f, dg) /\ dg.pkt \in Nat
    BY <1>1, <1>3 DEF PacketsOK, Datagram
  <2>2. dg.pkt + 1 \in 1..fl[f].sent /\ Open(c, f, g, Said(s, H[f][dg.pkt + 1]))
    BY <1>2, <2>1 DEF InAir
  <2>3. Open(d, f, h, Said(s, H[f][dg.pkt + 1]))
    BY <1>1, <2>2
  <2> HIDE DEF f
  <2> QED BY <2>1, <2>3 DEF InAir
<1>4. ASSUME NEW p \in Nat, <<i, p>> \in DOMAIN d.reasm PROVE InPart(s, H, fl, d, h, f, p, d.reasm[<<i, p>>])
  <2>1. InPart(s, H, fl, c, g, f, p, c.reasm[<<i, p>>])
    BY <1>1, <1>4 DEF PacketsOK
  <2>2. p + 1 \in 1..fl[f].sent /\ Open(c, f, g, Said(s, H[f][p + 1]))
    BY <1>2, <2>1 DEF InPart
  <2>3. Open(d, f, h, Said(s, H[f][p + 1]))
    BY <1>1, <2>2
  <2> HIDE DEF f
  <2> QED BY <2>1, <2>3 DEF InPart
<1> QED BY <1>1, <1>3, <1>4

\* The queue without its first answer.
LEMMA TailOfQueue ==
  ASSUME NEW s, IsSeq(s), s # <<>>
  PROVE  /\ 1 \in 1..Len(s) /\ Head(s) = s[1] /\ Len(s) \in Nat
         /\ Len(Tail(s)) \in Nat
         /\ \A i \in 1..Len(Tail(s)) : i + 1 \in 1..Len(s) /\ i + 1 # 1 /\ Tail(s)[i] = s[i + 1]
<1>1. PICK S : s \in Seq(S)
  BY DEF IsSeq
<1>2. /\ Len(s) \in Nat /\ Len(s) > 0 /\ Head(s) = s[1] /\ Len(Tail(s)) = Len(s) - 1
      /\ \A i \in 1..(Len(s) - 1) : Tail(s)[i] = s[i + 1]
  BY <1>1, HeadTailProperties, LenProperties, EmptySeq
<1>3. \A i \in 1..(Len(s) - 1) : i + 1 \in 1..Len(s) /\ i + 1 # 1
  BY <1>2
<1> QED BY <1>2, <1>3

\* A flow that got its id early is promised nothing of what it receives.
LEMMA LateReceivesReplies ==
  ASSUME TablesInv, RepliesInv, NEW f \in Flows, QueueReceives(f), quic.answers[f] # <<>>, flow[f].late
  PROVE  RepliesInv'
<1>1. PICK H \in [Flows -> Seq(Nat)] : AnswersInv(H)
  BY DEF RepliesInv
<1> DEFINE s == quic.answers[f]
           t == Tail(s)
           e == encode_udp_datagram(f, Head(s))
           once == Once(kind, net)
           c == quic'
           h == got'
<1>2. /\ UNCHANGED <<script, kind, assoc, count, net, flow>> /\ kind \in Quic
      /\ c = WithAnswers(quic, f, t)
      /\ h = With(got, e, 1 + IF e \in DOMAIN got THEN got[e] ELSE 0)
  BY DEF QueueReceives, WithAnswers, Delivered
<1>3. IsConn(quic) /\ IsSeq(s) /\ Len(s) <= AnswerQueue /\ Agree(kind, flow, quic)
  BY DEF TablesInv, IsConn
<1>4. IsSeq(t) /\ Len(t) <= AnswerQueue
  BY <1>3, Sequences, QuicUdpAssumption
<1>5. \A i \in 1..Len(t) : i + 1 \in 1..Len(s) /\ t[i] = s[i + 1]
  BY <1>3, TailOfQueue
<1>6. ~Undisturbed(e)
  BY DEF encode_udp_datagram, Undisturbed
<1> HIDE DEF s, t, e, c, h
<1>7. /\ c.udp = quic.udp /\ c.flows = quic.flows /\ c.wait = quic.wait
      /\ c.air = quic.air /\ c.reasm = quic.reasm /\ c.answers[f] = t
      /\ \A g \in Flows \ {f} : c.answers[g] = quic.answers[g]
  BY <1>2, <1>3, <1>4, AnswersIsConn
<1>8. /\ PacketsOK(script, H, flow, quic, got) /\ AnswersOK(script, H, flow, quic, got)
      /\ GotOK(script, count.sent, once, got) /\ UnsentOK(script, H, flow, assoc, got)
  BY <1>1, <1>2, Parts DEF UnderWay
<1> HIDE DEF once
<1>9. GotOK(script, count.sent, once, h) /\ \A v : Given(h, v) => Given(got, v)
  <2>1. GotOK(script, count.sent, once, h) /\ \A v : Given(h, v) => Given(got, v) \/ (Undisturbed(e) /\ v = e.data)
    BY <1>2, <1>6, <1>8, DeliveredIsGiven
  <2> QED BY <1>6, <2>1
<1>10. \A v : Left(got, v) => Left(h, v)
  BY <1>9 DEF Left
<1>11. UnsentOK(script, H, flow, assoc, h)
  BY <1>8, <1>10 DEF UnsentOK
<1>12. \A g \in Flows : \A v : Queued(c, g, v) => Queued(quic, g, v)
  <2> SUFFICES ASSUME NEW g \in Flows, NEW v, Queued(c, g, v) PROVE Queued(quic, g, v)
    OBVIOUS
  <2>1. CASE g = f
    BY <2>1, <1>5, <1>7 DEF Queued, s
  <2>2. CASE g # f
    BY <2>2, <1>7 DEF Queued
  <2> QED BY <2>1, <2>2
<1>13. AnswersOK(script, H, flow, c, h)
  <2>1. ASSUME NEW g \in Flows, ~flow[g].late
        PROVE  \A i \in 1..Len(c.answers[g]) :
                 /\ \E k \in 1..flow[g].sent : c.answers[g][i] = Said(script, H[g][k])
                 /\ Left(h, c.answers[g][i])
                 /\ \A k \in 1..Len(c.answers[g]) :
                      c.answers[g][k] = c.answers[g][i] => k = i \/ c.answers[g][i] = <<>>
    <3>1. c.answers[g] = quic.answers[g]
      BY <2>1, <1>7
    <3> QED BY <2>1, <3>1, <1>8, <1>10 DEF AnswersOK
  <2>2. ASSUME c.wait # NoAnswer, ~flow[c.wait.to].late
        PROVE  /\ \E k \in 1..flow[c.wait.to].sent : c.wait.data = Said(script, H[c.wait.to][k])
               /\ c.wait.data # <<>> => ~Given(h, c.wait.data) /\ ~Queued(c, c.wait.to, c.wait.data)
    <3>1. quic.wait # NoAnswer /\ ~flow[quic.wait.to].late /\ quic.wait.to \in Flows
      BY <2>2, <1>3, <1>7 DEF Agree, Awaited
    <3>2. /\ \E k \in 1..flow[quic.wait.to].sent : quic.wait.data = Said(script, H[quic.wait.to][k])
          /\ quic.wait.data # <<>> => ~Given(got, quic.wait.data) /\ ~Queued(quic, quic.wait.to, quic.wait.data)
      BY <3>1, <1>8 DEF AnswersOK
    <3> QED BY <3>1, <3>2, <1>7, <1>9, <1>12
  <2> QED BY <2>1, <2>2 DEF AnswersOK
<1>14. PacketsOK(script, H, flow, c, h)
  <2>1. quic.air \subseteq Datagram /\ \A i \in DOMAIN quic.flows : quic.flows[i] \in Flows /\ flow[quic.flows[i]].sent \in Nat
    <3>1. \A g \in Flows : flow[g].sent \in Nat
      BY <1>1, HistFacts
    <3> QED BY <3>1, <1>3 DEF IsConn
  <2>2. \A g \in Flows : \A v : Open(quic, g, got, v) => Open(c, g, h, v)
    BY <1>7, <1>9, <1>12 DEF Open
  <2>3. \A i \in DOMAIN quic.flows : \A k \in 1..flow[quic.flows[i]].sent :
          Open(quic, quic.flows[i], got, Said(script, H[quic.flows[i]][k])) =>
          Open(c, quic.flows[i], h, Said(script, H[quic.flows[i]][k]))
    BY <2>1, <2>2
  <2> QED BY <1>7, <1>8, <2>1, <2>3, PacketsKept
<1>15. /\ GotOK(script, count.sent, Once(kind, net), got') /\ UnsentOK(script, H, flow, assoc, got')
       /\ PacketsOK(script, H, flow, quic', got') /\ AnswersOK(script, H, flow, quic', got')
  BY <1>9, <1>11, <1>13, <1>14 DEF once, c, h
<1> QED BY <1>1, <1>2, <1>15, QuicStep

LEMMA QueueReceivesReplies ==
  ASSUME TablesInv, RepliesInv, NEW f \in Flows, QueueReceives(f)
  PROVE  RepliesInv'
<1>1. CASE quic.answers[f] = <<>>
  <2>1. /\ flow' = [flow EXCEPT ![f].st = "closing"] /\ flow[f].st = "running"
        /\ UNCHANGED <<script, kind, net, got, assoc, quic, count>>
    BY <1>1 DEF QueueReceives
  <2>2. count'.sent = count.sent
    BY <2>1
  <2>3. Alive(flow[f])
    BY <2>1 DEF Alive
  <2> QED BY <2>1, <2>2, <2>3, StatusReplies
<1>2. CASE quic.answers[f] # <<>> /\ flow[f].late
  BY <1>2, LateReceivesReplies
<1>3. CASE quic.answers[f] # <<>> /\ ~flow[f].late
  <2>1. PICK H \in [Flows -> Seq(Nat)] : AnswersInv(H)
    BY DEF RepliesInv
  <2> DEFINE s == quic.answers[f]
             x == Head(s)
             e == encode_udp_datagram(f, x)
             once == Once(kind, net)
  <2>2. /\ UNCHANGED <<script, kind, assoc, count, net, flow>> /\ kind \in Quic
        /\ quic' = WithAnswers(quic, f, Tail(s))
        /\ got' = With(got, e, 1 + IF e \in DOMAIN got THEN got[e] ELSE 0)
    BY <1>3 DEF QueueReceives, WithAnswers, Delivered
  <2>3. IsConn(quic) /\ IsSeq(s) /\ Len(s) <= AnswerQueue /\ Agree(kind, flow, quic)
    BY DEF TablesInv, IsConn
  <2>4. /\ quic'.udp = quic.udp /\ quic'.flows = quic.flows /\ quic'.wait = quic.wait
        /\ quic'.air = quic.air /\ quic'.reasm = quic.reasm /\ quic'.answers[f] = Tail(s)
        /\ \A g \in Flows \ {f} : quic'.answers[g] = quic.answers[g]
    <3>1. IsSeq(Tail(s)) /\ Len(Tail(s)) <= AnswerQueue
      BY <1>3, <2>3, Sequences, QuicUdpAssumption
    <3> DEFINE t == Tail(s)
               d == quic'
    <3>2. IsSeq(t) /\ Len(t) <= AnswerQueue /\ d = WithAnswers(quic, f, t)
      BY <3>1, <2>2
    <3> HIDE DEF t, d
    <3>3. /\ d.udp = quic.udp /\ d.flows = quic.flows /\ d.wait = quic.wait
          /\ d.air = quic.air /\ d.reasm = quic.reasm /\ d.answers[f] = t
          /\ \A g \in Flows \ {f} : d.answers[g] = quic.answers[g]
      BY <3>2, <2>3, AnswersIsConn
    <3> QED BY <3>3 DEF t, d
  <2>5. /\ 1 \in 1..Len(s) /\ x = s[1]
        /\ \A i \in 1..Len(Tail(s)) : i + 1 \in 1..Len(s) /\ i + 1 # 1 /\ Tail(s)[i] = s[i + 1]
    BY <1>3, <2>3, TailOfQueue
  <2>6. /\ PacketsOK(script, H, flow, quic, got) /\ AnswersOK(script, H, flow, quic, got)
        /\ GotOK(script, count.sent, once, got) /\ NumbersOK(script, count.sent, H, flow)
    BY <2>1, <2>2, Parts DEF UnderWay
  <2>7. /\ \A g \in Flows : ~flow[g].late => \A i \in 1..Len(quic.answers[g]) :
             /\ \E j \in 1..flow[g].sent : quic.answers[g][i] = Said(script, H[g][j])
             /\ Left(got, quic.answers[g][i])
             /\ \A k \in 1..Len(quic.answers[g]) :
                  quic.answers[g][k] = quic.answers[g][i] => k = i \/ quic.answers[g][i] = <<>>
        /\ quic.wait # NoAnswer /\ ~flow[quic.wait.to].late =>
             /\ \E j \in 1..flow[quic.wait.to].sent : quic.wait.data = Said(script, H[quic.wait.to][j])
             /\ quic.wait.data # <<>> => ~Given(got, quic.wait.data) /\ ~Queued(quic, quic.wait.to, quic.wait.data)
    BY <2>6 DEF AnswersOK
  <2>8. PICK j \in 1..flow[f].sent : x = Said(script, H[f][j])
    <3>1. \A i \in 1..Len(s) : \E j \in 1..flow[f].sent : s[i] = Said(script, H[f][j])
      BY <1>3, <2>7
    <3> HIDE DEF s, x
    <3>2. \E j \in 1..flow[f].sent : s[1] = Said(script, H[f][j])
      BY <2>5, <3>1
    <3> QED BY <2>5, <3>2
  <2>9. /\ \A g \in Flows : /\ flow[g].sent \in Nat /\ Len(H[g]) \in Nat /\ flow[g].sent <= Len(H[g])
                            /\ \A k \in 1..flow[g].sent : k \in 1..Len(H[g])
        /\ j \in 1..Len(H[f])
    <3>1. \A g \in Flows : flow[g].sent \in Nat /\ Len(H[g]) \in Nat /\ flow[g].sent <= Len(H[g])
      BY <2>1, HistFacts
    <3> QED BY <3>1
  <2>10. e.data = x /\ e.key = flow[f].key /\ H[f][j] \in 1..count.sent /\ script[H[f][j]].key = flow[f].key
    BY <2>6, <2>9 DEF NumbersOK, encode_udp_datagram
  <2>11. Left(got, x)
    BY <1>3, <2>5, <2>7
  <2> HIDE DEF e, x, s, once
  <2>12. /\ GotOK(script, count.sent, once, got')
         /\ \A v : Given(got', v) => Given(got, v) \/ v = x
    <3>1. \E i \in 1..count.sent : script[i].key = e.key /\ e.data = Said(script, i)
      BY <2>8, <2>10
    <3> DEFINE h == got'
    <3>2. h = With(got, e, 1 + IF e \in DOMAIN got THEN got[e] ELSE 0)
      BY <2>2
    <3> HIDE DEF h
    <3>3. GotOK(script, count.sent, once, h) /\ \A v : Given(h, v) => Given(got, v) \/ (Undisturbed(e) /\ v = e.data)
      <4>1. Left(got, e.data)
        BY <2>10, <2>11
      <4> QED BY <4>1, <3>1, <3>2, <2>6, DeliveredIsGiven
    <3> QED BY <3>3, <2>10 DEF h
  <2>13. UnsentOK(script, H, flow, assoc, got')
    <3> DEFINE h == got'
    <3>1. \A v : Given(h, v) => Given(got, v) \/ v = Said(script, H[f][j])
      BY <2>8, <2>12
    <3> HIDE DEF h
    <3>2. UnsentOK(script, H, flow, assoc, h)
      BY <2>1, <2>8, <3>1, OthersAreLeft
    <3> QED BY <3>2 DEF h
  \* an answer of flow g that is not in its queue is another one
  <2>14. ASSUME NEW g \in Flows, NEW v, v # <<>>, NEW k \in 1..flow[g].sent, v = Said(script, H[g][k]),
                ~Given(got, v), g = f => v # x
         PROVE  ~Given(got', v)
    <3> SUFFICES ASSUME v = x PROVE FALSE
      BY <2>12, <2>14
    <3>1. Said(script, H[g][k]) = Said(script, H[f][j]) /\ Said(script, H[g][k]) # <<>>
      BY <2>8, <2>14
    <3>2. k \in 1..Len(H[g])
      BY <2>9
    <3>3. g = f
      BY <2>1, <2>9, <3>1, <3>2, Distinct
    <3> QED BY <3>3, <2>14
  <2>15. \A g \in Flows : \A v : Queued(quic', g, v) => Queued(quic, g, v)
    <3> SUFFICES ASSUME NEW g \in Flows, NEW v, Queued(quic', g, v) PROVE Queued(quic, g, v)
      OBVIOUS
    <3>1. CASE g = f
      BY <3>1, <2>4, <2>5 DEF Queued, s
    <3>2. CASE g # f
      BY <3>2, <2>4 DEF Queued
    <3> QED BY <3>1, <3>2
  <2>16. Queued(quic, f, x)
    BY <2>5 DEF Queued, s
  <2>17. AnswersOK(script, H, flow, quic', got')
    <3>1. ASSUME NEW g \in Flows, ~flow[g].late, NEW i \in 1..Len(quic'.answers[g])
          PROVE  /\ \E k \in 1..flow[g].sent : quic'.answers[g][i] = Said(script, H[g][k])
                 /\ Left(got', quic'.answers[g][i])
                 /\ \A k \in 1..Len(quic'.answers[g]) :
                      quic'.answers[g][k] = quic'.answers[g][i] => k = i \/ quic'.answers[g][i] = <<>>
      <4>1. CASE g = f
        <5> DEFINE t == Tail(s)
        <5>1. quic'.answers[g] = t
          BY <4>1, <2>4
        <5>2. i + 1 \in 1..Len(s) /\ i + 1 # 1 /\ t[i] = s[i + 1]
          BY <5>1, <2>5
        <5> DEFINE v == t[i]
                   i1 == i + 1
        <5>a. i1 \in 1..Len(s) /\ v = s[i1] /\ i1 # 1
          BY <5>2
        <5> HIDE DEF i1, v
        <5>3. (\E k \in 1..flow[f].sent : v = Said(script, H[f][k])) /\ Left(got, v)
              /\ \A k \in 1..Len(s) : s[k] = v => k = i1 \/ v = <<>>
          BY <1>3, <5>a, <2>7 DEF s
        <5>4. v # <<>> => v # x
          BY <5>3, <5>a, <2>5
        <5>5. PICK k \in 1..flow[f].sent : v = Said(script, H[f][k])
          BY <5>3
        <5>6. Left(got', v)
          BY <5>3, <5>4, <5>5, <2>14 DEF Left
        <5>7. ASSUME NEW l \in 1..Len(t), t[l] = v PROVE l = i \/ v = <<>>
          <6>1. l + 1 \in 1..Len(s) /\ t[l] = s[l + 1]
            BY <2>5
          <6>2. l + 1 = i1 \/ v = <<>>
            BY <6>1, <5>3, <5>7
          <6>3. l \in Int /\ i \in Int
            BY <5>1
          <6> QED BY <6>2, <6>3 DEF i1
        <5>8. v = quic'.answers[g][i] /\ t = quic'.answers[g]
          BY <5>1 DEF v
        <5> HIDE DEF t
        <5> QED BY <4>1, <5>5, <5>6, <5>7, <5>8
      <4>2. CASE g # f
        <5>1. quic'.answers[g] = quic.answers[g]
          BY <4>2, <2>4
        <5> DEFINE v == quic.answers[g][i]
        <5>2. /\ \E k \in 1..flow[g].sent : v = Said(script, H[g][k])
              /\ Left(got, v)
              /\ \A k \in 1..Len(quic.answers[g]) : quic.answers[g][k] = v => k = i \/ v = <<>>
          BY <3>1, <5>1, <2>7
        <5>3. PICK k \in 1..flow[g].sent : v = Said(script, H[g][k])
          BY <5>2
        <5>4. Left(got', v)
          BY <4>2, <5>2, <5>3, <2>14 DEF Left
        <5> QED BY <5>1, <5>2, <5>4
      <4> QED BY <4>1, <4>2
    <3>2. ASSUME quic'.wait # NoAnswer, ~flow[quic'.wait.to].late
          PROVE  /\ \E k \in 1..flow[quic'.wait.to].sent : quic'.wait.data = Said(script, H[quic'.wait.to][k])
                 /\ quic'.wait.data # <<>> =>
                      ~Given(got', quic'.wait.data) /\ ~Queued(quic', quic'.wait.to, quic'.wait.data)
      <4> DEFINE w == quic.wait.data
                 to == quic.wait.to
      <4>1. to \in Flows /\ (\E k \in 1..flow[to].sent : w = Said(script, H[to][k]))
            /\ (w # <<>> => ~Given(got, w) /\ ~Queued(quic, to, w))
        BY <3>2, <2>3, <2>4, <2>7 DEF Agree, Awaited
      <4>2. PICK k \in 1..flow[to].sent : w = Said(script, H[to][k])
        BY <4>1
      <4>3. w # <<>> => ~Given(got', w)
        BY <4>1, <4>2, <2>14, <2>16
      <4> QED BY <4>1, <4>2, <4>3, <2>4, <2>15
    <3> QED BY <3>1, <3>2 DEF AnswersOK
  <2>18. PacketsOK(script, H, flow, quic', got')
    <3>1. ASSUME NEW i \in DOMAIN quic.flows, NEW k \in 1..flow[quic.flows[i]].sent,
                 Open(quic, quic.flows[i], got, Said(script, H[quic.flows[i]][k]))
          PROVE  Open(quic', quic.flows[i], got', Said(script, H[quic.flows[i]][k]))
      <4> DEFINE g == quic.flows[i]
                 v == Said(script, H[g][k])
      <4>1. g \in Flows
        BY <2>3 DEF IsConn
      <4>2. v # <<>> => ~Given(got, v) /\ (quic.wait.to = g => quic.wait.data # v) /\ ~Queued(quic, g, v)
        BY <3>1 DEF Open
      <4>3. v # <<>> => ~Given(got', v)
        BY <4>1, <4>2, <2>14, <2>16
      <4> QED BY <4>1, <4>2, <4>3, <2>4, <2>15 DEF Open
    <3>2. quic.air \subseteq Datagram /\ \A i \in DOMAIN quic.flows : flow[quic.flows[i]].sent \in Nat
      BY <2>3, <2>9 DEF IsConn
    <3> DEFINE c == quic'
               h == got'
    <3>3. /\ c.udp = quic.udp /\ c.air = quic.air /\ c.reasm = quic.reasm
          /\ \A i \in DOMAIN c.flows : i \in DOMAIN quic.flows /\ c.flows[i] = quic.flows[i]
      BY <2>4
    <3>4. \A i \in DOMAIN quic.flows : \A k \in 1..flow[quic.flows[i]].sent :
            Open(quic, quic.flows[i], got, Said(script, H[quic.flows[i]][k])) =>
            Open(c, quic.flows[i], h, Said(script, H[quic.flows[i]][k]))
      BY <3>1
    <3> HIDE DEF c, h
    <3>5. PacketsOK(script, H, flow, c, h)
      BY <2>6, <3>2, <3>3, <3>4, PacketsKept
    <3> QED BY <3>5 DEF c, h
  <2> QED BY <2>1, <2>2, <2>12, <2>13, <2>17, <2>18, QuicStep DEF once
<1> QED BY <1>1, <1>2, <1>3

\* A queue with one answer more.
LEMMA OneMoreAnswer ==
  ASSUME NEW s, IsSeq(s), NEW x, NEW t, t = Append(s, x), NEW k, k = Len(s) + 1
  PROVE  /\ Len(s) \in Nat /\ Len(t) = k /\ t[k] = x
         /\ \A i \in 1..k : i \in 1..Len(s) \/ i = k
         /\ \A i \in 1..Len(s) : i \in 1..k /\ i # k /\ t[i] = s[i]
<1>1. PICK S : s \in Seq(S)
  BY DEF IsSeq
<1>2. s \in Seq(S \union {x}) /\ x \in S \union {x}
  BY <1>1, SeqMonotonic
<1>3. /\ Len(t) = Len(s) + 1 /\ (\A i \in 1..Len(s) : t[i] = s[i]) /\ t[Len(s) + 1] = x /\ Len(s) \in Nat
  BY <1>2, AppendProperties, LenProperties
<1> QED BY <1>3

\* An answer of a flow joins its queue.
Joining(c, d, f, x) ==
    /\ d.answers[f] = Append(c.answers[f], x) /\ d.wait = NoAnswer
    /\ \A e \in Flows \ {f} : d.answers[e] = c.answers[e]
Fits(s, H, fl, c, g, f, x) ==
    ~fl[f].late => /\ \E j \in 1..fl[f].sent : x = Said(s, H[f][j])
                   /\ Left(g, x) /\ (x # <<>> => ~Queued(c, f, x))
QueuedToo(c, d, f, x) ==
    \A e \in Flows : \A v : Queued(d, e, v) => Queued(c, e, v) \/ (e = f /\ v = x)
LEMMA AnswerJoins ==
  ASSUME NEW s, NEW H, NEW fl, NEW c, IsConn(c), NEW g, AnswersOK(s, H, fl, c, g),
         NEW f \in Flows, NEW x, Fits(s, H, fl, c, g, f, x),
         NEW d, Joining(c, d, f, x)
  PROVE  AnswersOK(s, H, fl, d, g) /\ QueuedToo(c, d, f, x)
<1> DEFINE q == c.answers[f]
           t == d.answers[f]
           k == Len(q) + 1
<1>0. /\ d.answers[f] = Append(c.answers[f], x) /\ d.wait = NoAnswer
      /\ \A e \in Flows \ {f} : d.answers[e] = c.answers[e]
  BY DEF Joining
<1>1. \A e \in Flows : ~fl[e].late => \A i \in 1..Len(c.answers[e]) :
         /\ \E l \in 1..fl[e].sent : c.answers[e][i] = Said(s, H[e][l])
         /\ Left(g, c.answers[e][i])
         /\ \A l \in 1..Len(c.answers[e]) : c.answers[e][l] = c.answers[e][i] => l = i \/ c.answers[e][i] = <<>>
  BY DEF AnswersOK
<1>2. IsSeq(q)
  BY DEF IsConn
<1>3. /\ Len(t) = k /\ t[k] = x
      /\ \A i \in 1..k : i \in 1..Len(q) \/ i = k
      /\ \A i \in 1..Len(q) : i \in 1..k /\ i # k /\ t[i] = q[i]
  <2>1. t = Append(q, x)
    BY <1>0
  <2> HIDE DEF t, q, k
  <2>2. k = Len(q) + 1
    BY DEF k
  <2> QED BY <2>1, <2>2, <1>2, OneMoreAnswer
<1>4. ~fl[f].late => /\ \E j \in 1..fl[f].sent : x = Said(s, H[f][j])
                     /\ Left(g, x) /\ (x # <<>> => \A i \in 1..Len(q) : q[i] # x)
  BY DEF Queued, Fits
<1>5. ~fl[f].late => \A i \in 1..Len(q) : /\ \E l \in 1..fl[f].sent : q[i] = Said(s, H[f][l])
                              /\ Left(g, q[i])
                              /\ \A l \in 1..Len(q) : q[l] = q[i] => l = i \/ q[i] = <<>>
  BY <1>1
<1> HIDE DEF t, q, k
<1>6. ASSUME ~fl[f].late, NEW i \in 1..Len(t)
      PROVE  /\ \E l \in 1..fl[f].sent : t[i] = Said(s, H[f][l])
             /\ Left(g, t[i])
             /\ \A l \in 1..Len(t) : t[l] = t[i] => l = i \/ t[i] = <<>>
  <2>1. CASE i \in 1..Len(q)
    <3>1. t[i] = q[i]
      BY <2>1, <1>3
    <3>2. ASSUME NEW l \in 1..Len(t), t[l] = t[i] PROVE l = i \/ t[i] = <<>>
      <4>1. CASE l \in 1..Len(q)
        BY <2>1, <3>1, <3>2, <4>1, <1>3, <1>5, <1>6
      <4>2. CASE l = k
        BY <2>1, <3>1, <3>2, <4>2, <1>3, <1>4, <1>6
      <4> QED BY <4>1, <4>2, <1>3
    <3> QED BY <2>1, <3>1, <3>2, <1>5, <1>6
  <2>2. CASE i = k
    <3>1. t[i] = x
      BY <2>2, <1>3
    <3>2. ASSUME NEW l \in 1..Len(t), t[l] = t[i] PROVE l = i \/ t[i] = <<>>
      <4>1. CASE l \in 1..Len(q)
        BY <3>1, <3>2, <4>1, <1>3, <1>4, <1>6
      <4>2. CASE l = k
        BY <2>2, <4>2
      <4> QED BY <4>1, <4>2, <1>3
    <3> QED BY <3>1, <3>2, <1>4, <1>6
  <2> QED BY <2>1, <2>2, <1>3
<1>7. AnswersOK(s, H, fl, d, g)
  <2>1. ASSUME NEW e \in Flows, ~fl[e].late, NEW i \in 1..Len(d.answers[e])
        PROVE  /\ \E l \in 1..fl[e].sent : d.answers[e][i] = Said(s, H[e][l])
               /\ Left(g, d.answers[e][i])
               /\ \A l \in 1..Len(d.answers[e]) : d.answers[e][l] = d.answers[e][i] => l = i \/ d.answers[e][i] = <<>>
    <3>1. CASE e = f
      BY <2>1, <3>1, <1>6 DEF t
    <3>2. CASE e # f
      <4>1. d.answers[e] = c.answers[e]
        BY <3>2, <1>0
      <4> QED BY <2>1, <4>1, <1>1
    <3> QED BY <3>1, <3>2
  <2> QED BY <2>1, <1>0 DEF AnswersOK
<1>8. ASSUME NEW e \in Flows, NEW v, Queued(d, e, v) PROVE Queued(c, e, v) \/ (e = f /\ v = x)
  <2>1. PICK i \in 1..Len(d.answers[e]) : d.answers[e][i] = v
    BY <1>8 DEF Queued
  <2>2. CASE e = f
    <3>1. i \in 1..Len(t) /\ t[i] = v
      BY <2>1, <2>2 DEF t
    <3>2. i \in 1..Len(q) \/ i = k
      BY <3>1, <1>3
    <3>3. CASE i \in 1..Len(q)
      <4>1. q[i] = v
        BY <3>1, <3>3, <1>3
      <4> QED BY <4>1, <2>2, <3>3 DEF Queued, q
    <3>4. CASE i = k
      BY <2>2, <3>1, <3>4, <1>3
    <3> QED BY <3>2, <3>3, <3>4
  <2>3. CASE e # f
    <3>1. d.answers[e] = c.answers[e]
      BY <2>3, <1>0
    <3> QED BY <2>1, <3>1 DEF Queued
  <2> QED BY <2>2, <2>3
<1> QED BY <1>7, <1>8 DEF QueuedToo

LEMMA DemuxHandsOverReplies ==
  ASSUME TablesInv, RepliesInv, DemuxHandsOver
  PROVE  RepliesInv'
<1> DEFINE to == quic.wait.to
           w == quic.wait.data
<1>1. /\ IsConn(quic) /\ quic.udp = "running" /\ quic.wait # NoAnswer /\ to \in Flows /\ kind \in Quic
      /\ Agree(kind, flow, quic)
  BY DEF TablesInv, Agree, Awaited, DemuxHandsOver
<1>2. UNCHANGED <<script, kind, assoc, flow, net, got, count>>
  BY DEF Shared, DemuxHandsOver
<1>3. PICK H \in [Flows -> Seq(Nat)] : AnswersInv(H)
  BY DEF RepliesInv
<1>4. /\ PacketsOK(script, H, flow, quic, got) /\ AnswersOK(script, H, flow, quic, got)
      /\ GotOK(script, count.sent, Once(kind, net), got) /\ UnsentOK(script, H, flow, assoc, got)
  BY <1>1, <1>3, Parts DEF UnderWay
<1>5. Fits(script, H, flow, quic, got, to, w)
  BY <1>1, <1>4 DEF AnswersOK, Fits, Left
<1>7. quic.air \subseteq Datagram /\ \A i \in DOMAIN quic.flows : quic.flows[i] \in Flows /\ flow[quic.flows[i]].sent \in Nat
  <2>1. \A g \in Flows : flow[g].sent \in Nat
    BY <1>3, HistFacts
  <2> QED BY <2>1, <1>1 DEF IsConn
<1> DEFINE d == quic'
<1>8. /\ d.udp = quic.udp /\ d.air = quic.air /\ d.reasm = quic.reasm /\ d.wait = NoAnswer
      /\ \A i \in DOMAIN d.flows : i \in DOMAIN quic.flows /\ d.flows[i] = quic.flows[i]
      /\ \/ d.answers = quic.answers
         \/ /\ d.answers[to] = Append(quic.answers[to], w)
            /\ \A g \in Flows \ {to} : d.answers[g] = quic.answers[g]
  <2>1. CASE flow[to].st = "ended"
    <3> DEFINE c == dissociate(quic, quic.wait.id)
    <3>1. d = WithWait(c, Nobody, 0, <<>>)
      BY <2>1 DEF DemuxHandsOver, Shared, RemovedLate, WithWait, NoAnswer
    <3>2. /\ IsConn(c) /\ c.udp = quic.udp /\ c.answers = quic.answers /\ c.air = quic.air
          /\ c.reasm = quic.reasm /\ \A i \in DOMAIN c.flows : i \in DOMAIN quic.flows /\ c.flows[i] = quic.flows[i]
      BY <1>1, DissociateIsConn
    <3> HIDE DEF c, d
    <3>3. /\ d.udp = c.udp /\ d.flows = c.flows /\ d.answers = c.answers /\ d.air = c.air /\ d.reasm = c.reasm
          /\ d.wait = [to |-> Nobody, id |-> 0, data |-> <<>>]
      BY <3>1, <3>2, WaitIsConn
    <3> QED BY <3>2, <3>3 DEF NoAnswer
  <2>2. CASE flow[to].st # "ended"
    <3> DEFINE s == Append(quic.answers[to], w)
               c == WithAnswers(quic, to, s)
    <3>1. d = WithWait(c, Nobody, 0, <<>>) /\ Len(quic.answers[to]) < AnswerQueue
      BY <2>2 DEF DemuxHandsOver, Shared, HandedLate, Handed, WithWait, WithAnswers, NoAnswer
    <3>2. IsSeq(s) /\ Len(s) <= AnswerQueue
      <4>1. IsSeq(quic.answers[to])
        BY <1>1 DEF IsConn
      <4> QED BY <3>1, <4>1, Sequences, QuicUdpAssumption
    <3> HIDE DEF s, to, d
    <3>3. /\ IsConn(c) /\ c.udp = quic.udp /\ c.flows = quic.flows /\ c.air = quic.air /\ c.reasm = quic.reasm
          /\ c.answers[to] = s /\ \A g \in Flows \ {to} : c.answers[g] = quic.answers[g]
      BY <1>1, <3>2, AnswersIsConn
    <3> HIDE DEF c
    <3>4. /\ d.udp = c.udp /\ d.flows = c.flows /\ d.answers = c.answers /\ d.air = c.air /\ d.reasm = c.reasm
          /\ d.wait = [to |-> Nobody, id |-> 0, data |-> <<>>]
      BY <3>1, <3>3, WaitIsConn
    <3> QED BY <3>3, <3>4 DEF NoAnswer, s
  <2> QED BY <2>1, <2>2
<1> HIDE DEF to, w, d
<1>9. /\ AnswersOK(script, H, flow, d, got)
      /\ \A g \in Flows : \A v : Queued(d, g, v) => Queued(quic, g, v) \/ (g = to /\ v = w)
  <2>1. CASE d.answers = quic.answers
    <3>1. AnswersOK(script, H, flow, d, got)
      BY <2>1, <1>4, <1>8 DEF AnswersOK
    <3> QED BY <2>1, <3>1 DEF Queued
  <2>2. CASE /\ d.answers[to] = Append(quic.answers[to], w)
             /\ \A g \in Flows \ {to} : d.answers[g] = quic.answers[g]
    <3>2. Joining(quic, d, to, w)
      BY <2>2, <1>8 DEF Joining
    <3>3. AnswersOK(script, H, flow, d, got) /\ QueuedToo(quic, d, to, w)
      BY <3>2, <1>1, <1>4, <1>5, AnswerJoins
    <3> QED BY <3>3 DEF QueuedToo
  <2> QED BY <2>1, <2>2, <1>8
<1>10. ASSUME NEW g \in Flows, NEW v, Open(quic, g, got, v) PROVE Open(d, g, got, v)
  <2>1. d.wait.data = <<>>
    BY <1>8 DEF NoAnswer
  <2>2. quic.wait.data = w /\ quic.wait.to = to
    BY DEF w, to
  <2> QED BY <1>9, <1>10, <2>1, <2>2 DEF Open
<1>11. PacketsOK(script, H, flow, d, got)
  <2>1. \A i \in DOMAIN quic.flows : \A k \in 1..flow[quic.flows[i]].sent :
            Open(quic, quic.flows[i], got, Said(script, H[quic.flows[i]][k])) =>
            Open(d, quic.flows[i], got, Said(script, H[quic.flows[i]][k]))
    BY <1>7, <1>10
  <2> QED BY <2>1, <1>4, <1>7, <1>8, PacketsKept
<1>12. PacketsOK(script, H, flow, quic', got') /\ AnswersOK(script, H, flow, quic', got')
  BY <1>2, <1>9, <1>11 DEF d
<1> QED BY <1>1, <1>2, <1>3, <1>4, <1>12, QuicStep

\* Where the fragments of a payload of length l begin and end.
LEMMA Marks ==
  ASSUME NEW l \in Nat, l > 0, NEW m \in Nat \ {0}, NEW t, t = (l + m - 1) \div m
  PROVE  /\ t \in Nat /\ t >= 1 /\ l <= t * m
         /\ \A i \in 0..t : i * m \in Nat /\ (i + 1) * m = i * m + m
         /\ \A i \in 0..(t - 1) : i * m < l
<1>1. t \in Nat /\ t >= 1 /\ l <= t * m /\ (t - 1) * m < l
  <2>1. t \in Nat /\ t >= 1 /\ l <= t * m
    OBVIOUS
  <2>2. (t - 1) * m < l
    OBVIOUS
  <2> QED BY <2>1, <2>2
<1>2. ASSUME NEW i \in Nat PROVE i * m \in Nat /\ (i + 1) * m = i * m + m
  OBVIOUS
<1>3. ASSUME NEW i \in Nat, NEW j \in Nat, i <= j PROVE i * m <= j * m
  BY <1>3
<1>4. ASSUME NEW i \in 0..(t - 1) PROVE i * m < l
  <2> DEFINE j == t - 1
             a == i * m
             b == j * m
  <2>1. i \in Nat /\ j \in Nat /\ i <= j
    BY <1>1
  <2>2. a <= b /\ b < l /\ a \in Nat /\ b \in Nat
    <3> HIDE DEF j
    <3>1. b < l
      BY <1>1 DEF j
    <3> QED BY <3>1, <2>1, <1>2, <1>3
  <2> HIDE DEF a, b
  <2>3. a < l
    BY <2>2
  <2> QED BY <2>3 DEF a
<1>5. \A i \in 0..t : i \in Nat
  BY <1>1
<1> QED BY <1>1, <1>2, <1>4, <1>5

FromPiece(x, t, rest) == rest = [i \in 0..t |-> SubSeq(x, i * MaxDatagram + 1, Len(x))]
SplitUp(x, t, rest) ==
    /\ t \in Nat /\ t >= 1 /\ rest[0] = x /\ rest[t] = <<>>
    /\ \A i \in 0..(t - 1) : rest[i] = Chunk(x, i) \o rest[i + 1]
\* What is left of a payload from fragment i on is that fragment and the rest.
LEMMA ChunkAndRest ==
  ASSUME NEW x \in Data, x # <<>>, NEW t, t = FragTotal(x), NEW rest, FromPiece(x, t, rest)
  PROVE  SplitUp(x, t, rest)
<1> USE DEF FromPiece
<1> DEFINE l == Len(x)
           m == MaxDatagram
<1>1. l \in Nat /\ l > 0 /\ m \in Nat \ {0} /\ x \in Seq(Piece)
  <2>1. x \in Seq(Piece) /\ m \in Nat \ {0}
    BY PacketsAssumption DEF Data
  <2> QED BY <2>1, EmptySeq, LenProperties
<1>2. t = (l + m - 1) \div m
  BY DEF FragTotal
<1> HIDE DEF l, m
<1>3. /\ t \in Nat /\ t >= 1 /\ l <= t * m
      /\ \A i \in 0..t : i * m \in Nat /\ (i + 1) * m = i * m + m
      /\ \A i \in 0..(t - 1) : i * m < l
  BY <1>1, <1>2, Marks
<1>4. \A i \in 0..t : rest[i] = SubSeq(x, i * m + 1, l)
  BY DEF l, m
<1>5. 0 \in 0..t /\ t \in 0..t /\ 0 * m = 0 /\ (\A i \in 0..(t - 1) : i \in 0..t /\ i + 1 \in 0..t)
  BY <1>1, <1>3
<1>6. rest[0] = x
  <2> DEFINE a == 0 * m
  <2>1. a = 0 /\ rest[0] = SubSeq(x, a + 1, l)
    BY <1>4, <1>5
  <2> HIDE DEF a
  <2>2. a + 1 = 1
    BY <2>1
  <2>3. rest[0] = SubSeq(x, 1, l)
    BY <2>1, <2>2
  <2> QED BY <2>3, <1>1, SubSeqFull DEF l
<1>7. rest[t] = <<>>
  <2> DEFINE a == t * m
  <2>1. a \in Nat /\ l <= a /\ rest[t] = SubSeq(x, a + 1, l)
    BY <1>3, <1>4, <1>5
  <2> HIDE DEF a
  <2>2. a + 1 \in Int /\ l \in Int /\ l < a + 1
    BY <1>1, <2>1
  <2> QED BY <2>1, <2>2, SubSeqEmpty
<1>8. ASSUME NEW i \in 0..(t - 1) PROVE rest[i] = Chunk(x, i) \o rest[i + 1]
  <2> DEFINE a == i * m
             b == (i + 1) * m
             n == i + 1
             e == IF b < l THEN b ELSE l
  <2>1. /\ Chunk(x, i) = SubSeq(x, a + 1, e) /\ rest[i] = SubSeq(x, a + 1, l) /\ rest[n] = SubSeq(x, b + 1, l)
    BY <1>4, <1>5 DEF Chunk, l, m
  <2>2. a \in Nat /\ b = a + m /\ a < l /\ b \in Nat
    BY <1>1, <1>3, <1>5
  <2> HIDE DEF a, b
  <2>3. CASE b < l
    <3>1. e = b
      BY <2>3
    <3> HIDE DEF e
    <3>2. a + 1 \in 1..(l + 1) /\ b \in ((a + 1) - 1)..l /\ l \in b..l
      BY <1>1, <2>2, <2>3
    <3> DEFINE u == a + 1
    <3>3. u \in 1..(Len(x) + 1) /\ b \in (u - 1)..Len(x) /\ Len(x) \in b..Len(x)
      BY <3>2 DEF l
    <3> HIDE DEF u
    <3>4. SubSeq(x, u, b) \o SubSeq(x, b + 1, Len(x)) = SubSeq(x, u, Len(x))
      BY <3>3, <1>1, ConcatAdjacentSubSeq
    <3> QED BY <2>1, <3>1, <3>4 DEF u, l
  <2>4. CASE ~(b < l)
    <3>1. e = l
      BY <2>4
    <3> HIDE DEF e
    <3>2. rest[n] = <<>>
      <4>1. b + 1 \in Int /\ l \in Int /\ l < b + 1
        BY <1>1, <2>2, <2>4
      <4> QED BY <4>1, <2>1, SubSeqEmpty
    <3>3. Chunk(x, i) \in Seq(Piece)
      <4>1. i \in Nat
        BY <1>3
      <4> QED BY <4>1, ChunkIsData DEF Data
    <3>4. Chunk(x, i) \o <<>> = Chunk(x, i)
      BY <3>3, ConcatEmptySeq
    <3> QED BY <2>1, <3>1, <3>2, <3>4
  <2> QED BY <2>3, <2>4
<1> QED BY <1>3, <1>6, <1>7, <1>8 DEF SplitUp

\* All fragments of a payload, put together, are the payload.
LEMMA JoinedIsWhole ==
  ASSUME NEW x \in Data, x # <<>>, NEW t, t = FragTotal(x), NEW frags, DOMAIN frags = 0..(t - 1),
         \A i \in 0..(t - 1) : frags[i] = Chunk(x, i)
  PROVE  Joined(frags) = x
<1> DEFINE rest == [i \in 0..t |-> SubSeq(x, i * MaxDatagram + 1, Len(x))]
           P(g) == g = [i \in 0..t |-> IF i = t THEN <<>> ELSE frags[i] \o g[i + 1]]
           from == CHOOSE g : P(g)
<1>1. /\ t \in Nat /\ t >= 1 /\ rest[0] = x /\ rest[t] = <<>>
      /\ \A i \in 0..(t - 1) : rest[i] = Chunk(x, i) \o rest[i + 1]
  <2>1. FromPiece(x, t, rest)
    BY DEF FromPiece
  <2> HIDE DEF rest
  <2>2. SplitUp(x, t, rest)
    BY <2>1, ChunkAndRest
  <2> QED BY <2>2 DEF SplitUp
<1>2. Cardinality(DOMAIN frags) = t
  <2>1. 0 \in Int /\ t - 1 \in Int /\ (IF 0 > t - 1 THEN 0 ELSE (t - 1) - 0 + 1) = t
    BY <1>1
  <2> QED BY <2>1, <1>1, FS_Interval
<1>3. Joined(frags) = from[0]
  BY <1>2 DEF Joined
<1>4. P(rest)
  <2>0. DOMAIN rest = 0..t /\ rest = [i \in DOMAIN rest |-> rest[i]]
    OBVIOUS
  <2> HIDE DEF rest
  <2>1. \A i \in 0..t : rest[i] = IF i = t THEN <<>> ELSE frags[i] \o rest[i + 1]
    <3> TAKE i \in 0..t
    <3>1. CASE i = t
      BY <3>1, <1>1
    <3>2. CASE i # t
      <4>1. i \in 0..(t - 1)
        BY <3>2, <1>1
      <4> QED BY <4>1, <3>2, <1>1
    <3> QED BY <3>1, <3>2
  <2> QED BY <2>0, <2>1
<1>5. P(from)
  <2> HIDE DEF P, rest
  <2>1. \E g : P(g)
    BY <1>4
  <2> QED BY <2>1
<1> HIDE DEF from, rest
<1>6. from[t] = <<>> /\ \A i \in 0..(t - 1) : from[i] = Chunk(x, i) \o from[i + 1]
  <2>1. \A i \in 0..t : from[i] = IF i = t THEN <<>> ELSE frags[i] \o from[i + 1]
    BY <1>5
  <2>2. t \in 0..t /\ \A i \in 0..(t - 1) : i \in 0..t /\ i # t
    BY <1>1
  <2> QED BY <2>1, <2>2
<1> HIDE DEF P
<1>7. \A n \in Nat : n <= t => from[t - n] = rest[t - n]
  <2> DEFINE Bad == {n \in Nat : n <= t /\ from[t - n] # rest[t - n]}
  <2> SUFFICES ASSUME Bad # {} PROVE FALSE
    OBVIOUS
  <2>1. PICK n \in Bad : \A k \in Bad : n <= k
    <3>1. Bad \subseteq Nat
      OBVIOUS
    <3> HIDE DEF Bad
    <3> QED BY <3>1, LeastNatural
  <2>2. n \in Nat /\ n <= t /\ from[t - n] # rest[t - n]
    OBVIOUS
  <2>3. n # 0
    <3> SUFFICES ASSUME n = 0 PROVE FALSE
      OBVIOUS
    <3>1. t - n = t
      BY <1>1
    <3> QED BY <3>1, <2>2, <1>1, <1>6
  <2> DEFINE i == t - n
             k == n - 1
  <2>4. i \in 0..(t - 1) /\ k \in Nat /\ k <= t /\ t - k = i + 1 /\ ~(n <= k)
    BY <1>1, <2>2, <2>3
  <2>5. from[t - k] = rest[t - k]
    BY <2>1, <2>4
  <2> HIDE DEF i, k, Bad
  <2>6. from[i] = rest[i]
    BY <2>4, <2>5, <1>1, <1>6
  <2> QED BY <2>2, <2>6 DEF i
<1>8. from[0] = rest[0]
  <2>1. t \in Nat /\ t <= t /\ t - t = 0
    BY <1>1
  <2> QED BY <2>1, <1>7
<1> QED BY <1>1, <1>3, <1>8

\* What is there of a packet once a fragment of it came.
NoFragment == [i \in {} |-> <<>>]
Collected(map, dg, F) ==
    \E B : /\ F = Added(B, dg)
           /\ B = NoFragment \/ (PacketKey(dg) \in DOMAIN map /\ B = map[PacketKey(dg)].frags)
\* The other packets are kept or given up; the packet of the fragment has one
\* fragment more, or it is whole and leaves the map.
LEMMA ReassembleCases ==
  ASSUME NEW map, IsReasm(map), NEW dg \in Datagram, NEW r, r = reassemble(map, dg),
         NEW key, key = PacketKey(dg)
  PROVE  /\ \A k \in DOMAIN r.map : k # key => k \in DOMAIN map /\ r.map[k] = map[k]
         /\ r.full => /\ key \notin DOMAIN r.map
                      /\ \E F : Collected(map, dg, F) /\ Cardinality(DOMAIN F) = dg.total /\ r.data = Joined(F)
         /\ ~r.full =>
              \/ key \in DOMAIN map /\ r.map[key] = map[key] /\ map[key].total # dg.total
              \/ r.map[key].total = dg.total /\ \E F : Collected(map, dg, F) /\ r.map[key].frags = F
<1> DEFINE room == Evicted(map, key)
           e == Entry(room, dg)
           F == Added(e.frags, dg)
           next == [e EXCEPT !.frags = F]
<1>1. IsReasm(room) /\ DOMAIN room \subseteq DOMAIN map /\ \A k \in DOMAIN room : room[k] = map[k]
  BY EvictedHasRoom
<1>2. IsPartial(e)
  BY <1>1, EntryIsPartial
<1>3. \/ key \in DOMAIN map /\ e = map[key]
      \/ e.total = dg.total /\ e.frags = NoFragment
  <2> HIDE DEF room
  <2>1. CASE key \in DOMAIN room
    BY <2>1, <1>1 DEF Entry
  <2>2. CASE key \notin DOMAIN room
    BY <2>2 DEF Entry, NoFragment
  <2> QED BY <2>1, <2>2
<1>4. r = IF e.total # dg.total
          THEN [map |-> With(room, key, e), full |-> FALSE, data |-> <<>>]
          ELSE IF Cardinality(DOMAIN next.frags) = dg.total
          THEN [map |-> Without(room, {key}), full |-> TRUE, data |-> Joined(next.frags)]
          ELSE [map |-> With(room, key, next), full |-> FALSE, data |-> <<>>]
  BY DEF reassemble
<1> HIDE DEF room, e
<1>5. Collected(map, dg, F)
  BY <1>3 DEF Collected
<1> HIDE DEF F
<1>6. next.frags = F /\ next.total = e.total
  BY <1>2 DEF IsPartial
<1> HIDE DEF next
<1>7. /\ \A v : /\ With(room, key, v)[key] = v /\ DOMAIN With(room, key, v) = DOMAIN room \union {key}
                /\ \A k \in DOMAIN With(room, key, v) : k # key => k \in DOMAIN map /\ With(room, key, v)[k] = map[k]
      /\ key \notin DOMAIN Without(room, {key})
      /\ \A k \in DOMAIN Without(room, {key}) : k \in DOMAIN map /\ Without(room, {key})[k] = map[k]
  BY <1>1 DEF With, Without
<1>8. CASE e.total # dg.total
  <2>1. r.map = With(room, key, e) /\ r.full = FALSE
    BY <1>4, <1>8
  <2> QED BY <2>1, <1>3, <1>7, <1>8
<1>9. CASE e.total = dg.total /\ Cardinality(DOMAIN F) = dg.total
  <2>1. r.map = Without(room, {key}) /\ r.full = TRUE /\ r.data = Joined(F)
    BY <1>4, <1>6, <1>9
  <2> QED BY <2>1, <1>5, <1>7, <1>9
<1>10. CASE e.total = dg.total /\ Cardinality(DOMAIN F) # dg.total
  <2>1. r.map = With(room, key, next) /\ r.full = FALSE
    BY <1>4, <1>6, <1>10
  <2> QED BY <2>1, <1>5, <1>6, <1>7, <1>10
<1> QED BY <1>8, <1>9, <1>10

\* The fragments that are there are fragments of the same answer.
LEMMA CollectedFragments ==
  ASSUME NEW x, NEW map, NEW dg \in Datagram, IsFragment(x, dg.total, dg.frag, dg.data),
         NEW key, key = PacketKey(dg),
         key \in DOMAIN map => /\ map[key].frags = [i \in DOMAIN map[key].frags |-> map[key].frags[i]]
                               /\ \A i \in DOMAIN map[key].frags : IsFragment(x, dg.total, i, map[key].frags[i]),
         NEW F, Collected(map, dg, F)
  PROVE  /\ F = [i \in DOMAIN F |-> F[i]] /\ dg.frag \in DOMAIN F
         /\ \A i \in DOMAIN F : IsFragment(x, dg.total, i, F[i])
         /\ \A i \in DOMAIN F : i = dg.frag \/ (key \in DOMAIN map /\ i \in DOMAIN map[key].frags)
         /\ key \in DOMAIN map => \A i \in DOMAIN F : i = dg.frag \/ i \in DOMAIN map[key].frags
<1>1. PICK B : /\ F = Added(B, dg)
               /\ B = NoFragment \/ (key \in DOMAIN map /\ B = map[key].frags)
  BY DEF Collected
<1>2. /\ B = [i \in DOMAIN B |-> B[i]] /\ \A i \in DOMAIN B : IsFragment(x, dg.total, i, B[i])
      /\ \A i \in DOMAIN B : key \in DOMAIN map /\ i \in DOMAIN map[key].frags
  BY <1>1 DEF NoFragment
<1>3. CASE dg.frag \in DOMAIN B
  <2>1. F = B
    BY <1>1, <1>3 DEF Added
  <2> QED BY <2>1, <1>2, <1>3
<1>4. CASE dg.frag \notin DOMAIN B
  <2>1. F = With(B, dg.frag, dg.data)
    BY <1>1, <1>4 DEF Added
  <2>2. /\ F = [i \in DOMAIN F |-> F[i]] /\ DOMAIN F = DOMAIN B \union {dg.frag}
        /\ \A i \in DOMAIN F : F[i] = IF i = dg.frag THEN dg.data ELSE B[i]
    BY <2>1 DEF With
  <2> QED BY <2>2, <1>2, <1>4
<1> QED BY <1>3, <1>4

\* All of them, put together, are the answer.
LEMMA AllFragments ==
  ASSUME NEW x \in Data, NEW t, t = FragTotal(x), t > 1, NEW F,
         \A i \in DOMAIN F : IsFragment(x, t, i, F[i]), Cardinality(DOMAIN F) = t
  PROVE  DOMAIN F = 0..(t - 1) /\ Joined(F) = x
<1>1. x # <<>>
  <2> SUFFICES ASSUME x = <<>> PROVE FALSE
    OBVIOUS
  <2>1. t = 1
    BY DEF FragTotal
  <2> QED BY <2>1
<1>2. t \in Nat
  BY FragTotalIsNat
<1>3. DOMAIN F \subseteq 0..(t - 1) /\ \A i \in DOMAIN F : F[i] = Chunk(x, i)
  BY DEF IsFragment
<1>4. IsFiniteSet(0..(t - 1)) /\ Cardinality(0..(t - 1)) = t
  <2>1. 0 \in Int /\ t - 1 \in Int /\ (IF 0 > t - 1 THEN 0 ELSE (t - 1) - 0 + 1) = t
    BY <1>2
  <2> QED BY <2>1, FS_Interval
<1>5. DOMAIN F = 0..(t - 1)
  BY <1>3, <1>4, FS_Subset
<1> QED BY <1>1, <1>3, <1>5, JoinedIsWhole

\* An answer of one fragment is that fragment.
LEMMA OneChunk ==
  ASSUME NEW x \in Data, FragTotal(x) = 1
  PROVE  Chunk(x, 0) = x
<1>1. CASE x = <<>>
  <2>1. 0 * MaxDatagram = 0 /\ (0 + 1) * MaxDatagram = MaxDatagram /\ ~(MaxDatagram < 0) /\ 0 + 1 = 1
    BY PacketsAssumption
  <2>2. Len(x) = 0
    BY <1>1
  <2>3. Chunk(x, 0) = SubSeq(x, 1, 0)
    BY <2>1, <2>2 DEF Chunk
  <2> QED BY <2>3, <1>1, SubSeqEmpty
<1>2. CASE x # <<>>
  <2> DEFINE rest == [i \in 0..1 |-> SubSeq(x, i * MaxDatagram + 1, Len(x))]
  <2>1. FromPiece(x, 1, rest)
    BY DEF FromPiece
  <2> HIDE DEF rest
  <2>2. SplitUp(x, 1, rest)
    BY <1>2, <2>1, ChunkAndRest
  <2>3. 0 \in 0..(1 - 1) /\ 0 + 1 = 1
    OBVIOUS
  <2>4. x = Chunk(x, 0) \o <<>>
    BY <2>2, <2>3 DEF SplitUp
  <2>5. Chunk(x, 0) \in Seq(Piece)
    BY ChunkIsData DEF Data
  <2> QED BY <2>4, <2>5, ConcatEmptySeq
<1> QED BY <1>1, <1>2

\* A fragment of an answer is known by its place in it.
LEMMA SameFragment ==
  ASSUME NEW x, NEW d \in Datagram, NEW e \in Datagram, d.assoc = e.assoc, d.pkt = e.pkt, d.frag = e.frag,
         IsFragment(x, d.total, d.frag, d.data), IsFragment(x, e.total, e.frag, e.data)
  PROVE  d = e
<1>1. d.total = e.total /\ d.data = e.data
  BY DEF IsFragment
<1> QED BY <1>1 DEF Datagram

\* Nothing of a packet is under way any more.
NothingLeft(c, id, p) ==
    <<id, p>> \notin DOMAIN c.reasm /\ \A o \in c.air : o.assoc = id => o.pkt # p

LEMMA AnswerOutcome ==
  ASSUME NEW c, IsConn(c), c.wait = NoAnswer, NEW id, NEW x, NEW f, f = c.flows[id], NEW d, d = Answer(c, id, x)
  PROVE  /\ d.udp = c.udp /\ d.flows = c.flows /\ d.air = c.air /\ d.reasm = c.reasm
         /\ \/ d.answers = c.answers /\ d.wait = c.wait
            \/ Joining(c, d, f, x)
            \/ d.answers = c.answers /\ d.wait = [to |-> f, id |-> id, data |-> x]
<1>1. /\ d.udp = c.udp /\ d.flows = c.flows /\ d.air = c.air /\ d.reasm = c.reasm
      /\ \/ d.answers = c.answers /\ d.wait = c.wait
         \/ /\ d.wait = c.wait /\ d.answers[f] = Append(c.answers[f], x)
            /\ \A g \in Flows \ {f} : d.answers[g] = c.answers[g]
         \/ d.answers = c.answers /\ d.wait = [to |-> f, id |-> id, data |-> x]
  BY AnswerCases
<1> QED BY <1>1 DEF Joining

\* The data are the answer to packet p of the flow, unless it got its id early.
AnswerOf(H, c, id, p, x) ==
    LET f == c.flows[id]
    IN  ~flow[f].late => /\ p < flow[f].sent /\ x = Said(script, H[f][p + 1])
                         /\ Open(c, f, got, x) /\ NothingLeft(c, id, p)

\* The whole answer of a packet is put into the queue of its flow, or waits.
LEMMA AnswerReplies ==
  ASSUME TablesInv, NEW H, AnswersInv(H), NEW c, IsConn(c), quic.udp = "running",
         c.flows = quic.flows, c.udp = quic.udp, c.wait = NoAnswer,
         PacketsOK(script, H, flow, c, got), AnswersOK(script, H, flow, c, got),
         NEW id \in DOMAIN c.flows, NEW f, f = c.flows[id], NEW p \in Nat, NEW x,
         AnswerOf(H, c, id, p, x),
         NEW d, d = Answer(c, id, x)
  PROVE  PacketsOK(script, H, flow, d, got) /\ AnswersOK(script, H, flow, d, got)
<1>1. f \in Flows /\ (\A i \in DOMAIN c.flows : c.flows[i] \in Flows) /\ c.air \subseteq Datagram
  BY DEF IsConn
<1>2. \A e \in Flows : flow[e].sent \in Nat /\ Len(H[e]) \in Nat /\ flow[e].sent <= Len(H[e])
  BY HistFacts
<1>3. \A e \in Flows : \A q \in Nat : q < flow[e].sent => q + 1 \in 1..flow[e].sent /\ q + 1 \in 1..Len(H[e])
  BY <1>2
<1>4. \A i \in DOMAIN c.flows : flow[c.flows[i]].id = i
  BY DEF TablesInv, Agree, Entered
<1>5. ~flow[f].late => /\ Left(got, x) /\ (x # <<>> => ~Given(got, x) /\ ~Queued(c, f, x))
                       /\ p < flow[f].sent /\ x = Said(script, H[f][p + 1]) /\ NothingLeft(c, id, p)
  BY DEF Open, Left, AnswerOf
<1>6. /\ d.udp = c.udp /\ d.flows = c.flows /\ d.air = c.air /\ d.reasm = c.reasm
      /\ \/ d.answers = c.answers /\ d.wait = c.wait
         \/ Joining(c, d, f, x)
         \/ d.answers = c.answers /\ d.wait = [to |-> f, id |-> id, data |-> x]
  BY AnswerOutcome
<1> DEFINE j == p + 1
<1>7. ~flow[f].late => j \in 1..flow[f].sent /\ j \in 1..Len(H[f]) /\ x = Said(script, H[f][j])
  BY <1>1, <1>3, <1>5
<1> HIDE DEF j
<1>8. /\ AnswersOK(script, H, flow, d, got) /\ QueuedToo(c, d, f, x) /\ (d.wait.data = <<>> \/ (d.wait.to = f /\ d.wait.data = x))
  <2>1. CASE d.answers = c.answers /\ d.wait = c.wait
    <3>1. AnswersOK(script, H, flow, d, got)
      BY <2>1 DEF AnswersOK, Queued
    <3>2. d.wait.data = <<>>
      BY <2>1 DEF NoAnswer
    <3>3. QueuedToo(c, d, f, x)
      BY <2>1 DEF QueuedToo, Queued
    <3> QED BY <3>1, <3>2, <3>3
  <2>2. CASE Joining(c, d, f, x)
    <3>1. AnswersOK(script, H, flow, d, got) /\ QueuedToo(c, d, f, x)
      <4>1. Fits(script, H, flow, c, got, f, x)
        BY <1>5, <1>7 DEF Fits
      <4> QED BY <2>2, <4>1, <1>1, AnswerJoins
    <3>2. d.wait.data = <<>>
      <4>1. d.wait = NoAnswer
        BY <2>2 DEF Joining
      <4>2. NoAnswer.data = <<>>
        BY DEF NoAnswer
      <4> QED BY <4>1, <4>2
    <3> QED BY <3>1, <3>2
  <2>3. CASE d.answers = c.answers /\ d.wait = [to |-> f, id |-> id, data |-> x]
    <3>1. d.wait.to = f /\ d.wait.data = x
      BY <2>3
    <3>2. Queued(d, f, x) = Queued(c, f, x)
      BY <2>3 DEF Queued
    <3>3. AnswersOK(script, H, flow, d, got)
      BY <2>3, <3>1, <3>2, <1>5, <1>7 DEF AnswersOK
    <3> QED BY <2>3, <3>1, <3>3 DEF QueuedToo, Queued
  <2> QED BY <2>1, <2>2, <2>3, <1>6
<1>9. ASSUME NEW i \in DOMAIN c.flows, NEW q \in Nat, ~flow[c.flows[i]].late, q < flow[c.flows[i]].sent, i # id \/ q # p,
             NEW v, v = Said(script, H[c.flows[i]][q + 1]), Open(c, c.flows[i], got, v)
      PROVE  Open(d, c.flows[i], got, v)
  <2> DEFINE e == c.flows[i]
             k == q + 1
  <2>1. e \in Flows /\ k \in 1..Len(H[e]) /\ v = Said(script, H[e][k])
    BY <1>1, <1>3, <1>9
  <2> SUFFICES ASSUME v # <<>> PROVE ~Given(got, v) /\ (d.wait.to = e => d.wait.data # v) /\ ~Queued(d, e, v)
    BY DEF Open
  <2>2. ~Given(got, v) /\ ~Queued(c, e, v)
    BY <1>9 DEF Open
  <2>3. e = f => v # x
    <3> SUFFICES ASSUME e = f, v = x PROVE FALSE
      OBVIOUS
    <3>a. ~flow[f].late
      BY <1>9
    <3> HIDE DEF e, k
    <3>1. Said(script, H[f][j]) = Said(script, H[e][k]) /\ Said(script, H[f][j]) # <<>>
      BY <3>a, <1>7, <2>1
    <3>2. f = e /\ j = k
      BY <3>a, <1>1, <1>7, <2>1, <3>1, Distinct
    <3>3. i = id
      BY <1>4, <3>2 DEF e
    <3>4. p = q
      BY <3>2 DEF j, k
    <3> QED BY <1>9, <3>3, <3>4
  <2> QED BY <2>1, <2>2, <2>3, <1>8 DEF QueuedToo
<1>10. PacketsOK(script, H, flow, d, got)
  <2> SUFFICES ASSUME d.udp = "running", NEW i \in DOMAIN d.flows, ~flow[d.flows[i]].late
             PROVE  /\ \A dg \in d.air : dg.assoc = i => InAir(script, H, flow, d, got, d.flows[i], dg)
                    /\ \A q \in Nat : <<i, q>> \in DOMAIN d.reasm =>
                         InPart(script, H, flow, d, got, d.flows[i], q, d.reasm[<<i, q>>])
    BY DEF PacketsOK
  <2> DEFINE e == c.flows[i]
  <2>1. i \in DOMAIN c.flows /\ d.flows[i] = e /\ ~flow[e].late /\ (i = id => NothingLeft(c, id, p)) /\ d.air = c.air /\ d.reasm = c.reasm
    BY <1>5, <1>6
  <2>2. /\ \A dg \in c.air : dg.assoc = i => InAir(script, H, flow, c, got, e, dg)
        /\ \A q \in Nat : <<i, q>> \in DOMAIN c.reasm => InPart(script, H, flow, c, got, e, q, c.reasm[<<i, q>>])
    BY <1>6, <2>1 DEF PacketsOK
  <2>3. ASSUME NEW dg \in c.air, dg.assoc = i PROVE InAir(script, H, flow, d, got, e, dg)
    <3>1. InAir(script, H, flow, c, got, e, dg) /\ dg.pkt \in Nat
      BY <1>1, <2>2, <2>3 DEF Datagram
    <3>2. i # id \/ dg.pkt # p
      BY <2>1, <2>3 DEF NothingLeft
    <3>3. dg.pkt < flow[e].sent /\ Open(c, e, got, Said(script, H[e][dg.pkt + 1]))
      BY <3>1 DEF InAir
    <3>4. Open(d, e, got, Said(script, H[e][dg.pkt + 1]))
      BY <1>9, <2>1, <3>1, <3>2, <3>3
    <3> HIDE DEF e
    <3> QED BY <2>1, <3>1, <3>4 DEF InAir
  <2>4. ASSUME NEW q \in Nat, <<i, q>> \in DOMAIN c.reasm PROVE InPart(script, H, flow, d, got, e, q, c.reasm[<<i, q>>])
    <3>1. InPart(script, H, flow, c, got, e, q, c.reasm[<<i, q>>])
      BY <2>2, <2>4
    <3>2. i # id \/ q # p
      BY <2>1, <2>4 DEF NothingLeft
    <3>3. q < flow[e].sent /\ Open(c, e, got, Said(script, H[e][q + 1]))
      BY <3>1 DEF InPart
    <3>4. Open(d, e, got, Said(script, H[e][q + 1]))
      BY <1>9, <2>1, <3>1, <3>2, <3>3
    <3> HIDE DEF e
    <3> QED BY <3>1, <3>4 DEF InPart
  <2> QED BY <2>1, <2>3, <2>4
<1> QED BY <1>8, <1>10

\* A datagram was read and its packet noted: what is under way of the others stays.
OthersStay(c, map, key) == \A k \in DOMAIN map : k # key => k \in DOMAIN c.reasm /\ map[k] = c.reasm[k]
PacketNoted(s, H, fl, c, g, dg) ==
    PacketKey(dg) \in DOMAIN c.reasm /\ dg.assoc \in DOMAIN c.flows /\ ~fl[c.flows[dg.assoc]].late =>
      /\ InPart(s, H, fl, c, g, c.flows[dg.assoc], dg.pkt, c.reasm[PacketKey(dg)])
      /\ \A o \in c.air : PacketKey(o) = PacketKey(dg) => o.frag \notin DOMAIN c.reasm[PacketKey(dg)].frags
LEMMA ReadKeeps ==
  ASSUME NEW s, NEW H, NEW fl, NEW c, NEW g, PacketsOK(s, H, fl, c, g), AnswersOK(s, H, fl, c, g),
         c.air \subseteq Datagram, NEW dg \in c.air, NEW d,
         d.udp = c.udp, d.flows = c.flows, d.answers = c.answers, d.wait = c.wait,
         d.air = c.air \ {dg}, OthersStay(c, d.reasm, PacketKey(dg)), PacketNoted(s, H, fl, d, g, dg)
  PROVE  PacketsOK(s, H, fl, d, g) /\ AnswersOK(s, H, fl, d, g)
<1>1. \A f, x : Queued(d, f, x) = Queued(c, f, x)
  BY DEF Queued
<1>2. \A f, x : Open(c, f, g, x) => Open(d, f, g, x)
  BY <1>1 DEF Open
<1>3. AnswersOK(s, H, fl, d, g)
  BY <1>1 DEF AnswersOK
<1>4. PacketsOK(s, H, fl, d, g)
  <2> SUFFICES ASSUME d.udp = "running", NEW i \in DOMAIN d.flows, ~fl[d.flows[i]].late
             PROVE  /\ \A o \in d.air : o.assoc = i => InAir(s, H, fl, d, g, d.flows[i], o)
                    /\ \A p \in Nat : <<i, p>> \in DOMAIN d.reasm =>
                         InPart(s, H, fl, d, g, d.flows[i], p, d.reasm[<<i, p>>])
    BY DEF PacketsOK
  <2> DEFINE f == c.flows[i]
             key == PacketKey(dg)
  <2>1. i \in DOMAIN c.flows /\ d.flows[i] = f
    OBVIOUS
  <2>2. /\ \A o \in c.air : o.assoc = i => InAir(s, H, fl, c, g, f, o)
        /\ \A p \in Nat : <<i, p>> \in DOMAIN c.reasm => InPart(s, H, fl, c, g, f, p, c.reasm[<<i, p>>])
    BY <2>1 DEF PacketsOK
  <2> HIDE DEF f
  <2>3. ASSUME NEW o \in d.air, o.assoc = i PROVE InAir(s, H, fl, d, g, f, o)
    <3>1. InAir(s, H, fl, c, g, f, o)
      BY <2>2, <2>3
    <3>2. ASSUME PacketKey(o) \in DOMAIN d.reasm PROVE o.frag \notin DOMAIN d.reasm[PacketKey(o)].frags
      <4>1. CASE PacketKey(o) = key
        <5>1. dg.assoc = i
          BY <2>3, <4>1 DEF PacketKey
        <5> QED BY <3>2, <4>1, <5>1 DEF PacketNoted
      <4>2. CASE PacketKey(o) # key
        <5>1. PacketKey(o) \in DOMAIN c.reasm /\ d.reasm[PacketKey(o)] = c.reasm[PacketKey(o)]
          BY <3>2, <4>2 DEF OthersStay
        <5> QED BY <3>1, <5>1 DEF InAir
      <4> QED BY <4>1, <4>2
    <3> QED BY <3>1, <3>2, <1>2 DEF InAir
  <2>4. ASSUME NEW p \in Nat, <<i, p>> \in DOMAIN d.reasm PROVE InPart(s, H, fl, d, g, f, p, d.reasm[<<i, p>>])
    <3>1. CASE <<i, p>> = key
      <4>1. dg.assoc = i /\ dg.pkt = p
        BY <3>1 DEF PacketKey
      <4> QED BY <2>1, <2>4, <3>1, <4>1 DEF PacketNoted
    <3>2. CASE <<i, p>> # key
      <4>1. <<i, p>> \in DOMAIN c.reasm /\ d.reasm[<<i, p>>] = c.reasm[<<i, p>>]
        BY <2>4, <3>2 DEF OthersStay
      <4>2. InPart(s, H, fl, c, g, f, p, d.reasm[<<i, p>>])
        BY <2>2, <4>1
      <4> QED BY <4>2, <1>2 DEF InPart
    <3> QED BY <3>1, <3>2
  <2> QED BY <2>1, <2>3, <2>4
<1> QED BY <1>3, <1>4

\* What was read: a datagram of an answer that is still open.  Another datagram
\* of that answer is another fragment, which was not read before.
LEMMA ReadFacts ==
  ASSUME TablesInv, NEW H, AnswersInv(H), kind \in Quic, quic.udp = "running",
         NEW dg \in quic.air, NEW id, id = dg.assoc, id \in DOMAIN quic.flows, NEW f, f = quic.flows[id], ~flow[f].late,
         NEW p, p = dg.pkt, NEW x, x = Said(script, H[f][p + 1])
  PROVE  /\ f \in Flows /\ p \in Nat /\ p < flow[f].sent /\ x \in Data /\ Open(quic, f, got, x)
         /\ IsFragment(x, dg.total, dg.frag, dg.data)
         /\ <<id, p>> \in DOMAIN quic.reasm => InPart(script, H, flow, quic, got, f, p, quic.reasm[<<id, p>>])
         /\ \A o \in quic.air : o # dg /\ PacketKey(o) = <<id, p>> =>
              /\ o.frag # dg.frag /\ o.frag \in 0..(FragTotal(x) - 1)
              /\ <<id, p>> \in DOMAIN quic.reasm => o.frag \notin DOMAIN quic.reasm[<<id, p>>].frags
<1>1. PacketsOK(script, H, flow, quic, got) /\ quic.air \subseteq Datagram /\ f \in Flows
  BY Parts DEF UnderWay, TablesInv, IsConn
<1>2. dg \in Datagram /\ p \in Nat
  BY <1>1 DEF Datagram
<1>3. /\ \A o \in quic.air : o.assoc = id => InAir(script, H, flow, quic, got, f, o)
      /\ \A q \in Nat : <<id, q>> \in DOMAIN quic.reasm => InPart(script, H, flow, quic, got, f, q, quic.reasm[<<id, q>>])
  BY <1>1 DEF PacketsOK
<1>4. InAir(script, H, flow, quic, got, f, dg)
  BY <1>3
<1>5. p < flow[f].sent /\ Open(quic, f, got, x) /\ IsFragment(x, dg.total, dg.frag, dg.data)
  BY <1>4 DEF InAir
<1>6. x \in Data
  <2>1. flow[f].sent \in Nat /\ Len(H[f]) \in Nat /\ flow[f].sent <= Len(H[f]) /\ script \in Seq(Inputs)
        /\ \A j \in 1..Len(H[f]) : H[f][j] \in 1..Len(script)
    BY <1>1, HistFacts
  <2>2. p + 1 \in 1..Len(H[f])
    BY <1>2, <1>5, <2>1
  <2> QED BY <2>1, <2>2, SaidIsData
<1>7. ASSUME NEW o \in quic.air, o # dg, PacketKey(o) = <<id, p>>
      PROVE  /\ o.frag # dg.frag /\ o.frag \in 0..(FragTotal(x) - 1)
             /\ <<id, p>> \in DOMAIN quic.reasm => o.frag \notin DOMAIN quic.reasm[<<id, p>>].frags
  <2>1. o.assoc = id /\ o.pkt = p /\ o \in Datagram
    BY <1>1, <1>7 DEF PacketKey
  <2>2. InAir(script, H, flow, quic, got, f, o)
    BY <1>3, <2>1
  <2>3. /\ IsFragment(x, o.total, o.frag, o.data)
        /\ <<id, p>> \in DOMAIN quic.reasm => o.frag \notin DOMAIN quic.reasm[<<id, p>>].frags
    BY <2>1, <2>2, <1>7 DEF InAir
  <2>4. o.frag # dg.frag
    <3> SUFFICES ASSUME o.frag = dg.frag PROVE FALSE
      OBVIOUS
    <3>1. dg.assoc = o.assoc /\ dg.pkt = o.pkt /\ dg.frag = o.frag
      BY <2>1
    <3>2. dg = o
      BY <3>1, <2>1, <1>2, <2>3, <1>5, SameFragment
    <3> QED BY <3>2, <1>7
  <2> QED BY <2>3, <2>4 DEF IsFragment
<1> QED BY <1>1, <1>2, <1>3, <1>5, <1>6, <1>7

\* The connection after a datagram was taken from it.
TakenFrom(c, d, dg, map) ==
    /\ IsConn(d) /\ d.udp = c.udp /\ d.flows = c.flows /\ d.answers = c.answers /\ d.wait = c.wait
    /\ d.air = c.air \ {dg} /\ d.reasm = map
IsFun(F) == F = [i \in DOMAIN F |-> F[i]]
LEMMA AddedIsFun ==
  ASSUME NEW B, IsFun(B), NEW dg
  PROVE  IsFun(Added(B, dg))
BY DEF IsFun, Added, With

KeptOf(map, all) == \A k \in DOMAIN map : k \in DOMAIN all /\ map[k] = all[k]
LEMMA FreshKeeps ==
  ASSUME NEW map, NEW age
  PROVE  KeptOf(Fresh(map, age), map)
BY DEF KeptOf, Fresh, Without

\* The packet of the datagram lacks a fragment yet.
LEMMA ReadOneMore ==
  ASSUME TablesInv, NEW H, AnswersInv(H), kind \in Quic, quic.udp = "running",
         NEW dg \in quic.air, dg.total > 1, NEW map, IsReasm(map),
         KeptOf(map, quic.reasm),
         NEW r, r = reassemble(map, dg), ~r.full,
         NEW c, TakenFrom(quic, c, dg, r.map)
  PROVE  PacketsOK(script, H, flow, c, got) /\ AnswersOK(script, H, flow, c, got)
<1> USE DEF KeptOf
<1> DEFINE id == dg.assoc
           p == dg.pkt
           key == PacketKey(dg)
           f == quic.flows[id]
           x == Said(script, H[f][p + 1])
<1>1. PacketsOK(script, H, flow, quic, got) /\ AnswersOK(script, H, flow, quic, got)
      /\ quic.air \subseteq Datagram /\ dg \in Datagram /\ key = <<id, p>>
  BY Parts DEF UnderWay, TablesInv, IsConn, PacketKey
<1>2. /\ \A k \in DOMAIN r.map : k # key => k \in DOMAIN map /\ r.map[k] = map[k]
      /\ \/ key \in DOMAIN map /\ r.map[key] = map[key] /\ map[key].total # dg.total
         \/ r.map[key].total = dg.total /\ \E F : Collected(map, dg, F) /\ r.map[key].frags = F
  BY <1>1, ReassembleCases
<1>3. OthersStay(quic, r.map, key)
  BY <1>2 DEF OthersStay
<1>4. ASSUME id \in DOMAIN quic.flows, ~flow[f].late
      PROVE  /\ InPart(script, H, flow, c, got, f, p, c.reasm[key])
             /\ \A o \in c.air : PacketKey(o) = key => o.frag \notin DOMAIN c.reasm[key].frags
  <2>1. /\ f \in Flows /\ p \in Nat /\ p < flow[f].sent /\ x \in Data /\ Open(quic, f, got, x)
        /\ IsFragment(x, dg.total, dg.frag, dg.data)
        /\ key \in DOMAIN quic.reasm => InPart(script, H, flow, quic, got, f, p, quic.reasm[key])
        /\ \A o \in quic.air : o # dg /\ PacketKey(o) = key =>
              /\ o.frag # dg.frag /\ o.frag \in 0..(FragTotal(x) - 1)
              /\ key \in DOMAIN quic.reasm => o.frag \notin DOMAIN quic.reasm[key].frags
    <3> HIDE DEF id, p, f, x, key
    <3>1. id = dg.assoc /\ p = dg.pkt /\ f = quic.flows[id] /\ x = Said(script, H[f][p + 1])
      BY DEF id, p, f, x
    <3>2. /\ f \in Flows /\ p \in Nat /\ p < flow[f].sent /\ x \in Data /\ Open(quic, f, got, x)
          /\ IsFragment(x, dg.total, dg.frag, dg.data)
          /\ <<id, p>> \in DOMAIN quic.reasm => InPart(script, H, flow, quic, got, f, p, quic.reasm[<<id, p>>])
          /\ \A o \in quic.air : o # dg /\ PacketKey(o) = <<id, p>> =>
                /\ o.frag # dg.frag /\ o.frag \in 0..(FragTotal(x) - 1)
                /\ <<id, p>> \in DOMAIN quic.reasm => o.frag \notin DOMAIN quic.reasm[<<id, p>>].frags
      BY <3>1, <1>4, ReadFacts
    <3> QED BY <3>2, <1>1
  <2>2. dg.total = FragTotal(x)
    BY <2>1 DEF IsFragment
  <2>3. key \in DOMAIN map =>
          /\ map[key].total = dg.total
          /\ map[key].frags = [i \in DOMAIN map[key].frags |-> map[key].frags[i]]
          /\ \A i \in DOMAIN map[key].frags : IsFragment(x, dg.total, i, map[key].frags[i])
    <3> SUFFICES ASSUME key \in DOMAIN map
                 PROVE  /\ map[key].total = dg.total
                        /\ map[key].frags = [i \in DOMAIN map[key].frags |-> map[key].frags[i]]
                        /\ \A i \in DOMAIN map[key].frags : IsFragment(x, dg.total, i, map[key].frags[i])
      OBVIOUS
    <3>1. InPart(script, H, flow, quic, got, f, p, map[key])
      BY <2>1
    <3> HIDE DEF key, f, p
    <3> QED BY <3>1, <2>2 DEF InPart, x
  <2>4. PICK F : Collected(map, dg, F) /\ r.map[key].frags = F /\ r.map[key].total = dg.total
    BY <1>2, <2>3
  <2> HIDE DEF id, p, f, x
  <2>f. F = [i \in DOMAIN F |-> F[i]]
    <3>1. PICK B : F = Added(B, dg) /\ (B = NoFragment \/ (key \in DOMAIN map /\ B = map[key].frags))
      BY <2>4 DEF Collected
    <3>2. IsFun(B)
      BY <3>1, <2>3 DEF IsFun, NoFragment
    <3>3. IsFun(F)
      BY <3>1, <3>2, AddedIsFun
    <3> QED BY <3>3 DEF IsFun
  <2>5. /\ \A i \in DOMAIN F : IsFragment(x, dg.total, i, F[i])
        /\ \A i \in DOMAIN F : i = dg.frag \/ (key \in DOMAIN map /\ i \in DOMAIN map[key].frags)
    <3> HIDE DEF key
    <3>1. key = PacketKey(dg)
      BY DEF key
    <3>2. key \in DOMAIN map =>
            /\ map[key].frags = [i \in DOMAIN map[key].frags |-> map[key].frags[i]]
            /\ \A i \in DOMAIN map[key].frags : IsFragment(x, dg.total, i, map[key].frags[i])
      BY <2>3
    <3>3. IsFragment(x, dg.total, dg.frag, dg.data) /\ dg \in Datagram
      BY <1>1, <2>1
    <3> QED BY <2>4, <3>1, <3>2, <3>3, CollectedFragments
  <2> HIDE DEF key
  <2>6. c.reasm = r.map /\ c.air = quic.air \ {dg} /\ c.answers = quic.answers /\ c.wait = quic.wait
    BY DEF TakenFrom
  <2>7. Open(c, f, got, x)
    BY <2>1, <2>6 DEF Open, Queued
  <2>8. InPart(script, H, flow, c, got, f, p, c.reasm[key])
    BY <2>1, <2>2, <2>4, <2>f, <2>5, <2>6, <2>7 DEF InPart, x
  <2>9. ASSUME NEW o \in c.air, PacketKey(o) = key PROVE o.frag \notin DOMAIN c.reasm[key].frags
    <3>1. o \in quic.air /\ o # dg
      BY <2>6
    <3> QED BY <2>1, <2>4, <2>5, <2>6, <2>9, <3>1
  <2> QED BY <2>8, <2>9
<1>5. PacketNoted(script, H, flow, c, got, dg)
  BY <1>4 DEF PacketNoted, TakenFrom
<1> HIDE DEF key
<1>6. OthersStay(quic, c.reasm, PacketKey(dg))
  BY <1>3 DEF TakenFrom, key
<1> QED BY <1>1, <1>5, <1>6, ReadKeeps DEF TakenFrom

\* The answer is whole: nothing of it is under way any more.
WholeAnswer(H, c, dg, data) ==
    dg.assoc \in DOMAIN quic.flows /\ ~flow[quic.flows[dg.assoc]].late =>
      /\ data = Said(script, H[quic.flows[dg.assoc]][dg.pkt + 1])
      /\ NothingLeft(c, dg.assoc, dg.pkt)
LEMMA ReadLast ==
  ASSUME TablesInv, NEW H, AnswersInv(H), kind \in Quic, quic.udp = "running",
         NEW dg \in quic.air, dg.total > 1, NEW map, IsReasm(map),
         KeptOf(map, quic.reasm),
         NEW r, r = reassemble(map, dg), r.full,
         NEW c, TakenFrom(quic, c, dg, r.map)
  PROVE  /\ PacketsOK(script, H, flow, c, got) /\ AnswersOK(script, H, flow, c, got)
         /\ WholeAnswer(H, c, dg, r.data)
<1> USE DEF KeptOf
<1> DEFINE id == dg.assoc
           f == quic.flows[id]
           p == dg.pkt
           key == PacketKey(dg)
           x == Said(script, H[f][p + 1])
<1>1. PacketsOK(script, H, flow, quic, got) /\ AnswersOK(script, H, flow, quic, got)
      /\ quic.air \subseteq Datagram /\ dg \in Datagram /\ key = <<id, p>>
  BY Parts DEF UnderWay, TablesInv, IsConn, PacketKey
<1>2. /\ \A k \in DOMAIN r.map : k # key => k \in DOMAIN map /\ r.map[k] = map[k]
      /\ key \notin DOMAIN r.map
      /\ \E F : Collected(map, dg, F) /\ Cardinality(DOMAIN F) = dg.total /\ r.data = Joined(F)
  BY <1>1, ReassembleCases
<1>3. OthersStay(quic, c.reasm, PacketKey(dg)) /\ PacketNoted(script, H, flow, c, got, dg)
  BY <1>2 DEF OthersStay, PacketNoted, TakenFrom
<1>4. ASSUME id \in DOMAIN quic.flows, ~flow[f].late PROVE r.data = x /\ NothingLeft(c, id, p)
  <2> HIDE DEF id, f, p, x, key
  <2>1. /\ f \in Flows /\ p \in Nat /\ p < flow[f].sent /\ x \in Data /\ Open(quic, f, got, x)
        /\ IsFragment(x, dg.total, dg.frag, dg.data)
        /\ key \in DOMAIN quic.reasm => InPart(script, H, flow, quic, got, f, p, quic.reasm[key])
        /\ \A o \in quic.air : o # dg /\ PacketKey(o) = key =>
              /\ o.frag # dg.frag /\ o.frag \in 0..(FragTotal(x) - 1)
              /\ key \in DOMAIN quic.reasm => o.frag \notin DOMAIN quic.reasm[key].frags
    <3>1. id = dg.assoc /\ p = dg.pkt /\ f = quic.flows[id] /\ x = Said(script, H[f][p + 1])
      BY DEF id, p, f, x
    <3>2. /\ f \in Flows /\ p \in Nat /\ p < flow[f].sent /\ x \in Data /\ Open(quic, f, got, x)
          /\ IsFragment(x, dg.total, dg.frag, dg.data)
          /\ <<id, p>> \in DOMAIN quic.reasm => InPart(script, H, flow, quic, got, f, p, quic.reasm[<<id, p>>])
          /\ \A o \in quic.air : o # dg /\ PacketKey(o) = <<id, p>> =>
                /\ o.frag # dg.frag /\ o.frag \in 0..(FragTotal(x) - 1)
                /\ <<id, p>> \in DOMAIN quic.reasm => o.frag \notin DOMAIN quic.reasm[<<id, p>>].frags
      BY <3>1, <1>4, ReadFacts
    <3> QED BY <3>2, <1>1
  <2>2. dg.total = FragTotal(x)
    BY <2>1 DEF IsFragment
  <2>3. key \in DOMAIN map =>
          /\ map[key].frags = [i \in DOMAIN map[key].frags |-> map[key].frags[i]]
          /\ \A i \in DOMAIN map[key].frags : IsFragment(x, dg.total, i, map[key].frags[i])
    <3> SUFFICES ASSUME key \in DOMAIN map
                 PROVE  /\ map[key].frags = [i \in DOMAIN map[key].frags |-> map[key].frags[i]]
                        /\ \A i \in DOMAIN map[key].frags : IsFragment(x, dg.total, i, map[key].frags[i])
      OBVIOUS
    <3>1. InPart(script, H, flow, quic, got, f, p, map[key])
      BY <2>1
    <3> QED BY <3>1, <2>2 DEF InPart, x
  <2>4. PICK F : Collected(map, dg, F) /\ Cardinality(DOMAIN F) = dg.total /\ r.data = Joined(F)
    BY <1>2
  <2>5. /\ \A i \in DOMAIN F : IsFragment(x, dg.total, i, F[i])
        /\ \A i \in DOMAIN F : i = dg.frag \/ (key \in DOMAIN map /\ i \in DOMAIN map[key].frags)
    <3>1. key = PacketKey(dg)
      BY DEF key
    <3> QED BY <1>1, <2>1, <2>3, <2>4, <3>1, CollectedFragments
  <2>6. DOMAIN F = 0..(dg.total - 1) /\ Joined(F) = x
    BY <2>1, <2>2, <2>4, <2>5, AllFragments
  <2>7. c.reasm = r.map /\ c.air = quic.air \ {dg}
    BY DEF TakenFrom
  <2>8. ASSUME NEW o \in c.air, o.assoc = id, o.pkt = p PROVE FALSE
    <3>1. o \in quic.air /\ o # dg /\ PacketKey(o) = key
      BY <1>1, <2>7, <2>8 DEF PacketKey
    <3>2. /\ o.frag # dg.frag /\ o.frag \in DOMAIN F
          /\ key \in DOMAIN quic.reasm => o.frag \notin DOMAIN quic.reasm[key].frags
      BY <2>1, <2>2, <2>6, <3>1
    <3> QED BY <2>5, <3>2
  <2> QED BY <1>1, <1>2, <2>4, <2>6, <2>7, <2>8 DEF NothingLeft
<1>5. WholeAnswer(H, c, dg, r.data)
  BY <1>4 DEF WholeAnswer
<1> QED BY <1>1, <1>3, <1>5, ReadKeeps DEF TakenFrom

\* The answer came in one datagram.
LEMMA ReadOnly ==
  ASSUME TablesInv, NEW H, AnswersInv(H), kind \in Quic, quic.udp = "running",
         NEW dg \in quic.air, dg.total = 1, NEW c, TakenFrom(quic, c, dg, quic.reasm),
         NEW id, id = dg.assoc, NEW f, f = quic.flows[id], NEW p, p = dg.pkt
  PROVE  /\ PacketsOK(script, H, flow, c, got) /\ AnswersOK(script, H, flow, c, got)
         /\ id \in DOMAIN quic.flows /\ ~flow[f].late => dg.data = Said(script, H[f][p + 1]) /\ NothingLeft(c, id, p)
<1> DEFINE x == Said(script, H[f][p + 1])
<1>1. PacketsOK(script, H, flow, quic, got) /\ AnswersOK(script, H, flow, quic, got)
      /\ quic.air \subseteq Datagram /\ dg \in Datagram /\ PacketKey(dg) = <<id, p>>
  BY Parts DEF UnderWay, TablesInv, IsConn, PacketKey
<1>2. ASSUME id \in DOMAIN quic.flows, ~flow[f].late PROVE dg.data = x /\ NothingLeft(c, id, p)
  <2> HIDE DEF x
  <2>1. /\ p \in Nat /\ x \in Data /\ IsFragment(x, dg.total, dg.frag, dg.data)
        /\ <<id, p>> \in DOMAIN quic.reasm => InPart(script, H, flow, quic, got, f, p, quic.reasm[<<id, p>>])
        /\ \A o \in quic.air : o # dg /\ PacketKey(o) = <<id, p>> =>
              o.frag # dg.frag /\ o.frag \in 0..(FragTotal(x) - 1)
    <3>1. x = Said(script, H[f][p + 1])
      BY DEF x
    <3> QED BY <3>1, <1>2, ReadFacts
  <2>2. FragTotal(x) = 1 /\ dg.frag = 0 /\ dg.data = Chunk(x, 0)
    BY <2>1 DEF IsFragment
  <2>3. dg.data = x
    BY <2>1, <2>2, OneChunk
  <2>4. <<id, p>> \notin DOMAIN quic.reasm
    <3> SUFFICES ASSUME <<id, p>> \in DOMAIN quic.reasm PROVE FALSE
      OBVIOUS
    <3>1. FragTotal(x) > 1
      BY <2>1 DEF InPart, x
    <3> QED BY <2>2, <3>1
  <2>5. ASSUME NEW o \in c.air, o.assoc = id, o.pkt = p PROVE FALSE
    <3>1. o \in quic.air /\ o # dg /\ PacketKey(o) = <<id, p>>
      BY <2>5 DEF PacketKey, TakenFrom
    <3>2. o.frag # 0 /\ o.frag \in 0..(1 - 1)
      BY <2>1, <2>2, <3>1
    <3> QED BY <3>2
  <2> QED BY <2>3, <2>4, <2>5 DEF NothingLeft, TakenFrom
<1>3. OthersStay(quic, c.reasm, PacketKey(dg)) /\ PacketNoted(script, H, flow, c, got, dg)
  BY <1>1, <1>2 DEF OthersStay, PacketNoted, TakenFrom, NothingLeft
<1> QED BY <1>1, <1>2, <1>3, ReadKeeps DEF TakenFrom

\* One datagram is read: what it makes whole becomes an answer of its flow.
LEMMA DemuxReadsReplies ==
  ASSUME TablesInv, RepliesInv, DemuxReads
  PROVE  RepliesInv'
<1>1. PICK dg \in quic.air, age \in {0} \union {quic.reasm[k].created : k \in DOMAIN quic.reasm} :
        Shared(recv_loop(quic, dg, age))
  BY DEF DemuxReads
<1>2. UNCHANGED <<script, kind, assoc, flow, net, got, count>>
  BY <1>1 DEF Shared, DemuxReads
<1>3. IsConn(quic) /\ quic.udp = "running" /\ quic.wait = NoAnswer /\ kind \in Quic
  BY DEF TablesInv, DemuxReads, Agree
<1>4. PICK H \in [Flows -> Seq(Nat)] : AnswersInv(H)
  BY DEF RepliesInv
<1> DEFINE map == Fresh(quic.reasm, age)
           r == reassemble(map, dg)
           air == quic.air \ {dg}
           Read(m) == WithAir(quic, air, m)
           d == quic'
           id == dg.assoc
           p == dg.pkt
           f == quic.flows[id]
<1>5. /\ IsReasm(map) /\ IsReasm(r.map) /\ IsReasm(quic.reasm) /\ air \subseteq Datagram /\ dg \in Datagram
      /\ \/ ~decode_packet(dg) /\ d = Read(quic.reasm)
         \/ decode_packet(dg) /\ dg.total <= 1 /\ d = Answer(Read(quic.reasm), id, dg.data)
         \/ dg.total > 1 /\ r.full /\ d = Answer(Read(r.map), id, r.data)
         \/ dg.total > 1 /\ ~r.full /\ d = Read(r.map)
  <2>1. d = recv_loop(quic, dg, age)
    BY <1>1 DEF Shared
  <2>2. IsReasm(quic.reasm) /\ air \subseteq Datagram /\ dg \in Datagram
    BY <1>3 DEF IsConn
  <2>3. /\ IsReasm(map) /\ IsReasm(r.map)
        /\ \/ ~decode_packet(dg) /\ recv_loop(quic, dg, age) = Read(quic.reasm)
           \/ decode_packet(dg) /\ dg.total <= 1 /\ recv_loop(quic, dg, age) = Answer(Read(quic.reasm), id, dg.data)
           \/ dg.total > 1 /\ r.full /\ recv_loop(quic, dg, age) = Answer(Read(r.map), id, r.data)
           \/ dg.total > 1 /\ ~r.full /\ recv_loop(quic, dg, age) = Read(r.map)
    BY <1>3, RecvCases
  <2> HIDE DEF map, r, air, Read, d, id
  <2> QED BY <2>1, <2>2, <2>3
<1>6. KeptOf(map, quic.reasm)
  BY FreshKeeps
<1> HIDE DEF map, d
<1>7. r = reassemble(map, dg)
  OBVIOUS
<1> HIDE DEF r
<1>8. ASSUME NEW m, IsReasm(m), NEW c, c = Read(m) PROVE TakenFrom(quic, c, dg, m)
  <2>1. /\ IsConn(c) /\ c.udp = quic.udp /\ c.flows = quic.flows
        /\ c.answers = quic.answers /\ c.wait = quic.wait /\ c.air = air /\ c.reasm = m
    <3> HIDE DEF air
    <3>1. c = WithAir(quic, air, m)
      BY <1>8
    <3> QED BY <1>3, <1>5, <1>8, <3>1, AirIsConn
  <2> QED BY <2>1 DEF TakenFrom
<1> HIDE DEF Read, air
<1>9. ASSUME NEW c, NEW m, TakenFrom(quic, c, dg, m), NEW x, d = Answer(c, id, x),
             PacketsOK(script, H, flow, c, got), AnswersOK(script, H, flow, c, got),
             id \in DOMAIN quic.flows /\ ~flow[f].late => x = Said(script, H[f][p + 1]) /\ NothingLeft(c, id, p)
      PROVE  PacketsOK(script, H, flow, d, got) /\ AnswersOK(script, H, flow, d, got)
  <2>1. /\ IsConn(c) /\ c.udp = quic.udp /\ c.flows = quic.flows /\ c.answers = quic.answers /\ c.wait = NoAnswer
    BY <1>3, <1>9 DEF TakenFrom
  <2>2. CASE id \notin DOMAIN quic.flows
    <3>1. d = c
      BY <1>9, <2>1, <2>2 DEF Answer
    <3> QED BY <3>1, <1>9
  <2>3. CASE id \in DOMAIN quic.flows
    <3> HIDE DEF id, p, f
    <3>1. id = dg.assoc /\ p = dg.pkt /\ f = quic.flows[id] /\ p \in Nat
      BY <1>5 DEF id, p, f, Datagram
    <3>2. ASSUME ~flow[f].late
          PROVE  /\ x = Said(script, H[f][p + 1]) /\ NothingLeft(c, id, p)
                 /\ p < flow[f].sent /\ Open(c, f, got, x)
      <4>1. x = Said(script, H[f][p + 1]) /\ NothingLeft(c, id, p)
        BY <1>9, <2>3, <3>2
      <4>2. p < flow[f].sent /\ Open(quic, f, got, x)
        BY <1>3, <1>4, <2>3, <3>1, <3>2, <4>1, ReadFacts
      <4>3. Open(c, f, got, x)
        BY <4>2, <2>1, <1>3 DEF Open, Queued
      <4> QED BY <4>1, <4>2, <4>3
    <3>3. AnswerOf(H, c, id, p, x)
      BY <3>1, <3>2, <2>1 DEF AnswerOf
    <3> QED BY <1>3, <1>4, <1>9, <2>1, <2>3, <3>1, <3>3, AnswerReplies
  <2> QED BY <2>2, <2>3
<1>10. CASE ~decode_packet(dg) /\ d = Read(quic.reasm)
  <2>1. TakenFrom(quic, d, dg, quic.reasm)
    BY <1>5, <1>8, <1>10
  <2>2. Lost(flow', quic, d)
    BY <2>1, <1>3 DEF TakenFrom, Lost
  <2>3. \A e \in Flows : Quiet(flow[e], flow'[e])
    BY <1>2 DEF Quiet
  <2>4. AtWork(assoc') => AtWork(assoc) /\ assoc'.msg = assoc.msg
    BY <1>2
  <2> QED BY <1>2, <2>2, <2>3, <2>4, QuietReplies DEF d
<1>11. CASE decode_packet(dg) /\ dg.total <= 1 /\ d = Answer(Read(quic.reasm), id, dg.data)
  <2> DEFINE c == Read(quic.reasm)
  <2>1. TakenFrom(quic, c, dg, quic.reasm)
    BY <1>5, <1>8
  <2>2. dg.total = 1
    BY <1>5, <1>11 DEF decode_packet, Datagram
  <2> HIDE DEF c, id, p, f
  <2>3. id = dg.assoc /\ p = dg.pkt /\ f = quic.flows[id]
    BY DEF id, p, f
  <2>4. /\ PacketsOK(script, H, flow, c, got) /\ AnswersOK(script, H, flow, c, got)
        /\ id \in DOMAIN quic.flows /\ ~flow[f].late => dg.data = Said(script, H[f][p + 1]) /\ NothingLeft(c, id, p)
    BY <1>3, <1>4, <2>1, <2>2, <2>3, ReadOnly
  <2>5. PacketsOK(script, H, flow, d, got) /\ AnswersOK(script, H, flow, d, got)
    BY <1>9, <1>11, <2>1, <2>4 DEF c
  <2>6. PacketsOK(script, H, flow, quic', got') /\ AnswersOK(script, H, flow, quic', got')
    BY <1>2, <2>5 DEF d
  <2> QED BY <1>2, <1>3, <1>4, <2>6, Parts, QuicStep
<1>12. CASE dg.total > 1 /\ r.full /\ d = Answer(Read(r.map), id, r.data)
  <2> DEFINE c == Read(r.map)
  <2>1. TakenFrom(quic, c, dg, r.map)
    BY <1>5, <1>8
  <2> HIDE DEF c
  <2>3. /\ PacketsOK(script, H, flow, c, got) /\ AnswersOK(script, H, flow, c, got)
        /\ WholeAnswer(H, c, dg, r.data)
    <3>1. dg.total > 1 /\ IsReasm(map) /\ r.full
      BY <1>5, <1>12
    <3>2. kind \in Quic /\ quic.udp = "running" /\ AnswersInv(H)
      BY <1>3, <1>4
    <3> QED BY <3>1, <3>2, <1>6, <1>7, <2>1, ReadLast
  <2>4. id \in DOMAIN quic.flows /\ ~flow[f].late => r.data = Said(script, H[f][p + 1]) /\ NothingLeft(c, id, p)
    BY <2>3 DEF WholeAnswer
  <2>5. PacketsOK(script, H, flow, d, got) /\ AnswersOK(script, H, flow, d, got)
    BY <1>9, <1>12, <2>1, <2>3, <2>4 DEF c
  <2>6. PacketsOK(script, H, flow, quic', got') /\ AnswersOK(script, H, flow, quic', got')
    BY <1>2, <2>5 DEF d
  <2> QED BY <1>2, <1>3, <1>4, <2>6, Parts, QuicStep
<1>13. CASE dg.total > 1 /\ ~r.full /\ d = Read(r.map)
  <2>1. TakenFrom(quic, d, dg, r.map)
    BY <1>5, <1>8, <1>13
  <2>2. PacketsOK(script, H, flow, d, got) /\ AnswersOK(script, H, flow, d, got)
    BY <1>3, <1>4, <1>5, <1>6, <1>7, <1>13, <2>1, ReadOneMore
  <2>3. PacketsOK(script, H, flow, quic', got') /\ AnswersOK(script, H, flow, quic', got')
    BY <1>2, <2>2 DEF d
  <2> QED BY <1>2, <1>3, <1>4, <2>3, Parts, QuicStep
<1> QED BY <1>5, <1>10, <1>11, <1>12, <1>13

LEMMA RepliesInvNext ==
  ASSUME TablesInv, RepliesInv, [Next]_vars
  PROVE  RepliesInv'
<1>1. CASE DatagramArrives
  BY <1>1, DatagramArrivesReplies
<1>2. CASE ControlCloses \/ AssociationEnds \/ RouteConnects
  BY <1>2, LoopReplies
<1>3. CASE RouteBlocks \/ ConnectFails
  BY <1>3, LoopReplies DEF RouteBlocks, ConnectFails
<1>4. CASE SessionOpens
  BY <1>4, SessionOpensReplies
<1>5. CASE FlowRegisters
  BY <1>5, FlowRegistersReplies
<1>6. CASE \/ ManagerAsksForTunnel \/ TunnelFails \/ ManagerStarts \/ TunnelStarts \/ ConnectionBreaks
           \/ DialAsksForTunnel \/ DialTunnelFails \/ connect_tcp
  BY <1>6, TunnelReplies
<1>7. ASSUME NEW f \in Flows, TaskStep(f) \/ TaskSent(f) \/ SocketReceives(f) \/ StreamReads(f) \/ SessionBreaks(f)
      PROVE  RepliesInv'
  BY <1>7, TaskSendsReplies, TaskSentReplies, QueueReceivesReplies, ClosesReplies, CloseReplies, SocketReceivesReplies,
     StreamReadsReplies DEF TaskStep
<1>8. CASE DemuxReads
  BY <1>8, DemuxReadsReplies
<1>9. CASE DemuxHandsOver
  BY <1>9, DemuxHandsOverReplies
<1>10. CASE DemuxEnds
  BY <1>10, DemuxEndsReplies
<1>11. CASE ServerRestarts
  BY <1>11, ServerRestartsReplies
<1>12. CASE UNCHANGED vars
  BY <1>12 DEF RepliesInv, AnswersInv, vars
<1> QED
  BY <1>1, <1>2, <1>3, <1>4, <1>5, <1>6, <1>7, <1>8, <1>9, <1>10, <1>11, <1>12
  DEF Next, AssociationStep

\* There is always a history of the flows that accounts for every answer: what
\* was given, what is queued, and what is in the air, in a stream or put together.
THEOREM RepliesInvHolds ==
  Spec => []RepliesInv
<1>1. Init => RepliesInv
  BY RepliesInvInit
<1>2. TablesInv /\ RepliesInv /\ [Next]_vars => RepliesInv'
  BY RepliesInvNext
<1> QED BY <1>1, <1>2, TablesInvHolds, PTL DEF Spec

\* What the client gets under an address is a whole answer of that address, and
\* it gets it once where the outbound or its transport sorts out duplicates:
\* recv of every session, the replay window, the fragments of TUIC and Hysteria2,
\* the framing of Trojan and VLESS, whatever flows were replaced meanwhile.
\* Not promised are the flows Undisturbed leaves out (a read of the stream that
\* was dropped half way, an id given again too early) and, for once, an outbound
\* without a replay window and a server that began a new session.
THEOREM RepliesStaySound ==
  Spec => []RepliesAreSound
<1>1. RepliesInv => RepliesAreSound
  BY RepliesInvImplies
<1> QED BY <1>1, RepliesInvHolds, PTL
=============================================================================

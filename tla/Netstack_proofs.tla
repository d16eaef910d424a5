-------------------------- MODULE Netstack_proofs --------------------------
(***************************************************************************)
(* Proofs about Netstack for every number of flows, slots and tasks, and   *)
(* for packet queues of every length.                                      *)
(*                                                                         *)
(* What iface.poll computes is a fold over the packets and one over the    *)
(* slots.  The first lemmas give an induction over finite sets that the    *)
(* provers can use, since it speaks of a set of good arguments and not of  *)
(* a predicate, and with it what a fold keeps true.                        *)
(***************************************************************************)
EXTENDS Netstack, FiniteSetTheorems, SequenceTheorems, TLAPS

\* Induction over a finite set: a family of sets that contains the empty set and
\* with a set less one of its elements also the set, contains every finite set.
LEMMA SetInduction ==
  ASSUME NEW S, IsFiniteSet(S), NEW Good, {} \in Good,
         \A T \in SUBSET S : T # {} => \E x \in T : T \ {x} \in Good => T \in Good
  PROVE  S \in Good
<1> SUFFICES ASSUME S \notin Good PROVE FALSE
  OBVIOUS
<1>1. IsWellFoundedOn(StrictSubsetOrdering(S), FiniteSubsetsOf(S))
  BY FS_StrictSubsetOrderingWellFounded
<1> DEFINE Bad == {T \in FiniteSubsetsOf(S) : T \notin Good}
<1>2. S \in Bad
  BY DEF FiniteSubsetsOf
<1>3. PICK T \in Bad : \A U \in Bad : ~ (<<U, T>> \in StrictSubsetOrdering(S))
  <2>1. Bad \subseteq FiniteSubsetsOf(S) /\ Bad # {}
    BY <1>2
  <2> HIDE DEF Bad
  <2> QED BY <1>1, <2>1, WFMin
<1>4. T \in SUBSET S /\ IsFiniteSet(T) /\ T # {}
  <2>1. T \in FiniteSubsetsOf(S) /\ T \notin Good
    BY <1>3
  <2>2. T # {}
    BY <2>1
  <2> QED BY <2>1, <2>2 DEF FiniteSubsetsOf
<1>5. PICK x \in T : T \ {x} \in Good => T \in Good
  BY <1>4
<1>6. T \ {x} \in FiniteSubsetsOf(S)
  BY <1>4, FS_RemoveElement DEF FiniteSubsetsOf
<1>7. <<T \ {x}, T>> \in StrictSubsetOrdering(S)
  BY <1>4, <1>5 DEF StrictSubsetOrdering
<1> QED BY <1>3, <1>5, <1>6, <1>7

\* A set of naturals has a least element.
LEMMA LeastNatural ==
  ASSUME NEW A \in SUBSET Nat, A # {}
  PROVE  \E m \in A : \A k \in A : m <= k
<1>1. PICK m \in A : \A k \in A : <<k, m>> \notin OpToRel(<, Nat)
  BY WFMin, NatLessThanWellFounded, Zenon
<1>2. \A k \in A : ~(k < m)
  BY <1>1, Zenon DEF OpToRel
<1>3. ASSUME NEW k \in A PROVE m <= k
  <2>1. k \in Nat /\ m \in Nat
    BY <1>1
  <2>2. ~(k < m)
    BY <1>2
  <2> QED BY <2>1, <2>2
<1> QED BY <1>1, <1>3

\* A fold over S: from base, one step for the element that ch takes from the set.
Foldable(S, P, base, ch, step) ==
    /\ IsFiniteSet(S) /\ base \in P
    /\ \A T \in SUBSET S : T # {} => ch[T] \in T
    /\ step \in [S -> [P -> P]]
IsFold(g, S, P, base, ch, step) ==
    /\ g \in [SUBSET S -> P]
    /\ g[{}] = base
    /\ \A T \in SUBSET S : T # {} => g[T] = step[ch[T]][g[T \ {ch[T]}]]

\* The function a fold defines by recursion over the subsets of S exists.
LEMMA FoldExists ==
  ASSUME NEW S, NEW P, NEW base, NEW ch, NEW step, Foldable(S, P, base, ch, step)
  PROVE  \E g : IsFold(g, S, P, base, ch, step)
<1> USE DEF Foldable
<1> DEFINE Sub(n) == {T \in SUBSET S : Cardinality(T) <= n}
           Is(g, D) == /\ g \in [D -> P]
                       /\ \A T \in D : g[T] = IF T = {} THEN base ELSE step[ch[T]][g[T \ {ch[T]}]]
           Good == {m \in Nat : \E g : Is(g, Sub(m))}
<1>1. ASSUME NEW T \in SUBSET S
      PROVE  /\ IsFiniteSet(T) /\ Cardinality(T) \in Nat /\ Cardinality(T) <= Cardinality(S)
             /\ Cardinality(T) = 0 <=> T = {}
  BY FS_Subset, FS_CardinalityType, FS_EmptySet
<1>2. 0 \in Good
  <2>1. Sub(0) = {{}}
    BY <1>1, FS_EmptySet
  <2>2. Is([T \in {{}} |-> base], {{}})
    OBVIOUS
  <2> QED BY <2>1, <2>2, <1>1
<1>3. ASSUME NEW m \in Nat, m \in Good PROVE m + 1 \in Good
  <2>1. PICK g : Is(g, Sub(m))
    BY <1>3
  <2> DEFINE h == [T \in Sub(m + 1) |-> IF T \in Sub(m) THEN g[T] ELSE step[ch[T]][g[T \ {ch[T]}]]]
  <2>2. ASSUME NEW T \in Sub(m + 1), T # {} PROVE T \ {ch[T]} \in Sub(m) /\ ch[T] \in S
    BY <2>2, <1>1, FS_RemoveElement
  <2>3. {} \in Sub(m)
    BY <1>1
  <2>4. ASSUME NEW T \in Sub(m) PROVE T \in Sub(m + 1)
    BY <1>1
  <2>5. ASSUME NEW T \in Sub(m + 1) PROVE h[T] \in P
    <3>1. CASE T \in Sub(m)
      BY <2>1, <3>1
    <3>2. CASE T \notin Sub(m)
      <4>1. T # {} /\ h[T] = step[ch[T]][g[T \ {ch[T]}]]
        BY <2>3, <3>2
      <4> HIDE DEF h, Sub
      <4> QED BY <2>1, <2>2, <4>1
    <3> QED BY <3>1, <3>2
  <2>6. ASSUME NEW T \in Sub(m + 1)
        PROVE h[T] = IF T = {} THEN base ELSE step[ch[T]][h[T \ {ch[T]}]]
    BY <2>1, <2>2, <2>3, <2>4
  <2>7. h \in [Sub(m + 1) -> P]
    BY <2>5
  <2>8. Is(h, Sub(m + 1))
    <3> HIDE DEF h, Sub
    <3> QED BY <2>6, <2>7
  <2> HIDE DEF h, Is, Sub
  <2> QED BY <2>8
<1>4. Cardinality(S) \in Good
  <2> DEFINE Bad == Nat \ Good
  <2> SUFFICES ASSUME Bad # {} PROVE FALSE
    BY <1>1
  <2>1. PICK m \in Bad : \A k \in Bad : m <= k
    <3> HIDE DEF Good
    <3> QED BY LeastNatural
  <2> HIDE DEF Good
  <2>2. m # 0 /\ m - 1 \in Nat /\ m - 1 \notin Bad
    BY <2>1, <1>2
  <2> QED BY <2>1, <2>2, <1>3
<1>5. Sub(Cardinality(S)) = SUBSET S
  BY <1>1
<1>6. PICK g : Is(g, SUBSET S)
  BY <1>4, <1>5
<1> QED BY <1>6 DEF IsFold

\* The greatest of finitely many positions, which FoldLeft takes first.
LEMMA MaxIsElement ==
  ASSUME NEW n \in Nat, NEW T \in SUBSET (1 .. n), T # {}
  PROVE  Max(T) \in T
<1> DEFINE A == {n - k : k \in T}
<1>1. A \in SUBSET Nat
  OBVIOUS
<1>2. A # {}
  OBVIOUS
<1>3. PICK m \in A : \A k \in A : m <= k
  <2> HIDE DEF A
  <2> QED BY <1>1, <1>2, LeastNatural
<1>4. PICK x \in T : m = n - x
  BY <1>3
<1>5. ASSUME NEW y \in T PROVE x >= y
  <2>1. n - x <= n - y
    BY <1>3, <1>4
  <2>2. x \in Int /\ y \in Int
    OBVIOUS
  <2> QED BY <2>1, <2>2
<1> QED BY <1>4, <1>5 DEF Max

\* The least of a set of slots or tasks, which add and spawn take.
LEMMA MinIsElement ==
  ASSUME NEW T \in SUBSET Nat, T # {}
  PROVE  Min(T) \in T
<1>1. PICK x \in T : \A y \in T : x <= y
  BY LeastNatural
<1> QED BY <1>1 DEF Min

\* A set that contains the state before the packets are processed, and with a
\* state also the one after any packet of the device, contains the last one.
LEMMA ReceivedIn ==
  ASSUME rx \in Seq(Packet), NEW P, [socket |-> socket, app |-> app] \in P,
         \A i \in 1 .. Len(rx) : \A s \in P : Process(rx[i], s) \in P
  PROVE  Received(socket) \in P
<1> DEFINE S == DOMAIN rx
           b == [socket |-> socket, app |-> app]
           ch == [T \in SUBSET S |-> Max(T)]
           step == [i \in S |-> [s \in P |-> Process(rx[i], s)]]
           Def(g) == [T \in SUBSET S |->
                        IF T = {} THEN b ELSE LET x == Max(T) IN Process(rx[x], g[T \ {x}])]
           iter == CHOOSE g : g = Def(g)
<1>0. S = 1 .. Len(rx) /\ Len(rx) \in Nat /\ IsFiniteSet(S) /\ b \in P
  BY FS_Interval
<1>1. \A T \in SUBSET S : T # {} => ch[T] \in T
  BY <1>0, MaxIsElement
<1>2. step \in [S -> [P -> P]]
  BY <1>0
<1>a. Foldable(S, P, b, ch, step)
  <2> HIDE DEF S, ch, step, b
  <2> QED BY <1>0, <1>1, <1>2 DEF Foldable
<1>b. PICK g : IsFold(g, S, P, b, ch, step)
  <2> HIDE DEF S, ch, step, b
  <2> QED BY <1>a, FoldExists
<1>3. /\ g \in [SUBSET S -> P]
      /\ g[{}] = b
      /\ \A T \in SUBSET S : T # {} => g[T] = step[ch[T]][g[T \ {ch[T]}]]
  <2> HIDE DEF S, ch, step, b
  <2> QED BY <1>b DEF IsFold
<1>4. g = Def(g)
  <2>1. ASSUME NEW T \in SUBSET S PROVE g[T] = Def(g)[T]
    <3>1. CASE T # {}
      <4>1. T \ {Max(T)} \in SUBSET S /\ Max(T) \in S /\ g[T \ {Max(T)}] \in P
        BY <1>1, <1>3, <3>1
      <4> QED BY <3>1, <4>1, <1>3, <1>1
    <3> QED BY <3>1, <1>3
  <2> QED BY <2>1, <1>3
<1>5. iter = Def(iter)
  BY <1>4
<1>6. Received(socket) = iter[S]
  BY DEF Received, FoldLeft, MapThenFoldSet
<1> DEFINE Good == {T \in SUBSET S : iter[T] \in P}
<1>7. {} \in Good
  <2>1. iter[{}] = b
    BY <1>5
  <2> QED BY <2>1, <1>0
<1>8. ASSUME NEW T \in SUBSET S, T # {} PROVE \E x \in T : T \ {x} \in Good => T \in Good
  <2>1. Max(T) \in T
    BY <1>0, <1>8, MaxIsElement
  <2>2. iter[T] = Process(rx[Max(T)], iter[T \ {Max(T)}])
    BY <1>5, <1>8
  <2>3. Max(T) \in 1 .. Len(rx)
    BY <2>1, <1>0
  <2> HIDE DEF iter
  <2> QED BY <2>1, <2>2, <2>3
<1>9. S \in Good
  <2> HIDE DEF S, Good
  <2> QED BY <1>0, <1>7, <1>8, SetInduction
<1> QED BY <1>6, <1>9

\* The same for what the sockets send: Q[T] holds what is true when the sockets
\* of T have had their turn.
LEMMA PolledIn ==
  ASSUME NEW Q, Received(socket) \in Q[{}], NEW P,
         \A T \in SUBSET Slots : Q[T] \subseteq P,
         \A h \in Slots : \A s \in P : Dispatch(h, s) \in P,
         \A T \in SUBSET Slots : \A h \in T : \A s \in Q[T \ {h}] : Dispatch(h, s) \in Q[T]
  PROVE  poll(socket) \in Q[Slots]
<1> DEFINE S == Slots
           b == Received(socket)
           ch == [T \in SUBSET S |-> CHOOSE x \in T : TRUE]
           step == [h \in S |-> [s \in P |-> Dispatch(h, s)]]
           Def(g) == [T \in SUBSET S |->
                        IF T = {} THEN b
                        ELSE LET x == CHOOSE x \in T : TRUE IN Dispatch(x, g[T \ {x}])]
           iter == CHOOSE g : g = Def(g)
<1>0. IsFiniteSet(S) /\ b \in P
  BY NetstackAssumption
<1>1. \A T \in SUBSET S : T # {} => ch[T] \in T
  OBVIOUS
<1>2. step \in [S -> [P -> P]]
  OBVIOUS
<1>a. Foldable(S, P, b, ch, step)
  <2> HIDE DEF S, ch, step, b
  <2> QED BY <1>0, <1>1, <1>2 DEF Foldable
<1>b. PICK g : IsFold(g, S, P, b, ch, step)
  <2> HIDE DEF S, ch, step, b
  <2> QED BY <1>a, FoldExists
<1>3. /\ g \in [SUBSET S -> P]
      /\ g[{}] = b
      /\ \A T \in SUBSET S : T # {} => g[T] = step[ch[T]][g[T \ {ch[T]}]]
  <2> HIDE DEF S, ch, step, b
  <2> QED BY <1>b DEF IsFold
<1>4. g = Def(g)
  <2>1. ASSUME NEW T \in SUBSET S PROVE g[T] = Def(g)[T]
    <3>1. CASE T # {}
      <4>1. PICK x \in T : x = CHOOSE y \in T : TRUE
        BY <3>1
      <4>2. T \ {x} \in SUBSET S /\ x \in S /\ g[T \ {x}] \in P
        BY <1>3, <4>1
      <4> QED BY <3>1, <4>1, <4>2, <1>3
    <3> QED BY <3>1, <1>3
  <2> QED BY <2>1, <1>3
<1>5. iter = Def(iter)
  <2> HIDE DEF Def
  <2> QED BY <1>4
<1>6. poll(socket) = iter[S]
  BY DEF poll, FoldSet, MapThenFoldSet
<1> DEFINE Good == {T \in SUBSET S : iter[T] \in Q[T]}
<1>7. {} \in Good
  <2>1. iter[{}] = b
    BY <1>5
  <2> QED BY <2>1
<1>8. ASSUME NEW T \in SUBSET S, T # {} PROVE \E x \in T : T \ {x} \in Good => T \in Good
  <2>1. PICK x \in T : x = CHOOSE y \in T : TRUE
    BY <1>8
  <2>2. iter[T] = Dispatch(x, iter[T \ {x}])
    BY <1>5, <1>8, <2>1
  <2> HIDE DEF iter
  <2>3. ASSUME T \ {x} \in Good PROVE T \in Good
    <3>1. iter[T \ {x}] \in Q[T \ {x}] /\ T \in SUBSET Slots /\ x \in T
      BY <2>1, <2>3
    <3>2. Dispatch(x, iter[T \ {x}]) \in Q[T]
      BY <3>1
    <3> QED BY <2>2, <3>1, <3>2
  <2> QED BY <2>1, <2>3
<1>9. S \in Good
  <2> HIDE DEF S, Good
  <2> QED BY <1>0, <1>7, <1>8, SetInduction
<1> QED BY <1>6, <1>9

(***************************************************************************)
(* The moments of a poll.                                                  *)
(***************************************************************************)

\* What a poll leaves of a socket o when it has become n: its protocol, its
\* address, and its connection once that is past the handshake.
Follows(o, n) ==
    /\ n.proto = o.proto /\ n.dst = o.dst
    /\ n.rst => o.rst
    /\ o.st \notin {"listen", "synrcvd"} =>
         /\ n.st \notin {"listen", "synrcvd"}
         /\ n.peer = NoKey \/ (n.peer = o.peer /\ n.inc = o.inc)
SameLife(a, b) == b.inc = a.inc /\ b.dark = a.dark /\ b.served = a.served

Moment ==
    {s \in [socket : [Slots -> Sockets], app : [Keys -> Apps]] :
        /\ StackOK(s.socket, s.app) /\ NobodyHangs(s.socket, s.app)
        /\ \A h \in Slots : Follows(socket[h], s.socket[h])
        /\ \A k \in Keys : SameLife(app[k], s.app[k])}

\* The socket has had its turn.
Sent(s, h) == s.socket[h].tx = 0 /\ ~s.socket[h].rst /\ SynAckSent(s.socket[h], s.app)

\* The notation for no flow and for an unbound address is no flow and no address.
LEMMA KeyFacts == NoKey \notin Keys /\ "any" \notin {k.dst : k \in Keys}
BY NetstackAssumption DEF NoKey

\* One socket moves on and lets go of nobody.
LEMMA SocketMoves ==
  ASSUME NEW s \in Moment, NEW h \in Slots, NEW n \in Sockets,
         SocketOK(n), Linked(n, s.app), Follows(s.socket[h], n),
         \A k \in Keys : s.app[k].st = "open" /\ ~s.app[k].dark /\ Holds(s.socket[h], k, s.app[k])
                            => Holds(n, k, s.app[k])
  PROVE  [s EXCEPT !.socket[h] = n] \in Moment
<1> DEFINE z == [s EXCEPT !.socket[h] = n]
<1>1. z \in [socket : [Slots -> Sockets], app : [Keys -> Apps]]
  BY DEF Moment
<1>2. z.app = s.app /\ z.socket[h] = n /\ \A j \in Slots : j # h => z.socket[j] = s.socket[j]
  BY DEF Moment
<1> HIDE DEF z
<1>3. StackOK(z.socket, z.app)
  BY <1>2 DEF StackOK, Moment
<1>4. NobodyHangs(z.socket, z.app)
  <2> SUFFICES ASSUME NEW k \in Keys, z.app[k].st = "open", ~z.app[k].dark
               PROVE  \E j \in Slots : Holds(z.socket[j], k, z.app[k])
    BY DEF NobodyHangs
  <2>1. PICK j \in Slots : Holds(s.socket[j], k, s.app[k])
    BY <1>2 DEF Moment, NobodyHangs
  <2>2. Holds(z.socket[j], k, z.app[k])
    BY <1>2, <2>1
  <2> QED BY <2>2
<1>5. ASSUME NEW j \in Slots PROVE Follows(socket[j], z.socket[j])
  <2>1. Follows(socket[j], s.socket[j])
    BY DEF Moment
  <2> QED BY <1>2, <2>1 DEF Follows
<1>6. \A k \in Keys : SameLife(app[k], z.app[k])
  BY <1>2 DEF Moment
<1>7. z \in Moment
  BY <1>1, <1>3, <1>4, <1>5, <1>6 DEF Moment
<1> QED BY <1>7 DEF z

\* One application is told something: its reset, the end of the data it was
\* served, or the SYN-ACK of a socket that keeps its connection.
LEMMA AppMoves ==
  ASSUME rx \in Seq(Packet),
         NEW s \in Moment, NEW k \in Keys, NEW b \in Apps, SameLife(s.app[k], b),
         \/ b.st = s.app[k].st
         \/ b.st = "reset" /\ s.app[k].st # "idle"
         \/ b.st \in {"eof", "done"} /\ b.served /\ s.app[k].st \notin {"idle", "syn", "reset"}
         \/ /\ b.st = "open" /\ s.app[k].st = "syn" /\ ~b.dark
            /\ \E h \in Slots : Holds(s.socket[h], k, b)
  PROVE  [s EXCEPT !.app[k] = b] \in Moment
<1> DEFINE z == [s EXCEPT !.app[k] = b]
<1>1. z \in [socket : [Slots -> Sockets], app : [Keys -> Apps]]
  BY DEF Moment
<1>2. z.socket = s.socket /\ z.app[k] = b /\ \A j \in Keys : j # k => z.app[j] = s.app[j]
  BY DEF Moment
<1> HIDE DEF z
<1>3. StackOK(z.socket, z.app)
  <2>1. ASSUME NEW h \in Slots PROVE SocketOK(z.socket[h]) /\ Linked(z.socket[h], z.app)
    <3>1. SocketOK(s.socket[h]) /\ Linked(s.socket[h], s.app) /\ s.socket[h] \in Sockets
      BY DEF Moment, StackOK
    <3>2. CASE s.socket[h].peer = k
      BY <1>2, <3>1, <3>2 DEF Linked, SameLife
    <3>3. CASE s.socket[h].peer # k
      BY <1>2, <3>1, <3>3 DEF Linked, Sockets
    <3> QED BY <3>2, <3>3
  <2>2. ASSUME NEW i \in 1 .. Len(rx) PROVE PacketOK(rx[i], z.app)
    <3>1. PacketOK(rx[i], s.app) /\ rx[i] \in Packet
      BY DEF Moment, StackOK
    <3>2. CASE rx[i].key = k
      BY <1>2, <3>1, <3>2 DEF PacketOK, SameLife
    <3>3. CASE rx[i].key # k
      BY <1>2, <3>1, <3>3 DEF PacketOK, Packet
    <3> QED BY <3>2, <3>3
  <2>3. EofServed(z.app)
    BY <1>2 DEF EofServed, Moment, StackOK, SameLife
  <2> QED BY <2>1, <2>2, <2>3 DEF StackOK
<1>4. NobodyHangs(z.socket, z.app)
  <2> SUFFICES ASSUME NEW j \in Keys, z.app[j].st = "open", ~z.app[j].dark
               PROVE  \E h \in Slots : Holds(z.socket[h], j, z.app[j])
    BY DEF NobodyHangs
  <2> QED BY <1>2 DEF NobodyHangs, Moment, SameLife, Holds
<1>5. \A j \in Keys : SameLife(app[j], z.app[j])
  BY <1>2 DEF Moment, SameLife
<1>6. z \in Moment
  BY <1>1, <1>2, <1>3, <1>4, <1>5 DEF Moment
<1> QED BY <1>6 DEF z

\* What a TCP socket does with a packet it accepts.
LEMMA TcpTakes ==
  ASSUME NEW o \in Sockets, NEW p \in Packet, NEW ap \in [Keys -> Apps], o.proto = "tcp",
         SocketOK(o), Linked(o, ap), PacketOK(p, ap), Accepts(o, p)
  PROVE  /\ Takes(o, p) \in Sockets /\ SocketOK(Takes(o, p)) /\ Linked(Takes(o, p), ap)
         /\ Follows(o, Takes(o, p))
         /\ \A k \in Keys : ap[k].st = "open" /\ Holds(o, k, ap[k]) => Holds(Takes(o, p), k, ap[k])
<1> DEFINE n == Takes(o, p)
           a == ap[p.key]
           Result == /\ n \in Sockets /\ SocketOK(n) /\ Linked(n, ap)
                     /\ Follows(o, n)
                     /\ \A k \in Keys : ap[k].st = "open" /\ Holds(o, k, ap[k]) => Holds(n, k, ap[k])
<1> SUFFICES Result
  OBVIOUS
<1> HIDE DEF n
<1>1. /\ a \in Apps /\ p.key \in Keys /\ p.key # NoKey
      /\ p.inc \in Nat /\ p.inc <= a.inc /\ p.flag \in {"syn", "ack", "fin", "rst"}
  BY KeyFacts DEF PacketOK, Packet, Accepts
<1>2. CASE n = o
  BY <1>2 DEF Follows
<1>3. CASE o.st = "listen" /\ n = [o EXCEPT !.st = "synrcvd", !.peer = p.key, !.inc = p.inc, !.due = FALSE]
  <2>1. n \in Sockets
    BY <1>1, <1>3 DEF Sockets, States
  <2>2. SocketOK(n) /\ Linked(n, ap)
    BY <1>1, <1>3 DEF Sockets, SocketOK, Linked, Accepts, Free
  <2>3. Follows(o, n)
    BY <1>1, <1>3 DEF Sockets, Follows
  <2>4. \A k \in Keys : ~Holds(o, k, ap[k])
    BY <1>3, KeyFacts DEF SocketOK, Holds
  <2> QED BY <2>1, <2>2, <2>3, <2>4
<1>4. CASE /\ o.st \notin {"listen", "closed"} /\ o.peer = p.key /\ o.inc = p.inc
           /\ p.flag \in {"ack", "fin"}
           /\ \E st \in {"established", "closewait", "last"} :
                 n = [o EXCEPT !.st = st] /\ (st = "last" => o.st = "fin")
  <2>0. PICK st \in {"established", "closewait", "last"} :
           n = [o EXCEPT !.st = st] /\ (st = "last" => o.st = "fin")
    BY <1>4
  <2>1. n \in Sockets
    BY <2>0 DEF Sockets, States
  <2>2. SocketOK(n)
    BY <1>4, <2>0 DEF Sockets, SocketOK
  <2>3. Linked(n, ap)
    BY <1>1, <1>4, <2>0 DEF Sockets, Linked, PacketOK
  <2>4. Follows(o, n)
    BY <2>0 DEF Sockets, Follows
  <2>5. \A k \in Keys : Holds(o, k, ap[k]) => Holds(n, k, ap[k])
    BY <2>0 DEF Holds, Sockets
  <2> QED BY <2>1, <2>2, <2>3, <2>4, <2>5
<1>5. CASE /\ o.st \notin {"listen", "closed"} /\ o.peer = p.key /\ o.inc = p.inc
           /\ p.flag = "rst"
           /\ n = [o EXCEPT !.st = IF o.st = "synrcvd" THEN "listen" ELSE "closed", !.peer = NoKey]
  <2>1. n \in Sockets
    BY <1>5 DEF Sockets, States
  <2>2. SocketOK(n) /\ Linked(n, ap)
    BY <1>5 DEF Sockets, SocketOK, Linked
  <2>3. Follows(o, n)
    BY <1>5 DEF Sockets, Follows
  <2>4. \A k \in Keys : ap[k].st = "open" => ~Holds(o, k, ap[k])
    BY <1>1, <1>5 DEF PacketOK, Holds
  <2> QED BY <2>1, <2>2, <2>3, <2>4
<1>6. CASE o.st = "listen"
  <2>1. n = [o EXCEPT !.st = "synrcvd", !.peer = p.key, !.inc = p.inc, !.due = FALSE]
    BY <1>6 DEF Takes, n
  <2> QED BY <1>3, <1>6, <2>1
<1>7. CASE o.st # "listen" /\ (o.inc # p.inc \/ p.flag = "syn")
  <2>1. n = o
    BY <1>7 DEF Takes, n
  <2> QED BY <1>2, <2>1
<1>8. CASE o.st # "listen" /\ o.inc = p.inc /\ p.flag = "ack"
  <2>1. n = o \/ n = [o EXCEPT !.st = "established"]
    BY <1>8 DEF Takes, n
  <2> QED BY <1>2, <1>4, <1>8, <2>1 DEF Accepts
<1>9. CASE o.st # "listen" /\ o.inc = p.inc /\ p.flag = "fin"
  <2>1. \/ n = [o EXCEPT !.st = o.st]
        \/ n = [o EXCEPT !.st = "closewait"]
        \/ n = [o EXCEPT !.st = "last"] /\ o.st = "fin"
    BY <1>9 DEF Takes, n
  <2>2. [o EXCEPT !.st = o.st] = o
    BY DEF Sockets
  <2> QED BY <1>2, <1>4, <1>9, <2>1, <2>2 DEF Accepts
<1>10. CASE o.st # "listen" /\ o.inc = p.inc /\ p.flag = "rst"
  <2>1. n = [o EXCEPT !.st = IF o.st = "synrcvd" THEN "listen" ELSE "closed", !.peer = NoKey]
    BY <1>10 DEF Takes, n
  <2> QED BY <1>5, <1>10, <2>1 DEF Accepts
<1> QED BY <1>1, <1>6, <1>7, <1>8, <1>9, <1>10

\* What the socket that accepts a packet does with it.
LEMMA TakesKeeps ==
  ASSUME NEW s \in Moment, NEW h \in Slots, NEW p \in Packet,
         PacketOK(p, s.app), Accepts(s.socket[h], p)
  PROVE  [s EXCEPT !.socket[h] = Takes(@, p)] \in Moment
<1> DEFINE o == s.socket[h]
           n == Takes(o, p)
           a == s.app[p.key]
<1>1. /\ o \in Sockets /\ SocketOK(o) /\ Linked(o, s.app)
      /\ a \in Apps /\ p.key \in Keys /\ p.key # NoKey
      /\ p.inc \in Nat /\ p.inc <= a.inc /\ o.proto = p.key.proto
  BY KeyFacts DEF Moment, StackOK, PacketOK, Packet, Accepts
<1>2. CASE n = o
  BY <1>1, <1>2, SocketMoves DEF Follows
<1>3. CASE o.proto = "udp" /\ n = [o EXCEPT !.from = Append(@, p.key)] /\ Len(o.from) < Meta
  <2>1. o.dst = p.key.dst
    BY <1>1, <1>3, KeyFacts DEF Accepts, SocketOK
  <2>3. o.from \in Seq(Keys) /\ Meta \in Nat
    BY <1>1, NetstackAssumption DEF Sockets
  <2>2. n \in Sockets
    <3>1. Append(o.from, p.key) \in Seq(Keys)
      BY <1>1, <2>3
    <3> QED BY <1>1, <1>3, <3>1 DEF Sockets
  <2>4. SocketOK(n)
    <3>1. n.st = "listen" /\ n.peer = NoKey /\ n.dst = o.dst /\ n.proto = o.proto /\ n.rst = o.rst
          /\ n.from = Append(o.from, p.key)
      BY <1>1, <1>3 DEF SocketOK, Sockets
    <3>2. Len(n.from) <= Meta
      BY <1>3, <2>3, <3>1
    <3>3. \A i \in 1 .. Len(n.from) : n.from[i].dst = n.dst
      <4>1. \A i \in 1 .. Len(o.from) : o.from[i].dst = o.dst
        BY <1>1, <1>3 DEF SocketOK
      <4> QED BY <4>1, <2>1, <2>3, <3>1
    <3> QED BY <1>1, <1>3, <3>1, <3>2, <3>3 DEF SocketOK
  <2>5. Linked(n, s.app) /\ Follows(o, n)
    BY <1>1, <1>3 DEF Linked, SocketOK, Sockets, Follows
  <2>6. \A k \in Keys : ~Holds(o, k, s.app[k])
    BY <1>1, <1>3, KeyFacts DEF Holds, SocketOK
  <2> HIDE DEF n
  <2>7. [s EXCEPT !.socket[h] = n] \in Moment
    BY <2>2, <2>4, <2>5, <2>6, SocketMoves
  <2> QED BY <2>7 DEF n
<1>4. CASE o.proto = "tcp"
  <2>1. /\ n \in Sockets /\ SocketOK(n) /\ Linked(n, s.app) /\ Follows(o, n)
        /\ \A k \in Keys : s.app[k].st = "open" /\ Holds(o, k, s.app[k]) => Holds(n, k, s.app[k])
    <3> HIDE DEF o
    <3> QED BY <1>1, <1>4, TcpTakes DEF Moment, o
  <2> HIDE DEF n
  <2>2. [s EXCEPT !.socket[h] = n] \in Moment
    BY <2>1, SocketMoves
  <2> QED BY <2>2 DEF n
<1> QED BY <1>1, <1>2, <1>3, <1>4, NetstackAssumption DEF Takes

\* A packet of the device is processed.
LEMMA ProcessKeeps ==
  ASSUME rx \in Seq(Packet), NEW i \in 1 .. Len(rx), NEW s \in Moment
  PROVE  Process(rx[i], s) \in Moment
<1> DEFINE p == rx[i]
           acc == {h \in Slots : Accepts(s.socket[h], p)}
<1>1. p \in Packet /\ PacketOK(p, s.app) /\ p.key \in Keys /\ s.app[p.key] \in Apps
  <2>1. p \in Packet
    OBVIOUS
  <2>2. p.key \in Keys
    BY <2>1 DEF Packet
  <2>3. PacketOK(p, s.app)
    BY DEF Moment, StackOK
  <2>4. s.app[p.key] \in Apps
    BY <2>2 DEF Moment
  <2> QED BY <2>1, <2>2, <2>3, <2>4
<1>2. CASE acc # {}
  <2>1. acc \in SUBSET Nat
    BY NetstackAssumption
  <2>2. Min(acc) \in acc
    <3> HIDE DEF acc
    <3> QED BY <1>2, <2>1, MinIsElement
  <2>3. Process(p, s) = [s EXCEPT !.socket[Min(acc)] = Takes(@, p)]
    BY <1>2 DEF Process
  <2>4. Min(acc) \in Slots /\ Accepts(s.socket[Min(acc)], p)
    BY <2>2
  <2> HIDE DEF acc, p
  <2> QED BY <1>1, <2>3, <2>4, TakesKeeps DEF p
<1>3. CASE acc = {} /\ p.key.proto = "tcp"
  <2> DEFINE b == GetsReset(s.app[p.key], p.inc)
  <2>1. Process(p, s) = [s EXCEPT !.app[p.key] = b]
    BY <1>3 DEF Process
  <2>2. b \in Apps /\ SameLife(s.app[p.key], b)
    BY <1>1 DEF GetsReset, Apps, SameLife
  <2>3. b.st = s.app[p.key].st \/ (b.st = "reset" /\ s.app[p.key].st # "idle")
    BY <1>1 DEF GetsReset, Apps
  <2> HIDE DEF b, acc, p
  <2> QED BY <1>1, <2>1, <2>2, <2>3, AppMoves DEF p
<1>4. CASE acc = {} /\ p.key.proto # "tcp"
  BY <1>4 DEF Process
<1> QED BY <1>2, <1>3, <1>4

\* A socket sends what it has to send.
LEMMA DispatchKeeps ==
  ASSUME rx \in Seq(Packet), NEW h \in Slots, NEW s \in Moment
  PROVE  Dispatch(h, s) \in Moment
<1> DEFINE t == s.socket[h]
           k == t.peer
           a == s.app[k]
<1>1. t \in Sockets /\ SocketOK(t) /\ Linked(t, s.app)
  BY DEF Moment, StackOK
<1>2. CASE t.proto = "udp"
  <2> DEFINE n == [t EXCEPT !.tx = 0]
  <2>0. n \in Sockets
    <3>1. 0 \in 0 .. Meta
      BY NetstackAssumption
    <3> QED BY <1>1, <3>1 DEF Sockets
  <2>1. SocketOK(n) /\ Linked(n, s.app) /\ Follows(t, n)
    BY <1>1, <1>2 DEF Sockets, SocketOK, Linked, Follows
  <2>2. \A j \in Keys : Holds(t, j, s.app[j]) => Holds(n, j, s.app[j])
    BY <1>1 DEF Holds, Sockets
  <2>3. Dispatch(h, s) = [s EXCEPT !.socket[h] = n]
    BY <1>2 DEF Dispatch, Moment
  <2> HIDE DEF n
  <2> QED BY <2>0, <2>1, <2>2, <2>3, SocketMoves
<1>3. CASE t.proto = "tcp" /\ k # NoKey
  <2>1. k \in Keys /\ a \in Apps
    BY <1>1, <1>3 DEF Sockets, Moment
  <2>2. CASE t.rst
    <3> DEFINE b == GetsReset(a, t.inc)
               z == [s EXCEPT !.app[k] = b]
               n == [t EXCEPT !.rst = FALSE, !.peer = NoKey]
    <3>1. b \in Apps /\ SameLife(a, b) /\ (b.st = a.st \/ (b.st = "reset" /\ a.st # "idle"))
      BY <2>1 DEF GetsReset, Apps, SameLife
    <3>2. z \in Moment
      BY <2>1, <3>1, AppMoves
    <3>3. z.socket[h] = t /\ z.app[k] = b /\ (b.inc = t.inc /\ ~b.dark => b.st # "open")
      BY <2>1 DEF Moment, GetsReset, Hears, Apps
    <3>4. n \in Sockets /\ SocketOK(n) /\ Linked(n, z.app) /\ Follows(t, n)
      BY <1>1, <1>3, <2>2 DEF Sockets, SocketOK, Linked, Follows
    <3>5. \A j \in Keys : ~(z.app[j].st = "open" /\ ~z.app[j].dark /\ Holds(t, j, z.app[j]))
      BY <3>3 DEF Holds
    <3>6. Dispatch(h, s) = [z EXCEPT !.socket[h] = n]
      BY <1>3, <2>1, <2>2 DEF Dispatch, Moment
    <3> HIDE DEF z, n
    <3> QED BY <3>2, <3>3, <3>4, <3>5, <3>6, SocketMoves
  <2>3. CASE ~t.rst /\ t.due
    <3> DEFINE n == [t EXCEPT !.st = "closed", !.due = FALSE, !.peer = NoKey]
    <3>1. n \in Sockets /\ SocketOK(n) /\ Linked(n, s.app) /\ Follows(t, n)
      BY <1>1, <1>3, <2>3 DEF Sockets, SocketOK, Linked, Follows, States
    <3>2. \A j \in Keys : ~(s.app[j].st = "open" /\ ~s.app[j].dark /\ Holds(t, j, s.app[j]))
      BY <1>1, <1>3, <2>3 DEF Holds, Linked
    <3>3. Dispatch(h, s) = [s EXCEPT !.socket[h] = n]
      BY <1>3, <2>3 DEF Dispatch, Moment
    <3> HIDE DEF n
    <3> QED BY <3>1, <3>2, <3>3, SocketMoves
  <2>4. CASE ~t.rst /\ ~t.due /\ t.st = "synrcvd"
    <3> DEFINE b == GetsSynAck(a, t.inc)
    <3>1. b \in Apps /\ SameLife(a, b)
      BY <2>1 DEF GetsSynAck, Apps, SameLife
    <3>2. b.st = a.st \/ (b.st = "open" /\ a.st = "syn" /\ ~b.dark /\ Holds(t, k, b))
      BY <2>1, <2>4 DEF GetsSynAck, Hears, Holds, Apps
    <3>3. Dispatch(h, s) = [s EXCEPT !.app[k] = b]
      BY <1>3, <2>4 DEF Dispatch
    <3> HIDE DEF b
    <3> QED BY <2>1, <3>1, <3>2, <3>3, AppMoves
  <2>5. CASE ~t.rst /\ ~t.due /\ t.st \in {"fin", "last"}
    <3> DEFINE b == GetsFin(a, t.inc)
    <3>1. b \in Apps /\ SameLife(a, b)
      BY <2>1 DEF GetsFin, Apps, SameLife
    <3>2. b.st = a.st \/ (b.st \in {"eof", "done"} /\ b.served /\ a.st \notin {"idle", "syn", "reset"})
      BY <1>1, <1>3, <2>1, <2>5 DEF GetsFin, Hears, Linked, Apps
    <3>3. Dispatch(h, s) = [s EXCEPT !.app[k] = b]
      BY <1>3, <2>5 DEF Dispatch
    <3> HIDE DEF b
    <3> QED BY <2>1, <3>1, <3>2, <3>3, AppMoves
  <2>6. CASE ~t.rst /\ ~t.due /\ t.st \notin {"synrcvd", "fin", "last"}
    BY <1>3, <2>6 DEF Dispatch
  <2> QED BY <2>2, <2>3, <2>4, <2>5, <2>6
<1>4. CASE t.proto # "udp" /\ (t.proto # "tcp" \/ k = NoKey)
  BY <1>4 DEF Dispatch
<1> QED BY <1>2, <1>3, <1>4

\* After its turn a socket owes nothing, and stays so in the turns of the others:
\* no application begins to wait for a SYN-ACK.
LEMMA DispatchSends ==
  ASSUME NEW h \in Slots, NEW s \in Moment
  PROVE  /\ Sent(Dispatch(h, s), h)
         /\ \A j \in Slots : j # h /\ Sent(s, j) => Sent(Dispatch(h, s), j)
<1> DEFINE t == s.socket[h]
           k == t.peer
           z == Dispatch(h, s)
<1>1. t \in Sockets /\ SocketOK(t) /\ Linked(t, s.app) /\ DOMAIN s = {"socket", "app"}
      /\ DOMAIN s.socket = Slots /\ DOMAIN s.app = Keys
  BY DEF Moment, StackOK
<1>2. /\ \A j \in Slots : j # h => z.socket[j] = s.socket[j]
      /\ \A q \in Keys : z.app[q].st = "syn" /\ ~z.app[q].dark => s.app[q].st = "syn" /\ ~s.app[q].dark
      /\ \A q \in Keys : z.app[q].inc = s.app[q].inc /\ z.app[q].dark = s.app[q].dark
  <2>1. \A q \in Keys : s.app[q] \in Apps
    BY DEF Moment
  <2>2. ASSUME NEW a \in Apps, NEW inc, NEW b \in {GetsReset(a, inc), GetsFin(a, inc), GetsSynAck(a, inc)}
        PROVE  b.inc = a.inc /\ b.dark = a.dark /\ (b.st = "syn" => a.st = "syn")
    BY <2>2 DEF GetsReset, GetsFin, GetsSynAck, Apps
  <2>3. k # NoKey => k \in Keys
    BY <1>1 DEF Sockets
  <2>4. \/ z.app = s.app
        \/ /\ k \in Keys
           /\ \E b \in {GetsReset(s.app[k], t.inc), GetsFin(s.app[k], t.inc), GetsSynAck(s.app[k], t.inc)} :
                 z.app = [s.app EXCEPT ![k] = b]
    BY <1>1, <2>3 DEF Dispatch
  <2>5. \A j \in Slots : j # h => z.socket[j] = s.socket[j]
    BY <1>1 DEF Dispatch
  <2> HIDE DEF z, t
  <2> QED BY <1>1, <2>1, <2>2, <2>4, <2>5
<1>3. ASSUME NEW j \in Slots, j # h, Sent(s, j) PROVE Sent(z, j)
  <2>1. s.socket[j] \in Sockets
    BY DEF Moment
  <2> HIDE DEF z
  <2> QED BY <1>2, <1>3, <2>1 DEF Sent, SynAckSent, Sockets
<1>4. Sent(z, h)
  <2>1. CASE t.proto = "udp"
    BY <1>1, <2>1 DEF Dispatch, Sent, SynAckSent, SocketOK, Sockets
  <2>2. CASE t.proto # "udp" /\ (t.proto # "tcp" \/ k = NoKey)
    <3>1. z = s
      BY <2>2 DEF Dispatch
    <3>2. t.proto \in {"free", "tcp"}
      BY <1>1, <2>2 DEF Sockets
    <3>3. t.tx = 0 /\ t.peer = NoKey /\ ~t.rst
      BY <1>1, <2>2, <3>2 DEF SocketOK, Free
    <3> QED BY <3>1, <3>3 DEF Sent, SynAckSent
  <2>3. CASE t.proto = "tcp" /\ k # NoKey
    <3>1. k \in Keys /\ s.app[k] \in Apps /\ t.tx = 0
      BY <1>1, <2>3 DEF Sockets, Moment, SocketOK
    <3>2. CASE t.rst
      BY <1>1, <2>3, <3>1, <3>2 DEF Dispatch, Sent, SynAckSent, Sockets
    <3>3. CASE ~t.rst /\ t.due
      BY <1>1, <2>3, <3>1, <3>3 DEF Dispatch, Sent, SynAckSent, Sockets
    <3>4. CASE ~t.rst /\ ~t.due /\ t.st = "synrcvd"
      <4>1. z = [s EXCEPT !.app[k] = GetsSynAck(@, t.inc)]
        BY <2>3, <3>4 DEF Dispatch
      <4> HIDE DEF z
      <4>2. z.socket[h] = t /\ z.app[k] = GetsSynAck(s.app[k], t.inc)
        BY <1>1, <3>1, <4>1
      <4> QED BY <3>1, <3>4, <4>2 DEF Sent, SynAckSent, GetsSynAck, Hears, Apps
    <3>5. CASE ~t.rst /\ ~t.due /\ t.st # "synrcvd"
      <4>1. s.app[k].st = "syn" /\ s.app[k].inc = t.inc => s.app[k].dark
        BY <1>1, <2>3, <3>5 DEF Linked
      <4>2. z.socket[h] = t
        BY <1>1, <2>3, <3>5 DEF Dispatch
      <4> HIDE DEF z
      <4> QED BY <1>2, <3>1, <3>5, <4>1, <4>2 DEF Sent, SynAckSent
    <3> QED BY <3>2, <3>3, <3>4, <3>5
  <2> QED BY <2>1, <2>2, <2>3
<1> QED BY <1>3, <1>4

\* What is true after a poll.
LEMMA Polled ==
  ASSUME TypeOK, StackOK(socket, app), NobodyHangs(socket, app)
  PROVE  poll(socket) \in Moment /\ \A h \in Slots : Sent(poll(socket), h)
<1>0. rx \in Seq(Packet) /\ socket \in [Slots -> Sockets] /\ app \in [Keys -> Apps]
  BY DEF TypeOK
<1>1. [socket |-> socket, app |-> app] \in Moment
  BY <1>0 DEF Moment, Follows, SameLife
<1>2. Received(socket) \in Moment
  BY <1>0, <1>1, ProcessKeeps, ReceivedIn
<1> DEFINE Q == [T \in SUBSET Slots |-> {s \in Moment : \A h \in T : Sent(s, h)}]
<1>3. Received(socket) \in Q[{}]
  BY <1>2
<1>4. \A T \in SUBSET Slots : Q[T] \subseteq Moment
  OBVIOUS
<1>5. \A h \in Slots : \A s \in Moment : Dispatch(h, s) \in Moment
  BY <1>0, DispatchKeeps
<1>6. ASSUME NEW T \in SUBSET Slots, NEW h \in T, NEW s \in Q[T \ {h}]
      PROVE  Dispatch(h, s) \in Q[T]
  <2>1. s \in Moment /\ \A j \in T \ {h} : Sent(s, j)
    OBVIOUS
  <2>2. Dispatch(h, s) \in Moment
    BY <1>5, <2>1
  <2>3. \A j \in T : Sent(Dispatch(h, s), j)
    BY <2>1, DispatchSends
  <2> QED BY <2>2, <2>3
<1>7. poll(socket) \in Q[Slots]
  <2> HIDE DEF Q
  <2> QED BY <1>3, <1>4, <1>5, <1>6, PolledIn
<1> QED BY <1>7

(***************************************************************************)
(* The steps.                                                              *)
(***************************************************************************)

\* The tables fit as long as no task comes or goes.
LEMMA SameTables ==
  ASSUME FlowTables, Running' = Running, UNCHANGED <<tcp_seen, udp_flows, relays, alive>>,
         \A u \in Tasks : task'[u].key = task[u].key /\ task'[u].h = task[u].h
  PROVE  FlowTables'
<1>1. Running \subseteq Tasks
  BY DEF Running
<1>2. ASSUME NEW p PROVE {task'[t].key : t \in {u \in Running' : task'[u].key.proto = p}}
                           = {task[t].key : t \in {u \in Running : task[u].key.proto = p}}
  BY <1>1
<1>3. \A t \in Running : task'[t].key = task[t].key /\ task'[t].h = task[t].h
  BY <1>1
<1> QED BY <1>2, <1>3 DEF FlowTables

\* A relay task moves on, alone or with its own socket.
LEMMA OwnMove ==
  ASSUME IInv, alive, NEW t \in Tasks, t \in Running, NEW r \in Relay, NEW n \in Sockets,
         task' = [task EXCEPT ![t] = r], socket' = [socket EXCEPT ![task[t].h] = n],
         UNCHANGED <<load, app, rx, tcp_seen, udp_flows, abandoned, relays, alive, faults>>,
         driver' \in [at : {driver.at}, kicked : BOOLEAN], driver.kicked => driver'.kicked,
         driver'.kicked \/ n.tx = socket[task[t].h].tx,
         r.st \notin {"none", "gone"}, r.key = task[t].key, r.h = task[t].h,
         n.proto = socket[task[t].h].proto,
         SocketOK(n), Linked(n, app), SynAckSent(n, app),
         \A k \in Keys : app[k].st = "open" /\ Holds(socket[task[t].h], k, app[k]) => Holds(n, k, app[k]),
         TaskOK(r, socket', app, driver.at)
  PROVE  IInv'
<1> DEFINE h == task[t].h
<1>0. /\ task \in [Tasks -> Relay] /\ socket \in [Slots -> Sockets] /\ h \in Slots
      /\ h \notin abandoned /\ abandoned \subseteq Slots
      /\ TaskOK(task[t], socket, app, driver.at)
      /\ driver \in [at : {"notify", "sleep", "stopped"}, kicked : BOOLEAN]
  BY DEF IInv, TypeOK, TasksOK, OneOwner, TaskOK
<1>1. /\ socket'[h] = n /\ \A j \in Slots : j # h => socket'[j] = socket[j]
      /\ task'[t] = r /\ \A u \in Tasks : u # t => task'[u] = task[u]
      /\ driver'.at = driver.at /\ socket' \in [Slots -> Sockets] /\ task' \in [Tasks -> Relay]
      /\ driver' \in [at : {"notify", "sleep", "stopped"}, kicked : BOOLEAN]
  BY <1>0
<1>2. Running' = Running
  BY <1>1 DEF Running
<1>3. \A u \in Tasks : task'[u].key = task[u].key /\ task'[u].h = task[u].h
  BY <1>1
<1> HIDE DEF h
<1>4. TypeOK'
  BY <1>0, <1>1 DEF IInv, TypeOK, SocketOK
<1>5. OneOwner'
  <2>1. \A j \in Slots : socket'[j].proto = socket[j].proto
    BY <1>1 DEF h
  <2>2. \A u \in Running : task[u].h \in Slots
    BY DEF IInv, TasksOK, TaskOK
  <2>3. Running \subseteq Tasks
    BY DEF Running
  <2> QED BY <1>0, <1>2, <1>3, <2>1, <2>2, <2>3 DEF IInv, OneOwner, Of
<1>6. FlowTables'
  BY <1>2, <1>3, SameTables DEF IInv
<1>7. ConnectionsOK'
  <2>1. StackOK(socket, app)'
    BY <1>1 DEF IInv, ConnectionsOK, StackOK
  <2>2. \A j \in Slots : SynAckSent(socket'[j], app)
    BY <1>1 DEF IInv, ConnectionsOK
  <2>3. NobodyHangs(socket', app)
    BY <1>1 DEF IInv, ConnectionsOK, NobodyHangs, h
  <2> QED BY <2>1, <2>2, <2>3 DEF ConnectionsOK
<1>8. TasksOK'
  <2>1. Running \subseteq Tasks
    BY DEF Running
  <2>2. ASSUME NEW u \in Running, u # t PROVE TaskOK(task'[u], socket', app, driver.at)
    <3>1. task[u].h # h
      BY <2>2 DEF IInv, OneOwner, h
    <3>2. TaskOK(task[u], socket, app, driver.at)
      BY DEF IInv, TasksOK
    <3> QED BY <1>1, <2>1, <2>2, <3>1, <3>2 DEF TaskOK
  <2>3. \A u \in Running' : TaskOK(task[u], socket, app, driver.at)'
    BY <1>1, <1>2, <2>2
  <2>4. \A u \in Tasks : task'[u].pkt # NoKey => u \in Running'
    BY <1>1, <1>2 DEF IInv, TasksOK
  <2>5. \A u, v \in Running' : task'[u].key = task'[v].key => u = v
    BY <1>2, <1>3, <2>1 DEF IInv, TasksOK
  <2> QED BY <2>3, <2>4, <2>5 DEF TasksOK
<1>9. Noticed'
  <2>1. ~n.rst
    BY <1>1 DEF TaskOK, h
  <2> QED BY <1>0, <1>1, <2>1 DEF IInv, Noticed, h
<1>10. SlotsSuffice'
  <2>1. {j \in Slots : socket'[j].proto # "free"} = {j \in Slots : socket[j].proto # "free"}
    BY <1>1 DEF h
  <2>2. {u \in Tasks : task'[u].st # "none"} = {u \in Tasks : task[u].st # "none"}
    BY <1>1 DEF Running
  <2> QED BY <2>1, <2>2 DEF IInv, SlotsSuffice
<1>11. DroppedIsEmpty'
  BY <1>1, <1>2 DEF IInv, DroppedIsEmpty
<1> QED BY <1>4, <1>5, <1>6, <1>7, <1>8, <1>9, <1>10, <1>11 DEF IInv

\* A relay task moves on and touches nothing else.
LEMMA TaskMoves ==
  ASSUME IInv, alive, NEW t \in Tasks, t \in Running, NEW r \in Relay,
         task' = [task EXCEPT ![t] = r],
         UNCHANGED <<load, app, rx, stack, driver, relays, alive, faults>>,
         r.st \notin {"none", "gone"}, r.key = task[t].key, r.h = task[t].h,
         TaskOK(r, socket, app, driver.at)
  PROVE  IInv'
<1> DEFINE n == socket[task[t].h]
<1>1. task[t].h \in Slots /\ n \in Sockets /\ socket' = [socket EXCEPT ![task[t].h] = n]
      /\ driver' \in [at : {driver.at}, kicked : BOOLEAN]
  BY DEF IInv, TypeOK, TasksOK, TaskOK, stack
<1>2. SocketOK(n) /\ Linked(n, app) /\ SynAckSent(n, app)
  BY <1>1 DEF IInv, ConnectionsOK, StackOK
<1>3. TaskOK(r, socket', app, driver.at)
  BY DEF stack
<1> HIDE DEF n
<1>4. n = socket[task[t].h]
  BY DEF n
<1> QED BY <1>1, <1>2, <1>3, <1>4, OwnMove DEF stack

\* The steps of the TCP tasks that only read.
LEMMA TcpMoves ==
  ASSUME IInv, NEW t \in Tasks,
         Enable(t) \/ Check(t) \/ Await(t) \/ AcceptTimeout(t) \/ RouteFails(t) \/ ReadEof(t)
           \/ RelayFails(t) \/ Kill(t)
  PROVE  IInv'
<1> DEFINE o == task[t]
<1>1. t \in Running /\ alive
  BY DEF Running, At, Enable, Check, Await, AcceptTimeout, RouteFails, ReadEof, RelayFails, Kill, Relays
<1>2. o \in Relay /\ TaskOK(o, socket, app, driver.at) /\ o.key.proto \in {"tcp", "udp"}
      /\ task \in [Tasks -> Relay] /\ socket[o.h] \in Sockets
  BY <1>1, NetstackAssumption DEF IInv, TypeOK, TasksOK, TaskOK
<1>3. UNCHANGED <<load, app, rx, stack, driver, relays, alive, faults>>
  BY DEF Enable, Check, Await, AcceptTimeout, RouteFails, ReadEof, RelayFails, Kill
<1>4. CASE Enable(t)
  <2> DEFINE r == [o EXCEPT !.st = "check", !.woken = FALSE]
  <2>1. r \in Relay /\ r.st = "check" /\ r.key = o.key /\ r.h = o.h /\ task' = [task EXCEPT ![t] = r]
    BY <1>2, <1>4 DEF Relay, Enable
  <2>2. o.st \in {"enable", "parked"}
    BY <1>4 DEF Enable, At
  <2>3. TaskOK(r, socket, app, driver.at)
    BY <1>2, <2>2 DEF TaskOK, Relay
  <2> HIDE DEF r
  <2> QED BY <1>1, <1>3, <2>1, <2>3, TaskMoves
<1>5. ASSUME NEW st \in {"route", "await", "parked", "end"}, task' = [task EXCEPT ![t].st = st],
             TaskOK([o EXCEPT !.st = st], socket, app, driver.at)
      PROVE  IInv'
  <2> DEFINE r == [o EXCEPT !.st = st]
  <2>1. r \in Relay /\ r.st = st /\ r.key = o.key /\ r.h = o.h /\ task' = [task EXCEPT ![t] = r]
    BY <1>2, <1>5 DEF Relay
  <2>2. TaskOK(r, socket, app, driver.at)
    BY <1>5
  <2> HIDE DEF r
  <2> QED BY <1>1, <1>3, <2>1, <2>2, TaskMoves
<1>6. TaskOK([o EXCEPT !.st = "end"], socket, app, driver.at)
  BY <1>2 DEF TaskOK, Relay
<1>7. CASE Check(t)
  <2>1. PICK st \in {"route", "end", "await"} : 
          /\ task' = [task EXCEPT ![t].st = st]
          /\ st = "route" => socket[o.h].st = "established"
          /\ st = "await" => socket[o.h].st # "established"
    BY <1>7 DEF Check, Go, Of
  <2>2. o.st = "check" /\ o.key.proto = "tcp"
    BY <1>2, <1>7 DEF Check, At, TaskOK
  <2>3. TaskOK([o EXCEPT !.st = st], socket, app, driver.at)
    BY <1>2, <2>1, <2>2 DEF TaskOK, Relay
  <2> QED BY <1>5, <2>1, <2>3
<1>8. CASE Await(t)
  <2>1. TaskOK([o EXCEPT !.st = "parked"], socket, app, driver.at)
    BY <1>2, <1>8 DEF TaskOK, Relay, Await, At
  <2> QED BY <1>5, <1>8, <2>1 DEF Await, Go
<1>9. CASE AcceptTimeout(t) \/ RouteFails(t) \/ RelayFails(t) \/ Kill(t)
  BY <1>5, <1>6, <1>9 DEF AcceptTimeout, RouteFails, RelayFails, Kill, Go
<1>10. CASE ReadEof(t)
  <2> DEFINE r == [o EXCEPT !.down = TRUE, !.up = o.up, !.st = IF TRUE /\ o.up THEN "end" ELSE "relay"]
  <2>1. r \in Relay /\ r.st \in {"end", "relay"} /\ r.key = o.key /\ r.h = o.h /\ task' = [task EXCEPT ![t] = r]
    BY <1>2, <1>10 DEF Relay, ReadEof, Passed
  <2>2. o.st = "relay"
    BY <1>10 DEF ReadEof, Relays, At
  <2>3. TaskOK(r, socket, app, driver.at)
    BY <1>2, <2>2 DEF TaskOK, Relay
  <2> HIDE DEF r
  <2> QED BY <1>1, <1>3, <2>1, <2>3, TaskMoves
<1> QED BY <1>4, <1>7, <1>8, <1>9, <1>10

\* The steps of the two loops of a UDP task that leave the socket alone.
LEMMA UdpMoves ==
  ASSUME IInv, NEW t \in Tasks,
         SessionSend(t) \/ EgressEnds(t) \/ SessionRecv(t) \/ SessionFails(t) \/ IngressEnds(t)
  PROVE  IInv'
<1> DEFINE o == task[t]
<1>1. t \in Running /\ alive /\ o.st = "relay" /\ o.key.proto = "udp"
  BY DEF Running, At, Relays, SessionSend, EgressEnds, SessionRecv, SessionFails, IngressEnds
<1>2. o \in Relay /\ TaskOK(o, socket, app, driver.at) /\ task \in [Tasks -> Relay]
  BY <1>1 DEF IInv, TypeOK, TasksOK
<1>3. UNCHANGED <<load, app, rx, stack, driver, relays, alive, faults>>
  BY DEF SessionSend, EgressEnds, SessionRecv, SessionFails, IngressEnds
<1>4. ASSUME NEW e \in {"recv", "send", "end"}, NEW i \in {"recv", "send", "end"},
             NEW k \in {NoKey, o.pkt}, Loops(t, e, i, k)
      PROVE  IInv'
  <2> DEFINE r == [o EXCEPT !.egress = e, !.ingress = i, !.pkt = k,
                            !.st = IF e = "end" /\ i = "end" THEN "end" ELSE "relay"]
  <2>1. r \in Relay
    BY <1>2 DEF Relay
  <2>2. r.st \in {"end", "relay"} /\ r.key = o.key /\ r.h = o.h /\ task' = [task EXCEPT ![t] = r]
    BY <1>2, <1>4 DEF Relay, Loops
  <2>3. TaskOK(r, socket, app, driver.at)
    BY <1>1, <1>2 DEF TaskOK, Relay
  <2> HIDE DEF r
  <2> QED BY <1>1, <1>3, <2>1, <2>2, <2>3, TaskMoves
<1>5. o.egress \in {"recv", "send", "end"} /\ o.ingress \in {"recv", "send", "end"}
  BY <1>2 DEF Relay
<1>6. ASSUME NEW loop \in {"recv", "send", "end"}, NEW ready \in BOOLEAN
      PROVE  Cancelled(loop, ready) \subseteq {"recv", "send", "end"}
  BY DEF Cancelled
<1>7. CASE SessionSend(t)
  <2>1. Brings(t) \in BOOLEAN
    BY DEF Brings
  <2>2. \/ Loops(t, "recv", o.ingress, NoKey)
        \/ \E i \in Cancelled(o.ingress, Brings(t)) : Loops(t, "end", i, NoKey)
    BY <1>7 DEF SessionSend
  <2> QED BY <1>4, <1>5, <1>6, <2>1, <2>2
<1>8. CASE EgressEnds(t)
  BY <1>4, <1>5, <1>8 DEF EgressEnds
<1>9. CASE SessionFails(t)
  <2>1. PICK e \in Cancelled(o.egress, Of(t).from # <<>>) : Loops(t, e, "end", o.pkt)
    BY <1>9 DEF SessionFails
  <2>2. e \in {"recv", "send", "end"}
    BY <1>5, <1>6, <2>1
  <2> QED BY <1>4, <2>1, <2>2
<1>10. CASE IngressEnds(t)
  BY <1>4, <1>5, <1>10 DEF IngressEnds
<1>11. CASE SessionRecv(t)
  <2> DEFINE r == [o EXCEPT !.ingress = "send", !.replies = @ + 1]
  <2>1. r \in Relay /\ r.st = "relay" /\ r.key = o.key /\ r.h = o.h /\ task' = [task EXCEPT ![t] = r]
    BY <1>1, <1>2, <1>11 DEF Relay, SessionRecv
  <2>2. TaskOK(r, socket, app, driver.at)
    BY <1>1, <1>2 DEF TaskOK, Relay
  <2> HIDE DEF r
  <2> QED BY <1>1, <1>3, <2>1, <2>2, TaskMoves
<1> QED BY <1>7, <1>8, <1>9, <1>10, <1>11

\* The outbound has sent the end of its data: the socket is closed for sending.
LEMMA UpstreamEofKeeps ==
  ASSUME IInv, NEW t \in Tasks, UpstreamEof(t)
  PROVE  IInv'
<1> DEFINE o == task[t]
           s == socket[o.h]
           n == close(s)
           r == [o EXCEPT !.down = o.down, !.up = TRUE, !.st = IF o.down /\ TRUE THEN "end" ELSE "relay"]
<1>1. t \in Running /\ alive /\ o.st = "relay" /\ o.key.proto = "tcp"
  BY DEF Running, At, Relays, UpstreamEof
<1>2. /\ o \in Relay /\ TaskOK(o, socket, app, driver.at) /\ task \in [Tasks -> Relay]
      /\ s \in Sockets /\ s.proto = "tcp" /\ SocketOK(s) /\ Linked(s, app) /\ SynAckSent(s, app)
      /\ s.st \notin {"listen", "synrcvd"}
  BY <1>1 DEF IInv, TypeOK, TasksOK, TaskOK, OneOwner, ConnectionsOK, StackOK, Of
<1>3. r \in Relay /\ r.st \in {"end", "relay"} /\ r.key = o.key /\ r.h = o.h /\ task' = [task EXCEPT ![t] = r]
  BY <1>1, <1>2 DEF Relay, UpstreamEof, Passed
<1>4. n \in Sockets /\ n.proto = s.proto /\ n.tx = s.tx /\ SocketOK(n) /\ SynAckSent(n, app)
  BY <1>2 DEF Sockets, States, close, SocketOK, SynAckSent
<1>5. Linked(n, app)
  BY <1>1, <1>2 DEF Sockets, close, Linked, TaskOK, SynAckSent
<1>6. \A k \in Keys : Holds(s, k, app[k]) => Holds(n, k, app[k])
  BY <1>2 DEF Sockets, close, Holds
<1>7. socket' = [socket EXCEPT ![o.h] = n]
  BY DEF UpstreamEof
<1>8. TaskOK(r, socket', app, driver.at)
  <2>1. socket'[o.h] = n
    BY <1>2, <1>7 DEF TaskOK, IInv, TypeOK
  <2>2. /\ n.dst = s.dst /\ n.rst = s.rst /\ n.peer = s.peer /\ n.inc = s.inc
        /\ n.st \notin {"listen", "synrcvd"}
    BY <1>2 DEF Sockets, close
  <2> HIDE DEF n
  <2> QED BY <1>1, <1>2, <2>1, <2>2 DEF TaskOK, Relay
<1>9. driver' \in [at : {driver.at}, kicked : BOOLEAN] /\ driver'.kicked
  BY DEF UpstreamEof, kick, IInv, TypeOK
<1>10. UNCHANGED <<load, app, rx, tcp_seen, udp_flows, abandoned, relays, alive, faults>>
  BY DEF UpstreamEof
<1> HIDE DEF n, r
<1> QED BY <1>1, <1>3, <1>4, <1>5, <1>6, <1>7, <1>8, <1>9, <1>10, OwnMove

\* A datagram is taken from the receive buffer.
LEMMA UdpRecvKeeps ==
  ASSUME IInv, NEW t \in Tasks, udp_recv(t)
  PROVE  IInv'
<1> DEFINE o == task[t]
           s == socket[o.h]
           n == [s EXCEPT !.from = Tail(@)]
           r == [o EXCEPT !.egress = "send", !.ingress = o.ingress, !.pkt = Head(s.from),
                          !.st = IF "send" = "end" /\ o.ingress = "end" THEN "end" ELSE "relay"]
<1>1. t \in Running /\ alive /\ o.st = "relay" /\ o.key.proto = "udp" /\ s.from # <<>>
  BY DEF Running, At, Relays, udp_recv, Of
<1>2. /\ o \in Relay /\ TaskOK(o, socket, app, driver.at) /\ task \in [Tasks -> Relay]
      /\ s \in Sockets /\ s.proto = "udp" /\ SocketOK(s) /\ Linked(s, app) /\ SynAckSent(s, app)
  BY <1>1 DEF IInv, TypeOK, TasksOK, TaskOK, OneOwner, ConnectionsOK, StackOK, Of
<1>3. s.from \in Seq(Keys) /\ Head(s.from) = s.from[1] /\ 1 \in 1 .. Len(s.from)
      /\ Head(s.from) \in Keys /\ Tail(s.from) \in Seq(Keys) /\ Len(Tail(s.from)) = Len(s.from) - 1
      /\ \A i \in 1 .. Len(Tail(s.from)) : Tail(s.from)[i] = s.from[i + 1] /\ i + 1 \in 1 .. Len(s.from)
  BY <1>1, <1>2 DEF Sockets
<1>4. r \in Relay /\ r.st = "relay" /\ r.key = o.key /\ r.h = o.h /\ task' = [task EXCEPT ![t] = r]
  BY <1>1, <1>2, <1>3 DEF Relay, udp_recv, Loops, Of
<1>5. n \in Sockets
  BY <1>2, <1>3 DEF Sockets
<1>6. /\ n.proto = s.proto /\ n.tx = s.tx /\ n.peer = s.peer /\ n.st = s.st /\ n.dst = s.dst /\ n.rst = s.rst
      /\ n.inc = s.inc /\ n.due = s.due /\ n.from = Tail(s.from)
  BY <1>2 DEF Sockets
<1> HIDE DEF n, r
<1>7. SocketOK(n)
  <2>1. Len(n.from) <= Meta
    BY <1>2, <1>3, <1>6, NetstackAssumption DEF SocketOK
  <2>2. \A i \in 1 .. Len(n.from) : n.from[i].dst = n.dst
    BY <1>2, <1>3, <1>6 DEF SocketOK
  <2> QED BY <1>2, <1>6, <2>1, <2>2 DEF SocketOK
<1>8. Linked(n, app) /\ SynAckSent(n, app)
  BY <1>2, <1>6 DEF Linked, SynAckSent
<1>9. \A k \in Keys : Holds(s, k, app[k]) => Holds(n, k, app[k])
  BY <1>6 DEF Holds
<1>10. socket' = [socket EXCEPT ![o.h] = n]
  BY DEF udp_recv, n
<1>11. TaskOK(r, socket', app, driver.at)
  <2>1. socket'[o.h] = n
    BY <1>2, <1>10 DEF TaskOK, IInv, TypeOK
  <2>2. r.pkt = s.from[1] /\ r.pkt.dst = s.dst
    BY <1>2, <1>3 DEF r, Relay, SocketOK
  <2> QED BY <1>1, <1>2, <1>4, <1>6, <2>1, <2>2 DEF TaskOK, Relay, r
<1>12. driver' \in [at : {driver.at}, kicked : BOOLEAN] /\ driver' = driver
  BY DEF udp_recv, IInv, TypeOK
<1>13. UNCHANGED <<load, app, rx, tcp_seen, udp_flows, abandoned, relays, alive, faults>>
  BY DEF udp_recv
<1> QED BY <1>1, <1>4, <1>5, <1>6, <1>7, <1>8, <1>9, <1>10, <1>11, <1>12, <1>13, OwnMove

\* A datagram is put into the transmit buffer.
LEMMA UdpSendKeeps ==
  ASSUME IInv, NEW t \in Tasks, udp_send(t)
  PROVE  IInv'
<1> DEFINE o == task[t]
           s == socket[o.h]
           n == [s EXCEPT !.tx = @ + 1]
           r == [o EXCEPT !.ingress = "recv"]
<1>1. t \in Running /\ alive /\ o.st = "relay" /\ o.key.proto = "udp" /\ s.tx < Meta
  BY DEF Running, At, Relays, udp_send, Of, CanSend
<1>2. /\ o \in Relay /\ TaskOK(o, socket, app, driver.at) /\ task \in [Tasks -> Relay]
      /\ s \in Sockets /\ s.proto = "udp" /\ SocketOK(s) /\ Linked(s, app) /\ SynAckSent(s, app)
  BY <1>1 DEF IInv, TypeOK, TasksOK, TaskOK, OneOwner, ConnectionsOK, StackOK, Of
<1>3. r \in Relay /\ r.st = "relay" /\ r.key = o.key /\ r.h = o.h /\ task' = [task EXCEPT ![t] = r]
  BY <1>1, <1>2 DEF Relay, udp_send
<1>4. n \in Sockets
  <2>1. s.tx + 1 \in 0 .. Meta
    BY <1>1, <1>2, NetstackAssumption DEF Sockets
  <2> QED BY <1>2, <2>1 DEF Sockets
<1>5. /\ n.proto = s.proto /\ n.peer = s.peer /\ n.st = s.st /\ n.dst = s.dst /\ n.rst = s.rst
      /\ n.inc = s.inc /\ n.due = s.due /\ n.from = s.from
  BY <1>2 DEF Sockets
<1> HIDE DEF n
<1>6. SocketOK(n) /\ Linked(n, app) /\ SynAckSent(n, app)
  BY <1>2, <1>5 DEF SocketOK, Linked, SynAckSent
<1>7. \A k \in Keys : Holds(s, k, app[k]) => Holds(n, k, app[k])
  BY <1>5 DEF Holds
<1>8. socket' = [socket EXCEPT ![o.h] = n]
  BY DEF udp_send, n
<1>9. TaskOK(r, socket', app, driver.at)
  <2>1. socket'[o.h] = n
    BY <1>2, <1>8 DEF TaskOK, IInv, TypeOK
  <2> QED BY <1>1, <1>2, <1>5, <2>1 DEF TaskOK, Relay
<1>10. driver' \in [at : {driver.at}, kicked : BOOLEAN] /\ driver'.kicked
  BY DEF udp_send, send_kick, kick, IInv, TypeOK
<1>11. UNCHANGED <<load, app, rx, tcp_seen, udp_flows, abandoned, relays, alive, faults>>
  BY DEF udp_send
<1> HIDE DEF r
<1> QED BY <1>1, <1>3, <1>4, <1>5, <1>6, <1>7, <1>8, <1>9, <1>10, <1>11, OwnMove

\* A timer expires for a peer that has nothing to lose by it.
LEMMA TimerKeeps ==
  ASSUME IInv, NEW h \in Slots, TimerExpires(h)
  PROVE  IInv'
<1> DEFINE s == socket[h]
           n == [s EXCEPT !.due = TRUE]
<1>1. alive /\ Expires(h) /\ socket' = [socket EXCEPT ![h] = n]
      /\ UNCHANGED <<load, app, rx, tcp_seen, udp_flows, abandoned, driver, task, relays, alive, faults>>
  BY DEF TimerExpires
<1>2. socket \in [Slots -> Sockets] /\ s \in Sockets /\ SocketOK(s) /\ Linked(s, app) /\ SynAckSent(s, app)
      /\ abandoned \subseteq Slots
  BY DEF IInv, TypeOK, ConnectionsOK, StackOK
<1>3. n \in Sockets /\ n.due
  BY <1>2 DEF Sockets
<1>4. /\ n.proto = s.proto /\ n.peer = s.peer /\ n.st = s.st /\ n.dst = s.dst /\ n.rst = s.rst
      /\ n.inc = s.inc /\ n.tx = s.tx /\ n.from = s.from
  BY <1>2 DEF Sockets
<1>5. SocketOK(n)
  BY <1>1, <1>2, <1>4 DEF SocketOK, Expires, Free
<1>6. Linked(n, app) /\ SynAckSent(n, app)
  BY <1>1, <1>2, <1>4 DEF Linked, SynAckSent, Expires
<1>7. socket'[h] = n /\ \A j \in Slots : j # h => socket'[j] = socket[j]
  BY <1>1, <1>2
<1> HIDE DEF n
<1>8. \A j \in Slots : /\ socket'[j].proto = socket[j].proto /\ socket'[j].peer = socket[j].peer
                        /\ socket'[j].st = socket[j].st /\ socket'[j].dst = socket[j].dst
                        /\ socket'[j].rst = socket[j].rst /\ socket'[j].inc = socket[j].inc
                        /\ socket'[j].tx = socket[j].tx /\ socket'[j].from = socket[j].from
  BY <1>4, <1>7
<1>9. Running' = Running /\ Running \subseteq Tasks /\ \A t \in Running : task[t].h \in Slots
  BY <1>1 DEF Running, IInv, TasksOK, TaskOK
<1>10. TypeOK'
  BY <1>1, <1>2, <1>3, <1>8 DEF IInv, TypeOK
<1>11. OneOwner'
  BY <1>1, <1>2, <1>8, <1>9 DEF IInv, OneOwner, Of
<1>12. FlowTables'
  BY <1>1, <1>9 DEF IInv, FlowTables
<1>13. ConnectionsOK'
  <2>1. StackOK(socket, app)'
    BY <1>1, <1>5, <1>6, <1>7 DEF IInv, ConnectionsOK, StackOK
  <2>2. \A j \in Slots : SynAckSent(socket'[j], app)
    BY <1>6, <1>7 DEF IInv, ConnectionsOK
  <2>3. NobodyHangs(socket', app)
    BY <1>1, <1>8 DEF IInv, ConnectionsOK, NobodyHangs, Holds
  <2> QED BY <1>1, <2>1, <2>2, <2>3 DEF ConnectionsOK
<1>14. TasksOK'
  <2>1. ASSUME NEW t \in Running PROVE TaskOK(task[t], socket', app, driver.at)
    BY <1>8, <1>9 DEF IInv, TasksOK, TaskOK
  <2> QED BY <1>1, <1>9, <2>1 DEF IInv, TasksOK
<1>15. Noticed'
  BY <1>1, <1>2, <1>8 DEF IInv, Noticed
<1>16. SlotsSuffice'
  BY <1>1, <1>8 DEF IInv, SlotsSuffice
<1>17. DroppedIsEmpty'
  BY <1>1, <1>9 DEF IInv, DroppedIsEmpty
<1> QED BY <1>10, <1>11, <1>12, <1>13, <1>14, <1>15, <1>16, <1>17 DEF IInv

\* An application that is served or goes dark is promised less, not more.
Ages(a, b) ==
    /\ b.st = a.st /\ b.inc = a.inc
    /\ a.dark => b.dark
    /\ a.served => b.served

\* An application that only gains dark and served disturbs no connection and no task.
LEMMA AgesKeeps ==
  ASSUME IInv, UNCHANGED <<rx, socket, alive>>, \A k \in Keys : Ages(app[k], app'[k])
  PROVE  /\ ConnectionsOK'
         /\ \A r : TaskOK(r, socket, app, driver.at) => TaskOK(r, socket, app', driver.at)
<1>1. /\ \A h \in Slots : socket[h] \in Sockets
      /\ \A i \in 1 .. Len(rx) : rx[i] \in Packet
  BY DEF IInv, TypeOK
<1>2. ASSUME NEW h \in Slots PROVE Linked(socket[h], app') /\ SynAckSent(socket[h], app')
  <2>1. socket[h].peer # NoKey => socket[h].peer \in Keys
    BY <1>1 DEF Sockets
  <2> QED BY <2>1 DEF IInv, ConnectionsOK, StackOK, Linked, SynAckSent, Ages
<1>3. ASSUME NEW i \in 1 .. Len(rx) PROVE PacketOK(rx[i], app')
  <2>1. rx[i].key \in Keys
    BY <1>1 DEF Packet
  <2> QED BY <2>1 DEF IInv, ConnectionsOK, StackOK, PacketOK, Ages
<1>4. EofServed(app')
  BY DEF IInv, ConnectionsOK, StackOK, EofServed, Ages
<1>5. StackOK(socket, app)'
  BY <1>2, <1>3, <1>4 DEF IInv, ConnectionsOK, StackOK
<1>6. alive => NobodyHangs(socket, app')
  BY DEF IInv, ConnectionsOK, NobodyHangs, Holds, Ages
<1>7. ASSUME NEW r, TaskOK(r, socket, app, driver.at) PROVE TaskOK(r, socket, app', driver.at)
  <2>1. socket[r.h].peer # NoKey => socket[r.h].peer \in Keys
    BY <1>1, <1>7 DEF Sockets, TaskOK
  <2> QED BY <1>7, <2>1 DEF TaskOK, Ages
<1> QED BY <1>2, <1>5, <1>6, <1>7 DEF ConnectionsOK

\* An application that vanishes without a packet.
LEMMA GoesDarkKeeps ==
  ASSUME IInv, NEW k \in Keys, AppGoesDark(k)
  PROVE  IInv'
<1>1. /\ app' = [app EXCEPT ![k].dark = TRUE] /\ faults' = faults + 1
      /\ UNCHANGED <<load, rx, socket, tcp_seen, udp_flows, abandoned, driver, task, relays, alive>>
  BY DEF AppGoesDark, Fault, stack
<1>2. \A j \in Keys : Ages(app[j], app'[j])
  BY <1>1 DEF Ages, IInv, TypeOK, Apps
<1>3. ConnectionsOK' /\ \A r : TaskOK(r, socket, app, driver.at) => TaskOK(r, socket, app', driver.at)
  BY <1>1, <1>2, AgesKeeps
<1>4. TypeOK'
  <2>1. app' \in [Keys -> Apps]
    BY <1>1 DEF IInv, TypeOK, Apps
  <2> QED BY <1>1, <2>1 DEF IInv, TypeOK
<1>5. Running' = Running
  BY <1>1 DEF Running
<1>6. OneOwner' /\ FlowTables' /\ Noticed' /\ SlotsSuffice' /\ DroppedIsEmpty'
  BY <1>1, <1>5 DEF IInv, OneOwner, FlowTables, Noticed, SlotsSuffice, DroppedIsEmpty, Of
<1>7. TasksOK'
  BY <1>1, <1>3, <1>5 DEF IInv, TasksOK
<1> QED BY <1>3, <1>4, <1>6, <1>7 DEF IInv

\* The outbound of a TCP relay comes up.
LEMMA ConnectsKeeps ==
  ASSUME IInv, NEW t \in Tasks, Connects(t)
  PROVE  IInv'
<1> DEFINE o == task[t]
           s == socket[o.h]
           r == [o EXCEPT !.st = "relay", !.connected = TRUE]
<1>1. t \in Running /\ alive /\ o.st = "route"
  BY DEF Running, At, Connects
<1>2. UNCHANGED <<load, rx, socket, tcp_seen, udp_flows, abandoned, driver, relays, alive, faults>>
  BY DEF Connects, stack
<1>3. /\ o \in Relay /\ TaskOK(o, socket, app, driver.at) /\ task \in [Tasks -> Relay]
      /\ s \in Sockets /\ o.h \in Slots /\ app \in [Keys -> Apps]
  BY <1>1 DEF IInv, TypeOK, TasksOK, TaskOK
<1>4. r \in Relay /\ r.st = "relay" /\ r.key = o.key /\ r.h = o.h /\ r.pkt = o.pkt /\ r.connected
      /\ task' = [task EXCEPT ![t] = r]
  BY <1>1, <1>3 DEF Relay, Connects
<1>5. app' = [k \in Keys |-> IF s.peer = k /\ s.inc = app[k].inc
                             THEN [app[k] EXCEPT !.served = TRUE] ELSE app[k]]
  BY DEF Connects, Of
<1>6. app' \in [Keys -> Apps] /\ \A j \in Keys : Ages(app[j], app'[j])
  BY <1>3, <1>5 DEF Ages, Apps
<1>7. ConnectionsOK' /\ \A q : TaskOK(q, socket, app, driver.at) => TaskOK(q, socket, app', driver.at)
  BY <1>2, <1>6, AgesKeeps
<1> HIDE DEF r
<1>8. task'[t] = r /\ \A u \in Tasks : u # t => task'[u] = task[u]
  BY <1>3, <1>4
<1>9. Running' = Running /\ Running \subseteq Tasks
  BY <1>1, <1>4, <1>8 DEF Running
<1>10. \A u \in Tasks : task'[u].key = task[u].key /\ task'[u].h = task[u].h /\ task'[u].pkt = task[u].pkt
  BY <1>4, <1>8
<1>11. TypeOK'
  BY <1>2, <1>3, <1>4, <1>6 DEF IInv, TypeOK
<1>12. OneOwner' /\ FlowTables'
  <2>1. OneOwner'
    BY <1>2, <1>9, <1>10 DEF IInv, OneOwner, Of
  <2>2. FlowTables'
    <3>1. \A u \in Tasks : task'[u].key = task[u].key /\ task'[u].h = task[u].h
      BY <1>10
    <3>2. Running' = Running /\ Running \subseteq Tasks /\ UNCHANGED <<tcp_seen, udp_flows, relays, alive>>
      BY <1>2, <1>9
    <3> QED BY <3>1, <3>2, SameTables DEF IInv
  <2> QED BY <2>1, <2>2
<1>13. Noticed' /\ DroppedIsEmpty'
  BY <1>2, <1>9 DEF IInv, Noticed, DroppedIsEmpty
<1>14. SlotsSuffice'
  <2>1. {u \in Tasks : task'[u].st # "none"} = {u \in Tasks : task[u].st # "none"}
    BY <1>1, <1>4, <1>8
  <2> QED BY <1>2, <2>1 DEF IInv, SlotsSuffice
<1>15. TasksOK'
  <2>1. TaskOK(r, socket, app', driver.at)
    <3>1. s.peer # NoKey /\ s.inc = app'[s.peer].inc => app'[s.peer].served
      <4> SUFFICES ASSUME s.peer # NoKey, s.inc = app'[s.peer].inc PROVE app'[s.peer].served
        OBVIOUS
      <4>1. s.peer \in Keys
        BY <1>3 DEF Sockets
      <4>2. s.inc = app[s.peer].inc /\ app[s.peer] \in Apps
        BY <1>3, <1>6, <4>1 DEF Ages
      <4>3. app'[s.peer] = [app[s.peer] EXCEPT !.served = TRUE]
        BY <1>5, <4>1, <4>2
      <4> QED BY <4>2, <4>3 DEF Apps
    <3> QED BY <1>1, <1>3, <1>4, <3>1 DEF TaskOK
  <2>2. \A u \in Running : TaskOK(task'[u], socket, app', driver.at)
    BY <1>7, <1>8, <1>9, <2>1 DEF IInv, TasksOK
  <2> QED BY <1>2, <1>9, <1>10, <2>2 DEF IInv, TasksOK
<1> QED BY <1>7, <1>11, <1>12, <1>13, <1>14, <1>15 DEF IInv

\* A relay task ends: its flow leaves the tables and its socket goes, or is left
\* to the driver.
LEMMA TaskEnds ==
  ASSUME IInv, alive, NEW t \in Tasks, t \in Running, NEW n \in Sockets,
         task' = [task EXCEPT ![t] = Gone], socket' = [socket EXCEPT ![task[t].h] = n],
         UNCHANGED <<load, app, rx, relays, alive, faults>>, kick,
         \/ n = Free /\ abandoned' = abandoned
         \/ n.proto = "tcp" /\ socket[task[t].h].proto = "tcp" /\ abandoned' = abandoned \cup {task[t].h},
         tcp_seen' = tcp_seen \ {task[t].key},
         DOMAIN udp_flows' = DOMAIN udp_flows \ {task[t].key},
         \A k \in DOMAIN udp_flows' : udp_flows'[k] = udp_flows[k],
         SocketOK(n), Linked(n, app), SynAckSent(n, app),
         \A k \in Keys : app[k].st = "open" /\ Holds(socket[task[t].h], k, app[k]) => Holds(n, k, app[k])
  PROVE  IInv'
<1> DEFINE h == task[t].h
           k0 == task[t].key
<1>0. /\ task \in [Tasks -> Relay] /\ socket \in [Slots -> Sockets] /\ h \in Slots /\ k0 \in Keys
      /\ h \notin abandoned /\ abandoned \subseteq Slots /\ socket[h].proto = k0.proto
      /\ driver \in [at : {"notify", "sleep", "stopped"}, kicked : BOOLEAN]
      /\ \A u \in Running : u # t => task[u].h # h /\ task[u].key # k0
      /\ Running \subseteq Tasks /\ \A u \in Running : task[u].h \in Slots
  BY DEF IInv, TypeOK, TasksOK, OneOwner, TaskOK, Of, Running
<1>1. /\ socket'[h] = n /\ \A j \in Slots : j # h => socket'[j] = socket[j]
      /\ task'[t] = Gone /\ \A u \in Tasks : u # t => task'[u] = task[u]
      /\ socket' \in [Slots -> Sockets]
      /\ driver'.at = driver.at /\ driver'.kicked
      /\ driver' \in [at : {"notify", "sleep", "stopped"}, kicked : BOOLEAN]
  BY <1>0 DEF kick
<1>2. Running' = Running \ {t}
  BY <1>1 DEF Running, Gone, NoTask
<1>3. \A u \in Running' : u \in Running /\ u # t /\ u \in Tasks /\ task'[u] = task[u]
          /\ task[u].h # h /\ socket'[task[u].h] = socket[task[u].h]
  BY <1>0, <1>1, <1>2
<1> HIDE DEF h, k0
<1>4. TypeOK'
  <2>1. Gone \in Relay
    BY DEF Gone, NoTask, Relay, NoKey
  <2>2. task' \in [Tasks -> Relay]
    BY <1>0, <2>1
  <2>3. Range(udp_flows') \subseteq Slots
    BY DEF IInv, TypeOK, Range
  <2>4. abandoned' \subseteq Slots
    BY <1>0 DEF h
  <2>5. \A j \in Slots : Len(socket'[j].from) <= Meta
    BY <1>1 DEF SocketOK, IInv, TypeOK
  <2> QED BY <1>0, <1>1, <2>2, <2>3, <2>4, <2>5 DEF IInv, TypeOK
<1>5. OneOwner'
  <2>1. \A u \in Running' : Of(u)'.proto = task'[u].key.proto
    BY <1>3 DEF IInv, OneOwner, Of
  <2>2. \A u, v \in Running' : task'[u].h = task'[v].h => u = v
    BY <1>3 DEF IInv, OneOwner
  <2>3. \A j \in abandoned' : socket'[j].proto = "tcp" /\ \A u \in Running' : task'[u].h # j
    BY <1>0, <1>1, <1>3 DEF IInv, OneOwner, h
  <2>4. ASSUME NEW j \in Slots, socket'[j].proto # "free"
        PROVE  j \in abandoned' \/ \E u \in Running' : task'[u].h = j
    <3>1. CASE j = h
      BY <1>1, <2>4, <3>1 DEF h, Free
    <3>2. CASE j # h
      BY <1>0, <1>1, <1>2, <1>3, <2>4, <3>2 DEF IInv, OneOwner, h
    <3> QED BY <3>1, <3>2
  <2> QED BY <2>1, <2>2, <2>3, <2>4 DEF OneOwner
<1>6. FlowTables'
  <2>1. Running' \subseteq relays'
    BY <1>2 DEF IInv, FlowTables
  <2>2. tcp_seen' = {task'[u].key : u \in {v \in Running' : task'[v].key.proto = "tcp"}}
    <3>1. tcp_seen = {task[u].key : u \in {v \in Running : task[v].key.proto = "tcp"}}
      BY DEF IInv, FlowTables
    <3> QED BY <1>0, <1>2, <1>3, <3>1 DEF k0
  <2>3. DOMAIN udp_flows' = {task'[u].key : u \in {v \in Running' : task'[v].key.proto = "udp"}}
    <3>1. DOMAIN udp_flows = {task[u].key : u \in {v \in Running : task[v].key.proto = "udp"}}
      BY DEF IInv, FlowTables
    <3> QED BY <1>0, <1>2, <1>3, <3>1 DEF k0
  <2>4. ASSUME NEW u \in Running', task'[u].key.proto = "udp" PROVE udp_flows'[task'[u].key] = task'[u].h
    <3>1. task'[u].key \in DOMAIN udp_flows'
      BY <2>3, <2>4
    <3> QED BY <1>3, <2>4, <3>1 DEF IInv, FlowTables
  <2> QED BY <2>1, <2>2, <2>3, <2>4 DEF FlowTables
<1>7. ConnectionsOK'
  <2>1. StackOK(socket, app)'
    BY <1>1 DEF IInv, ConnectionsOK, StackOK
  <2>2. \A j \in Slots : SynAckSent(socket'[j], app)
    BY <1>1 DEF IInv, ConnectionsOK
  <2>3. NobodyHangs(socket', app)
    BY <1>1 DEF IInv, ConnectionsOK, NobodyHangs, h
  <2> QED BY <2>1, <2>2, <2>3 DEF ConnectionsOK
<1>8. TasksOK'
  <2>1. \A u \in Running' : TaskOK(task'[u], socket', app, driver.at)
    BY <1>3 DEF IInv, TasksOK, TaskOK
  <2>2. \A u \in Tasks : task'[u].pkt # NoKey => u \in Running'
    BY <1>1, <1>2 DEF IInv, TasksOK, Gone, NoTask
  <2>3. \A u, v \in Running' : task'[u].key = task'[v].key => u = v
    BY <1>3 DEF IInv, TasksOK
  <2> QED BY <1>1, <2>1, <2>2, <2>3 DEF TasksOK
<1>9. Noticed'
  BY <1>1 DEF Noticed
<1>10. SlotsSuffice'
  <2>1. {j \in Slots : socket'[j].proto # "free"} \subseteq {j \in Slots : socket[j].proto # "free"}
    BY <1>1 DEF h, Free
  <2>2. {u \in Tasks : task'[u].st # "none"} = {u \in Tasks : task[u].st # "none"}
    BY <1>1 DEF Running, Gone, NoTask
  <2>3. IsFiniteSet({j \in Slots : socket[j].proto # "free"})
    BY NetstackAssumption, FS_Subset
  <2>4. /\ Cardinality({j \in Slots : socket'[j].proto # "free"}) <= Cardinality({j \in Slots : socket[j].proto # "free"})
        /\ Cardinality({j \in Slots : socket'[j].proto # "free"}) \in Nat
        /\ Cardinality({j \in Slots : socket[j].proto # "free"}) \in Nat
    BY <2>1, <2>3, FS_Subset, FS_CardinalityType
  <2>5. IsFiniteSet({u \in Tasks : task[u].st # "none"})
    BY NetstackAssumption, FS_Subset
  <2>6. Cardinality({u \in Tasks : task[u].st # "none"}) \in Nat
    BY <2>5, FS_CardinalityType
  <2>7. Cardinality({j \in Slots : socket[j].proto # "free"}) <= Cardinality({u \in Tasks : task[u].st # "none"})
    BY DEF IInv, SlotsSuffice
  <2>8. Cardinality({j \in Slots : socket'[j].proto # "free"}) <= Cardinality({u \in Tasks : task[u].st # "none"})
    BY <2>4, <2>6, <2>7
  <2> QED BY <2>2, <2>8 DEF SlotsSuffice
<1>11. DroppedIsEmpty'
  BY <1>1 DEF IInv, DroppedIsEmpty
<1> QED BY <1>4, <1>5, <1>6, <1>7, <1>8, <1>9, <1>10, <1>11 DEF IInv

\* An empty slot satisfies what is asked of sockets.
LEMMA FreeIsFine ==
  /\ Free \in Sockets /\ SocketOK(Free)
  /\ \A ap : Linked(Free, ap) /\ SynAckSent(Free, ap)
<1>1. Free \in Sockets
  BY NetstackAssumption DEF Free, Sockets, States, NoKey
<1>2. SocketOK(Free)
  BY NetstackAssumption DEF Free, SocketOK
<1>3. \A ap : Linked(Free, ap) /\ SynAckSent(Free, ap)
  BY DEF Free, Linked, SynAckSent
<1> QED BY <1>1, <1>2, <1>3

\* The end of relay_tcp: a closed socket is removed, one that was relayed is
\* closed, one that was not is reset.
LEMMA FinishTcpKeeps ==
  ASSUME IInv, NEW t \in Tasks, FinishTcp(t)
  PROVE  IInv'
<1> DEFINE o == task[t]
           s == socket[o.h]
<1>1. t \in Running /\ alive /\ o.st = "end" /\ o.key.proto = "tcp"
  BY DEF Running, At, FinishTcp
<1>2. /\ o \in Relay /\ TaskOK(o, socket, app, driver.at) /\ o.h \in Slots
      /\ s \in Sockets /\ s.proto = "tcp" /\ SocketOK(s) /\ Linked(s, app) /\ SynAckSent(s, app)
  BY <1>1 DEF IInv, TypeOK, TasksOK, TaskOK, OneOwner, ConnectionsOK, StackOK, Of
<1>3. /\ task' = [task EXCEPT ![t] = Gone] /\ kick /\ tcp_seen' = tcp_seen \ {o.key}
      /\ UNCHANGED <<load, app, rx, relays, alive, faults>>
  BY DEF FinishTcp
<1>4. DOMAIN udp_flows' = DOMAIN udp_flows \ {o.key} /\ \A k \in DOMAIN udp_flows' : udp_flows'[k] = udp_flows[k]
  <2>1. o.key \notin DOMAIN udp_flows
    BY <1>1 DEF IInv, FlowTables
  <2> QED BY <2>1 DEF FinishTcp
<1>5. CASE s.st = "closed"
  <2>1. \A k \in Keys : ~Holds(s, k, app[k])
    BY <1>2, <1>5 DEF Holds, TaskOK
  <2>2. socket' = [socket EXCEPT ![o.h] = Free] /\ abandoned' = abandoned
    BY <1>5 DEF FinishTcp, FinishSocket, Of
  <2> QED BY <1>1, <1>3, <1>4, <2>1, <2>2, FreeIsFine, TaskEnds
<1>6. CASE s.st # "closed" /\ o.connected
  <2> DEFINE n == close(s)
  <2>1. s.st \notin {"listen", "synrcvd"}
    BY <1>1, <1>2, <1>6 DEF TaskOK
  <2>2. n \in Sockets /\ n.proto = "tcp" /\ SocketOK(n) /\ SynAckSent(n, app)
    BY <1>2, <2>1 DEF Sockets, States, close, SocketOK, SynAckSent
  <2>3. Linked(n, app)
    BY <1>1, <1>2, <1>6 DEF Sockets, close, Linked, TaskOK, SynAckSent
  <2>4. \A k \in Keys : Holds(s, k, app[k]) => Holds(n, k, app[k])
    BY <1>2, <2>1 DEF Sockets, close, Holds
  <2>5. socket' = [socket EXCEPT ![o.h] = n] /\ abandoned' = abandoned \cup {o.h}
    BY <1>6 DEF FinishTcp, FinishSocket, Of
  <2> HIDE DEF n
  <2> QED BY <1>1, <1>2, <1>3, <1>4, <2>2, <2>3, <2>4, <2>5, TaskEnds
<1>7. CASE s.st # "closed" /\ ~o.connected
  <2> DEFINE n == abort(s)
  <2>1. n \in Sockets
    BY <1>2 DEF Sockets, States, abort
  <2>2. n.proto = "tcp" /\ SocketOK(n) /\ SynAckSent(n, app)
    BY <1>2 DEF Sockets, abort, SocketOK, SynAckSent
  <2>3. Linked(n, app)
    BY <1>2 DEF Sockets, abort, Linked, SynAckSent
  <2>4. \A k \in Keys : Holds(s, k, app[k]) => Holds(n, k, app[k])
    BY <1>2, KeyFacts DEF Sockets, abort, Holds
  <2>5. socket' = [socket EXCEPT ![o.h] = n] /\ abandoned' = abandoned \cup {o.h}
    BY <1>7 DEF FinishTcp, FinishSocket, Of
  <2> HIDE DEF n
  <2> QED BY <1>1, <1>2, <1>3, <1>4, <2>1, <2>2, <2>3, <2>4, <2>5, TaskEnds
<1> QED BY <1>5, <1>6, <1>7

\* The end of a UDP relay.
LEMMA FinishUdpKeeps ==
  ASSUME IInv, NEW t \in Tasks, FinishUdp(t)
  PROVE  IInv'
<1> DEFINE o == task[t]
<1>1. t \in Running /\ alive /\ o.key.proto = "udp"
  BY DEF Running, At, FinishUdp
<1>2. /\ task' = [task EXCEPT ![t] = Gone] /\ kick /\ socket' = [socket EXCEPT ![o.h] = Free]
      /\ UNCHANGED <<load, app, rx, tcp_seen, abandoned, relays, alive, faults>>
  BY DEF FinishUdp
<1>3. DOMAIN udp_flows' = DOMAIN udp_flows \ {o.key} /\ \A k \in DOMAIN udp_flows' : udp_flows'[k] = udp_flows[k]
  BY DEF FinishUdp, WithoutFlow
<1>4. tcp_seen' = tcp_seen \ {o.key}
  <2>1. o.key \notin tcp_seen
    BY <1>1 DEF IInv, FlowTables
  <2> QED BY <1>2, <2>1
<1>5. \A k \in Keys : ~Holds(socket[o.h], k, app[k])
  <2>1. SocketOK(socket[o.h]) /\ socket[o.h].proto = "udp"
    BY <1>1 DEF IInv, TasksOK, TaskOK, OneOwner, ConnectionsOK, StackOK, Of
  <2> QED BY <2>1, KeyFacts DEF Holds, SocketOK
<1> QED BY <1>1, <1>2, <1>3, <1>4, <1>5, FreeIsFine, TaskEnds

\* The driver wakes who waits.
LEMMA NotifyKeeps ==
  ASSUME IInv, DriverNotify
  PROVE  IInv'
<1>1. /\ driver.at = "notify" /\ driver' = [driver EXCEPT !.at = "sleep"]
      /\ task' = [t \in Tasks |-> IF Registered(t) THEN [task[t] EXCEPT !.woken = TRUE] ELSE task[t]]
      /\ relays' = relays \cap Running
      /\ UNCHANGED <<load, app, rx, socket, tcp_seen, udp_flows, abandoned, alive, faults>>
  BY DEF DriverNotify, stack
<1>2. task \in [Tasks -> Relay] /\ Running \subseteq Tasks
  BY DEF IInv, TypeOK, Running
<1>3. ASSUME NEW t \in Tasks
      PROVE  /\ task'[t].st = task[t].st /\ task'[t].key = task[t].key /\ task'[t].h = task[t].h
             /\ task'[t].pkt = task[t].pkt /\ task'[t].connected = task[t].connected
             /\ task[t].st \in {"await", "parked"} => task'[t].woken
             /\ task'[t] \in Relay
  BY <1>1, <1>2 DEF Registered, Relay
<1>4. Running' = Running
  BY <1>3 DEF Running
<1>5. driver' \in [at : {"notify", "sleep", "stopped"}, kicked : BOOLEAN]
      /\ driver'.at = "sleep" /\ driver'.kicked = driver.kicked
  BY <1>1 DEF IInv, TypeOK
<1>6. TypeOK'
  <2>1. task' \in [Tasks -> Relay]
    BY <1>1, <1>3
  <2> QED BY <1>1, <1>5, <2>1 DEF IInv, TypeOK
<1>7. OneOwner'
  BY <1>1, <1>2, <1>3, <1>4 DEF IInv, OneOwner, Of
<1>8. FlowTables'
  <2>1. Running' \subseteq relays'
    BY <1>1, <1>4 DEF IInv, FlowTables
  <2>2. ASSUME NEW p PROVE {task'[t].key : t \in {u \in Running' : task'[u].key.proto = p}}
                             = {task[t].key : t \in {u \in Running : task[u].key.proto = p}}
    BY <1>2, <1>3, <1>4
  <2>3. \A t \in Running : task'[t].key = task[t].key /\ task'[t].h = task[t].h
    BY <1>2, <1>3
  <2> QED BY <1>1, <1>4, <2>1, <2>2, <2>3 DEF IInv, FlowTables
<1>9. ConnectionsOK'
  BY <1>1 DEF IInv, ConnectionsOK, StackOK
<1>10. TasksOK'
  <2>1. ASSUME NEW t \in Running PROVE TaskOK(task'[t], socket, app, driver'.at)
    <3>1. TaskOK(task[t], socket, app, driver.at) /\ t \in Tasks
      BY <1>2 DEF IInv, TasksOK
    <3> QED BY <1>3, <3>1 DEF TaskOK
  <2>2. \A t \in Running' : TaskOK(task[t], socket, app, driver.at)'
    BY <1>1, <1>4, <2>1
  <2>3. \A t \in Tasks : task'[t].pkt # NoKey => t \in Running'
    BY <1>3, <1>4 DEF IInv, TasksOK
  <2>4. \A t, u \in Running' : task'[t].key = task'[u].key => t = u
    BY <1>2, <1>3, <1>4 DEF IInv, TasksOK
  <2> QED BY <2>2, <2>3, <2>4 DEF TasksOK
<1>11. Noticed'
  BY <1>1, <1>5 DEF IInv, Noticed
<1>12. SlotsSuffice'
  <2>1. {t \in Tasks : task'[t].st # "none"} = {t \in Tasks : task[t].st # "none"}
    BY <1>3
  <2> QED BY <1>1, <2>1 DEF IInv, SlotsSuffice
<1>13. DroppedIsEmpty'
  BY <1>1, <1>4, <1>5 DEF IInv, DroppedIsEmpty
<1> QED BY <1>6, <1>7, <1>8, <1>9, <1>10, <1>11, <1>12, <1>13 DEF IInv

\* The driver polls and removes the abandoned sockets that are closed.
LEMMA PollKeeps ==
  ASSUME IInv, DriverPoll
  PROVE  IInv'
<1> DEFINE z == poll(socket)
           closed == {h \in abandoned : z.socket[h].st = "closed"}
<1>1. /\ socket' = [h \in Slots |-> IF h \in closed THEN Free ELSE z.socket[h]]
      /\ abandoned' = abandoned \ closed /\ app' = z.app /\ rx' = <<>>
      /\ driver' = [at |-> "notify", kicked |-> FALSE] /\ driver.at = "sleep"
      /\ UNCHANGED <<load, tcp_seen, udp_flows, task, relays, alive, faults>>
  BY DEF DriverPoll, poll_and_retain
<1>2. alive
  BY <1>1 DEF IInv, DroppedIsEmpty
<1>3. z \in Moment /\ \A h \in Slots : Sent(z, h)
  BY <1>2, Polled DEF IInv, ConnectionsOK
<1>4. /\ z.socket \in [Slots -> Sockets] /\ z.app \in [Keys -> Apps]
      /\ StackOK(z.socket, z.app) /\ NobodyHangs(z.socket, z.app)
      /\ \A h \in Slots : Follows(socket[h], z.socket[h])
      /\ \A k \in Keys : SameLife(app[k], z.app[k])
  BY <1>3 DEF Moment
<1> HIDE DEF z
<1>5. /\ abandoned \subseteq Slots /\ closed \subseteq abandoned
      /\ \A h \in closed : z.socket[h].st = "closed"
      /\ \A h \in abandoned \ closed : z.socket[h].st # "closed"
  BY DEF IInv, TypeOK
<1> HIDE DEF closed
<1>6. /\ \A h \in Slots : h \in closed => socket'[h] = Free
      /\ \A h \in Slots : h \notin closed => socket'[h] = z.socket[h]
  BY <1>1
<1>7. /\ Running' = Running /\ Running \subseteq Tasks /\ task' = task
      /\ \A t \in Running : task[t].h \in Slots /\ task[t].h \notin abandoned
  BY <1>1 DEF Running, IInv, TasksOK, TaskOK, OneOwner
<1>8. TypeOK'
  <2>1. socket' \in [Slots -> Sockets]
    BY <1>1, <1>4, FreeIsFine
  <2>2. \A h \in Slots : Len(socket'[h].from) <= Meta
    BY <1>4, <1>6, FreeIsFine DEF StackOK, SocketOK
  <2>3. rx' \in Seq(Packet) /\ Len(rx') <= MaxRx
    BY <1>1, NetstackAssumption
  <2>4. driver' \in [at : {"notify", "sleep", "stopped"}, kicked : BOOLEAN]
    BY <1>1
  <2> QED BY <1>1, <1>4, <1>5, <2>1, <2>2, <2>3, <2>4 DEF IInv, TypeOK
<1>9. OneOwner'
  <2>1. \A h \in Slots : h \notin closed => socket'[h].proto = socket[h].proto
    BY <1>4, <1>6 DEF Follows
  <2>2. \A t \in Running : task[t].h \notin closed
    BY <1>5, <1>7
  <2>3. \A h \in closed : socket'[h].proto = "free"
    BY <1>5, <1>6 DEF Free
  <2>4. \A t \in Running' : Of(t)'.proto = task'[t].key.proto
    BY <1>7, <2>1, <2>2 DEF IInv, OneOwner, Of
  <2>5. \A t, u \in Running' : task'[t].h = task'[u].h => t = u
    BY <1>7 DEF IInv, OneOwner
  <2>6. \A h \in abandoned' : socket'[h].proto = "tcp" /\ \A t \in Running' : task'[t].h # h
    BY <1>1, <1>5, <1>7, <2>1 DEF IInv, OneOwner
  <2>7. \A h \in Slots : socket'[h].proto # "free" => h \in abandoned' \/ \E t \in Running' : task'[t].h = h
    <3> SUFFICES ASSUME NEW h \in Slots, socket'[h].proto # "free"
                 PROVE  h \in abandoned' \/ \E t \in Running' : task'[t].h = h
      OBVIOUS
    <3>1. h \notin closed /\ socket[h].proto # "free"
      BY <2>1, <2>3
    <3>2. h \in abandoned \/ \E t \in Running : task[t].h = h
      BY <1>2, <3>1 DEF IInv, OneOwner
    <3> QED BY <1>1, <1>7, <3>1, <3>2
  <2> QED BY <2>4, <2>5, <2>6, <2>7 DEF OneOwner
<1>10. FlowTables'
  BY <1>1, <1>7, SameTables DEF IInv
<1>11. ConnectionsOK'
  <2>1. StackOK(socket, app)'
    <3>1. \A h \in Slots : SocketOK(socket'[h]) /\ Linked(socket'[h], app')
      BY <1>1, <1>4, <1>6, FreeIsFine DEF StackOK
    <3>2. Len(rx') = 0
      BY <1>1
    <3> QED BY <1>1, <1>4, <3>1, <3>2 DEF StackOK
  <2>2. \A h \in Slots : SynAckSent(socket'[h], app')
    BY <1>1, <1>3, <1>6, FreeIsFine DEF Sent
  <2>3. NobodyHangs(socket', app')
    <3> SUFFICES ASSUME NEW k \in Keys, app'[k].st = "open", ~app'[k].dark
                 PROVE  \E h \in Slots : Holds(socket'[h], k, app'[k])
      BY DEF NobodyHangs
    <3>1. PICK h \in Slots : Holds(z.socket[h], k, z.app[k])
      BY <1>1, <1>4 DEF NobodyHangs
    <3>2. h \notin closed
      BY <1>3, <1>5, <3>1 DEF Holds, Sent
    <3> QED BY <1>1, <1>6, <3>1, <3>2
  <2> QED BY <2>1, <2>2, <2>3 DEF ConnectionsOK
<1>12. TasksOK'
  <2>1. ASSUME NEW t \in Running PROVE TaskOK(task[t], socket', app', driver'.at)
    <3> DEFINE h == task[t].h
    <3>1. TaskOK(task[t], socket, app, driver.at)
      BY DEF IInv, TasksOK
    <3>2. h \in Slots /\ socket'[h] = z.socket[h] /\ Follows(socket[h], socket'[h])
      BY <1>4, <1>5, <1>6, <1>7
    <3>3. socket'[h].peer # NoKey => socket'[h].peer \in Keys
      BY <1>4, <3>2 DEF Sockets
    <3>4. \A k \in Keys : app'[k].inc = app[k].inc /\ app'[k].served = app[k].served
      BY <1>1, <1>4 DEF SameLife
    <3>5. driver'.at = "notify"
      BY <1>1
    <3> QED BY <3>1, <3>2, <3>3, <3>4, <3>5 DEF TaskOK, Follows
  <2> QED BY <1>7, <2>1 DEF IInv, TasksOK
<1>13. Noticed'
  <2>1. \A h \in Slots : socket'[h].tx = 0 /\ ~socket'[h].rst
    BY <1>3, <1>6 DEF Sent, Free
  <2>2. \A h \in abandoned' : socket'[h].st # "closed"
    BY <1>1, <1>5, <1>6
  <2> QED BY <1>1, <2>1, <2>2 DEF Noticed
<1>14. SlotsSuffice'
  <2> DEFINE A == {h \in Slots : socket'[h].proto # "free"}
             B == {h \in Slots : socket[h].proto # "free"}
             C == {t \in Tasks : task[t].st # "none"}
  <2>1. A \subseteq B
    BY <1>4, <1>6 DEF Follows, Free
  <2>2. IsFiniteSet(B) /\ IsFiniteSet(C)
    BY NetstackAssumption, FS_Subset
  <2>3. Cardinality(B) <= Cardinality(C)
    BY DEF IInv, SlotsSuffice
  <2> HIDE DEF A, B, C
  <2>4. Cardinality(A) <= Cardinality(B) /\ Cardinality(A) \in Nat /\ Cardinality(B) \in Nat /\ Cardinality(C) \in Nat
    BY <2>1, <2>2, FS_Subset, FS_CardinalityType
  <2>5. Cardinality(A) <= Cardinality(C)
    BY <2>3, <2>4
  <2> QED BY <1>7, <2>5 DEF SlotsSuffice, A, C
<1>15. DroppedIsEmpty'
  BY <1>1, <1>2 DEF DroppedIsEmpty
<1> QED BY <1>8, <1>9, <1>10, <1>11, <1>12, <1>13, <1>14, <1>15 DEF IInv

\* Nothing is left when the Netstack is dropped.
LEMMA DropKeeps ==
  ASSUME IInv, NetstackDrop
  PROVE  IInv'
<1>1. /\ alive' = FALSE /\ driver' = [at |-> "stopped", kicked |-> FALSE]
      /\ task' = [t \in Tasks |-> IF t \in relays THEN Gone ELSE task[t]]
      /\ relays' = {} /\ rx' = <<>> /\ tcp_seen' = {} /\ udp_flows' = [k \in {} |-> 0] /\ abandoned' = {}
      /\ UNCHANGED <<load, app, faults>>
  BY DEF NetstackDrop
<1>2. socket' = [h \in Slots |-> Free]
  <2>1. Running \ relays = {}
    BY DEF IInv, FlowTables
  <2> QED BY <2>1 DEF NetstackDrop
<1>3. Running' = {}
  BY <1>1 DEF Running, IInv, FlowTables, Gone, NoTask
<1>4. \A t \in Tasks : task[t].st # "none" => task'[t].st # "none"
  BY <1>1 DEF Gone, NoTask
<1>5. TypeOK'
  <2>1. Gone \in Relay
    BY DEF Gone, NoTask, Relay
  <2>2. task' \in [Tasks -> Relay]
    BY <1>1, <2>1 DEF IInv, TypeOK
  <2>3. socket' \in [Slots -> Sockets] /\ \A h \in Slots : Len(socket'[h].from) <= Meta
    BY <1>2, FreeIsFine, NetstackAssumption DEF Free
  <2>4. rx' \in Seq(Packet) /\ Len(rx') <= MaxRx
    BY <1>1, NetstackAssumption
  <2>5. DOMAIN udp_flows' \subseteq Keys /\ Range(udp_flows') \subseteq Slots
    BY <1>1 DEF Range
  <2> QED BY <1>1, <2>2, <2>3, <2>4, <2>5 DEF IInv, TypeOK
<1>6. OneOwner' /\ FlowTables'
  BY <1>1, <1>3 DEF OneOwner, FlowTables
<1>7. ConnectionsOK'
  <2>1. \A h \in Slots : socket'[h] = Free
    BY <1>2
  <2>2. Len(rx') = 0
    BY <1>1
  <2> QED BY <1>1, <2>1, <2>2, FreeIsFine DEF IInv, ConnectionsOK, StackOK
<1>8. TasksOK'
  <2>1. \A t \in Tasks : task'[t].pkt = NoKey
    BY <1>1 DEF IInv, TasksOK, FlowTables, Gone, NoTask
  <2> QED BY <1>3, <2>1 DEF TasksOK
<1>9. Noticed' /\ DroppedIsEmpty'
  BY <1>1, <1>2, <1>3 DEF Noticed, DroppedIsEmpty
<1>10. SlotsSuffice'
  <2> DEFINE C == {t \in Tasks : task'[t].st # "none"}
  <2>1. {h \in Slots : socket'[h].proto # "free"} = {}
    BY <1>2 DEF Free
  <2>2. IsFiniteSet(C)
    BY NetstackAssumption, FS_Subset
  <2>3. Cardinality({}) = 0 /\ Cardinality(C) \in Nat
    BY <2>2, FS_EmptySet, FS_CardinalityType
  <2>4. Cardinality({}) <= Cardinality(C)
    BY <2>3
  <2> QED BY <2>1, <2>4 DEF SlotsSuffice
<1> QED BY <1>5, <1>6, <1>7, <1>8, <1>9, <1>10 DEF IInv

\* Netstack::new establishes the invariant.
LEMMA InitEstablishesIInv ==
  ASSUME Init
  PROVE  IInv
<1>1. /\ load \in Loads /\ app = [k \in Keys |-> NoApp] /\ rx = <<>>
      /\ socket = [h \in Slots |-> Free] /\ tcp_seen = {} /\ udp_flows = [k \in {} |-> 0] /\ abandoned = {}
      /\ driver = [at |-> "sleep", kicked |-> TRUE] /\ task = [t \in Tasks |-> NoTask]
      /\ relays = {} /\ alive = TRUE /\ faults = 0
  BY DEF Init
<1>2. Running = {}
  BY <1>1 DEF Running, NoTask
<1>3. TypeOK
  <2>1. NoTask \in Relay /\ NoApp \in Apps
    BY DEF NoTask, Relay, NoApp, Apps
  <2>2. socket \in [Slots -> Sockets] /\ \A h \in Slots : Len(socket[h].from) <= Meta
    BY <1>1, FreeIsFine, NetstackAssumption DEF Free
  <2>3. rx \in Seq(Packet) /\ Len(rx) <= MaxRx
    BY <1>1, NetstackAssumption
  <2>4. DOMAIN udp_flows \subseteq Keys /\ Range(udp_flows) \subseteq Slots
    BY <1>1 DEF Range
  <2> QED BY <1>1, <2>1, <2>2, <2>3, <2>4 DEF TypeOK
<1>4. OneOwner /\ FlowTables
  BY <1>1, <1>2 DEF OneOwner, FlowTables, Free
<1>5. ConnectionsOK
  <2>1. \A h \in Slots : socket[h] = Free
    BY <1>1
  <2>2. Len(rx) = 0
    BY <1>1
  <2>3. EofServed(app) /\ NobodyHangs(socket, app)
    BY <1>1 DEF EofServed, NobodyHangs, NoApp
  <2> QED BY <2>1, <2>2, <2>3, FreeIsFine DEF ConnectionsOK, StackOK
<1>6. TasksOK
  BY <1>1, <1>2 DEF TasksOK, NoTask
<1>7. Noticed /\ DroppedIsEmpty
  BY <1>1, <1>2 DEF Noticed, DroppedIsEmpty
<1>8. SlotsSuffice
  <2>1. {h \in Slots : socket[h].proto # "free"} = {} /\ {t \in Tasks : task[t].st # "none"} = {}
    BY <1>1 DEF Free, NoTask
  <2>2. Cardinality({}) <= Cardinality({})
    BY FS_EmptySet
  <2> QED BY <2>1, <2>2 DEF SlotsSuffice
<1> QED BY <1>3, <1>4, <1>5, <1>6, <1>7, <1>8 DEF IInv

\* What an application may say with a packet: it opens its next connection, or
\* it speaks of the one it has.
Speaks(a, b, flag, proto) ==
    /\ flag \in {"syn", "ack", "fin", "rst", "data"} /\ (flag = "data" => proto = "udp")
    /\ flag \in {"ack", "fin"} => b.st \notin {"idle", "syn"}
    /\ flag = "rst" => b.st = "reset"
    /\ \/ b.st = "syn" /\ b.inc = a.inc + 1
       \/ /\ SameLife(a, b)
          /\ b.st = a.st \/ (b.st = "reset" /\ a.st # "idle") \/ (b.st = "done" /\ a.st = "eof")

\* What an application says fits its connections and the packets under way.
LEMMA SpeaksKeeps ==
  ASSUME IInv, NEW k \in Keys, NEW b \in Apps, NEW flag, Speaks(app[k], b, flag, k.proto),
         NEW ap, ap = [app EXCEPT ![k] = b]
  PROVE  /\ \A h \in Slots : Linked(socket[h], ap) /\ SynAckSent(socket[h], ap)
         /\ \A i \in 1 .. Len(rx) : PacketOK(rx[i], ap)
         /\ PacketOK([key |-> k, flag |-> flag, inc |-> b.inc], ap)
         /\ EofServed(ap) /\ (alive => NobodyHangs(socket, ap))
         /\ \A r : TaskOK(r, socket, app, driver.at) => TaskOK(r, socket, ap, driver.at)
<1>1. /\ app \in [Keys -> Apps] /\ socket \in [Slots -> Sockets] /\ rx \in Seq(Packet)
      /\ ap[k] = b /\ \A j \in Keys : j # k => ap[j] = app[j]
  BY DEF IInv, TypeOK
<1>2. app[k].inc \in Nat /\ b.inc \in Nat
  BY <1>1 DEF Apps
<1>3. ASSUME NEW h \in Slots PROVE Linked(socket[h], ap) /\ SynAckSent(socket[h], ap)
  <2>1. Linked(socket[h], app) /\ SynAckSent(socket[h], app) /\ socket[h] \in Sockets
    BY <1>1 DEF IInv, ConnectionsOK, StackOK
  <2>2. socket[h].inc \in Nat /\ (socket[h].peer # NoKey => socket[h].peer \in Keys)
    BY <2>1 DEF Sockets
  <2>3. CASE socket[h].peer = k
    BY <1>1, <1>2, <2>1, <2>2, <2>3 DEF Linked, SynAckSent, Speaks, SameLife
  <2>4. CASE socket[h].peer # k
    BY <1>1, <2>1, <2>2, <2>4 DEF Linked, SynAckSent
  <2> QED BY <2>3, <2>4
<1>4. ASSUME NEW i \in 1 .. Len(rx) PROVE PacketOK(rx[i], ap)
  <2>1. PacketOK(rx[i], app) /\ rx[i] \in Packet
    BY <1>1 DEF IInv, ConnectionsOK, StackOK
  <2>2. rx[i].inc \in Nat /\ rx[i].key \in Keys
    BY <2>1 DEF Packet
  <2>3. CASE rx[i].key = k
    BY <1>1, <1>2, <2>1, <2>2, <2>3 DEF PacketOK, Speaks, SameLife
  <2>4. CASE rx[i].key # k
    BY <1>1, <2>1, <2>2, <2>4 DEF PacketOK
  <2> QED BY <2>3, <2>4
<1>5. PacketOK([key |-> k, flag |-> flag, inc |-> b.inc], ap)
  BY <1>1, <1>2 DEF PacketOK, Speaks
<1>6. EofServed(ap)
  BY <1>1 DEF IInv, ConnectionsOK, StackOK, EofServed, Speaks, SameLife
<1>7. ASSUME alive PROVE NobodyHangs(socket, ap)
  <2> SUFFICES ASSUME NEW j \in Keys, ap[j].st = "open", ~ap[j].dark
               PROVE  \E h \in Slots : Holds(socket[h], j, ap[j])
    BY DEF NobodyHangs
  <2>1. app[j].st = "open" /\ ~app[j].dark /\ app[j].inc = ap[j].inc
    BY <1>1 DEF Speaks, SameLife
  <2>2. PICK h \in Slots : Holds(socket[h], j, app[j])
    BY <1>7, <2>1 DEF IInv, ConnectionsOK, NobodyHangs
  <2> QED BY <2>1, <2>2 DEF Holds
<1>8. ASSUME NEW r, TaskOK(r, socket, app, driver.at) PROVE TaskOK(r, socket, ap, driver.at)
  <2> DEFINE s == socket[r.h]
  <2>1. r.h \in Slots /\ s \in Sockets /\ Linked(s, app)
    BY <1>1, <1>8 DEF TaskOK, IInv, ConnectionsOK, StackOK
  <2>2. s.inc \in Nat /\ (s.peer # NoKey => s.peer \in Keys)
    BY <2>1 DEF Sockets
  <2>3. s.peer # NoKey /\ s.inc = ap[s.peer].inc => s.inc = app[s.peer].inc /\ app[s.peer].served = ap[s.peer].served
    <3>1. CASE s.peer = k
      BY <1>1, <1>2, <2>1, <2>2, <3>1 DEF Linked, Speaks, SameLife
    <3>2. CASE s.peer # k
      BY <1>1, <2>2, <3>2
    <3> QED BY <3>1, <3>2
  <2> QED BY <1>8, <2>3 DEF TaskOK
<1> QED BY <1>3, <1>4, <1>5, <1>6, <1>7, <1>8

\* There is a free slot for a task that has not been spawned.
LEMMA SlotIsLeft ==
  ASSUME IInv, \E t \in Tasks : task[t].st = "none"
  PROVE  \E h \in Slots : socket[h].proto = "free"
<1> DEFINE A == {h \in Slots : socket[h].proto # "free"}
           C == {t \in Tasks : task[t].st # "none"}
<1>1. A \in SUBSET Slots /\ C \in SUBSET Tasks /\ C # Tasks
  OBVIOUS
<1>2. IsFiniteSet(Slots) /\ IsFiniteSet(Tasks) /\ Cardinality(Slots) >= Cardinality(Tasks)
  BY NetstackAssumption
<1>3. Cardinality(A) <= Cardinality(C)
  BY DEF IInv, SlotsSuffice
<1> SUFFICES ASSUME A = Slots PROVE FALSE
  OBVIOUS
<1> HIDE DEF A, C
<1>4. Cardinality(C) <= Cardinality(Tasks) /\ Cardinality(C) # Cardinality(Tasks)
  BY <1>1, <1>2, FS_Subset
<1>5. Cardinality(C) \in Nat /\ Cardinality(Tasks) \in Nat /\ Cardinality(Slots) \in Nat
  BY <1>1, <1>2, FS_Subset, FS_CardinalityType
<1> QED BY <1>2, <1>3, <1>4, <1>5

\* inject: the packet is queued, and the first one of a flow makes its socket
\* and its task.
LEMMA DemuxKeeps ==
  ASSUME IInv, NEW k \in Keys, NEW b \in Apps, NEW flag, Speaks(app[k], b, flag, k.proto),
         app' = [app EXCEPT ![k] = b], faults' \in Nat, UNCHANGED <<load, alive>>,
         demux_and_enqueue([key |-> k, flag |-> flag, inc |-> b.inc])
  PROVE  IInv'
<1> DEFINE p == [key |-> k, flag |-> flag, inc |-> b.inc]
<1>1. /\ alive /\ Len(rx) < MaxRx /\ rx' = Append(rx, p)
      /\ driver' = [driver EXCEPT !.kicked = TRUE]
  BY DEF demux_and_enqueue, kick
<1>2. /\ socket \in [Slots -> Sockets] /\ task \in [Tasks -> Relay] /\ rx \in Seq(Packet)
      /\ driver \in [at : {"notify", "sleep", "stopped"}, kicked : BOOLEAN]
      /\ Running \subseteq Tasks
  BY DEF IInv, TypeOK, Running
<1>3. /\ driver'.at = driver.at /\ driver'.kicked
      /\ driver' \in [at : {"notify", "sleep", "stopped"}, kicked : BOOLEAN]
  BY <1>1, <1>2
<1>4. p \in Packet
  BY DEF Packet, Apps, Speaks
<1>5. rx' \in Seq(Packet) /\ Len(rx') <= MaxRx
  BY <1>1, <1>2, <1>4, NetstackAssumption
<1>6. app' \in [Keys -> Apps]
  BY DEF IInv, TypeOK
<1>7. /\ \A h \in Slots : Linked(socket[h], app') /\ SynAckSent(socket[h], app')
      /\ \A i \in 1 .. Len(rx) : PacketOK(rx[i], app')
      /\ PacketOK(p, app')
      /\ EofServed(app') /\ NobodyHangs(socket, app')
      /\ \A r : TaskOK(r, socket, app, driver.at) => TaskOK(r, socket, app', driver.at)
  BY <1>1, SpeaksKeeps
<1>8. \A i \in 1 .. Len(rx') : PacketOK(rx'[i], app')
  <2>1. ASSUME NEW i \in 1 .. Len(rx') PROVE rx'[i] = p \/ (i \in 1 .. Len(rx) /\ rx'[i] = rx[i])
    BY <1>1, <1>2
  <2> HIDE DEF p
  <2> QED BY <1>7, <2>1
<1>9. Noticed'
  BY <1>3 DEF Noticed
<1>10. CASE UNCHANGED <<stack, task, relays>>
  <2>1. UNCHANGED <<socket, tcp_seen, udp_flows, abandoned, task, relays>> /\ Running' = Running
    BY <1>10 DEF stack, Running
  <2>2. TypeOK'
    BY <1>3, <1>5, <1>6, <2>1 DEF IInv, TypeOK
  <2>3. OneOwner' /\ FlowTables' /\ SlotsSuffice'
    BY <2>1 DEF IInv, OneOwner, FlowTables, SlotsSuffice, Of
  <2>4. ConnectionsOK'
    BY <1>7, <1>8, <2>1 DEF IInv, ConnectionsOK, StackOK
  <2>5. TasksOK'
    BY <1>3, <1>7, <2>1 DEF IInv, TasksOK
  <2>6. DroppedIsEmpty'
    BY <1>1, <1>3 DEF IInv, DroppedIsEmpty
  <2> QED BY <1>9, <2>2, <2>3, <2>4, <2>5, <2>6 DEF IInv
<1>11. CASE /\ IsNew(p) /\ \E t \in Tasks : task[t].st = "none"
            /\ LET h == add(p.key)
               IN  /\ socket' = [socket EXCEPT ![h] = NewSocket(p.key)]
                   /\ tcp_seen' = IF p.key.proto = "tcp" THEN tcp_seen \cup {p.key} ELSE tcp_seen
                   /\ udp_flows' = IF p.key.proto = "udp" THEN [j \in DOMAIN udp_flows \cup {p.key} |-> IF j = p.key THEN h ELSE udp_flows[j]] ELSE udp_flows
                   /\ spawn(p.key, h)
            /\ UNCHANGED abandoned
  <2> DEFINE h == add(k)
             t == Min({u \in Tasks : task[u].st = "none"})
             n == NewSocket(k)
             r == [NoTask EXCEPT !.key = k, !.h = h, !.st = IF k.proto = "tcp" THEN "enable" ELSE "route"]
  <2>1. /\ socket' = [socket EXCEPT ![h] = n] /\ task' = [task EXCEPT ![t] = r]
        /\ relays' = relays \cup {t} /\ abandoned' = abandoned
        /\ tcp_seen' = IF k.proto = "tcp" THEN tcp_seen \cup {k} ELSE tcp_seen
        /\ udp_flows' = IF k.proto = "udp"
                        THEN [j \in DOMAIN udp_flows \cup {k} |-> IF j = k THEN h ELSE udp_flows[j]]
                        ELSE udp_flows
    BY <1>11 DEF spawn
  <2>2. h \in Slots /\ socket[h].proto = "free" /\ h \in Nat
    <3> DEFINE F == {j \in Slots : socket[j].proto = "free"}
    <3>1. F # {} /\ F \in SUBSET Nat
      BY <1>11, SlotIsLeft, NetstackAssumption
    <3>2. Min(F) \in F
      <4> HIDE DEF F
      <4> QED BY <3>1, MinIsElement
    <3> QED BY <3>2, NetstackAssumption DEF add
  <2>3. t \in Tasks /\ task[t].st = "none"
    <3> DEFINE F == {u \in Tasks : task[u].st = "none"}
    <3>1. F # {} /\ F \in SUBSET Nat
      BY <1>11, NetstackAssumption
    <3>2. Min(F) \in F
      <4> HIDE DEF F
      <4> QED BY <3>1, MinIsElement
    <3> QED BY <3>2
  <2> HIDE DEF h, t
  <2>4. k.proto \in {"tcp", "udp"} /\ k # NoKey
    BY NetstackAssumption, KeyFacts
  <2>5. /\ n \in Sockets /\ n.proto = k.proto /\ n.dst = k.dst /\ n.st = "listen" /\ n.peer = NoKey /\ ~n.rst
        /\ n.from = <<>> /\ n.tx = 0
    <3>1. n \in Sockets
      BY <2>4, FreeIsFine DEF NewSocket, Sockets, States
    <3> QED BY <3>1 DEF NewSocket, Free
  <2>6. /\ r \in Relay /\ r.key = k /\ r.h = h /\ r.pkt = NoKey /\ ~r.connected
        /\ r.st = IF k.proto = "tcp" THEN "enable" ELSE "route"
    BY <2>2, <2>4 DEF NoTask, Relay
  <2> HIDE DEF n, r
  <2>7. /\ socket'[h] = n /\ \A j \in Slots : j # h => socket'[j] = socket[j]
        /\ task'[t] = r /\ \A u \in Tasks : u # t => task'[u] = task[u]
        /\ socket' \in [Slots -> Sockets] /\ task' \in [Tasks -> Relay]
    BY <1>2, <2>1, <2>2, <2>3, <2>5, <2>6
  <2>8. Running' = Running \cup {t} /\ t \notin Running
    BY <2>3, <2>4, <2>6, <2>7 DEF Running
  <2>9. \A u \in Running : /\ u # t /\ u \in Tasks /\ task'[u] = task[u] /\ task[u].h \in Slots /\ task[u].h # h
                            /\ socket'[task[u].h] = socket[task[u].h]
    <3>1. \A u \in Running : task[u].h \in Slots /\ task[u].key \in Keys /\ socket[task[u].h].proto = task[u].key.proto
      BY DEF IInv, TasksOK, TaskOK, OneOwner, Of
    <3>2. \A u \in Running : task[u].h # h
      BY <2>2, <3>1, NetstackAssumption
    <3> QED BY <1>2, <2>7, <2>8, <3>1, <3>2
  <2>10. \A u \in Running : task[u].key # k
    BY <1>1, <1>11, <2>4 DEF IsNew, IInv, FlowTables
  <2>11. SocketOK(n) /\ \A ap : Linked(n, ap) /\ SynAckSent(n, ap)
    BY <2>4, <2>5, NetstackAssumption DEF SocketOK, Linked, SynAckSent
  <2>12. TypeOK'
    <3>1. tcp_seen' \subseteq Keys /\ DOMAIN udp_flows' \subseteq Keys
      BY <2>1 DEF IInv, TypeOK
    <3>2. Range(udp_flows') \subseteq Slots
      <4>1. CASE k.proto = "udp"
        <5>1. \A j \in DOMAIN udp_flows' : udp_flows'[j] \in Slots
          BY <2>1, <2>2, <4>1 DEF IInv, TypeOK, Range
        <5> QED BY <5>1 DEF Range
      <4>2. CASE k.proto # "udp"
        BY <2>1, <4>2 DEF IInv, TypeOK
      <4> QED BY <4>1, <4>2
    <3>3. \A j \in Slots : Len(socket'[j].from) <= Meta
      BY <2>7, <2>11 DEF SocketOK, IInv, TypeOK
    <3>4. abandoned' \subseteq Slots /\ relays' \subseteq Tasks
      BY <2>1, <2>3 DEF IInv, TypeOK
    <3> QED BY <1>3, <1>5, <1>6, <2>7, <3>1, <3>2, <3>3, <3>4 DEF IInv, TypeOK
  <2>13. OneOwner'
    <3>1. \A u \in Running' : Of(u)'.proto = task'[u].key.proto
      BY <2>5, <2>6, <2>7, <2>8, <2>9 DEF IInv, OneOwner, Of
    <3>2. \A u, v \in Running' : task'[u].h = task'[v].h => u = v
      BY <2>6, <2>7, <2>8, <2>9 DEF IInv, OneOwner
    <3>3. \A j \in abandoned' : socket'[j].proto = "tcp" /\ \A u \in Running' : task'[u].h # j
      <4>1. h \notin abandoned /\ abandoned \subseteq Slots
        BY <2>2 DEF IInv, OneOwner, TypeOK
      <4> QED BY <2>1, <2>6, <2>7, <2>8, <2>9, <4>1 DEF IInv, OneOwner
    <3>4. \A j \in Slots : socket'[j].proto # "free" => j \in abandoned' \/ \E u \in Running' : task'[u].h = j
      <4> SUFFICES ASSUME NEW j \in Slots, socket'[j].proto # "free"
                   PROVE  j \in abandoned' \/ \E u \in Running' : task'[u].h = j
        OBVIOUS
      <4>1. CASE j = h
        BY <2>6, <2>7, <2>8, <4>1
      <4>2. CASE j # h
        BY <1>1, <2>1, <2>7, <2>8, <2>9, <4>2 DEF IInv, OneOwner
      <4> QED BY <4>1, <4>2
    <3> QED BY <3>1, <3>2, <3>3, <3>4 DEF OneOwner
  <2>14. FlowTables'
    <3>1. Running' \subseteq relays'
      BY <2>1, <2>8 DEF IInv, FlowTables
    <3>2. tcp_seen' = {task'[u].key : u \in {v \in Running' : task'[v].key.proto = "tcp"}}
      <4>1. tcp_seen = {task[u].key : u \in {v \in Running : task[v].key.proto = "tcp"}}
        BY <1>1 DEF IInv, FlowTables
      <4> QED BY <2>1, <2>6, <2>7, <2>8, <2>9, <4>1
    <3>3. DOMAIN udp_flows' = {task'[u].key : u \in {v \in Running' : task'[v].key.proto = "udp"}}
      <4>1. DOMAIN udp_flows = {task[u].key : u \in {v \in Running : task[v].key.proto = "udp"}}
        BY <1>1 DEF IInv, FlowTables
      <4>2. DOMAIN udp_flows' = IF k.proto = "udp" THEN DOMAIN udp_flows \cup {k} ELSE DOMAIN udp_flows
        BY <2>1
      <4> QED BY <2>6, <2>7, <2>8, <2>9, <4>1, <4>2
    <3>4. ASSUME NEW u \in Running', task'[u].key.proto = "udp" PROVE udp_flows'[task'[u].key] = task'[u].h
      <4>1. CASE u = t
        BY <2>1, <2>6, <2>7, <3>4, <4>1
      <4>2. CASE u # t
        <5>1. u \in Running /\ task'[u] = task[u] /\ task[u].key # k
          BY <2>8, <2>9, <2>10, <4>2
        <5>2. task[u].key \in DOMAIN udp_flows /\ udp_flows[task[u].key] = task[u].h
          BY <1>1, <3>4, <5>1 DEF IInv, FlowTables
        <5> QED BY <2>1, <5>1, <5>2
      <4> QED BY <4>1, <4>2
    <3> QED BY <3>1, <3>2, <3>3, <3>4 DEF FlowTables
  <2>15. ConnectionsOK'
    <3>1. StackOK(socket, app)'
      BY <1>7, <1>8, <2>7, <2>11 DEF IInv, ConnectionsOK, StackOK
    <3>2. \A j \in Slots : SynAckSent(socket'[j], app')
      BY <1>7, <2>7, <2>11
    <3>3. NobodyHangs(socket', app')
      <4>1. \A j \in Keys : ~Holds(socket[h], j, app'[j])
        BY <2>2, KeyFacts DEF IInv, ConnectionsOK, StackOK, SocketOK, Free, Holds
      <4> QED BY <1>7, <2>7, <4>1 DEF NobodyHangs
    <3> QED BY <3>1, <3>2, <3>3 DEF ConnectionsOK
  <2>16. TasksOK'
    <3>1. TaskOK(r, socket', app', driver'.at)
      BY <2>2, <2>4, <2>5, <2>6, <2>7 DEF TaskOK
    <3>2. ASSUME NEW u \in Running PROVE TaskOK(task'[u], socket', app', driver'.at)
      <4>1. TaskOK(task[u], socket, app', driver.at)
        BY <1>7 DEF IInv, TasksOK
      <4> QED BY <1>3, <2>9, <4>1 DEF TaskOK
    <3>3. \A u \in Running' : TaskOK(task[u], socket, app, driver.at)'
      BY <2>7, <2>8, <3>1, <3>2
    <3>4. \A u \in Tasks : task'[u].pkt # NoKey => u \in Running'
      BY <2>6, <2>7, <2>8 DEF IInv, TasksOK
    <3>5. \A u, v \in Running' : task'[u].key = task'[v].key => u = v
      BY <2>6, <2>7, <2>8, <2>9, <2>10 DEF IInv, TasksOK
    <3> QED BY <3>3, <3>4, <3>5 DEF TasksOK
  <2>17. SlotsSuffice'
    <3> DEFINE A == {j \in Slots : socket[j].proto # "free"}
               C == {u \in Tasks : task[u].st # "none"}
    <3>1. IsFiniteSet(A) /\ IsFiniteSet(C) /\ h \notin A /\ t \notin C
      BY <2>2, <2>3, NetstackAssumption, FS_Subset
    <3>2. Cardinality(A) <= Cardinality(C)
      BY DEF IInv, SlotsSuffice
    <3>3. {j \in Slots : socket'[j].proto # "free"} = A \cup {h}
      BY <2>2, <2>4, <2>5, <2>7
    <3>4. {u \in Tasks : task'[u].st # "none"} = C \cup {t}
      BY <2>3, <2>6, <2>7
    <3> HIDE DEF A, C
    <3>5. Cardinality(A \cup {h}) = Cardinality(A) + 1 /\ Cardinality(C \cup {t}) = Cardinality(C) + 1
      BY <3>1, FS_AddElement
    <3>6. Cardinality(A) \in Nat /\ Cardinality(C) \in Nat
      BY <3>1, FS_CardinalityType
    <3>7. Cardinality(A \cup {h}) <= Cardinality(C \cup {t})
      BY <3>2, <3>5, <3>6
    <3> QED BY <3>3, <3>4, <3>7 DEF SlotsSuffice
  <2>18. DroppedIsEmpty'
    BY <1>1, <1>3 DEF IInv, DroppedIsEmpty
  <2> QED BY <1>9, <2>12, <2>13, <2>14, <2>15, <2>16, <2>17, <2>18 DEF IInv
<1> QED BY <1>10, <1>11 DEF demux_and_enqueue

\* The packets of the applications.
LEMMA AppKeeps ==
  ASSUME IInv, NEW k \in Keys,
         AppConnect(k) \/ AppRetransmit(k) \/ AppAck(k) \/ AppFin(k) \/ AppReset(k) \/ AppSend(k)
  PROVE  IInv'
<1> DEFINE a == app[k]
<1>1. a \in Apps /\ faults \in Nat
  BY DEF IInv, TypeOK
<1>2. faults' \in Nat
  BY <1>1 DEF AppConnect, AppRetransmit, AppAck, AppFin, AppReset, AppSend, Fault
<1>3. ASSUME NEW b \in Apps, NEW flag, Says(k, flag, b), Speaks(a, b, flag, k.proto) PROVE IInv'
  BY <1>2, <1>3, DemuxKeeps DEF Says
<1>4. CASE AppConnect(k)
  <2> DEFINE b == [NoApp EXCEPT !.st = "syn", !.inc = a.inc + 1]
  <2>1. b \in Apps /\ Speaks(a, b, "syn", k.proto)
    <3>1. NoApp \in Apps /\ a.inc + 1 \in Nat
      BY <1>1 DEF NoApp, Apps
    <3>2. b \in Apps /\ b.st = "syn" /\ b.inc = a.inc + 1
      BY <3>1 DEF Apps
    <3> QED BY <3>2 DEF Speaks
  <2>2. Says(k, "syn", b)
    BY <1>4 DEF AppConnect
  <2> HIDE DEF b
  <2> QED BY <1>3, <2>1, <2>2
<1>5. CASE AppRetransmit(k)
  <2>1. Speaks(a, a, "syn", k.proto) /\ Says(k, "syn", a)
    BY <1>5 DEF AppRetransmit, Speaks, SameLife
  <2> QED BY <1>1, <1>3, <2>1
<1>6. CASE AppAck(k)
  <2> DEFINE b == [a EXCEPT !.acked = TRUE]
  <2>1. b \in Apps /\ Speaks(a, b, "ack", k.proto)
    BY <1>1, <1>6 DEF AppAck, Apps, Speaks, SameLife
  <2>2. Says(k, "ack", b)
    BY <1>6 DEF AppAck
  <2> HIDE DEF b
  <2> QED BY <1>3, <2>1, <2>2
<1>7. CASE AppFin(k)
  <2> DEFINE b == [a EXCEPT !.acked = TRUE, !.fin = TRUE, !.st = IF a.st = "eof" THEN "done" ELSE "open"]
  <2>1. b \in Apps /\ Speaks(a, b, "fin", k.proto)
    BY <1>1, <1>7 DEF AppFin, Apps, Speaks, SameLife
  <2>2. Says(k, "fin", b)
    BY <1>7 DEF AppFin
  <2> HIDE DEF b
  <2> QED BY <1>3, <2>1, <2>2
<1>8. CASE AppReset(k)
  <2> DEFINE b == [a EXCEPT !.st = "reset"]
  <2>1. b \in Apps /\ Speaks(a, b, "rst", k.proto)
    BY <1>1, <1>8 DEF AppReset, Apps, Speaks, SameLife
  <2>2. Says(k, "rst", b)
    BY <1>8 DEF AppReset
  <2> HIDE DEF b
  <2> QED BY <1>3, <2>1, <2>2
<1>9. CASE AppSend(k)
  <2> DEFINE b == [a EXCEPT !.sends = @ + 1]
  <2>1. b \in Apps /\ Speaks(a, b, "data", k.proto)
    BY <1>1, <1>9 DEF AppSend, Apps, Speaks, SameLife
  <2>2. Says(k, "data", b)
    BY <1>9 DEF AppSend
  <2> HIDE DEF b
  <2> QED BY <1>3, <2>1, <2>2
<1> QED BY <1>4, <1>5, <1>6, <1>7, <1>8, <1>9

\* Nothing happens.
LEMMA StutterKeeps ==
  ASSUME IInv, UNCHANGED vars
  PROVE  IInv'
<1>1. /\ UNCHANGED <<load, app, rx, socket, tcp_seen, udp_flows, abandoned>>
      /\ UNCHANGED <<driver, task, relays, alive, faults>>
  BY DEF vars, stack
<1>2. Running' = Running
  BY <1>1 DEF Running
<1>3. TypeOK' /\ OneOwner' /\ FlowTables'
  BY <1>1, <1>2 DEF IInv, TypeOK, OneOwner, FlowTables, Of
<1>4. ConnectionsOK' /\ TasksOK'
  BY <1>1, <1>2 DEF IInv, ConnectionsOK, StackOK, TasksOK
<1>5. Noticed' /\ SlotsSuffice' /\ DroppedIsEmpty'
  BY <1>1, <1>2 DEF IInv, Noticed, SlotsSuffice, DroppedIsEmpty
<1> QED BY <1>3, <1>4, <1>5 DEF IInv

\* Every step keeps the invariant.
LEMMA NextKeepsIInv ==
  ASSUME IInv, [Next]_vars
  PROVE  IInv'
<1>1. ASSUME NEW k \in Keys, AppStep(k) PROVE IInv'
  BY <1>1, AppKeeps, GoesDarkKeeps DEF AppStep
<1>2. CASE DriverStep
  BY <1>2, PollKeeps, NotifyKeeps DEF DriverStep
<1>3. ASSUME NEW h \in Slots, TimerExpires(h) PROVE IInv'
  BY <1>3, TimerKeeps
<1>4. ASSUME NEW t \in Tasks, TaskStep(t) PROVE IInv'
  <2>1. CASE TcpStep(t)
    BY <2>1, TcpMoves, UpstreamEofKeeps, FinishTcpKeeps DEF TcpStep
  <2>2. CASE EgressStep(t) \/ IngressStep(t)
    BY <2>2, UdpMoves, UdpRecvKeeps, UdpSendKeeps DEF EgressStep, IngressStep
  <2>3. CASE RouteFails(t) \/ Connects(t) \/ Kill(t) \/ FinishUdp(t)
    BY <2>3, TcpMoves, ConnectsKeeps, FinishUdpKeeps
  <2> QED BY <1>4, <2>1, <2>2, <2>3 DEF TaskStep
<1>5. CASE NetstackDrop
  BY <1>5, DropKeeps
<1>6. CASE UNCHANGED vars
  BY <1>6, StutterKeeps
<1> QED BY <1>1, <1>2, <1>3, <1>4, <1>5, <1>6 DEF Next

(***************************************************************************)
(* The theorems.                                                           *)
(***************************************************************************)

\* The inductive invariant holds for every number of flows, slots and tasks, and
\* with packets, timers, relays and the driver in every order.
THEOREM IInvHolds == Spec => []IInv
<1>1. Init => IInv
  BY InitEstablishesIInv
<1>2. IInv /\ [Next]_vars => IInv'
  BY NextKeepsIInv
<1> QED BY <1>1, <1>2, PTL DEF Spec

\* Every socket has one owner, the tables of the stack name it, and what it
\* receives belongs to its flow: a handle never reaches the socket of another
\* flow although slots are used again, and none is left without an owner
\* (netstack.rs Stack, relay_tcp, relay_udp, the driver's retain).
THEOREM EverySocketIsAccountedFor == Spec => []SocketsAreAccountedFor
<1>1. IInv => SocketsAreAccountedFor
  <2> SUFFICES ASSUME IInv PROVE SocketsAreAccountedFor
    OBVIOUS
  <2>1. RightDestination
    BY DEF RightDestination, IInv, TasksOK, TaskOK
  <2> QED BY <2>1 DEF IInv, SocketsAreAccountedFor
<1> QED BY <1>1, IInvHolds, PTL

\* An application that holds its connection for open is held by a socket or owed
\* a reset, and one that reads the end of the data was relayed (the abort in
\* relay_tcp, and the driver that polls before it removes).
THEOREM EveryApplicationIsTold == Spec => []ApplicationsAreTold
<1>1. IInv => ApplicationsAreTold
  <2> SUFFICES ASSUME IInv PROVE ApplicationsAreTold
    OBVIOUS
  <2>1. NotLeftHanging
    BY DEF NotLeftHanging, IInv, ConnectionsOK, NobodyHangs, Holds
  <2>2. EofOnlyIfServed
    BY DEF EofOnlyIfServed, IInv, ConnectionsOK, StackOK, EofServed
  <2> QED BY <2>1, <2>2 DEF ApplicationsAreTold
<1> QED BY <1>1, IInvHolds, PTL

\* wait_established misses no change of its socket, and the driver sleeps over
\* no packet, datagram, reset or socket to remove (notified().enable() before
\* the state is read, a kick after every change).
THEOREM NoWakeUpIsLost == Spec => []NoLostWakeUp
<1>1. IInv => NoLostWakeUp
  <2> SUFFICES ASSUME IInv PROVE NoLostWakeUp
    OBVIOUS
  <2>1. EstablishedIsNoticed
    BY DEF EstablishedIsNoticed, IInv, TasksOK, TaskOK, At, Of, Running
  <2>2. WorkIsNoticed
    BY DEF WorkIsNoticed, IInv, Noticed
  <2> QED BY <2>1, <2>2 DEF NoLostWakeUp
<1> QED BY <1>1, IInvHolds, PTL
=============================================================================

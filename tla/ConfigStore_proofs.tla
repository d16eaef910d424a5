------------------------- MODULE ConfigStore_proofs -------------------------
(***************************************************************************)
(* Proofs about ConfigStore for any number of tasks, and for lists of      *)
(* servers, subscriptions and rules of every length.                       *)
(*                                                                         *)
(* ensure_distinct_node_names, ensure_distinct_sub_tags, retain and the    *)
(* merge of all subscriptions are loops over a list, FoldLeft in the       *)
(* model.  The first lemmas give, for each of them, the sequence of its    *)
(* intermediate results; what the loop establishes is then shown by an     *)
(* induction over their positions.                                         *)
(***************************************************************************)
EXTENDS ConfigStore, FiniteSetTheorems, SequenceTheorems, TLAPS

(***************************************************************************)
(* Loops over a list.                                                      *)
(***************************************************************************)

\* A set of naturals has a least element.
LEMMA LeastNatural ==
  ASSUME NEW A \in SUBSET Nat, A # {}
  PROVE  \E m \in A : \A k \in A : m <= k
<1>1. PICK m \in A : \A k \in A : <<k, m>> \notin OpToRel(<, Nat)
  BY WFMin, NatLessThanWellFounded, Zenon
<1>2. \A k \in A : ~(k < m)
  BY <1>1, Zenon DEF OpToRel
<1>3. ASSUME NEW k \in A PROVE m <= k
  <2>1. k \in Nat /\ m \in Nat /\ ~(k < m)
    BY <1>1, <1>2
  <2> QED BY <2>1
<1> QED BY <1>1, <1>3

\* Induction up to a bound, over a set and not over a predicate.
LEMMA UpTo ==
  ASSUME NEW n \in Nat, NEW G, 0 \in G, \A k \in 1 .. n : k - 1 \in G => k \in G
  PROVE  \A k \in 0 .. n : k \in G
<1> DEFINE Bad == {k \in 0 .. n : k \notin G}
<1> SUFFICES ASSUME Bad # {} PROVE FALSE
  OBVIOUS
<1>1. Bad \in SUBSET Nat
  OBVIOUS
<1>2. PICK m \in Bad : \A k \in Bad : m <= k
  <2> HIDE DEF Bad
  <2> QED BY <1>1, LeastNatural
<1>3. m \in 1 .. n /\ m - 1 \in 0 .. n
  BY <1>2
<1>4. m - 1 \notin Bad
  BY <1>2, <1>3
<1> QED BY <1>2, <1>3, <1>4

\* The last of the positions up to k, which FoldLeft takes first.
LEMMA MaxOfPrefix ==
  ASSUME NEW k \in Nat, NEW T \in SUBSET (1 .. k + 1), k + 1 \in T
  PROVE  Max(T) = k + 1
<1>1. \A y \in T : k + 1 >= y
  OBVIOUS
<1>2. ASSUME NEW x \in T, \A y \in T : x >= y PROVE x = k + 1
  <2>1. x >= k + 1 /\ k + 1 >= x /\ x \in Int
    BY <1>2
  <2> QED BY <2>1
<1> QED BY <1>1, <1>2 DEF Max

\* The last of a set of positions is one of them.
LEMMA MaxIsElement ==
  ASSUME NEW n \in Nat, NEW T \in SUBSET (1 .. n), T # {}
  PROVE  Max(T) \in T
<1> DEFINE A == {n - k : k \in T}
<1>0. A \in SUBSET Nat
  OBVIOUS
<1>1. A # {}
  OBVIOUS
<1>2. PICK m \in A : \A k \in A : m <= k
  <2> HIDE DEF A
  <2> QED BY <1>0, <1>1, LeastNatural
<1>3. PICK x \in T : m = n - x
  BY <1>2
<1>4. ASSUME NEW y \in T PROVE x >= y
  <2>1. n - x <= n - y
    BY <1>2, <1>3
  <2>2. x \in Int /\ y \in Int
    OBVIOUS
  <2> QED BY <2>1, <2>2
<1> QED BY <1>3, <1>4 DEF Max

\* A loop of n steps: base, and what step makes of the result so far.
IsLoop(g, n, P, base, step) ==
  /\ g \in [SUBSET (1 .. n) -> P]
  /\ g[{}] = base
  /\ \A T \in SUBSET (1 .. n) : T # {} => g[T] = step[Max(T)][g[T \ {Max(T)}]]

\* The function by which FoldLeft is defined, over all sets of positions, exists.
LEMMA LoopExists ==
  ASSUME NEW n \in Nat, NEW P, NEW base \in P, NEW step \in [1 .. n -> [P -> P]]
  PROVE  \E g : IsLoop(g, n, P, base, step)
<1> DEFINE G == {k \in 0 .. n : \E g : IsLoop(g, k, P, base, step)}
<1>1. 0 \in G
  <2>1. SUBSET (1 .. 0) = {{}}
    OBVIOUS
  <2>2. IsLoop([T \in {{}} |-> base], 0, P, base, step)
    BY <2>1 DEF IsLoop
  <2> QED BY <2>2
<1>2. ASSUME NEW m \in 1 .. n, m - 1 \in G PROVE m \in G
  <2> DEFINE k == m - 1
  <2>0. k \in Nat /\ m = k + 1 /\ k + 1 \in 1 .. n
    OBVIOUS
  <2>1. PICK g : IsLoop(g, k, P, base, step)
    BY <1>2
  <2> HIDE DEF k
  <2> DEFINE D == SUBSET (1 .. k + 1)
             h == [T \in D |-> IF k + 1 \in T THEN step[k + 1][g[T \ {k + 1}]] ELSE g[T]]
  <2>2. ASSUME NEW T \in D PROVE T \ {k + 1} \in SUBSET (1 .. k)
    BY <2>0
  <2>3. ASSUME NEW T \in D, k + 1 \notin T PROVE T \in SUBSET (1 .. k)
    BY <2>0, <2>3
  <2>4. h \in [D -> P]
    <3>1. ASSUME NEW T \in D PROVE h[T] \in P
      <4>1. CASE k + 1 \in T
        <5>1. g[T \ {k + 1}] \in P
          BY <2>1, <2>2 DEF IsLoop
        <5>2. step[k + 1] \in [P -> P]
          BY <2>0
        <5> QED BY <4>1, <5>1, <5>2
      <4>2. CASE k + 1 \notin T
        BY <4>2, <2>1, <2>3 DEF IsLoop
      <4> QED BY <4>1, <4>2
    <3> QED BY <3>1
  <2>5. h[{}] = base
    BY <2>0, <2>1 DEF IsLoop
  <2>6. ASSUME NEW T \in D, T # {} PROVE h[T] = step[Max(T)][h[T \ {Max(T)}]]
    <3>1. CASE k + 1 \in T
      <4>1. Max(T) = k + 1
        BY <2>0, <3>1, MaxOfPrefix
      <4>2. T \ {k + 1} \in D /\ h[T \ {k + 1}] = g[T \ {k + 1}]
        BY <2>2
      <4> QED BY <3>1, <4>1, <4>2
    <3>2. CASE k + 1 \notin T
      <4>1. T \in SUBSET (1 .. k) /\ g[T] = step[Max(T)][g[T \ {Max(T)}]]
        BY <2>1, <2>3, <2>6, <3>2 DEF IsLoop
      <4>2. T \ {Max(T)} \in D /\ k + 1 \notin T \ {Max(T)}
        BY <3>2
      <4>3. h[T] = g[T] /\ h[T \ {Max(T)}] = g[T \ {Max(T)}]
        BY <3>2, <4>2
      <4> QED BY <4>1, <4>3
    <3> QED BY <3>1, <3>2
  <2>7. IsLoop(h, k + 1, P, base, step)
    <3> HIDE DEF h
    <3> QED BY <2>4, <2>5, <2>6 DEF IsLoop
  <2> QED BY <2>0, <2>7
<1>3. n \in G
  <2> HIDE DEF G
  <2>1. \A k \in 0 .. n : k \in G
    BY <1>1, <1>2, UpTo
  <2> QED BY <2>1
<1> QED BY <1>3

\* The prefixes of a list are one position apart.
LEMMA PrefixFacts ==
  ASSUME NEW n \in Nat, NEW k \in 1 .. n
  PROVE  /\ 1 .. k \in SUBSET (1 .. n) /\ 1 .. k # {}
         /\ Max(1 .. k) = k /\ (1 .. k) \ {k} = 1 .. (k - 1)
         /\ k - 1 \in 0 .. n /\ k \in 0 .. n
<1>1. k - 1 \in Nat /\ k - 1 \in 0 .. n /\ k \in 0 .. n /\ k = (k - 1) + 1
  OBVIOUS
<1>2. (k - 1) + 1 \in 1 .. k /\ 1 .. k \in SUBSET (1 .. (k - 1) + 1)
  OBVIOUS
<1>3. Max(1 .. k) = (k - 1) + 1
  BY <1>1, <1>2, MaxOfPrefix
<1>4. (1 .. k) \ {k} = 1 .. (k - 1)
  OBVIOUS
<1>5. k \in 1 .. k /\ 1 .. k \in SUBSET (1 .. n)
  OBVIOUS
<1> QED BY <1>1, <1>3, <1>4, <1>5

\* What retain has kept after each element of the list.
RetainRun(f, X, seq, S) ==
  /\ f \in [0 .. Len(seq) -> Seq(X)]
  /\ f[0] = <<>> /\ f[Len(seq)] = retain(seq, S)
  /\ \A k \in 1 .. Len(seq) :
       f[k] = IF seq[k] \in S THEN Append(f[k - 1], seq[k]) ELSE f[k - 1]

\* The loop of retain has such results.
LEMMA RetainRuns ==
  ASSUME NEW X, NEW seq \in Seq(X), NEW S
  PROVE  \E f : RetainRun(f, X, seq, S)
<1> DEFINE n == Len(seq)
           P == Seq(X)
           Add(done, x) == IF x \in S THEN Append(done, x) ELSE done
           step == [i \in 1 .. n |-> [s \in P |-> Add(s, seq[i])]]
           Def(g) == [T \in SUBSET DOMAIN seq |->
                        IF T = {} THEN <<>> ELSE LET x == Max(T) IN Add(g[T \ {x}], seq[x])]
           iter == CHOOSE g : g = Def(g)
           f == [k \in 0 .. n |-> iter[1 .. k]]
<1>0. n \in Nat /\ DOMAIN seq = 1 .. n /\ <<>> \in P
  OBVIOUS
<1>1. ASSUME NEW s \in P, NEW i \in 1 .. n PROVE Add(s, seq[i]) \in P
  <2>1. seq[i] \in X
    OBVIOUS
  <2> QED BY <2>1
<1>2. step \in [1 .. n -> [P -> P]]
  BY <1>1
<1>3. PICK g : IsLoop(g, n, P, <<>>, step)
  <2> HIDE DEF n, P, step
  <2> QED BY <1>0, <1>2, LoopExists
<1>4. g = Def(g)
  <2>1. ASSUME NEW T \in SUBSET (1 .. n), T # {} PROVE g[T] = Add(g[T \ {Max(T)}], seq[Max(T)])
    <3>1. Max(T) \in 1 .. n
      <4>1. Max(T) \in T
        <5> HIDE DEF n
        <5> QED BY <1>0, <2>1, MaxIsElement
      <4> QED BY <4>1
    <3>2. g[T \ {Max(T)}] \in P /\ g[T] = step[Max(T)][g[T \ {Max(T)}]]
      BY <1>3, <2>1 DEF IsLoop
    <3> QED BY <3>1, <3>2
  <2> HIDE DEF step, Add
  <2> QED BY <1>0, <1>3, <2>1 DEF IsLoop
<1>5. iter = Def(iter)
  <2> HIDE DEF Def
  <2> QED BY <1>4
<1> HIDE DEF iter
<1>6. f[0] = <<>>
  <2>1. 1 .. 0 = {}
    OBVIOUS
  <2> QED BY <1>0, <1>5, <2>1
<1>7. ASSUME NEW k \in 1 .. n PROVE f[k] = Add(f[k - 1], seq[k])
  <2>1. iter[1 .. k] = Add(iter[(1 .. k) \ {k}], seq[k])
    BY <1>0, <1>5, PrefixFacts
  <2>2. f[k] = iter[1 .. k] /\ f[k - 1] = iter[(1 .. k) \ {k}]
    BY <1>0, PrefixFacts
  <2> QED BY <2>1, <2>2
<1>8. f \in [0 .. n -> P]
  <2> DEFINE G == {k \in 0 .. n : f[k] \in P}
  <2> HIDE DEF f, Add, P, n
  <2>1. 0 \in G
    BY <1>0, <1>6
  <2>2. ASSUME NEW k \in 1 .. n, k - 1 \in G PROVE k \in G
    <3>1. f[k - 1] \in P /\ k \in 0 .. n
      BY <1>0, <2>2
    <3> QED BY <3>1, <1>1, <1>7
  <2>3. \A k \in 0 .. n : k \in G
    <3> HIDE DEF G
    <3> QED BY <1>0, <2>1, <2>2, UpTo
  <2> QED BY <2>3 DEF f
<1>9. f[n] = retain(seq, S)
  BY <1>0 DEF retain, FoldLeft, MapThenFoldSet, iter
<1> QED BY <1>6, <1>7, <1>8, <1>9 DEF RetainRun

\* retain keeps the elements of S, all of them, and their order.
LEMMA RetainKeeps ==
  ASSUME NEW X, NEW seq \in Seq(X), NEW S
  PROVE  /\ retain(seq, S) \in Seq(X)
         /\ ToSet(retain(seq, S)) = ToSet(seq) \cap S
         /\ \A p, q \in DOMAIN retain(seq, S) : p # q =>
              \E i, j \in DOMAIN seq : /\ i # j /\ retain(seq, S)[p] = seq[i]
                                       /\ retain(seq, S)[q] = seq[j]
<1> DEFINE n == Len(seq)
           Holds(r, k) == /\ {r[i] : i \in 1 .. Len(r)} = {seq[i] : i \in 1 .. k} \cap S
                          /\ \A p, q \in 1 .. Len(r) : p # q =>
                               \E i, j \in 1 .. k : i # j /\ r[p] = seq[i] /\ r[q] = seq[j]
<1>0. n \in Nat /\ DOMAIN seq = 1 .. n
  OBVIOUS
<1>1. PICK f : RetainRun(f, X, seq, S)
  BY RetainRuns
<1>2. /\ f \in [0 .. n -> Seq(X)] /\ f[0] = <<>> /\ f[n] = retain(seq, S)
      /\ \A k \in 1 .. n : f[k] = IF seq[k] \in S THEN Append(f[k - 1], seq[k]) ELSE f[k - 1]
  BY <1>1 DEF RetainRun
<1> DEFINE G == {k \in 0 .. n : Holds(f[k], k)}
<1>3. 0 \in G
  <2>1. Holds(<<>>, 0)
    OBVIOUS
  <2> HIDE DEF Holds
  <2> QED BY <1>0, <1>2, <2>1
<1>4. ASSUME NEW k \in 1 .. n, k - 1 \in G PROVE k \in G
  <2> DEFINE r == f[k - 1]
  <2>1. r \in Seq(X) /\ Holds(r, k - 1) /\ k \in 0 .. n /\ k - 1 \in 0 .. n
    <3>1. k \in 0 .. n /\ k - 1 \in 0 .. n
      BY <1>0
    <3>2. Holds(r, k - 1)
      BY <1>4
    <3> HIDE DEF Holds
    <3> QED BY <1>2, <3>1, <3>2
  <2>2. f[k] = IF seq[k] \in S THEN Append(r, seq[k]) ELSE r
    BY <1>2
  <2> HIDE DEF r
  <2>3. {seq[i] : i \in 1 .. k} = {seq[i] : i \in 1 .. (k - 1)} \cup {seq[k]}
    BY <1>0
  <2>4. \A i \in 1 .. (k - 1) : i \in 1 .. k /\ i # k
    BY <1>0
  <2>5. CASE seq[k] \in S
    <3> DEFINE a == Append(r, seq[k])
    <3>1. Len(a) = Len(r) + 1 /\ a[Len(r) + 1] = seq[k] /\ Len(r) \in Nat
      BY <2>1
    <3>2. \A i \in 1 .. Len(r) : a[i] = r[i]
      BY <2>1
    <3> HIDE DEF a
    <3>3. {a[i] : i \in 1 .. Len(a)} = {r[i] : i \in 1 .. Len(r)} \cup {seq[k]}
      BY <3>1, <3>2
    <3>4. ASSUME NEW p \in 1 .. Len(a), NEW q \in 1 .. Len(a), p # q
          PROVE  \E i, j \in 1 .. k : i # j /\ a[p] = seq[i] /\ a[q] = seq[j]
      <4>1. \A x \in 1 .. Len(r) : \E i \in 1 .. (k - 1) : r[x] = seq[i]
        <5>1. {r[i] : i \in 1 .. Len(r)} \subseteq {seq[i] : i \in 1 .. (k - 1)}
          BY <2>1
        <5> QED BY <5>1
      <4>2. p \in 1 .. Len(r) \/ p = Len(r) + 1
        BY <3>1
      <4>3. q \in 1 .. Len(r) \/ q = Len(r) + 1
        BY <3>1
      <4>4. CASE p \in 1 .. Len(r) /\ q \in 1 .. Len(r)
        BY <2>1, <2>4, <3>2, <3>4, <4>4
      <4>5. CASE p \in 1 .. Len(r) /\ q = Len(r) + 1
        BY <2>4, <3>1, <3>2, <4>1, <4>5
      <4>6. CASE q \in 1 .. Len(r) /\ p = Len(r) + 1
        BY <2>4, <3>1, <3>2, <4>1, <4>6
      <4> QED BY <3>4, <4>2, <4>3, <4>4, <4>5, <4>6
    <3>5. Holds(a, k)
      BY <2>1, <2>3, <2>5, <3>3, <3>4
    <3> HIDE DEF Holds
    <3> QED BY <2>1, <2>2, <2>5, <3>5 DEF a
  <2>6. CASE seq[k] \notin S
    <3>1. {r[i] : i \in 1 .. Len(r)} = {seq[i] : i \in 1 .. k} \cap S
      BY <2>1, <2>3, <2>6
    <3>2. Holds(r, k)
      BY <2>1, <2>4, <3>1
    <3> HIDE DEF Holds
    <3> QED BY <2>1, <2>2, <2>6, <3>2
  <2> QED BY <2>5, <2>6
<1>5. Holds(f[n], n)
  <2>1. \A k \in 0 .. n : k \in G
    <3> HIDE DEF G, n
    <3> QED BY <1>0, <1>3, <1>4, UpTo
  <2>2. n \in 0 .. n
    BY <1>0
  <2> QED BY <2>1, <2>2
<1>6. f[n] \in Seq(X) /\ DOMAIN f[n] = 1 .. Len(f[n])
  <2>1. n \in 0 .. n
    BY <1>0
  <2> QED BY <1>2, <2>1
<1>7. ToSet(f[n]) = ToSet(seq) \cap S
  BY <1>0, <1>5, <1>6 DEF ToSet
<1>8. \A p, q \in DOMAIN f[n] : p # q =>
        \E i, j \in DOMAIN seq : i # j /\ f[n][p] = seq[i] /\ f[n][q] = seq[j]
  <2>1. \A p, q \in 1 .. Len(f[n]) : p # q =>
          \E i, j \in 1 .. n : i # j /\ f[n][p] = seq[i] /\ f[n][q] = seq[j]
    BY <1>5
  <2> DEFINE r == f[n]
  <2>2. DOMAIN r = 1 .. Len(r)
    BY <1>6
  <2> HIDE DEF n, Holds, r
  <2>3. \A p, q \in 1 .. Len(r) : p # q =>
          \E i, j \in 1 .. n : i # j /\ r[p] = seq[i] /\ r[q] = seq[j]
    BY <2>1 DEF r
  <2>4. \A p, q \in DOMAIN r : p # q =>
          \E i, j \in DOMAIN seq : i # j /\ r[p] = seq[i] /\ r[q] = seq[j]
    <3> SUFFICES ASSUME NEW p \in DOMAIN r, NEW q \in DOMAIN r, p # q
                 PROVE  \E i, j \in DOMAIN seq : i # j /\ r[p] = seq[i] /\ r[q] = seq[j]
      OBVIOUS
    <3>1. PICK i, j \in 1 .. n : i # j /\ r[p] = seq[i] /\ r[q] = seq[j]
      BY <2>2, <2>3
    <3>2. i \in DOMAIN seq /\ j \in DOMAIN seq
      BY <1>0
    <3> QED BY <3>1, <3>2
  <2> QED BY <2>4 DEF r
<1> HIDE DEF n
<1> QED BY <1>2, <1>6, <1>7, <1>8

(***************************************************************************)
(* Distinct names and tags.                                                *)
(***************************************************************************)

\* Numbered always finds a label that is not used; it begins as base does.
LEMMA NumberedIsNew ==
  ASSUME NEW base \in Labels, NEW used, IsFiniteSet(used)
  PROVE  /\ Numbered(base, used) \notin used
         /\ Numbered(base, used) \in Labels
         /\ Numbered(base, used)[1] = base[1]
<1> DEFINE c == Cardinality(used)
           D == 2 .. c + 2
           A == {k \in D : Append(base, k) \notin used}
           Elem == Bases \cup Titles \cup Urls \cup {Manual} \cup Nat
           Is(k) == Append(base, k) \notin used /\ \A j \in 2 .. k - 1 : Append(base, j) \in used
<1>0. c \in Nat /\ base \in Seq(Elem) /\ base # <<>> /\ Nat \subseteq Elem
  BY FS_CardinalityType DEF Labels
<1> HIDE DEF Elem
<1>1. ASSUME NEW k \in Nat
      PROVE  Append(base, k) \in Seq(Elem) \ {<<>>} /\ Append(base, k)[1] = base[1]
  <2>1. k \in Elem /\ Len(base) >= 1 /\ Len(base) \in Nat
    BY <1>0
  <2>2. Append(base, k) \in Seq(Elem) /\ Len(Append(base, k)) = Len(base) + 1
    BY <1>0, <2>1
  <2>3. Append(base, k)[1] = base[1]
    BY <1>0, <2>1
  <2>4. Append(base, k) # <<>>
    BY <2>1, <2>2
  <2> QED BY <2>2, <2>3, <2>4
<1>2. CASE base \notin used
  BY <1>2 DEF Numbered
<1>3. CASE base \in used
  <2>1. A # {}
    <3> SUFFICES ASSUME A = {} PROVE FALSE
      OBVIOUS
    <3> DEFINE m == [k \in D |-> Append(base, k)]
    <3>1. m \in [D -> used]
      OBVIOUS
    <3>2. IsFiniteSet(D) /\ Cardinality(D) = c + 1
      <4>1. PICK e \in Int : e = c + 2
        BY <1>0
      <4>2. IsFiniteSet(2 .. e) /\ Cardinality(2 .. e) = IF 2 > e THEN 0 ELSE e - 2 + 1
        BY FS_Interval
      <4>3. Cardinality(2 .. e) = c + 1
        BY <1>0, <4>1, <4>2
      <4> QED BY <4>1, <4>2, <4>3
    <3>3. PICK x, y \in D : x # y /\ m[x] = m[y]
      <4> HIDE DEF D, m
      <4> QED BY <1>0, <3>1, <3>2, FS_PigeonHole
    <3>4. Append(base, x) = Append(base, y)
      BY <3>3
    <3>5. Append(base, x)[Len(base) + 1] = x /\ Append(base, y)[Len(base) + 1] = y
      BY <1>0
    <3> QED BY <3>3, <3>4, <3>5
  <2>2. PICK m \in A : \A k \in A : m <= k
    <3>1. A \in SUBSET Nat
      BY <1>0
    <3> HIDE DEF A
    <3> QED BY <2>1, <3>1, LeastNatural
  <2>3. m \in D /\ Is(m)
    <3>1. ASSUME NEW j \in 2 .. m - 1 PROVE Append(base, j) \in used
      <4>1. j \in D /\ ~(m <= j)
        BY <1>0, <2>2
      <4> QED BY <2>2, <4>1
    <3> QED BY <2>2, <3>1
  <2> DEFINE n == CHOOSE k \in D : Is(k)
  <2>4. n \in D /\ Is(n)
    <3> HIDE DEF D, Is
    <3> QED BY <2>3
  <2>5. Numbered(base, used) = Append(base, n)
    BY <1>3 DEF Numbered
  <2>6. n \in Nat
    BY <1>0, <2>4
  <2> HIDE DEF n
  <2> QED BY <1>1, <2>4, <2>5, <2>6 DEF Labels, Elem
<1> QED BY <1>2, <1>3

\* The names and the tags of a list are finitely many.
LEMMA UsedIsFinite ==
  /\ \A seq \in Seq(Servers) : IsFiniteSet({d.name : d \in ToSet(seq)})
  /\ \A seq \in Seq(Subscriptions) : IsFiniteSet({d.tag : d \in ToSet(seq)})
<1>1. ASSUME NEW seq \in Seq(Servers) PROVE IsFiniteSet({d.name : d \in ToSet(seq)})
  <2> DEFINE D == 1 .. Len(seq)
             U == {d.name : d \in ToSet(seq)}
             m == [i \in D |-> seq[i].name]
  <2>1. IsFiniteSet(D)
    BY FS_Interval
  <2>2. m \in Surjection(D, U)
    BY DEF Surjection, ToSet
  <2> HIDE DEF D, U, m
  <2>3. IsFiniteSet(U)
    BY <2>1, <2>2, FS_Surjection
  <2> QED BY <2>3 DEF U
<1>2. ASSUME NEW seq \in Seq(Subscriptions) PROVE IsFiniteSet({d.tag : d \in ToSet(seq)})
  <2> DEFINE D == 1 .. Len(seq)
             U == {d.tag : d \in ToSet(seq)}
             m == [i \in D |-> seq[i].tag]
  <2>1. IsFiniteSet(D)
    BY FS_Interval
  <2>2. m \in Surjection(D, U)
    BY DEF Surjection, ToSet
  <2> HIDE DEF D, U, m
  <2>3. IsFiniteSet(U)
    BY <2>1, <2>2, FS_Surjection
  <2> QED BY <2>3 DEF U
<1> QED BY <1>1, <1>2

\* The name a server gets nobody above it has; it begins as the old one does.
LEMMA NameIsNew ==
  ASSUME NEW s \in Servers, NEW done \in Seq(Servers)
  PROVE  LET name == NameOf(s, {d.name : d \in ToSet(done)})
         IN  /\ name \notin {d.name : d \in ToSet(done)} /\ name \in Labels
             /\ name[1] = s.name[1]
<1> DEFINE used == {d.name : d \in ToSet(done)}
           base == Append(s.name, s.from)
           Elem == Bases \cup Titles \cup Urls \cup {Manual} \cup Nat
<1>1. IsFiniteSet(used)
  BY UsedIsFinite
<1> HIDE DEF used
<1>2. s.name \in Labels /\ s.from \in Elem
  BY DEF Servers
<1>3. base \in Labels /\ base[1] = s.name[1]
  <2>1. s.name \in Seq(Elem) /\ s.name # <<>> /\ s.from \in Elem
    BY <1>2 DEF Labels
  <2> HIDE DEF Elem
  <2>2. base \in Seq(Elem) /\ Len(base) = Len(s.name) + 1 /\ Len(s.name) \in Nat /\ Len(s.name) >= 1
    BY <2>1
  <2>3. base # <<>> /\ base[1] = s.name[1]
    BY <2>1, <2>2
  <2> QED BY <2>2, <2>3 DEF Labels, Elem
<1>4. CASE s.name \notin used
  BY <1>2, <1>4 DEF NameOf, used
<1>5. CASE s.name \in used
  <2>1. NameOf(s, used) = Numbered(base, used)
    BY <1>5 DEF NameOf
  <2> HIDE DEF base
  <2> QED BY <1>1, <1>3, <2>1, NumberedIsNew DEF used
<1> QED BY <1>4, <1>5

\* The tag a subscription gets nobody above it has.
LEMMA TagIsNew ==
  ASSUME NEW s \in Subscriptions, NEW done \in Seq(Subscriptions)
  PROVE  LET tag == Numbered(SubTag(s), {d.tag : d \in ToSet(done)})
         IN  tag \notin {d.tag : d \in ToSet(done)} /\ tag \in Labels
<1> DEFINE used == {d.tag : d \in ToSet(done)}
<1>1. IsFiniteSet(used)
  BY UsedIsFinite
<1> HIDE DEF used
<1>2. SubTag(s) \in Labels
  <2>1. Host[s.url] \in Titles
    BY ConfigStoreAssumption DEF Subscriptions
  <2> QED BY <2>1 DEF SubTag, Labels, Subscriptions
<1> QED BY <1>1, <1>2, NumberedIsNew DEF used

\* The list of servers after each round of ensure_distinct_node_names.
NameRun(f, seq) ==
  /\ f \in [0 .. Len(seq) -> Seq(Servers)]
  /\ f[0] = <<>> /\ f[Len(seq)] = DistinctNames(seq)
  /\ \A k \in 1 .. Len(seq) :
       f[k] = Append(f[k - 1], [seq[k] EXCEPT !.name = NameOf(seq[k], {d.name : d \in ToSet(f[k - 1])})])

\* The loop of DistinctNames has such results.
LEMMA NamesRun ==
  ASSUME NEW seq \in Seq(Servers)
  PROVE  \E f : NameRun(f, seq)
<1> DEFINE n == Len(seq)
           P == Seq(Servers)
           Add(done, s) == Append(done, [s EXCEPT !.name = NameOf(s, {d.name : d \in ToSet(done)})])
           step == [i \in 1 .. n |-> [s \in P |-> Add(s, seq[i])]]
           Def(g) == [T \in SUBSET DOMAIN seq |->
                        IF T = {} THEN <<>> ELSE LET x == Max(T) IN Add(g[T \ {x}], seq[x])]
           iter == CHOOSE g : g = Def(g)
           f == [k \in 0 .. n |-> iter[1 .. k]]
<1>0. n \in Nat /\ DOMAIN seq = 1 .. n /\ <<>> \in P
  OBVIOUS
<1>1. ASSUME NEW s \in P, NEW i \in 1 .. n PROVE Add(s, seq[i]) \in P
  <2>1. seq[i] \in Servers
    OBVIOUS
  <2>2. NameOf(seq[i], {d.name : d \in ToSet(s)}) \in Labels
    BY <2>1, NameIsNew
  <2>3. [seq[i] EXCEPT !.name = NameOf(seq[i], {d.name : d \in ToSet(s)})] \in Servers
    BY <2>1, <2>2 DEF Servers
  <2> QED BY <2>3
<1>2. step \in [1 .. n -> [P -> P]]
  <2> HIDE DEF Add, P, n
  <2> QED BY <1>1
<1>3. PICK g : IsLoop(g, n, P, <<>>, step)
  <2> HIDE DEF n, P, step
  <2> QED BY <1>0, <1>2, LoopExists
<1>4. g = Def(g)
  <2> HIDE DEF Add, P
  <2>1. ASSUME NEW T \in SUBSET (1 .. n), T # {} PROVE g[T] = Add(g[T \ {Max(T)}], seq[Max(T)])
    <3>1. Max(T) \in 1 .. n
      <4>1. Max(T) \in T
        <5> HIDE DEF n
        <5> QED BY <1>0, <2>1, MaxIsElement
      <4> QED BY <4>1
    <3>2. g[T \ {Max(T)}] \in P /\ g[T] = step[Max(T)][g[T \ {Max(T)}]]
      BY <1>3, <2>1 DEF IsLoop
    <3> QED BY <3>1, <3>2
  <2> HIDE DEF step
  <2> QED BY <1>0, <1>3, <2>1 DEF IsLoop
<1>5. iter = Def(iter)
  <2> HIDE DEF Def
  <2> QED BY <1>4
<1> HIDE DEF iter
<1>6. f[0] = <<>>
  <2>1. 1 .. 0 = {}
    OBVIOUS
  <2> QED BY <1>0, <1>5, <2>1
<1>7. ASSUME NEW k \in 1 .. n PROVE f[k] = Add(f[k - 1], seq[k])
  <2> HIDE DEF Add
  <2>1. iter[1 .. k] = Add(iter[(1 .. k) \ {k}], seq[k])
    BY <1>0, <1>5, PrefixFacts
  <2>2. f[k] = iter[1 .. k] /\ f[k - 1] = iter[(1 .. k) \ {k}]
    BY <1>0, PrefixFacts
  <2> QED BY <2>1, <2>2
<1>8. f \in [0 .. n -> P]
  <2> DEFINE G == {k \in 0 .. n : f[k] \in P}
  <2> HIDE DEF f, Add, P, n
  <2>1. 0 \in G
    BY <1>0, <1>6
  <2>2. ASSUME NEW k \in 1 .. n, k - 1 \in G PROVE k \in G
    <3>1. f[k - 1] \in P /\ k \in 0 .. n
      BY <1>0, <2>2
    <3> QED BY <3>1, <1>1, <1>7
  <2>3. \A k \in 0 .. n : k \in G
    <3> HIDE DEF G
    <3> QED BY <1>0, <2>1, <2>2, UpTo
  <2> QED BY <2>3 DEF f
<1>9. f[n] = DistinctNames(seq)
  BY <1>0 DEF DistinctNames, FoldLeft, MapThenFoldSet, iter
<1> HIDE DEF f
<1> QED BY <1>6, <1>7, <1>8, <1>9 DEF NameRun

\* The list of subscriptions after each round of ensure_distinct_sub_tags.
TagRun(f, seq) ==
  /\ f \in [0 .. Len(seq) -> Seq(Subscriptions)]
  /\ f[0] = <<>> /\ f[Len(seq)] = DistinctTags(seq)
  /\ \A k \in 1 .. Len(seq) :
       f[k] = Append(f[k - 1], [seq[k] EXCEPT !.tag = Numbered(SubTag(seq[k]), {d.tag : d \in ToSet(f[k - 1])})])

\* The loop of DistinctTags has such results.
LEMMA TagsRun ==
  ASSUME NEW seq \in Seq(Subscriptions)
  PROVE  \E f : TagRun(f, seq)
<1> DEFINE n == Len(seq)
           P == Seq(Subscriptions)
           Add(done, s) == Append(done, [s EXCEPT !.tag = Numbered(SubTag(s), {d.tag : d \in ToSet(done)})])
           step == [i \in 1 .. n |-> [s \in P |-> Add(s, seq[i])]]
           Def(g) == [T \in SUBSET DOMAIN seq |->
                        IF T = {} THEN <<>> ELSE LET x == Max(T) IN Add(g[T \ {x}], seq[x])]
           iter == CHOOSE g : g = Def(g)
           f == [k \in 0 .. n |-> iter[1 .. k]]
<1>0. n \in Nat /\ DOMAIN seq = 1 .. n /\ <<>> \in P
  OBVIOUS
<1>1. ASSUME NEW s \in P, NEW i \in 1 .. n PROVE Add(s, seq[i]) \in P
  <2>1. seq[i] \in Subscriptions
    OBVIOUS
  <2>2. Numbered(SubTag(seq[i]), {d.tag : d \in ToSet(s)}) \in Labels
    BY <2>1, TagIsNew
  <2>3. [seq[i] EXCEPT !.tag = Numbered(SubTag(seq[i]), {d.tag : d \in ToSet(s)})] \in Subscriptions
    BY <2>1, <2>2 DEF Subscriptions
  <2> QED BY <2>3
<1>2. step \in [1 .. n -> [P -> P]]
  <2> HIDE DEF Add, P, n
  <2> QED BY <1>1
<1>3. PICK g : IsLoop(g, n, P, <<>>, step)
  <2> HIDE DEF n, P, step
  <2> QED BY <1>0, <1>2, LoopExists
<1>4. g = Def(g)
  <2> HIDE DEF Add, P
  <2>1. ASSUME NEW T \in SUBSET (1 .. n), T # {} PROVE g[T] = Add(g[T \ {Max(T)}], seq[Max(T)])
    <3>1. Max(T) \in 1 .. n
      <4>1. Max(T) \in T
        <5> HIDE DEF n
        <5> QED BY <1>0, <2>1, MaxIsElement
      <4> QED BY <4>1
    <3>2. g[T \ {Max(T)}] \in P /\ g[T] = step[Max(T)][g[T \ {Max(T)}]]
      BY <1>3, <2>1 DEF IsLoop
    <3> QED BY <3>1, <3>2
  <2> HIDE DEF step
  <2> QED BY <1>0, <1>3, <2>1 DEF IsLoop
<1>5. iter = Def(iter)
  <2> HIDE DEF Def
  <2> QED BY <1>4
<1> HIDE DEF iter
<1>6. f[0] = <<>>
  <2>1. 1 .. 0 = {}
    OBVIOUS
  <2> QED BY <1>0, <1>5, <2>1
<1>7. ASSUME NEW k \in 1 .. n PROVE f[k] = Add(f[k - 1], seq[k])
  <2> HIDE DEF Add
  <2>1. iter[1 .. k] = Add(iter[(1 .. k) \ {k}], seq[k])
    BY <1>0, <1>5, PrefixFacts
  <2>2. f[k] = iter[1 .. k] /\ f[k - 1] = iter[(1 .. k) \ {k}]
    BY <1>0, PrefixFacts
  <2> QED BY <2>1, <2>2
<1>8. f \in [0 .. n -> P]
  <2> DEFINE G == {k \in 0 .. n : f[k] \in P}
  <2> HIDE DEF f, Add, P, n
  <2>1. 0 \in G
    BY <1>0, <1>6
  <2>2. ASSUME NEW k \in 1 .. n, k - 1 \in G PROVE k \in G
    <3>1. f[k - 1] \in P /\ k \in 0 .. n
      BY <1>0, <2>2
    <3> QED BY <3>1, <1>1, <1>7
  <2>3. \A k \in 0 .. n : k \in G
    <3> HIDE DEF G
    <3> QED BY <1>0, <2>1, <2>2, UpTo
  <2> QED BY <2>3 DEF f
<1>9. f[n] = DistinctTags(seq)
  BY <1>0 DEF DistinctTags, FoldLeft, MapThenFoldSet, iter
<1> HIDE DEF f
<1> QED BY <1>6, <1>7, <1>8, <1>9 DEF TagRun

\* ensure_distinct_node_names leaves the servers in their order with different names
\* that begin as theirs.
LEMMA NamesDistinguished ==
  ASSUME NEW seq \in Seq(Servers)
  PROVE  /\ DistinctNames(seq) \in Seq(Servers)
         /\ Len(DistinctNames(seq)) = Len(seq)
         /\ NamesDiffer(DistinctNames(seq))
         /\ \A i \in DOMAIN seq : DistinctNames(seq)[i].from = seq[i].from /\ DistinctNames(seq)[i].tag = seq[i].tag /\ DistinctNames(seq)[i].name[1] = seq[i].name[1]
<1> DEFINE n == Len(seq)
           Same(r, k) == r[k].from = seq[k].from /\ r[k].tag = seq[k].tag /\ r[k].name[1] = seq[k].name[1]
           Holds(r, k) == /\ Len(r) = k
                          /\ \A i, j \in 1 .. k : i # j => r[i].name # r[j].name
                          /\ \A i \in 1 .. k : Same(r, i)
<1>0. n \in Nat /\ DOMAIN seq = 1 .. n
  OBVIOUS
<1>1. PICK f : NameRun(f, seq)
  BY NamesRun
<1>2. f \in [0 .. n -> Seq(Servers)] /\ f[0] = <<>> /\ f[n] = DistinctNames(seq)
  BY <1>1 DEF NameRun
<1> DEFINE G == {k \in 0 .. n : Holds(f[k], k)}
<1>3. 0 \in G
  <2>1. Holds(<<>>, 0)
    OBVIOUS
  <2> HIDE DEF Holds
  <2> QED BY <1>0, <1>2, <2>1
<1>4. ASSUME NEW k \in 1 .. n, k - 1 \in G PROVE k \in G
  <2> DEFINE r == f[k - 1]
             new == NameOf(seq[k], {d.name : d \in ToSet(r)})
             e == [seq[k] EXCEPT !.name = new]
  <2>1. r \in Seq(Servers) /\ Holds(r, k - 1) /\ k \in 0 .. n /\ seq[k] \in Servers
    <3>1. k \in 0 .. n /\ k - 1 \in 0 .. n
      BY <1>0
    <3>2. Holds(r, k - 1)
      BY <1>4
    <3> HIDE DEF Holds
    <3> QED BY <1>0, <1>2, <3>1, <3>2
  <2>2. f[k] = Append(r, e)
    BY <1>1 DEF NameRun
  <2>3. new \notin {d.name : d \in ToSet(r)} /\ new \in Labels /\ new[1] = seq[k].name[1]
    <3> HIDE DEF r
    <3> QED BY <2>1, NameIsNew
  <2> HIDE DEF r
  <2>4. ASSUME NEW i \in 1 .. (k - 1) PROVE r[i].name # new
    <3> HIDE DEF new
    <3>1. r[i] \in ToSet(r)
      BY <1>0, <2>1 DEF ToSet
    <3> QED BY <2>3, <3>1
  <2>5. e.name = new /\ e.from = seq[k].from /\ e.tag = seq[k].tag
    <3> HIDE DEF new
    <3> QED BY <2>1, <2>3 DEF Servers
  <2> DEFINE a == Append(r, e)
  <2> HIDE DEF e, new
  <2>6. Len(a) = k /\ a[k] = e /\ \A i \in 1 .. (k - 1) : a[i] = r[i]
    BY <1>0, <2>1
  <2> HIDE DEF a
  <2>7. \A i \in 1 .. k : i = k \/ i \in 1 .. (k - 1)
    BY <1>0
  <2>8. ASSUME NEW i \in 1 .. k, NEW j \in 1 .. k, i # j PROVE a[i].name # a[j].name
    BY <2>1, <2>4, <2>5, <2>6, <2>7, <2>8
  <2>9. ASSUME NEW i \in 1 .. k PROVE Same(a, i)
    BY <2>1, <2>3, <2>5, <2>6, <2>7
  <2>10. Holds(a, k)
    <3> HIDE DEF Same
    <3> QED BY <2>6, <2>8, <2>9
  <2> HIDE DEF Holds
  <2> QED BY <2>1, <2>2, <2>10 DEF a
<1>5. Holds(f[n], n) /\ f[n] \in Seq(Servers)
  <2>1. \A k \in 0 .. n : k \in G
    <3> HIDE DEF G, n
    <3> QED BY <1>0, <1>3, <1>4, UpTo
  <2>2. n \in 0 .. n
    BY <1>0
  <2> HIDE DEF Holds
  <2> QED BY <1>2, <2>1, <2>2
<1>6. DOMAIN f[n] = 1 .. n
  BY <1>5
<1> QED BY <1>0, <1>2, <1>5, <1>6 DEF NamesDiffer

\* ensure_distinct_sub_tags gives every subscription a tag of its own.
LEMMA TagsDistinguished ==
  ASSUME NEW seq \in Seq(Subscriptions)
  PROVE  /\ DistinctTags(seq) \in Seq(Subscriptions)
         /\ Len(DistinctTags(seq)) = Len(seq)
         /\ TagsDiffer(DistinctTags(seq))
         /\ \A i \in DOMAIN seq : DistinctTags(seq)[i].url = seq[i].url /\ DistinctTags(seq)[i].tag \in Labels
<1> DEFINE n == Len(seq)
           Same(r, k) == r[k].url = seq[k].url /\ r[k].tag \in Labels
           Holds(r, k) == /\ Len(r) = k
                          /\ \A i, j \in 1 .. k : i # j => r[i].tag # r[j].tag
                          /\ \A i \in 1 .. k : Same(r, i)
<1>0. n \in Nat /\ DOMAIN seq = 1 .. n
  OBVIOUS
<1>1. PICK f : TagRun(f, seq)
  BY TagsRun
<1>2. f \in [0 .. n -> Seq(Subscriptions)] /\ f[0] = <<>> /\ f[n] = DistinctTags(seq)
  BY <1>1 DEF TagRun
<1> DEFINE G == {k \in 0 .. n : Holds(f[k], k)}
<1>3. 0 \in G
  <2>1. Holds(<<>>, 0)
    OBVIOUS
  <2> HIDE DEF Holds
  <2> QED BY <1>0, <1>2, <2>1
<1>4. ASSUME NEW k \in 1 .. n, k - 1 \in G PROVE k \in G
  <2> DEFINE r == f[k - 1]
             new == Numbered(SubTag(seq[k]), {d.tag : d \in ToSet(r)})
             e == [seq[k] EXCEPT !.tag = new]
  <2>1. r \in Seq(Subscriptions) /\ Holds(r, k - 1) /\ k \in 0 .. n /\ seq[k] \in Subscriptions
    <3>1. k \in 0 .. n /\ k - 1 \in 0 .. n
      BY <1>0
    <3>2. Holds(r, k - 1)
      BY <1>4
    <3> HIDE DEF Holds
    <3> QED BY <1>0, <1>2, <3>1, <3>2
  <2>2. f[k] = Append(r, e)
    BY <1>1 DEF TagRun
  <2>3. new \notin {d.tag : d \in ToSet(r)} /\ new \in Labels
    <3> HIDE DEF r
    <3> QED BY <2>1, TagIsNew
  <2> HIDE DEF r
  <2>4. ASSUME NEW i \in 1 .. (k - 1) PROVE r[i].tag # new
    <3> HIDE DEF new
    <3>1. r[i] \in ToSet(r)
      BY <1>0, <2>1 DEF ToSet
    <3> QED BY <2>3, <3>1
  <2>5. e.tag = new /\ e.url = seq[k].url
    <3> HIDE DEF new
    <3> QED BY <2>1, <2>3 DEF Subscriptions
  <2> DEFINE a == Append(r, e)
  <2> HIDE DEF e, new
  <2>6. Len(a) = k /\ a[k] = e /\ \A i \in 1 .. (k - 1) : a[i] = r[i]
    BY <1>0, <2>1
  <2> HIDE DEF a
  <2>7. \A i \in 1 .. k : i = k \/ i \in 1 .. (k - 1)
    BY <1>0
  <2>8. ASSUME NEW i \in 1 .. k, NEW j \in 1 .. k, i # j PROVE a[i].tag # a[j].tag
    BY <2>1, <2>4, <2>5, <2>6, <2>7, <2>8
  <2>9. ASSUME NEW i \in 1 .. k PROVE Same(a, i)
    BY <2>1, <2>3, <2>5, <2>6, <2>7
  <2>10. Holds(a, k)
    <3> HIDE DEF Same
    <3> QED BY <2>6, <2>8, <2>9
  <2> HIDE DEF Holds
  <2> QED BY <2>1, <2>2, <2>10 DEF a
<1>5. Holds(f[n], n) /\ f[n] \in Seq(Subscriptions)
  <2>1. \A k \in 0 .. n : k \in G
    <3> HIDE DEF G, n
    <3> QED BY <1>0, <1>3, <1>4, UpTo
  <2>2. n \in 0 .. n
    BY <1>0
  <2> HIDE DEF Holds
  <2> QED BY <1>2, <2>1, <2>2
<1>6. DOMAIN f[n] = 1 .. n
  BY <1>5
<1> QED BY <1>0, <1>2, <1>5, <1>6 DEF TagsDiffer

(***************************************************************************)
(* Nodes that keep their names.                                            *)
(***************************************************************************)

\* No two servers of a list, down to position i, have the same name.
Stable(seq, i) == \A p, q \in 1 .. i : p # q => seq[p].name # seq[q].name

\* ensure_distinct_node_names leaves a server alone when it and the ones above it
\* have different names.
LEMMA PrefixStays ==
  ASSUME NEW seq \in Seq(Servers), NEW m \in DOMAIN seq, Stable(seq, m)
  PROVE  DistinctNames(seq)[m] = seq[m]
<1> DEFINE n == Len(seq)
           Holds(r, k) == Len(r) = k /\ \A i \in 1 .. k : i <= m => r[i] = seq[i]
<1>0. n \in Nat /\ DOMAIN seq = 1 .. n /\ m \in 1 .. n
  OBVIOUS
<1>1. PICK f : NameRun(f, seq)
  BY NamesRun
<1>2. f \in [0 .. n -> Seq(Servers)] /\ f[0] = <<>> /\ f[n] = DistinctNames(seq)
  BY <1>1 DEF NameRun
<1> DEFINE G == {k \in 0 .. n : Holds(f[k], k)}
<1>3. 0 \in G
  <2>1. Holds(<<>>, 0)
    OBVIOUS
  <2> HIDE DEF Holds
  <2> QED BY <1>0, <1>2, <2>1
<1>4. ASSUME NEW k \in 1 .. n, k - 1 \in G PROVE k \in G
  <2> DEFINE r == f[k - 1]
             used == {d.name : d \in ToSet(r)}
             e == [seq[k] EXCEPT !.name = NameOf(seq[k], used)]
             a == Append(r, e)
  <2>1. r \in Seq(Servers) /\ Holds(r, k - 1) /\ k \in 0 .. n /\ seq[k] \in Servers
    <3>1. k \in 0 .. n /\ k - 1 \in 0 .. n
      BY <1>0
    <3>2. Holds(r, k - 1)
      BY <1>4
    <3> HIDE DEF Holds
    <3> QED BY <1>0, <1>2, <3>1, <3>2
  <2>2. f[k] = a
    BY <1>1 DEF NameRun
  <2> HIDE DEF r
  <2>3. ASSUME k <= m PROVE e = seq[k]
    <3>1. ASSUME NEW d \in ToSet(r) PROVE d.name # seq[k].name
      <4>1. PICK i \in 1 .. (k - 1) : d = r[i]
        BY <2>1 DEF ToSet
      <4>2. i \in 1 .. m /\ k \in 1 .. m /\ i # k /\ i <= m
        BY <1>0, <2>3
      <4>3. d = seq[i]
        BY <2>1, <4>1, <4>2
      <4> QED BY <4>2, <4>3 DEF Stable
    <3>2. seq[k].name \notin used
      BY <3>1
    <3>3. NameOf(seq[k], used) = seq[k].name
      <4> HIDE DEF used
      <4> QED BY <3>2 DEF NameOf
    <3> QED BY <2>1, <3>3 DEF Servers
  <2> HIDE DEF e
  <2>4. Len(a) = k /\ a[k] = e /\ \A i \in 1 .. (k - 1) : a[i] = r[i]
    BY <1>0, <2>1
  <2> HIDE DEF a
  <2>5. \A i \in 1 .. k : i = k \/ i \in 1 .. (k - 1)
    BY <1>0
  <2>6. Holds(a, k)
    BY <2>1, <2>3, <2>4, <2>5
  <2> HIDE DEF Holds
  <2> QED BY <2>1, <2>2, <2>6
<1>5. Holds(f[n], n)
  <2>1. \A k \in 0 .. n : k \in G
    <3> HIDE DEF G, n
    <3> QED BY <1>0, <1>3, <1>4, UpTo
  <2>2. n \in 0 .. n
    BY <1>0
  <2> HIDE DEF Holds
  <2> QED BY <2>1, <2>2
<1> QED BY <1>0, <1>2, <1>5

\* Where the elements that retain keeps have been.
Origins(r, seq, k, S, h) ==
  /\ h \in [1 .. Len(r) -> 1 .. k]
  /\ \A p \in 1 .. Len(r) : r[p] = seq[h[p]]
  /\ \A p, q \in 1 .. Len(r) : p < q => h[p] < h[q]
  /\ \A i \in 1 .. k : seq[i] \in S => \E p \in 1 .. Len(r) : h[p] = i

\* retain leaves the elements it keeps in their order.
LEMMA RetainOrder ==
  ASSUME NEW X, NEW seq \in Seq(X), NEW S
  PROVE  \E h : Origins(retain(seq, S), seq, Len(seq), S, h)
<1> DEFINE n == Len(seq)
           Holds(r, k) == \E h : Origins(r, seq, k, S, h)
<1>0. n \in Nat /\ DOMAIN seq = 1 .. n
  OBVIOUS
<1>1. PICK f : RetainRun(f, X, seq, S)
  BY RetainRuns
<1>2. /\ f \in [0 .. n -> Seq(X)] /\ f[0] = <<>> /\ f[n] = retain(seq, S)
      /\ \A k \in 1 .. n : f[k] = IF seq[k] \in S THEN Append(f[k - 1], seq[k]) ELSE f[k - 1]
  BY <1>1 DEF RetainRun
<1> DEFINE G == {k \in 0 .. n : Holds(f[k], k)}
<1>3. 0 \in G
  <2>1. Origins(<<>>, seq, 0, S, <<>>)
    BY DEF Origins
  <2>2. Holds(<<>>, 0)
    BY <2>1
  <2> HIDE DEF Holds
  <2> QED BY <1>0, <1>2, <2>2
<1>4. ASSUME NEW k \in 1 .. n, k - 1 \in G PROVE k \in G
  <2> DEFINE r == f[k - 1]
  <2>1. r \in Seq(X) /\ Holds(r, k - 1) /\ k \in 0 .. n
    <3>1. k \in 0 .. n /\ k - 1 \in 0 .. n
      BY <1>0
    <3>2. Holds(r, k - 1)
      BY <1>4
    <3> HIDE DEF Holds
    <3> QED BY <1>2, <3>1, <3>2
  <2>2. f[k] = IF seq[k] \in S THEN Append(r, seq[k]) ELSE r
    BY <1>2
  <2> HIDE DEF r
  <2>3. PICK h : Origins(r, seq, k - 1, S, h)
    BY <2>1
  <2>4. /\ \A i \in 1 .. k : i = k \/ i \in 1 .. (k - 1)
        /\ \A i \in 1 .. (k - 1) : i \in 1 .. k /\ i < k
    BY <1>0
  <2>5. /\ h \in [1 .. Len(r) -> 1 .. (k - 1)]
        /\ \A p \in 1 .. Len(r) : r[p] = seq[h[p]]
        /\ \A p, q \in 1 .. Len(r) : p < q => h[p] < h[q]
        /\ \A i \in 1 .. (k - 1) : seq[i] \in S => \E p \in 1 .. Len(r) : h[p] = i
    BY <2>3 DEF Origins
  <2>6. CASE seq[k] \in S
    <3> DEFINE a == Append(r, seq[k])
               l == Len(r)
               g == [p \in 1 .. l + 1 |-> IF p \in 1 .. l THEN h[p] ELSE k]
    <3>1. Len(a) = l + 1 /\ a[l + 1] = seq[k] /\ l \in Nat /\ \A i \in 1 .. l : a[i] = r[i]
      BY <2>1
    <3> HIDE DEF a, l
    <3>2. /\ \A p \in 1 .. l + 1 : p = l + 1 \/ p \in 1 .. l
          /\ \A p \in 1 .. l : p \in 1 .. l + 1 /\ p < l + 1
          /\ l + 1 \in 1 .. l + 1 /\ l + 1 \notin 1 .. l
      BY <3>1
    <3>3. g \in [1 .. l + 1 -> 1 .. k] /\ g[l + 1] = k /\ \A p \in 1 .. l : g[p] = h[p]
      BY <1>0, <2>4, <2>5, <3>2 DEF l
    <3> HIDE DEF g
    <3>4. \A p \in 1 .. l + 1 : a[p] = seq[g[p]]
      BY <2>5, <3>1, <3>2, <3>3 DEF l
    <3>5. ASSUME NEW p \in 1 .. l + 1, NEW q \in 1 .. l + 1, p < q PROVE g[p] < g[q]
      <4>1. p \in 1 .. l
        BY <3>1, <3>5
      <4>2. CASE q \in 1 .. l
        BY <2>5, <3>3, <3>5, <4>1, <4>2 DEF l
      <4>3. CASE q = l + 1
        <5>1. g[p] = h[p] /\ h[p] \in 1 .. (k - 1) /\ g[q] = k
          BY <2>5, <3>3, <4>1, <4>3 DEF l
        <5> QED BY <2>4, <5>1
      <4> QED BY <3>2, <4>2, <4>3
    <3>6. ASSUME NEW i \in 1 .. k, seq[i] \in S PROVE \E p \in 1 .. l + 1 : g[p] = i
      <4>1. CASE i = k
        BY <3>2, <3>3, <4>1
      <4>2. CASE i \in 1 .. (k - 1)
        BY <2>5, <3>2, <3>3, <3>6, <4>2 DEF l
      <4> QED BY <2>4, <4>1, <4>2
    <3>7. Origins(a, seq, k, S, g)
      BY <3>1, <3>3, <3>4, <3>5, <3>6 DEF Origins
    <3>8. Holds(a, k)
      BY <3>7
    <3> HIDE DEF Holds
    <3> QED BY <2>1, <2>2, <2>6, <3>8 DEF a
  <2>7. CASE seq[k] \notin S
    <3>1. h \in [1 .. Len(r) -> 1 .. k]
      BY <2>4, <2>5
    <3>2. Origins(r, seq, k, S, h)
      BY <2>4, <2>5, <2>7, <3>1 DEF Origins
    <3>3. Holds(r, k)
      BY <3>2
    <3> HIDE DEF Holds
    <3> QED BY <2>1, <2>2, <2>7, <3>3
  <2> QED BY <2>6, <2>7
<1>5. Holds(f[n], n)
  <2>1. \A k \in 0 .. n : k \in G
    <3> HIDE DEF G, n
    <3> QED BY <1>0, <1>3, <1>4, UpTo
  <2>2. n \in 0 .. n
    BY <1>0
  <2> HIDE DEF Holds
  <2> QED BY <2>1, <2>2
<1> QED BY <1>2, <1>5

(***************************************************************************)
(* The merge of fetched nodes.                                             *)
(***************************************************************************)

\* Every node that came from no subscription, but for those of X, is still there
\* and keeps its name in the next load.
KeepsManual(old, new, X) ==
  \A i \in DOMAIN old : old[i].from = Manual /\ old[i] \notin X =>
    \E p \in DOMAIN new : new[p] = old[i] /\ Stable(new, p)

\* A list of servers in which nodes that came from no subscription have no tag,
\* and all of those of old are there.
MergedFrom(old) ==
  {x \in Seq(Servers) : ManualIsUntagged(x) /\ KeepsManual(old, x, {})}

\* A list whose names differ keeps them.
LEMMA SameKept ==
  ASSUME NEW old \in Seq(Servers), NamesDiffer(old)
  PROVE  KeepsManual(old, old, {})
<1>1. ASSUME NEW i \in DOMAIN old PROVE Stable(old, i)
  <2>1. \A p \in 1 .. i : p \in DOMAIN old
    OBVIOUS
  <2> QED BY <2>1 DEF Stable, NamesDiffer
<1> QED BY <1>1 DEF KeepsManual

\* So does what retain leaves of it.
LEMMA RetainedKept ==
  ASSUME NEW old \in Seq(Servers), NamesDiffer(old), NEW S, NEW X,
         \A x \in ToSet(old) : x.from = Manual /\ x \notin X => x \in S
  PROVE  KeepsManual(old, retain(old, S), X)
<1> DEFINE r == retain(old, S)
<1>1. /\ r \in Seq(Servers) /\ ToSet(r) = ToSet(old) \cap S
      /\ \A p, q \in DOMAIN r : p # q => \E i, j \in DOMAIN old : i # j /\ r[p] = old[i] /\ r[q] = old[j]
  BY RetainKeeps
<1> HIDE DEF r
<1>2. ASSUME NEW k \in DOMAIN r PROVE Stable(r, k)
  <2> SUFFICES ASSUME NEW p \in 1 .. k, NEW q \in 1 .. k, p # q PROVE r[p].name # r[q].name
    BY DEF Stable
  <2>1. p \in DOMAIN r /\ q \in DOMAIN r
    BY <1>1
  <2>2. PICK i, j \in DOMAIN old : i # j /\ r[p] = old[i] /\ r[q] = old[j]
    BY <1>1, <2>1
  <2> QED BY <2>2 DEF NamesDiffer
<1>3. ASSUME NEW i \in DOMAIN old, old[i].from = Manual, old[i] \notin X
      PROVE  \E p \in DOMAIN r : r[p] = old[i]
  <2>1. old[i] \in ToSet(old)
    BY DEF ToSet
  <2>2. old[i] \in ToSet(r)
    BY <1>1, <1>3, <2>1
  <2> QED BY <2>2 DEF ToSet
<1> QED BY <1>2, <1>3 DEF KeepsManual, r

\* Taking away the nodes of one tag takes none that came from no subscription.
LEMMA UntaggedKeeps ==
  ASSUME NEW old, NEW servers \in MergedFrom(old), NEW tag \in Labels
  PROVE  Untagged(servers, {tag}) \in MergedFrom(old)
<1> DEFINE S == {s \in ToSet(servers) : s.tag \notin {tag}}
           r == retain(servers, S)
<1>0. servers \in Seq(Servers) /\ ManualIsUntagged(servers) /\ KeepsManual(old, servers, {})
  BY DEF MergedFrom
<1>1. r \in Seq(Servers) /\ ToSet(r) = ToSet(servers) \cap S
  <2> HIDE DEF S
  <2> QED BY <1>0, RetainKeeps
<1>2. \A x \in ToSet(servers) : x.from = Manual => x.tag = None
  BY <1>0 DEF ManualIsUntagged, ToSet
<1>3. tag # None
  BY NoneAssumption
<1> HIDE DEF r
<1>4. KeepsManual(old, r, {})
  <2>1. PICK h : Origins(r, servers, Len(servers), S, h)
    <3> HIDE DEF S
    <3> QED BY <1>0, RetainOrder DEF r
  <2>2. /\ Len(r) \in Nat /\ DOMAIN r = 1 .. Len(r) /\ DOMAIN servers = 1 .. Len(servers)
        /\ Len(servers) \in Nat
    BY <1>0, <1>1
  <2>3. /\ h \in [1 .. Len(r) -> 1 .. Len(servers)]
        /\ \A p \in 1 .. Len(r) : r[p] = servers[h[p]]
        /\ \A p, q \in 1 .. Len(r) : p < q => h[p] < h[q]
        /\ \A i \in 1 .. Len(servers) : servers[i] \in S => \E p \in 1 .. Len(r) : h[p] = i
    BY <2>1 DEF Origins
  <2> SUFFICES ASSUME NEW i \in DOMAIN old, old[i].from = Manual
               PROVE  \E k \in DOMAIN r : r[k] = old[i] /\ Stable(r, k)
    BY DEF KeepsManual
  <2>4. PICK m \in DOMAIN servers : servers[m] = old[i] /\ Stable(servers, m)
    BY <1>0 DEF KeepsManual
  <2>5. servers[m] \in S
    <3>1. servers[m] \in ToSet(servers)
      BY DEF ToSet
    <3> QED BY <1>2, <1>3, <2>4, <3>1
  <2>6. PICK k \in 1 .. Len(r) : h[k] = m
    BY <2>2, <2>3, <2>5
  <2>7. ASSUME NEW p \in 1 .. k, NEW q \in 1 .. k, p < q PROVE r[p].name # r[q].name
    <3>1. p \in 1 .. Len(r) /\ q \in 1 .. Len(r) /\ (q < k \/ q = k)
      BY <2>2
    <3>2. h[p] \in 1 .. Len(servers) /\ h[q] \in 1 .. Len(servers) /\ h[p] < h[q]
      BY <2>3, <2>7, <3>1
    <3>3. h[q] < m \/ h[q] = m
      BY <2>3, <2>6, <3>1
    <3>4. h[p] \in 1 .. m /\ h[q] \in 1 .. m /\ h[p] # h[q]
      BY <2>2, <3>2, <3>3
    <3> QED BY <2>3, <2>4, <3>1, <3>4 DEF Stable
  <2>8. Stable(r, k)
    <3> SUFFICES ASSUME NEW p \in 1 .. k, NEW q \in 1 .. k, p # q PROVE r[p].name # r[q].name
      BY DEF Stable
    <3>1. p < q \/ q < p
      OBVIOUS
    <3> QED BY <2>7, <3>1
  <2> QED BY <2>2, <2>3, <2>4, <2>6, <2>8
<1>5. ManualIsUntagged(r)
  <2>1. \A i \in DOMAIN r : r[i] \in ToSet(servers)
    BY <1>1 DEF ToSet
  <2> QED BY <1>2, <2>1 DEF ManualIsUntagged
<1>6. Untagged(servers, {tag}) = r
  BY DEF Untagged, r
<1> QED BY <1>1, <1>4, <1>5, <1>6 DEF MergedFrom

\* Nodes of subscriptions may be appended.
LEMMA AppendedKeeps ==
  ASSUME NEW old, NEW servers \in MergedFrom(old), NEW more \in Seq(Servers),
         ManualIsUntagged(more)
  PROVE  servers \o more \in MergedFrom(old)
<1> DEFINE r == servers \o more
<1>0. servers \in Seq(Servers) /\ ManualIsUntagged(servers) /\ KeepsManual(old, servers, {})
  BY DEF MergedFrom
<1>1. /\ r \in Seq(Servers) /\ Len(r) = Len(servers) + Len(more)
      /\ \A i \in 1 .. Len(r) : r[i] = IF i <= Len(servers) THEN servers[i] ELSE more[i - Len(servers)]
  BY <1>0
<1> HIDE DEF r
<1>2. ASSUME NEW i \in DOMAIN r, r[i].from = Manual PROVE r[i].tag = None
  <2>1. i \in 1 .. Len(r) /\ Len(servers) \in Nat /\ Len(more) \in Nat
    BY <1>0, <1>1
  <2>2. CASE i <= Len(servers)
    BY <1>0, <1>1, <1>2, <2>1, <2>2 DEF ManualIsUntagged
  <2>3. CASE ~(i <= Len(servers))
    <3>1. i - Len(servers) \in DOMAIN more /\ r[i] = more[i - Len(servers)]
      BY <1>1, <2>1, <2>3
    <3> QED BY <1>2, <3>1 DEF ManualIsUntagged
  <2> QED BY <2>2, <2>3
<1>3. ASSUME NEW i \in DOMAIN servers, Stable(servers, i)
      PROVE  i \in DOMAIN r /\ r[i] = servers[i] /\ Stable(r, i)
  <2>1. \A p \in 1 .. i : p \in 1 .. Len(r) /\ p <= Len(servers)
    BY <1>0, <1>1
  <2>2. \A p \in 1 .. i : r[p] = servers[p]
    BY <1>1, <2>1
  <2>3. i \in 1 .. i /\ DOMAIN r = 1 .. Len(r)
    BY <1>0, <1>1
  <2> QED BY <1>3, <2>1, <2>2, <2>3 DEF Stable
<1>4. KeepsManual(old, r, {})
  BY <1>0, <1>3 DEF KeepsManual
<1>5. ManualIsUntagged(r)
  BY <1>2 DEF ManualIsUntagged
<1> QED BY <1>1, <1>4, <1>5 DEF MergedFrom, r

\* The fetched nodes as servers of the subscription.
LEMMA FetchedNodes ==
  ASSUME NEW sub \in Subscriptions, NEW f \in Fetched, f.ok
  PROVE  LET more == [i \in DOMAIN f.nodes |-> [Node(sub.url, f.nodes[i]) EXCEPT !.tag = SubTag(sub)]]
         IN  more \in Seq(Servers) /\ ManualIsUntagged(more)
<1> DEFINE more == [i \in DOMAIN f.nodes |-> [Node(sub.url, f.nodes[i]) EXCEPT !.tag = SubTag(sub)]]
<1>1. f.nodes \in Seq(Bases)
  <2>1. f.nodes \in {<<>>} \cup {<<b>> : b \in Bases}
    BY DEF Fetched
  <2>2. CASE f.nodes = <<>>
    BY <2>2
  <2>3. CASE f.nodes # <<>>
    <3>1. PICK b \in Bases : f.nodes = <<b>>
      BY <2>1, <2>3
    <3> QED BY <3>1
  <2> QED BY <2>2, <2>3
<1>2. sub.url \in Urls /\ SubTag(sub) \in Labels
  <2>1. Host[sub.url] \in Titles /\ sub.url \in Urls
    BY ConfigStoreAssumption DEF Subscriptions
  <2> QED BY <2>1 DEF SubTag, Labels, Subscriptions
<1>3. ASSUME NEW b \in Bases
      PROVE  /\ [Node(sub.url, b) EXCEPT !.tag = SubTag(sub)] \in Servers
             /\ [Node(sub.url, b) EXCEPT !.tag = SubTag(sub)].from # Manual
  <2>1. <<b>> \in Labels
    BY DEF Labels
  <2> QED BY <1>2, <2>1, ConfigStoreAssumption DEF Node, Servers
<1>4. more \in Seq(Servers)
  <2>1. DOMAIN f.nodes = 1 .. Len(f.nodes) /\ Len(f.nodes) \in Nat
    BY <1>1
  <2>2. ASSUME NEW i \in 1 .. Len(f.nodes) PROVE more[i] \in Servers
    <3>1. f.nodes[i] \in Bases
      BY <1>1
    <3> QED BY <1>3, <2>1, <3>1
  <2>3. more = [i \in 1 .. Len(f.nodes) |-> more[i]]
    BY <2>1
  <2> HIDE DEF more
  <2>4. [i \in 1 .. Len(f.nodes) |-> more[i]] \in Seq(Servers)
    BY <2>1, <2>2
  <2> QED BY <2>3, <2>4
<1>5. ManualIsUntagged(more)
  BY <1>1, <1>3 DEF ManualIsUntagged
<1> QED BY <1>4, <1>5

\* An update of one subscription keeps the nodes that came from none.
LEMMA MergedKeeps ==
  ASSUME NEW old, NEW servers \in MergedFrom(old), NEW sub \in Subscriptions,
         NEW f \in Fetched, f.ok
  PROVE  Merged(servers, sub, f) \in MergedFrom(old)
<1> DEFINE more == [i \in DOMAIN f.nodes |-> [Node(sub.url, f.nodes[i]) EXCEPT !.tag = SubTag(sub)]]
           left == Untagged(servers, {SubTag(sub)})
<1>1. more \in Seq(Servers) /\ ManualIsUntagged(more)
  BY FetchedNodes
<1>2. SubTag(sub) \in Labels
  <2>1. Host[sub.url] \in Titles
    BY ConfigStoreAssumption DEF Subscriptions
  <2> QED BY <2>1 DEF SubTag, Labels, Subscriptions
<1>3. left \in MergedFrom(old)
  BY <1>2, UntaggedKeeps
<1>4. Merged(servers, sub, f) = left \o more
  BY DEF Merged
<1> HIDE DEF left, more
<1> QED BY <1>1, <1>3, <1>4, AppendedKeeps

\* So does the update of all of them.
LEMMA MergedAllKeeps ==
  ASSUME NEW old, NEW servers \in MergedFrom(old), NEW subs \in Seq(Subscriptions),
         NEW fs \in [1 .. Len(subs) -> Fetched]
  PROVE  MergedAll(servers, subs, fs) \in MergedFrom(old)
<1> DEFINE n == Len(subs)
           P == MergedFrom(old)
           Add(done, i) == IF fs[i].ok THEN Merged(done, subs[i], fs[i]) ELSE done
           seq == [i \in DOMAIN fs |-> i]
           step == [i \in 1 .. n |-> [s \in P |-> Add(s, seq[i])]]
           Def(g) == [T \in SUBSET DOMAIN seq |->
                        IF T = {} THEN servers ELSE LET x == Max(T) IN Add(g[T \ {x}], seq[x])]
           iter == CHOOSE g : g = Def(g)
<1>0. n \in Nat /\ DOMAIN seq = 1 .. n /\ \A i \in 1 .. n : seq[i] = i
  OBVIOUS
<1>1. ASSUME NEW s \in P, NEW i \in 1 .. n PROVE Add(s, seq[i]) \in P
  <2>1. subs[i] \in Subscriptions /\ fs[i] \in Fetched
    OBVIOUS
  <2> QED BY <2>1, MergedKeeps
<1>2. step \in [1 .. n -> [P -> P]]
  <2> HIDE DEF Add, P, n, seq
  <2> QED BY <1>1
<1>3. PICK g : IsLoop(g, n, P, servers, step)
  <2> HIDE DEF n, P, step
  <2>1. servers \in P
    BY DEF P
  <2> QED BY <1>0, <1>2, <2>1, LoopExists
<1> HIDE DEF seq
<1>4. g = Def(g)
  <2> HIDE DEF Add, P
  <2>1. ASSUME NEW T \in SUBSET (1 .. n), T # {} PROVE g[T] = Add(g[T \ {Max(T)}], seq[Max(T)])
    <3>1. Max(T) \in 1 .. n
      <4>1. Max(T) \in T
        <5> HIDE DEF n
        <5> QED BY <1>0, <2>1, MaxIsElement
      <4> QED BY <4>1
    <3>2. g[T \ {Max(T)}] \in P /\ g[T] = step[Max(T)][g[T \ {Max(T)}]]
      BY <1>3, <2>1 DEF IsLoop
    <3> QED BY <3>1, <3>2
  <2> HIDE DEF step
  <2> QED BY <1>0, <1>3, <2>1 DEF IsLoop
<1>5. iter = Def(iter)
  <2> HIDE DEF Def
  <2> QED BY <1>4
<1> HIDE DEF iter
<1> DEFINE G == {k \in 0 .. n : iter[1 .. k] \in P}
<1>6. 0 \in G
  <2>1. 1 .. 0 = {}
    OBVIOUS
  <2> QED BY <1>0, <1>5, <2>1
<1>7. ASSUME NEW k \in 1 .. n, k - 1 \in G PROVE k \in G
  <2> HIDE DEF Add, P, n
  <2>1. iter[1 .. k] = Add(iter[1 .. (k - 1)], seq[k])
    <3>1. 1 .. k \in SUBSET DOMAIN seq /\ 1 .. k # {} /\ Max(1 .. k) = k /\ (1 .. k) \ {k} = 1 .. (k - 1)
      BY <1>0, PrefixFacts
    <3> QED BY <1>5, <3>1
  <2>2. k \in 0 .. n /\ iter[1 .. (k - 1)] \in P
    BY <1>0, <1>7
  <2> QED BY <1>1, <2>1, <2>2
<1>8. iter[1 .. n] \in P
  <2>1. \A k \in 0 .. n : k \in G
    <3> HIDE DEF G, n
    <3> QED BY <1>0, <1>6, <1>7, UpTo
  <2>2. n \in 0 .. n
    BY <1>0
  <2> QED BY <2>1, <2>2
<1>9. MergedAll(servers, subs, fs) = iter[1 .. n]
  BY <1>0 DEF MergedAll, FoldLeft, MapThenFoldSet, iter, seq
<1> QED BY <1>8, <1>9

(***************************************************************************)
(* Configurations.                                                         *)
(***************************************************************************)

\* The empty configuration is in order, and sanitize_config leaves it as it is.
LEMMA DefaultFacts ==
  /\ Default \in AppConfig /\ Orderly(Default) /\ NamesDiffer(Default.servers)
  /\ Sanitized(Default) = Default
<1>1. Default \in AppConfig
  BY DEF Default, AppConfig
<1>2. Orderly(Default) /\ NamesDiffer(Default.servers)
  BY DEF Default, Orderly, TagsDiffer, ManualIsUntagged, NamesDiffer
<1>3. DistinctNames(<<>>) = <<>>
  <2>1. <<>> \in Seq(Servers)
    OBVIOUS
  <2>2. DistinctNames(<<>>) \in Seq(Servers) /\ Len(DistinctNames(<<>>)) = 0
    BY <2>1, NamesDistinguished
  <2> QED BY <2>2
<1>4. Sanitized(Default) = Default
  BY <1>3 DEF Sanitized, Default
<1> QED BY <1>1, <1>2, <1>4

\* sanitize_config changes nothing but names.
LEMMA SanitizedFacts ==
  ASSUME NEW cfg \in AppConfig
  PROVE  /\ Sanitized(cfg) \in AppConfig
         /\ NamesDiffer(Sanitized(cfg).servers)
         /\ Sanitized(cfg).servers = DistinctNames(cfg.servers)
         /\ Sanitized(cfg).local_wg = cfg.local_wg
         /\ Orderly(cfg) => Orderly(Sanitized(cfg))
<1> DEFINE d == DistinctNames(cfg.servers)
<1>0. cfg.servers \in Seq(Servers)
  BY DEF AppConfig
<1>1. /\ d \in Seq(Servers) /\ NamesDiffer(d) /\ Len(d) = Len(cfg.servers)
      /\ \A i \in DOMAIN cfg.servers : d[i].from = cfg.servers[i].from /\ d[i].tag = cfg.servers[i].tag
  BY <1>0, NamesDistinguished
<1> HIDE DEF d
<1>2. Sanitized(cfg) = [cfg EXCEPT !.servers = d]
  BY DEF Sanitized, d
<1>3. /\ Sanitized(cfg) \in AppConfig /\ Sanitized(cfg).servers = d
      /\ Sanitized(cfg).local_wg = cfg.local_wg
      /\ Sanitized(cfg).subscriptions = cfg.subscriptions
  BY <1>1, <1>2 DEF AppConfig
<1>4. DOMAIN d = DOMAIN cfg.servers
  BY <1>0, <1>1
<1>5. ManualIsUntagged(cfg.servers) => ManualIsUntagged(d)
  BY <1>1, <1>4 DEF ManualIsUntagged
<1> QED BY <1>1, <1>3, <1>5 DEF Orderly, d

\* A save that leaves the keys of the local WireGuard server alone.
IsEdit(t, c) ==
  /\ Ready(t) /\ Edit(t, c)
  /\ c \in AppConfig /\ Orderly(c) /\ c.local_wg = copy[t].local_wg

\* One that takes away no node that came from no subscription, but for those of X.
EditBut(t, X) == \E c : IsEdit(t, c) /\ KeepsManual(copy[t].servers, c.servers, X)

MildEdit(t) == EditBut(t, {})

\* The nodes clear_subscription_nodes takes for those of subscriptions.
Dots == {x \in Servers : HasDot(x.name)}

\* The commands that edit the rules.
LEMMA RuleEdits ==
  ASSUME NEW t \in Tasks, copy[t] \in AppConfig, Orderly(copy[t]),
         Ready(t) => NamesDiffer(copy[t].servers),
         AddRule(t) \/ UpdateRule(t) \/ RemoveRule(t) \/ MoveRule(t) \/ ApplyPreset(t)
  PROVE  MildEdit(t)
<1> DEFINE R == copy[t].rules
<1>0. R \in Seq(RuleIds)
  BY DEF AppConfig
<1>1. ASSUME NEW r \in Seq(RuleIds), Ready(t), Edit(t, [copy[t] EXCEPT !.rules = r])
      PROVE  MildEdit(t)
  <2> DEFINE c == [copy[t] EXCEPT !.rules = r]
  <2>1. /\ c \in AppConfig /\ c.servers = copy[t].servers
        /\ c.subscriptions = copy[t].subscriptions /\ c.local_wg = copy[t].local_wg
    BY DEF AppConfig
  <2> HIDE DEF c
  <2>2. Edit(t, c)
    BY <1>1 DEF c
  <2>3. KeepsManual(copy[t].servers, c.servers, {})
    BY <1>1, <2>1, SameKept DEF AppConfig
  <2> QED BY <1>1, <2>1, <2>2, <2>3 DEF MildEdit, EditBut, IsEdit, Orderly
<1>2. CASE AddRule(t)
  <2>1. PICK r \in RuleIds : Ready(t) /\ Edit(t, [copy[t] EXCEPT !.rules = Append(R, r)])
    BY <1>2 DEF AddRule
  <2>2. Append(R, r) \in Seq(RuleIds)
    BY <1>0
  <2> QED BY <1>1, <2>1, <2>2
<1>3. CASE UpdateRule(t)
  <2>1. PICK r \in RuleIds, i \in Index(R) : Ready(t) /\ Edit(t, [copy[t] EXCEPT !.rules[i] = r])
    BY <1>3 DEF UpdateRule
  <2>2. [R EXCEPT ![i] = r] \in Seq(RuleIds)
    BY <1>0 DEF Index
  <2>3. [copy[t] EXCEPT !.rules[i] = r] = [copy[t] EXCEPT !.rules = [R EXCEPT ![i] = r]]
    BY DEF AppConfig
  <2> QED BY <1>1, <2>1, <2>2, <2>3
<1>4. CASE RemoveRule(t)
  <2>1. PICK i \in Index(R) : Ready(t) /\ Edit(t, [copy[t] EXCEPT !.rules = RemoveAt(R, i)])
    BY <1>4 DEF RemoveRule
  <2>2. RemoveAt(R, i) \in Seq(RuleIds)
    <3>1. i \in 1 .. Len(R)
      BY DEF Index
    <3>2. SubSeq(R, 1, i - 1) \in Seq(RuleIds) /\ SubSeq(R, i + 1, Len(R)) \in Seq(RuleIds)
      BY <1>0, <3>1
    <3> QED BY <3>2 DEF RemoveAt
  <2> QED BY <1>1, <2>1, <2>2
<1>5. CASE MoveRule(t)
  <2>1. PICK i \in 1 .. Len(R) - 1 :
          Ready(t) /\ Edit(t, [copy[t] EXCEPT !.rules[i] = R[i + 1], !.rules[i + 1] = R[i]])
    BY <1>5 DEF MoveRule
  <2>2. i \in 1 .. Len(R) /\ i + 1 \in 1 .. Len(R)
    BY <1>0
  <2>3. [R EXCEPT ![i] = R[i + 1], ![i + 1] = R[i]] \in Seq(RuleIds)
    BY <1>0, <2>2
  <2>4. [copy[t] EXCEPT !.rules[i] = R[i + 1], !.rules[i + 1] = R[i]]
          = [copy[t] EXCEPT !.rules = [R EXCEPT ![i] = R[i + 1], ![i + 1] = R[i]]]
    BY DEF AppConfig
  <2> QED BY <1>1, <2>1, <2>3, <2>4
<1>6. CASE ApplyPreset(t)
  <2>1. Ready(t) /\ Edit(t, [copy[t] EXCEPT !.rules = Preset])
    BY <1>6 DEF ApplyPreset
  <2> QED BY <1>1, <2>1, ConfigStoreAssumption
<1> QED BY <1>2, <1>3, <1>4, <1>5, <1>6

\* The commands that edit settings.
LEMMA SettingEdits ==
  ASSUME NEW t \in Tasks, copy[t] \in AppConfig, Orderly(copy[t]),
         Ready(t) => NamesDiffer(copy[t].servers),
         \/ SetSettings(t) \/ SetConnection(t) \/ SetGeoPaths(t) \/ SetSplit(t)
         \/ SetSocksProxies(t) \/ DownloadGeo(t) \/ LocalWgSet(t)
  PROVE  MildEdit(t)
<1>0. ASSUME NEW c \in AppConfig, Ready(t), Edit(t, c),
             c.servers = copy[t].servers, c.subscriptions = copy[t].subscriptions,
             c.local_wg = copy[t].local_wg
      PROVE  MildEdit(t)
  <2>1. KeepsManual(copy[t].servers, c.servers, {})
    BY <1>0, SameKept DEF AppConfig
  <2> QED BY <1>0, <2>1 DEF MildEdit, EditBut, IsEdit, Orderly
<1>1. ASSUME NEW o \in Options, SetOption(t, o) PROVE MildEdit(t)
  <2> DEFINE c == [copy[t] EXCEPT !.options = @ \cup {o}]
  <2>1. /\ c \in AppConfig /\ c.servers = copy[t].servers
        /\ c.subscriptions = copy[t].subscriptions /\ c.local_wg = copy[t].local_wg
    BY DEF AppConfig
  <2>2. Ready(t) /\ Edit(t, c)
    BY <1>1 DEF SetOption
  <2> HIDE DEF c
  <2> QED BY <1>0, <2>1, <2>2
<1>2. CASE SetSettings(t)
  <2>1. PICK d \in {s.name : s \in ToSet(copy[t].servers)} \cup {None} :
          Ready(t) /\ Edit(t, [copy[t] EXCEPT !.default_proxy = d])
    BY <1>2 DEF SetSettings
  <2>2. d \in Labels \cup {None}
    <3>1. ASSUME NEW s \in ToSet(copy[t].servers) PROVE s.name \in Labels
      <4>1. s \in Servers
        BY DEF AppConfig, ToSet
      <4> QED BY <4>1 DEF Servers
    <3> QED BY <3>1
  <2> DEFINE c == [copy[t] EXCEPT !.default_proxy = d]
  <2>3. /\ c \in AppConfig /\ c.servers = copy[t].servers
        /\ c.subscriptions = copy[t].subscriptions /\ c.local_wg = copy[t].local_wg
    BY <2>2 DEF AppConfig
  <2> HIDE DEF c
  <2>4. Edit(t, c)
    BY <2>1 DEF c
  <2> QED BY <1>0, <2>1, <2>3, <2>4
<1>3. CASE LocalWgSet(t)
  <2>1. CASE copy[t].local_wg = None
    <3>1. Ready(t) /\ Edit(t, copy[t])
      BY <1>3, <2>1 DEF LocalWgSet
    <3> QED BY <1>0, <3>1
  <2>2. CASE copy[t].local_wg # None
    <3>1. SetOption(t, "upstream")
      BY <1>3, <2>2 DEF LocalWgSet, SetOption
    <3> QED BY <1>1, <3>1 DEF Options
  <2> QED BY <2>1, <2>2
<1>4. CASE SetConnection(t) \/ SetGeoPaths(t) \/ SetSplit(t) \/ SetSocksProxies(t) \/ DownloadGeo(t)
  BY <1>1, <1>4 DEF SetConnection, SetGeoPaths, SetSplit, SetSocksProxies, DownloadGeo, Options
<1> QED BY <1>2, <1>3, <1>4

\* remove_node and clear_subscription_nodes.
LEMMA RemovalEdits ==
  ASSUME NEW t \in Tasks, copy[t] \in AppConfig, Orderly(copy[t]),
         Ready(t) => NamesDiffer(copy[t].servers),
         RemoveNode(t) \/ ClearSubscriptionNodes(t)
  PROVE  \/ RemoveNode(t) /\ \E s : EditBut(t, {s})
         \/ ClearSubscriptionNodes(t) /\ EditBut(t, Dots)
<1> DEFINE old == copy[t].servers
<1>0. old \in Seq(Servers) /\ ManualIsUntagged(old)
  BY DEF AppConfig, Orderly
<1>1. ASSUME NEW S, NEW d \in Labels \cup {None}, Ready(t), NEW X,
             \A x \in ToSet(old) : x.from = Manual /\ x \notin X => x \in S,
             Edit(t, [copy[t] EXCEPT !.servers = retain(old, S), !.default_proxy = d])
      PROVE  EditBut(t, X)
  <2> DEFINE r == retain(old, S)
             c == [copy[t] EXCEPT !.servers = r, !.default_proxy = d]
  <2>1. r \in Seq(Servers) /\ ToSet(r) = ToSet(old) \cap S
    <3> HIDE DEF old
    <3> QED BY <1>0, RetainKeeps
  <2>0. KeepsManual(old, r, X)
    <3>1. NamesDiffer(old)
      BY <1>1
    <3> HIDE DEF old
    <3> QED BY <1>0, <1>1, <3>1, RetainedKept
  <2> HIDE DEF r
  <2>2. ManualIsUntagged(r)
    <3>1. \A i \in DOMAIN r : \E j \in DOMAIN old : r[i] = old[j]
      BY <2>1 DEF ToSet
    <3> HIDE DEF old
    <3> QED BY <1>0, <3>1 DEF ManualIsUntagged
  <2>3. /\ c \in AppConfig /\ c.servers = r
        /\ c.subscriptions = copy[t].subscriptions /\ c.local_wg = copy[t].local_wg
    BY <2>1 DEF AppConfig
  <2>4. Edit(t, c)
    BY <1>1 DEF r
  <2> HIDE DEF c
  <2> QED BY <1>1, <2>0, <2>2, <2>3, <2>4 DEF EditBut, IsEdit, Orderly
<1>2. copy[t].default_proxy \in Labels \cup {None}
  BY DEF AppConfig
<1>3. CASE RemoveNode(t)
  <2>1. PICK s \in ToSet(old) :
          /\ Ready(t)
          /\ Edit(t, [copy[t] EXCEPT !.servers = retain(old, {x \in ToSet(old) : x.name # s.name}),
                        !.default_proxy = IF copy[t].default_proxy = s.name THEN None
                                          ELSE copy[t].default_proxy])
    BY <1>3 DEF RemoveNode
  <2> DEFINE d == IF copy[t].default_proxy = s.name THEN None ELSE copy[t].default_proxy
             S == {x \in ToSet(old) : x.name # s.name}
  <2>2. d \in Labels \cup {None}
    BY <1>2
  <2>3. ASSUME NEW x \in ToSet(old), x \notin {s} PROVE x \in S
    <3>1. PICK i, j \in DOMAIN old : x = old[i] /\ s = old[j]
      BY DEF ToSet
    <3>2. x.name # s.name
      BY <2>1, <2>3, <3>1 DEF NamesDiffer
    <3> QED BY <3>2
  <2>4. Ready(t) /\ Edit(t, [copy[t] EXCEPT !.servers = retain(old, S), !.default_proxy = d])
    BY <2>1
  <2> HIDE DEF S, d, old
  <2>5. EditBut(t, {s})
    BY <1>1, <2>2, <2>3, <2>4
  <2> QED BY <1>3, <2>5
<1>4. CASE ClearSubscriptionNodes(t)
  <2> DEFINE S == {s \in ToSet(old) :
                     /\ s.tag \notin {SubTag(u) : u \in ToSet(copy[t].subscriptions)}
                     /\ ~HasDot(s.name)}
  <2>1. Ready(t) /\ Edit(t, [copy[t] EXCEPT !.servers = retain(old, S)])
    BY <1>4 DEF ClearSubscriptionNodes
  <2>3. ASSUME NEW x \in ToSet(old), x.from = Manual, x \notin Dots PROVE x \in S
    <3>1. x \in Servers /\ x.tag = None
      BY <1>0, <2>3 DEF ManualIsUntagged, ToSet
    <3>2. ASSUME NEW u \in ToSet(copy[t].subscriptions) PROVE SubTag(u) # None
      <4>1. u \in Subscriptions
        BY DEF AppConfig, ToSet
      <4>2. <<Host[u.url]>> \in Labels
        BY <4>1, ConfigStoreAssumption DEF Subscriptions, Labels
      <4> QED BY <4>2, NoneAssumption DEF SubTag
    <3>3. ~HasDot(x.name)
      BY <2>3, <3>1 DEF Dots
    <3> QED BY <3>1, <3>2, <3>3
  <2> HIDE DEF S
  <2>2. [copy[t] EXCEPT !.servers = retain(old, S)]
          = [copy[t] EXCEPT !.servers = retain(old, S), !.default_proxy = copy[t].default_proxy]
    BY DEF AppConfig
  <2>4. Edit(t, [copy[t] EXCEPT !.servers = retain(old, S), !.default_proxy = copy[t].default_proxy])
    BY <2>1, <2>2
  <2> HIDE DEF old
  <2>5. EditBut(t, Dots)
    BY <1>1, <1>2, <2>1, <2>3, <2>4
  <2> QED BY <1>4, <2>5
<1> QED BY <1>3, <1>4

\* import_config, and the import of a share link.
LEMMA ImportConfigEdits ==
  ASSUME NEW t \in Tasks, copy[t] \in AppConfig, Orderly(copy[t]),
         Ready(t) => NamesDiffer(copy[t].servers),
         ImportConfig(t) \/ ImportLink(t)
  PROVE  MildEdit(t)
<1> DEFINE old == copy[t].servers
<1>0. old \in Seq(Servers) /\ ManualIsUntagged(old)
  BY DEF AppConfig, Orderly
<1>1. PICK b \in Bases : Ready(t) /\ Edit(t, [copy[t] EXCEPT !.servers = Append(old, Node(Manual, b))])
  BY DEF ImportConfig, ImportLink
<1>7. NamesDiffer(old)
  BY <1>1
<1> DEFINE x == Node(Manual, b)
           a == Append(old, x)
           c == [copy[t] EXCEPT !.servers = a]
<1>2. x \in Servers /\ x.tag = None
  <2>1. <<b>> \in Labels
    BY DEF Labels
  <2> QED BY <2>1 DEF Node, Servers
<1> HIDE DEF x
<1>3. /\ a \in Seq(Servers) /\ DOMAIN a = 1 .. Len(old) + 1 /\ a[Len(old) + 1] = x
      /\ \A i \in DOMAIN old : i \in DOMAIN a /\ a[i] = old[i]
      /\ \A i \in DOMAIN a : i \in DOMAIN old \/ i = Len(old) + 1
  <2> HIDE DEF old
  <2> QED BY <1>0, <1>2
<1> HIDE DEF a
<1>4. ManualIsUntagged(a) /\ KeepsManual(old, a, {})
  <2> HIDE DEF old
  <2>1. ManualIsUntagged(a)
    BY <1>0, <1>2, <1>3 DEF ManualIsUntagged
  <2>2. ASSUME NEW i \in DOMAIN old PROVE Stable(a, i)
    <3>1. \A p \in 1 .. i : p \in DOMAIN old /\ a[p] = old[p]
      BY <1>0, <1>3
    <3> QED BY <1>7, <3>1 DEF Stable, NamesDiffer
  <2>3. KeepsManual(old, a, {})
    BY <1>3, <2>2 DEF KeepsManual
  <2> QED BY <2>1, <2>3
<1>5. /\ c \in AppConfig /\ c.servers = a
      /\ c.subscriptions = copy[t].subscriptions /\ c.local_wg = copy[t].local_wg
  BY <1>3 DEF AppConfig
<1>6. Ready(t) /\ Edit(t, c)
  BY <1>1 DEF a, x
<1> HIDE DEF c
<1> QED BY <1>4, <1>5, <1>6 DEF MildEdit, EditBut, IsEdit, Orderly

\* A title makes another tag of the same subscription.
LEMMA TitledIsSubscription ==
  ASSUME NEW sub \in Subscriptions, NEW f \in Fetched
  PROVE  Titled(sub, f) \in Subscriptions /\ Titled(sub, f).url = sub.url
<1>1. CASE f.ok /\ f.title # None
  <2>1. f.title \in Titles
    BY <1>1 DEF Fetched
  <2>2. <<f.title>> \in Labels
    BY <2>1 DEF Labels
  <2> QED BY <1>1, <2>2 DEF Titled, Subscriptions
<1>2. CASE ~(f.ok /\ f.title # None)
  BY <1>2 DEF Titled
<1> QED BY <1>1, <1>2

\* The commands that edit subscriptions.
LEMMA SubscriptionEdits ==
  ASSUME NEW t \in Tasks, copy[t] \in AppConfig, Orderly(copy[t]),
         Ready(t) => NamesDiffer(copy[t].servers),
         \/ AddSubscription(t) \/ RemoveSubscription(t) \/ UpdateSubscriptions(t)
         \/ UpdateOneSubscription(t) \/ Import(t)
  PROVE  MildEdit(t)
<1> DEFINE old == copy[t].subscriptions
           nodes == copy[t].servers
<1>0. old \in Seq(Subscriptions) /\ TagsDiffer(old) /\ nodes \in MergedFrom(nodes)
  <2>1. Ready(t)
    BY DEF AddSubscription, RemoveSubscription, UpdateSubscriptions, UpdateOneSubscription, Import
  <2>2. nodes \in Seq(Servers) /\ NamesDiffer(nodes) /\ ManualIsUntagged(nodes)
    BY <2>1 DEF AppConfig, Orderly
  <2> HIDE DEF nodes
  <2>3. nodes \in MergedFrom(nodes)
    BY <2>2, SameKept DEF MergedFrom
  <2> QED BY <2>3 DEF AppConfig, Orderly
<1>1. ASSUME NEW subs \in Seq(Subscriptions), TagsDiffer(subs), NEW all \in MergedFrom(nodes),
             Ready(t), Edit(t, [copy[t] EXCEPT !.subscriptions = subs, !.servers = all])
      PROVE  MildEdit(t)
  <2> DEFINE c == [copy[t] EXCEPT !.subscriptions = subs, !.servers = all]
  <2>1. all \in Seq(Servers) /\ ManualIsUntagged(all) /\ KeepsManual(nodes, all, {})
    BY DEF MergedFrom
  <2>2. /\ c \in AppConfig /\ c.servers = all
        /\ c.subscriptions = subs /\ c.local_wg = copy[t].local_wg
    BY <2>1 DEF AppConfig
  <2>3. Edit(t, c)
    BY <1>1
  <2> HIDE DEF c
  <2> QED BY <1>1, <2>1, <2>2, <2>3 DEF MildEdit, EditBut, IsEdit, Orderly
<1>2. ASSUME NEW seq \in Seq(Subscriptions)
      PROVE  /\ DistinctTags(seq) \in Seq(Subscriptions) /\ TagsDiffer(DistinctTags(seq))
             /\ Len(DistinctTags(seq)) = Len(seq)
             /\ \A i \in DOMAIN seq : DistinctTags(seq)[i].url = seq[i].url
  BY TagsDistinguished
<1>3. CASE AddSubscription(t)
  <2>1. PICK u \in Urls, g \in Titles \cup {None} :
          /\ Ready(t)
          /\ Edit(t, [copy[t] EXCEPT !.subscriptions =
                        DistinctTags(Append(old, [url |-> u, tag |-> IF g = None THEN None ELSE <<g>>]))])
    BY <1>3 DEF AddSubscription
  <2> DEFINE seq == Append(old, [url |-> u, tag |-> IF g = None THEN None ELSE <<g>>])
  <2>2. seq \in Seq(Subscriptions)
    <3>1. g # None => <<g>> \in Labels
      BY DEF Labels
    <3>2. [url |-> u, tag |-> IF g = None THEN None ELSE <<g>>] \in Subscriptions
      BY <3>1 DEF Subscriptions
    <3> QED BY <1>0, <3>2
  <2> HIDE DEF seq
  <2>3. [copy[t] EXCEPT !.subscriptions = DistinctTags(seq)]
          = [copy[t] EXCEPT !.subscriptions = DistinctTags(seq), !.servers = nodes]
    BY DEF AppConfig
  <2>4. Edit(t, [copy[t] EXCEPT !.subscriptions = DistinctTags(seq), !.servers = nodes])
    BY <2>1, <2>3 DEF seq
  <2> QED BY <1>0, <1>1, <1>2, <2>1, <2>2, <2>4
<1>4. CASE RemoveSubscription(t)
  <2>1. PICK sub \in ToSet(old) :
          /\ Ready(t)
          /\ Edit(t, [copy[t] EXCEPT
                        !.subscriptions = retain(old, {s \in ToSet(old) : s.url # sub.url}),
                        !.servers = Untagged(nodes, {SubTag(sub)})])
    BY <1>4 DEF RemoveSubscription
  <2> DEFINE S == {s \in ToSet(old) : s.url # sub.url}
             r == retain(old, S)
  <2>2. /\ r \in Seq(Subscriptions)
        /\ \A p, q \in DOMAIN r : p # q => \E i, j \in DOMAIN old : i # j /\ r[p] = old[i] /\ r[q] = old[j]
    <3> HIDE DEF S, old
    <3> QED BY <1>0, RetainKeeps
  <2>3. TagsDiffer(r)
    <3> HIDE DEF r, old
    <3> QED BY <1>0, <2>2 DEF TagsDiffer
  <2>4. SubTag(sub) \in Labels
    <3>1. sub \in Subscriptions
      BY <1>0 DEF ToSet
    <3>2. Host[sub.url] \in Titles
      BY <3>1, ConfigStoreAssumption DEF Subscriptions
    <3> QED BY <3>1, <3>2 DEF SubTag, Labels, Subscriptions
  <2>5. Untagged(nodes, {SubTag(sub)}) \in MergedFrom(nodes)
    BY <1>0, <2>4, UntaggedKeeps
  <2> QED BY <1>1, <2>1, <2>2, <2>3, <2>5
<1>5. CASE UpdateSubscriptions(t)
  <2>1. PICK f \in [1 .. Len(old) -> Fetched] :
          /\ Ready(t)
          /\ LET subs == DistinctTags([i \in DOMAIN f |-> Titled(old[i], f[i])])
             IN Edit(t, [copy[t] EXCEPT !.subscriptions = subs, !.servers = MergedAll(nodes, subs, f)])
    BY <1>5 DEF UpdateSubscriptions, Index
  <2> DEFINE seq == [i \in DOMAIN f |-> Titled(old[i], f[i])]
             subs == DistinctTags(seq)
             all == MergedAll(nodes, subs, f)
  <2>2. seq \in Seq(Subscriptions) /\ Len(seq) = Len(old)
    <3>1. ASSUME NEW i \in 1 .. Len(old) PROVE Titled(old[i], f[i]) \in Subscriptions
      <4>1. old[i] \in Subscriptions /\ f[i] \in Fetched
        BY <1>0
      <4> QED BY <4>1, TitledIsSubscription
    <3>2. seq = [i \in 1 .. Len(old) |-> Titled(old[i], f[i])] /\ Len(old) \in Nat
      BY <1>0
    <3> QED BY <3>1, <3>2
  <2>3. Edit(t, [copy[t] EXCEPT !.subscriptions = subs, !.servers = all])
    BY <2>1
  <2> HIDE DEF seq
  <2>4. subs \in Seq(Subscriptions) /\ TagsDiffer(subs) /\ Len(subs) = Len(old)
    BY <1>2, <2>2
  <2> HIDE DEF subs
  <2>5. all \in MergedFrom(nodes)
    BY <1>0, <2>4, MergedAllKeeps
  <2> HIDE DEF all
  <2> QED BY <1>1, <2>1, <2>3, <2>4, <2>5
<1>6. CASE UpdateOneSubscription(t)
  <2>1. PICK k \in 1 .. Len(old), f \in Fetched :
          /\ Ready(t) /\ f.ok
          /\ LET subs == DistinctTags([old EXCEPT ![k] = Titled(old[k], f)])
             IN Edit(t, [copy[t] EXCEPT !.subscriptions = subs, !.servers = Merged(nodes, subs[k], f)])
    BY <1>6 DEF UpdateOneSubscription, Index
  <2> DEFINE seq == [old EXCEPT ![k] = Titled(old[k], f)]
             subs == DistinctTags(seq)
             all == Merged(nodes, subs[k], f)
  <2>2. seq \in Seq(Subscriptions) /\ Len(seq) = Len(old)
    <3>1. old[k] \in Subscriptions
      BY <1>0
    <3>2. Titled(old[k], f) \in Subscriptions
      BY <3>1, TitledIsSubscription
    <3> QED BY <1>0, <3>2
  <2>3. Edit(t, [copy[t] EXCEPT !.subscriptions = subs, !.servers = all])
    BY <2>1
  <2> HIDE DEF seq
  <2>4. subs \in Seq(Subscriptions) /\ TagsDiffer(subs) /\ Len(subs) = Len(old)
    BY <1>2, <2>2
  <2> HIDE DEF subs
  <2>5. subs[k] \in Subscriptions
    BY <2>4
  <2>6. all \in MergedFrom(nodes)
    BY <1>0, <2>1, <2>5, MergedKeeps
  <2> HIDE DEF all
  <2> QED BY <1>1, <2>1, <2>3, <2>4, <2>6
<1>7. CASE Import(t)
  <2>1. PICK u \in Urls, f \in Fetched :
          /\ Ready(t) /\ f.ok
          /\ LET subs == DistinctTags(IF HasUrl(old, u) THEN old
                                      ELSE Append(old, Titled([url |-> u, tag |-> None], f)))
                 k == CHOOSE k \in DOMAIN subs : subs[k].url = u
             IN Edit(t, [copy[t] EXCEPT !.subscriptions = subs, !.servers = Merged(nodes, subs[k], f)])
    BY <1>7 DEF Import
  <2> DEFINE new == Titled([url |-> u, tag |-> None], f)
             seq == IF HasUrl(old, u) THEN old ELSE Append(old, new)
             subs == DistinctTags(seq)
             k == CHOOSE k \in DOMAIN subs : subs[k].url = u
             all == Merged(nodes, subs[k], f)
  <2>2. Edit(t, [copy[t] EXCEPT !.subscriptions = subs, !.servers = all])
    BY <2>1
  <2>3. new \in Subscriptions /\ new.url = u
    <3>1. [url |-> u, tag |-> None] \in Subscriptions
      BY DEF Subscriptions
    <3> QED BY <3>1, TitledIsSubscription
  <2> HIDE DEF new
  <2>4. seq \in Seq(Subscriptions) /\ \E i \in DOMAIN seq : seq[i].url = u
    <3>1. CASE HasUrl(old, u)
      BY <1>0, <3>1 DEF HasUrl, ToSet
    <3>2. CASE ~HasUrl(old, u)
      <4>1. seq = Append(old, new)
        BY <3>2
      <4>2. seq \in Seq(Subscriptions) /\ Len(old) + 1 \in DOMAIN seq /\ seq[Len(old) + 1] = new
        BY <1>0, <2>3, <4>1
      <4> QED BY <2>3, <4>2
    <3> QED BY <3>1, <3>2
  <2> HIDE DEF seq
  <2>5. subs \in Seq(Subscriptions) /\ TagsDiffer(subs) /\ \E i \in DOMAIN subs : subs[i].url = u
    <3>1. /\ subs \in Seq(Subscriptions) /\ TagsDiffer(subs) /\ Len(subs) = Len(seq)
          /\ \A i \in DOMAIN seq : subs[i].url = seq[i].url
      BY <1>2, <2>4
    <3>2. DOMAIN subs = DOMAIN seq
      BY <2>4, <3>1
    <3> QED BY <2>4, <3>1, <3>2
  <2> HIDE DEF subs
  <2>6. k \in DOMAIN subs
    BY <2>5
  <2> HIDE DEF k
  <2>7. subs[k] \in Subscriptions
    BY <2>5, <2>6
  <2>8. all \in MergedFrom(nodes)
    BY <1>0, <2>1, <2>7, MergedKeeps
  <2> HIDE DEF all
  <2> QED BY <1>1, <2>1, <2>2, <2>5, <2>8
<1> QED BY <1>3, <1>4, <1>5, <1>6, <1>7

(***************************************************************************)
(* The inductive invariant.                                                *)
(***************************************************************************)

\* The configurations a start may find are in order.
LEMMA StoredFacts ==
  ASSUME NEW c \in Stored
  PROVE  c \in AppConfig /\ Orderly(c)
<1>1. CASE c = Default
  BY <1>1, DefaultFacts
<1>2. CASE c # Default
  <2>1. PICK u \in Urls, b \in Bases :
          c = [Default EXCEPT !.servers = <<[Node(u, b) EXCEPT !.tag = <<Host[u]>>], Node(Manual, b)>>,
                              !.subscriptions = <<[url |-> u, tag |-> <<Host[u]>>]>>,
                              !.rules = Preset, !.default_proxy = <<b>>]
    BY <1>2, ConfigStoreAssumption DEF Stored
  <2> DEFINE x == [Node(u, b) EXCEPT !.tag = <<Host[u]>>]
             y == Node(Manual, b)
             z == [url |-> u, tag |-> <<Host[u]>>]
  <2>2. <<b>> \in Labels /\ <<Host[u]>> \in Labels
    BY ConfigStoreAssumption DEF Labels
  <2>3. x \in Servers /\ y \in Servers /\ z \in Subscriptions
    BY <2>2 DEF Node, Servers, Subscriptions
  <2>4. x.from # Manual /\ y.tag = None
    BY ConfigStoreAssumption DEF Node
  <2> HIDE DEF x, y, z
  <2>5. c = [servers |-> <<x, y>>, subscriptions |-> <<z>>, rules |-> Preset,
             default_proxy |-> <<b>>, options |-> {}, local_wg |-> None]
    BY <2>1 DEF Default, x, y, z
  <2>6. <<x, y>> \in Seq(Servers) /\ <<z>> \in Seq(Subscriptions)
    BY <2>3
  <2>7. c \in AppConfig
    BY <2>2, <2>5, <2>6, ConfigStoreAssumption DEF AppConfig
  <2>8. ManualIsUntagged(<<x, y>>) /\ TagsDiffer(<<z>>)
    BY <2>4 DEF ManualIsUntagged, TagsDiffer
  <2> QED BY <2>5, <2>7, <2>8 DEF Orderly
<1> QED BY <1>1, <1>2

\* What the invariant is for.
LEMMA IInvImplies == IInv => ConfigIsSound
<1> SUFFICES ASSUME IInv PROVE ConfigIsSound
  OBVIOUS
<1>1. CopyIsCurrent /\ NamesAreDistinct
  BY DEF IInv, TaskOK, CopyIsCurrent, NamesAreDistinct, Ready
<1>2. TagsAreDistinct
  BY DEF IInv, Orderly, TagsAreDistinct
<1> QED BY <1>1, <1>2 DEF IInv, ConfigIsSound

\* Init establishes it.
LEMMA InitEstablishesIInv == Init => IInv
<1> SUFFICES ASSUME Init PROVE IInv
  OBVIOUS
<1>1. db # None => db \in AppConfig /\ Orderly(db)
  BY StoredFacts DEF Init
<1>2. json # None => json \in AppConfig /\ Orderly(json)
  BY StoredFacts DEF Init
<1>3. TypeOK
  <2>1. db \in AppConfig \cup {None} /\ json \in AppConfig \cup {None}
    BY <1>1, <1>2
  <2>2. /\ copy \in [Tasks -> AppConfig] /\ current \in [Tasks -> BOOLEAN]
        /\ pc \in [Tasks -> Places]
    BY DefaultFacts DEF Init, Places
  <2>3. commands \in 0 .. MaxCommands /\ handed \subseteq Keys /\ overlap \in BOOLEAN
    <3>1. commands = 0 /\ handed = {} /\ overlap = FALSE
      BY DEF Init
    <3>2. 0 \in 0 .. MaxCommands
      BY ConfigStoreAssumption
    <3>3. overlap \in BOOLEAN
      BY <3>1, Zenon
    <3> QED BY <3>1, <3>2, <3>3
  <2> QED BY <2>1, <2>2, <2>3 DEF TypeOK
<1>4. \A t \in Tasks : TaskOK(pc[t], copy[t], current[t], db, json)
  BY DefaultFacts DEF Init, TaskOK
<1>5. KeysAgree
  BY DEF Init, KeysAgree
<1> QED BY <1>1, <1>2, <1>3, <1>4, <1>5 DEF IInv

\* A task goes on by itself: nothing is written, the old file may be renamed.
LEMMA TaskMoves ==
  ASSUME IInv, NEW t \in Tasks, NEW p \in Places,
         NEW c \in AppConfig, NEW b \in BOOLEAN, TaskOK(p, c, b, db, json),
         pc' = [pc EXCEPT ![t] = p], copy' = [copy EXCEPT ![t] = c],
         current' = [current EXCEPT ![t] = b], db' = db,
         json' = json \/ (json' = None /\ db # None),
         commands' \in 0 .. MaxCommands, handed' \subseteq Keys, overlap' \in BOOLEAN, KeysAgree'
  PROVE  IInv'
<1>1. TypeOK'
  BY DEF IInv, TypeOK
<1>2. ASSUME NEW u \in Tasks PROVE TaskOK(pc'[u], copy'[u], current'[u], db', json')
  <2>1. CASE u = t
    <3>1. TaskOK(pc'[u], copy'[u], current'[u], db', json)
      BY <2>1 DEF IInv, TypeOK
    <3> QED BY <3>1 DEF TaskOK
  <2>2. CASE u # t
    <3>1. TaskOK(pc'[u], copy'[u], current'[u], db', json)
      BY <2>2 DEF IInv, TypeOK
    <3> QED BY <3>1 DEF TaskOK
  <2> QED BY <2>1, <2>2
<1>3. (db' # None => Orderly(db')) /\ (json' # None => Orderly(json'))
  BY DEF IInv
<1> QED BY <1>1, <1>2, <1>3 DEF IInv

\* The database is written: every other task's copy is outdated by it.
LEMMA DbWritten ==
  ASSUME IInv, NEW d \in AppConfig, db' = d, Orderly(d), json' = json,
         commands' \in 0 .. MaxCommands, handed' \subseteq Keys, overlap' \in BOOLEAN, KeysAgree',
         pc' \in [Tasks -> Places],
         copy' \in [Tasks -> AppConfig], current' \in [Tasks -> BOOLEAN],
         \A u \in Tasks : \/ TaskOK(pc'[u], copy'[u], current'[u], d, json)
                          \/ pc'[u] = pc[u] /\ copy'[u] = copy[u] /\ ~current'[u]
  PROVE  IInv'
<1>0. d # None
  BY NoneAssumption
<1>1. TypeOK'
  BY DEF IInv, TypeOK
<1>2. ASSUME NEW u \in Tasks PROVE TaskOK(pc'[u], copy'[u], current'[u], db', json')
  <2>1. CASE TaskOK(pc'[u], copy'[u], current'[u], d, json)
    BY <2>1
  <2>2. CASE pc'[u] = pc[u] /\ copy'[u] = copy[u] /\ ~current'[u]
    BY <1>0, <2>2 DEF IInv, TaskOK
  <2> QED BY <2>1, <2>2
<1>3. json' # None => Orderly(json')
  BY DEF IInv
<1> QED BY <1>1, <1>2, <1>3 DEF IInv

\* What a command that is ready and current works on has the stored keys.
LEMMA CopyHasKeys ==
  ASSUME IInv, NEW t \in Tasks, Ready(t), current[t]
  PROVE  copy[t].local_wg = IF db # None THEN db.local_wg ELSE None
<1>1. copy[t] = Sanitized(IF db # None THEN db ELSE Default)
  BY DEF IInv, TaskOK, Ready
<1>2. CASE db # None
  <2>1. db \in AppConfig
    BY <1>2 DEF IInv, TypeOK
  <2> QED BY <1>1, <1>2, <2>1, SanitizedFacts
<1>3. CASE db = None
  BY <1>1, <1>3, DefaultFacts DEF Default
<1> QED BY <1>2, <1>3

\* A command that edits the configuration.
LEMMA EditKeeps ==
  ASSUME IInv, NEW t \in Tasks, NEW c, IsEdit(t, c)
  PROVE  IInv'
<1>0. /\ c \in AppConfig /\ Orderly(c) /\ c.local_wg = copy[t].local_wg /\ Ready(t)
      /\ db' = c /\ json' = json /\ commands' = commands /\ handed' = handed
      /\ pc' = [pc EXCEPT ![t] = "idle"] /\ copy' = [copy EXCEPT ![t] = Default]
      /\ current' = [u \in Tasks |-> FALSE] /\ overlap' = (overlap \/ ~current[t])
  BY DEF IsEdit, Edit, Save, Quit
<1>1. KeysAgree'
  <2> SUFFICES ASSUME ~overlap, current[t], NEW k \in handed PROVE c # None /\ c.local_wg = k
    BY <1>0 DEF KeysAgree
  <2>1. db # None /\ db.local_wg = k
    BY DEF IInv, KeysAgree
  <2> QED BY <1>0, <2>1, CopyHasKeys, NoneAssumption
<1>2. ASSUME NEW u \in Tasks
      PROVE  \/ TaskOK(pc'[u], copy'[u], current'[u], c, json)
             \/ pc'[u] = pc[u] /\ copy'[u] = copy[u] /\ ~current'[u]
  <2>1. CASE u = t
    <3>1. pc'[u] = "idle" /\ copy'[u] = Default
      BY <1>0, <2>1 DEF IInv, TypeOK
    <3> QED BY <3>1, DefaultFacts DEF TaskOK
  <2>2. CASE u # t
    BY <1>0, <2>2 DEF IInv, TypeOK
  <2> QED BY <2>1, <2>2
<1>3. /\ pc' \in [Tasks -> Places]
      /\ copy' \in [Tasks -> AppConfig] /\ current' \in [Tasks -> BOOLEAN]
      /\ commands' \in 0 .. MaxCommands /\ handed' \subseteq Keys /\ overlap' \in BOOLEAN
  BY <1>0, DefaultFacts DEF IInv, TypeOK, Places
<1> QED BY <1>0, <1>1, <1>2, <1>3, DbWritten

\* The steps of a load, and a command that ends without a save.
LEMMA LoadKeeps ==
  ASSUME IInv, NEW t \in Tasks,
         \/ LoadLists(t) \/ LoadRest(t) \/ LoadFails(t) \/ NoDatabase(t) \/ LoadNothing(t)
         \/ ReadOld(t) \/ RenameOld(t) \/ EndWithoutSave(t)
  PROVE  IInv'
<1>0. /\ copy[t] \in AppConfig /\ current[t] \in BOOLEAN /\ commands \in 0 .. MaxCommands
      /\ handed \subseteq Keys /\ overlap \in BOOLEAN /\ TaskOK(pc[t], copy[t], current[t], db, json)
      /\ db # None => db \in AppConfig /\ Orderly(db)
      /\ json # None => json \in AppConfig /\ Orderly(json)
      /\ Places = {"idle", "lists", "nodb", "old", "loaded", "migrated"}
  BY DEF IInv, TypeOK, Places
<1>1. commands < MaxCommands => commands + 1 \in 0 .. MaxCommands
  BY <1>0, ConfigStoreAssumption
<1>2. KeysAgree
  BY DEF IInv
<1>3. current = [current EXCEPT ![t] = current[t]] /\ copy = [copy EXCEPT ![t] = copy[t]]
  BY DEF IInv, TypeOK
<1>4. CASE LoadLists(t)
  <2> DEFINE c == Lists(db)
  <2>1. db # None /\ db \in AppConfig /\ Orderly(db)
    BY <1>0, <1>4 DEF LoadLists
  <2>2. c \in AppConfig /\ c.servers = db.servers /\ c.subscriptions = db.subscriptions
    BY <2>1 DEF Lists, Default, AppConfig
  <2>3. TaskOK("lists", c, TRUE, db, json)
    <3> HIDE DEF c
    <3> QED BY <2>1, <2>2 DEF TaskOK, Orderly, c
  <2>4. KeysAgree'
    BY <1>2, <1>4 DEF LoadLists, KeysAgree
  <2> HIDE DEF c
  <2> QED BY <1>0, <1>1, <1>4, <2>2, <2>3, <2>4, TaskMoves DEF LoadLists, c
<1>5. CASE LoadRest(t)
  <2> DEFINE e == Rest(t)
             c == Sanitized(e)
  <2>1. db # None /\ db \in AppConfig /\ Orderly(db) /\ Orderly(copy[t])
        /\ (current[t] => copy[t] = Lists(db))
    BY <1>0, <1>5 DEF LoadRest, TaskOK
  <2>2. e \in AppConfig /\ e.servers = copy[t].servers /\ e.subscriptions = copy[t].subscriptions
    BY <1>0, <2>1 DEF Rest, AppConfig
  <2>3. current[t] => e = db
    BY <2>1 DEF Rest, Lists, Default, AppConfig
  <2>4. Orderly(e)
    BY <2>1, <2>2 DEF Orderly
  <2> HIDE DEF e
  <2>5. c \in AppConfig /\ Orderly(c) /\ NamesDiffer(c.servers)
    BY <2>2, <2>4, SanitizedFacts
  <2>6. TaskOK("loaded", c, current[t], db, json)
    BY <2>1, <2>3, <2>5 DEF TaskOK
  <2>7. KeysAgree'
    BY <1>2, <1>5 DEF LoadRest, KeysAgree
  <2>8. copy' = [copy EXCEPT ![t] = c] /\ pc' = [pc EXCEPT ![t] = "loaded"]
        /\ UNCHANGED <<db, json, commands, current, handed, overlap>>
    BY <1>5 DEF LoadRest, e
  <2> HIDE DEF c
  <2> QED BY <1>0, <1>3, <2>5, <2>6, <2>7, <2>8, TaskMoves
<1>6. CASE LoadFails(t)
  <2>1. TaskOK("loaded", Default, FALSE, db, json)
    BY DefaultFacts DEF TaskOK
  <2>2. KeysAgree'
    BY <1>2, <1>6 DEF LoadFails, KeysAgree
  <2> QED BY <1>0, <1>6, <2>1, <2>2, DefaultFacts, TaskMoves DEF LoadFails
<1>7. CASE LoadNothing(t)
  <2>1. PICK b \in BOOLEAN : b = (db = None)
    OBVIOUS
  <2>2. TaskOK("loaded", Default, b, db, json)
    BY <1>7, <2>1, DefaultFacts DEF TaskOK, LoadNothing
  <2>3. KeysAgree'
    BY <1>2, <1>7 DEF LoadNothing, KeysAgree
  <2> QED BY <1>0, <1>7, <2>1, <2>2, <2>3, DefaultFacts, TaskMoves DEF LoadNothing
<1>8. CASE RenameOld(t)
  <2>1. TaskOK("loaded", copy[t], current[t], db, json) /\ db # None
    BY <1>0, <1>8 DEF TaskOK, RenameOld
  <2>2. KeysAgree'
    BY <1>2, <1>8 DEF RenameOld, KeysAgree
  <2> QED BY <1>0, <1>3, <1>8, <2>1, <2>2, TaskMoves DEF RenameOld
<1>9. CASE EndWithoutSave(t)
  <2>1. TaskOK("idle", Default, FALSE, db, json)
    BY DefaultFacts DEF TaskOK
  <2>2. KeysAgree'
    BY <1>2, <1>9 DEF EndWithoutSave, KeysAgree
  <2> QED BY <1>0, <1>9, <2>1, <2>2, DefaultFacts, TaskMoves DEF EndWithoutSave, Quit
<1>10. CASE NoDatabase(t)
  <2>1. TaskOK("nodb", copy[t], current[t], db, json)
    BY <1>0 DEF TaskOK
  <2>2. KeysAgree'
    BY <1>2, <1>10 DEF NoDatabase, KeysAgree
  <2> QED BY <1>0, <1>1, <1>3, <1>10, <2>1, <2>2, TaskMoves DEF NoDatabase
<1>11. CASE ReadOld(t)
  <2>1. PICK c \in {json, Default} :
          /\ copy' = [copy EXCEPT ![t] = c]
          /\ current' = [current EXCEPT ![t] = c = json /\ db = None]
    BY <1>11 DEF ReadOld
  <2>2. PICK b \in BOOLEAN : b = (c = json /\ db = None)
    OBVIOUS
  <2>3. c \in AppConfig /\ Orderly(c)
    BY <1>0, <1>11, DefaultFacts DEF ReadOld
  <2>4. TaskOK("old", c, b, db, json)
    BY <2>2, <2>3 DEF TaskOK
  <2>5. KeysAgree'
    BY <1>2, <1>11 DEF ReadOld, KeysAgree
  <2>6. /\ current' = [current EXCEPT ![t] = b] /\ pc' = [pc EXCEPT ![t] = "old"]
        /\ UNCHANGED <<db, json, commands, handed, overlap>>
    BY <1>11, <2>1, <2>2 DEF ReadOld
  <2> QED BY <1>0, <2>1, <2>3, <2>4, <2>5, <2>6, TaskMoves
<1> QED BY <1>4, <1>5, <1>6, <1>7, <1>8, <1>9, <1>10, <1>11

\* Without a database no keys have been handed out, unless commands overlapped.
LEMMA NoKeysYet ==
  ASSUME IInv, db = None, handed' = handed, overlap' = overlap
  PROVE  KeysAgree'
BY DEF IInv, KeysAgree

\* The old file is saved in the database, whatever others have put there.
LEMMA MigrateSaveKeeps ==
  ASSUME IInv, NEW t \in Tasks, MigrateSave(t)
  PROVE  IInv'
<1> DEFINE c == copy[t]
<1>0. /\ pc[t] = "old" /\ db' = c /\ json' = json /\ commands' = commands /\ handed' = handed
      /\ pc' = [pc EXCEPT ![t] = "migrated"] /\ copy' = [copy EXCEPT ![t] = Sanitized(c)]
      /\ current' = [u \in Tasks |-> u = t /\ current[t]] /\ overlap' = (overlap \/ ~current[t])
  BY DEF MigrateSave
<1>1. c \in AppConfig /\ Orderly(c) /\ (current[t] => db = None) /\ current[t] \in BOOLEAN
  BY <1>0 DEF IInv, TypeOK, TaskOK
<1>2. Sanitized(c) \in AppConfig /\ Orderly(Sanitized(c)) /\ NamesDiffer(Sanitized(c).servers)
  BY <1>1, SanitizedFacts
<1>3. KeysAgree'
  <2> SUFFICES ASSUME ~overlap, current[t], NEW k \in handed PROVE FALSE
    BY <1>0 DEF KeysAgree
  <2> QED BY <1>1 DEF IInv, KeysAgree
<1>4. ASSUME NEW u \in Tasks
      PROVE  \/ TaskOK(pc'[u], copy'[u], current'[u], c, json)
             \/ pc'[u] = pc[u] /\ copy'[u] = copy[u] /\ ~current'[u]
  <2>1. CASE u = t
    <3>1. pc'[u] = "migrated" /\ copy'[u] = Sanitized(c) /\ c # None
      BY <1>0, <1>1, <2>1, NoneAssumption DEF IInv, TypeOK
    <3> HIDE DEF c
    <3> QED BY <1>2, <3>1 DEF TaskOK
  <2>2. CASE u # t
    BY <1>0, <2>2 DEF IInv, TypeOK
  <2> QED BY <2>1, <2>2
<1>5. /\ pc' \in [Tasks -> Places] /\ copy' \in [Tasks -> AppConfig]
      /\ commands' \in 0 .. MaxCommands /\ handed' \subseteq Keys
  BY <1>0, <1>2 DEF IInv, TypeOK, Places
<1>6. current' \in [Tasks -> BOOLEAN] /\ overlap' \in BOOLEAN
  BY <1>0 DEF IInv, TypeOK
<1> HIDE DEF c
<1> QED BY <1>0, <1>1, <1>3, <1>4, <1>5, <1>6, DbWritten

\* The save of the old file fails.
LEMMA MigrateFailsKeeps ==
  ASSUME IInv, NEW t \in Tasks, MigrateFails(t)
  PROVE  IInv'
<1> DEFINE c == Sanitized(copy[t])
<1>0. /\ pc[t] = "old" /\ json' = json /\ commands' = commands /\ handed' = handed
      /\ overlap' = overlap /\ pc' = [pc EXCEPT ![t] = "loaded"] /\ copy' = [copy EXCEPT ![t] = c]
      /\ \/ db' = db /\ current' = [current EXCEPT ![t] = FALSE]
         \/ db = None /\ db' = Default /\ current' = [u \in Tasks |-> FALSE]
  BY DEF MigrateFails
<1>1. copy[t] \in AppConfig /\ Orderly(copy[t])
  BY <1>0 DEF IInv, TypeOK, TaskOK
<1>2. c \in AppConfig /\ Orderly(c) /\ NamesDiffer(c.servers)
  BY <1>1, SanitizedFacts
<1> HIDE DEF c
<1>3. /\ "loaded" \in Places /\ commands' \in 0 .. MaxCommands /\ handed' \subseteq Keys
      /\ overlap' \in BOOLEAN
  BY <1>0 DEF IInv, TypeOK, Places
<1>4. CASE db' = db /\ current' = [current EXCEPT ![t] = FALSE]
  <2>1. TaskOK("loaded", c, FALSE, db, json)
    BY <1>2 DEF TaskOK
  <2>2. KeysAgree'
    BY <1>0, <1>4 DEF IInv, KeysAgree
  <2> QED BY <1>0, <1>2, <1>3, <1>4, <2>1, <2>2, TaskMoves
<1>5. CASE db = None /\ db' = Default /\ current' = [u \in Tasks |-> FALSE]
  <2>1. KeysAgree'
    BY <1>0, <1>5, NoKeysYet
  <2>2. ASSUME NEW u \in Tasks
        PROVE  \/ TaskOK(pc'[u], copy'[u], current'[u], Default, json)
               \/ pc'[u] = pc[u] /\ copy'[u] = copy[u] /\ ~current'[u]
    <3>1. CASE u = t
      <4>1. pc'[u] = "loaded" /\ copy'[u] = c /\ ~current'[u]
        BY <1>0, <1>5, <3>1 DEF IInv, TypeOK
      <4> QED BY <1>2, <4>1 DEF TaskOK
    <3>2. CASE u # t
      BY <1>0, <1>5, <3>2 DEF IInv, TypeOK
    <3> QED BY <3>1, <3>2
  <2>3. /\ pc' \in [Tasks -> Places] /\ copy' \in [Tasks -> AppConfig]
        /\ current' \in [Tasks -> BOOLEAN]
    BY <1>0, <1>2, <1>3, <1>5 DEF IInv, TypeOK
  <2> QED BY <1>0, <1>3, <1>5, <2>1, <2>2, <2>3, DefaultFacts, DbWritten
<1> QED BY <1>0, <1>4, <1>5

\* The database is created empty.
LEMMA CreationKeeps ==
  ASSUME IInv, MarkVersionSeen \/ \E t \in Tasks : SaveFails(t)
  PROVE  IInv'
<1>0. db = None /\ db' = Default /\ UNCHANGED <<json, commands, handed, overlap>>
  BY DEF MarkVersionSeen, SaveFails
<1>1. KeysAgree'
  BY <1>0, NoKeysYet
<1>2. commands' \in 0 .. MaxCommands /\ handed' \subseteq Keys /\ overlap' \in BOOLEAN
  BY <1>0 DEF IInv, TypeOK
<1>3. ASSUME NEW u \in Tasks, pc'[u] = pc[u], copy'[u] = copy[u],
             current'[u] => Ready(u) /\ current[u]
      PROVE  TaskOK(pc'[u], copy'[u], current'[u], Default, json)
  <2>1. TaskOK(pc[u], copy[u], current[u], None, json)
    BY <1>0 DEF IInv
  <2> QED BY <1>3, <2>1, DefaultFacts, NoneAssumption DEF TaskOK, Ready
<1>4. CASE MarkVersionSeen
  <2>1. /\ pc' = pc /\ copy' = copy
        /\ current' = [u \in Tasks |-> Ready(u) /\ current[u] /\ copy[u] = Default]
    BY <1>4 DEF MarkVersionSeen
  <2>2. /\ pc' \in [Tasks -> Places]
        /\ copy' \in [Tasks -> AppConfig] /\ current' \in [Tasks -> BOOLEAN]
    BY <2>1 DEF IInv, TypeOK
  <2>3. \A u \in Tasks : TaskOK(pc'[u], copy'[u], current'[u], Default, json)
    BY <1>3, <2>1
  <2> QED BY <1>0, <1>1, <1>2, <2>2, <2>3, DefaultFacts, DbWritten
<1>5. ASSUME NEW t \in Tasks, SaveFails(t) PROVE IInv'
  <2>1. /\ pc' = [pc EXCEPT ![t] = "idle"] /\ copy' = [copy EXCEPT ![t] = Default]
        /\ current' = [u \in Tasks |-> u # t /\ Ready(u) /\ current[u] /\ copy[u] = Default]
    BY <1>5 DEF SaveFails, Quit
  <2>2. /\ pc' \in [Tasks -> Places]
        /\ copy' \in [Tasks -> AppConfig] /\ current' \in [Tasks -> BOOLEAN]
    BY <2>1, DefaultFacts DEF IInv, TypeOK, Places
  <2>3. ASSUME NEW u \in Tasks PROVE TaskOK(pc'[u], copy'[u], current'[u], Default, json)
    <3>1. CASE u = t
      <4>1. pc'[u] = "idle" /\ copy'[u] = Default
        BY <2>1, <3>1 DEF IInv, TypeOK
      <4> QED BY <4>1, DefaultFacts DEF TaskOK
    <3>2. CASE u # t
      <4>1. pc'[u] = pc[u] /\ copy'[u] = copy[u] /\ (current'[u] => Ready(u) /\ current[u])
        BY <2>1, <3>2 DEF IInv, TypeOK
      <4> QED BY <1>3, <4>1
    <3> QED BY <3>1, <3>2
  <2> QED BY <1>0, <1>1, <1>2, <2>2, <2>3, DefaultFacts, DbWritten
<1> QED BY <1>4, <1>5

\* The keys of the local WireGuard server.
LEMMA KeysKeep ==
  ASSUME IInv, NEW t \in Tasks, LocalWgEnsure(t)
  PROVE  IInv'
<1>0. /\ Ready(t) /\ overlap' = (overlap \/ ~current[t]) /\ copy[t] \in AppConfig
      /\ Orderly(copy[t]) /\ overlap \in BOOLEAN /\ current[t] \in BOOLEAN
      /\ handed \subseteq Keys /\ commands \in 0 .. MaxCommands
  BY DEF LocalWgEnsure, IInv, TypeOK, TaskOK
<1>1. CASE copy[t].local_wg = None
  <2>1. PICK k \in Keys :
          Save(t, [copy[t] EXCEPT !.local_wg = k]) /\ handed' = handed \cup {k}
    BY <1>1 DEF LocalWgEnsure, NeedsKeys
  <2> DEFINE c == [copy[t] EXCEPT !.local_wg = k]
  <2>2. /\ c \in AppConfig /\ c.local_wg = k /\ c.servers = copy[t].servers
        /\ c.subscriptions = copy[t].subscriptions
    BY <1>0 DEF AppConfig
  <2>3. /\ db' = c /\ json' = json /\ commands' = commands
        /\ pc' = [pc EXCEPT ![t] = "idle"] /\ copy' = [copy EXCEPT ![t] = Default]
        /\ current' = [u \in Tasks |-> FALSE]
    BY <2>1 DEF Save, Quit
  <2> HIDE DEF c
  <2>4. KeysAgree'
    <3> SUFFICES ASSUME ~overlap, current[t], NEW j \in handed \cup {k}
                 PROVE  c # None /\ c.local_wg = j
      BY <1>0, <2>1, <2>3 DEF KeysAgree
    <3>1. handed = {}
      <4> SUFFICES ASSUME NEW x \in handed PROVE FALSE
        OBVIOUS
      <4>1. db # None /\ db.local_wg = x /\ x \in Keys
        BY <1>0 DEF IInv, KeysAgree
      <4> QED BY <1>0, <1>1, <4>1, CopyHasKeys, ConfigStoreAssumption
    <3> QED BY <2>2, <3>1, NoneAssumption
  <2>5. ASSUME NEW u \in Tasks
        PROVE  \/ TaskOK(pc'[u], copy'[u], current'[u], c, json)
               \/ pc'[u] = pc[u] /\ copy'[u] = copy[u] /\ ~current'[u]
    <3>1. CASE u = t
      <4>1. pc'[u] = "idle" /\ copy'[u] = Default
        BY <2>3, <3>1 DEF IInv, TypeOK
      <4> QED BY <4>1, DefaultFacts DEF TaskOK
    <3>2. CASE u # t
      BY <2>3, <3>2 DEF IInv, TypeOK
    <3> QED BY <3>1, <3>2
  <2>6. /\ pc' \in [Tasks -> Places]
        /\ copy' \in [Tasks -> AppConfig] /\ current' \in [Tasks -> BOOLEAN]
        /\ commands' \in 0 .. MaxCommands /\ handed' \subseteq Keys /\ overlap' \in BOOLEAN
    BY <1>0, <2>1, <2>3, DefaultFacts DEF IInv, TypeOK, Places
  <2>7. Orderly(c)
    BY <1>0, <2>2 DEF Orderly
  <2> QED BY <2>2, <2>3, <2>4, <2>5, <2>6, <2>7, DbWritten
<1>2. CASE copy[t].local_wg # None
  <2>1. /\ handed' = handed \cup {copy[t].local_wg} /\ UNCHANGED <<db, json, commands>>
        /\ pc' = [pc EXCEPT ![t] = "idle"] /\ copy' = [copy EXCEPT ![t] = Default]
        /\ current' = [current EXCEPT ![t] = FALSE]
    BY <1>2 DEF LocalWgEnsure, NeedsKeys, Quit
  <2>2. copy[t].local_wg \in Keys
    BY <1>0, <1>2 DEF AppConfig
  <2>3. KeysAgree'
    <3> SUFFICES ASSUME ~overlap, current[t], NEW j \in handed \cup {copy[t].local_wg}
                 PROVE  db # None /\ db.local_wg = j
      BY <1>0, <2>1 DEF KeysAgree
    <3>1. CASE j \in handed
      BY <3>1 DEF IInv, KeysAgree
    <3>2. CASE j = copy[t].local_wg
      BY <1>0, <1>2, <3>2, CopyHasKeys
    <3> QED BY <3>1, <3>2
  <2>4. TaskOK("idle", Default, FALSE, db, json)
    BY DefaultFacts DEF TaskOK
  <2>5. handed' \subseteq Keys /\ overlap' \in BOOLEAN
    BY <1>0, <2>1, <2>2
  <2> QED BY <1>0, <2>1, <2>3, <2>4, <2>5, DefaultFacts, TaskMoves DEF Places
<1> QED BY <1>1, <1>2

\* A restart loses the copies and nothing else.
LEMMA RestartKeeps ==
  ASSUME IInv, Restart
  PROVE  IInv'
<1>0. /\ pc' = [t \in Tasks |-> "idle"] /\ copy' = [t \in Tasks |-> Default]
      /\ current' = [t \in Tasks |-> FALSE] /\ UNCHANGED <<db, json, commands, handed, overlap>>
  BY DEF Restart
<1>1. TypeOK'
  BY <1>0, DefaultFacts DEF IInv, TypeOK, Places
<1>2. \A t \in Tasks : TaskOK(pc'[t], copy'[t], current'[t], db', json')
  BY <1>0, DefaultFacts DEF TaskOK
<1>3. KeysAgree' /\ (db' # None => Orderly(db')) /\ (json' # None => Orderly(json'))
  BY <1>0 DEF IInv, KeysAgree
<1> QED BY <1>1, <1>2, <1>3 DEF IInv

\* Every command that edits the configuration, with the removals apart.
LEMMA CommandsEdit ==
  ASSUME IInv, NEW t \in Tasks
  PROVE  /\ Asynchronous(t) \/ LocalWgSet(t) => MildEdit(t)
         /\ Synchronous(t) => \/ MildEdit(t)
                              \/ RemoveNode(t) /\ \E s : EditBut(t, {s})
                              \/ ClearSubscriptionNodes(t) /\ EditBut(t, Dots)
<1>1. copy[t] \in AppConfig /\ Orderly(copy[t]) /\ (Ready(t) => NamesDiffer(copy[t].servers))
  BY DEF IInv, TypeOK, TaskOK, Ready
<1>2. Asynchronous(t) \/ LocalWgSet(t) => MildEdit(t)
  BY <1>1, SettingEdits, ImportConfigEdits, SubscriptionEdits DEF Asynchronous
<1>3. Synchronous(t) => \/ MildEdit(t)
                        \/ RemoveNode(t) /\ \E s : EditBut(t, {s})
                        \/ ClearSubscriptionNodes(t) /\ EditBut(t, Dots)
  BY <1>1, RuleEdits, SettingEdits, RemovalEdits, ImportConfigEdits, SubscriptionEdits
     DEF Synchronous
<1> QED BY <1>2, <1>3

\* Every step keeps the invariant.
LEMMA NextKeepsIInv == IInv /\ [Next]_vars => IInv'
<1> SUFFICES ASSUME IInv, [Next]_vars PROVE IInv'
  OBVIOUS
<1>1. ASSUME NEW t \in Tasks, Synchronous(t) \/ Asynchronous(t) \/ LocalWgSet(t) PROVE IInv'
  <2>1. PICK c : IsEdit(t, c)
    BY <1>1, CommandsEdit DEF MildEdit, EditBut
  <2> QED BY <2>1, EditKeeps
<1>2. UI \in Tasks /\ Workers \subseteq Tasks
  BY DEF Tasks
<1>3. CASE UNCHANGED vars
  <2>1. KeysAgree' /\ TypeOK'
    BY <1>3 DEF IInv, KeysAgree, TypeOK, vars
  <2>2. \A t \in Tasks : TaskOK(pc'[t], copy'[t], current'[t], db', json')
    BY <1>3 DEF IInv, vars
  <2>3. (db' # None => Orderly(db')) /\ (json' # None => Orderly(json'))
    BY <1>3 DEF IInv, vars
  <2> QED BY <2>1, <2>2, <2>3 DEF IInv
<1>4. CASE \E t \in Tasks : \/ LoadLists(t) \/ LoadRest(t) \/ LoadFails(t) \/ NoDatabase(t)
                            \/ LoadNothing(t) \/ ReadOld(t) \/ RenameOld(t) \/ EndWithoutSave(t)
  BY <1>4, LoadKeeps
<1>5. CASE \E t \in Tasks : MigrateSave(t) \/ MigrateFails(t) \/ LocalWgEnsure(t)
  BY <1>5, MigrateSaveKeeps, MigrateFailsKeeps, KeysKeep
<1>6. CASE MarkVersionSeen \/ \E t \in Tasks : SaveFails(t)
  BY <1>6, CreationKeeps
<1>7. CASE Restart
  BY <1>7, RestartKeeps
<1>8. CASE Synchronous(UI) \/ (\E t \in Workers : Asynchronous(t)) \/ \E t \in Tasks : LocalWgSet(t)
  BY <1>1, <1>2, <1>8
<1> QED BY <1>3, <1>4, <1>5, <1>6, <1>7, <1>8 DEF Next

\* The inductive invariant holds of every reachable state, whichever loads and
\* saves of config.db and config.json overlap, fail or are cut off by a restart.
THEOREM IInvHolds == Spec => []IInv
<1>1. Init => IInv
  BY InitEstablishesIInv
<1>2. IInv /\ [Next]_vars => IInv'
  BY NextKeepsIInv
<1> QED BY <1>1, <1>2, PTL DEF Spec

\* load_config and the commands that edit: a copy is what the files hold unless
\* somebody saved meanwhile or the load failed, the names of its nodes and the
\* tags of the stored subscriptions differ, for any number of tasks and nodes.
THEOREM ConfigurationIsSound == Spec => []ConfigIsSound
BY IInvHolds, IInvImplies, PTL

\* local_wg_ensure: keys that were handed out are the stored ones, unless a
\* command saved or handed out a copy that was not current.
THEOREM HandedKeysAreStored == Spec => []KeysAgree
<1>1. IInv => KeysAgree
  BY DEF IInv
<1> QED BY <1>1, IInvHolds, PTL

(***************************************************************************)
(* What becomes of the nodes that came from no subscription.               *)
(***************************************************************************)

\* The ones a step loses.
Lost == Manuals(Files) \ Manuals(Files')

\* A save by a command whose copy is current keeps what its edit keeps.
LEMMA SaveKeepsManual ==
  ASSUME IInv, NEW t \in Tasks, Ready(t), current[t], NEW X,
         NEW c \in AppConfig, db' = c, KeepsManual(copy[t].servers, c.servers, X)
  PROVE  Lost \subseteq X
<1> SUFFICES ASSUME NEW s \in Manuals(Files), s \notin Manuals(Files'), s \notin X PROVE FALSE
  BY DEF Lost
<1>0. c # None /\ Files' = c
  BY NoneAssumption DEF Files
<1>1. db # None
  <2>1. db = None => json = None
    BY DEF IInv, TaskOK, Ready
  <2> QED BY <2>1 DEF Files, Manuals
<1>2. db \in AppConfig /\ copy[t] = Sanitized(db) /\ Files = db
  BY <1>1 DEF IInv, TypeOK, TaskOK, Ready, Files
<1>3. s \in ToSet(copy[t].servers) /\ s.from = Manual
  BY <1>1, <1>2, SanitizedFacts DEF Manuals
<1>4. PICK i \in DOMAIN copy[t].servers : s = copy[t].servers[i]
  BY <1>3 DEF ToSet
<1>5. PICK p \in DOMAIN c.servers : c.servers[p] = s /\ Stable(c.servers, p)
  BY <1>3, <1>4 DEF KeepsManual
<1> DEFINE d == DistinctNames(c.servers)
<1>6. c.servers \in Seq(Servers)
  BY DEF AppConfig
<1>7. d \in Seq(Servers) /\ Len(d) = Len(c.servers) /\ d[p] = s
  BY <1>5, <1>6, NamesDistinguished, PrefixStays
<1>8. p \in DOMAIN d
  BY <1>6, <1>7
<1> HIDE DEF d
<1>9. s \in ToSet(d)
  BY <1>7, <1>8 DEF ToSet
<1> QED BY <1>0, <1>3, <1>9 DEF Manuals, d

\* update_subscriptions, import, migration and every other command keep the nodes
\* that came from no subscription under their names, for any number of tasks and
\* nodes.  remove_node takes one; clear_subscription_nodes takes those with " · "
\* in their names; others are lost only when a copy that is not what the files hold
\* is saved, or the database is created empty before the migration.
THEOREM ManualNodesStay == Spec => ManualNodesSurvive
<1> DEFINE Allowed == \/ Lost = {}
                      \/ RemoveNode(UI) /\ \E s \in Lost : Lost = {s}
                      \/ ClearSubscriptionNodes(UI) /\ \A s \in Lost : HasDot(s.name)
                      \/ \E t \in Tasks : SavesOutdated(t)
                      \/ db = None /\ db' = Default
<1>1. IInv /\ [Next]_vars => [Allowed]_vars
  <2> SUFFICES ASSUME IInv, Next PROVE Allowed
    OBVIOUS
  <2>1. db' = db /\ json' = json => Lost = {}
    BY DEF Lost, Files
  <2>2. ASSUME NEW t \in Tasks, NEW X, EditBut(t, X)
        PROVE  Lost \subseteq X \/ SavesOutdated(t)
    <3>1. PICK c : IsEdit(t, c) /\ KeepsManual(copy[t].servers, c.servers, X)
      BY <2>2 DEF EditBut
    <3>2. Ready(t) /\ c \in AppConfig /\ db' = c /\ json' = json /\ pc' = [pc EXCEPT ![t] = "idle"]
      BY <3>1 DEF IsEdit, Edit, Save, Quit
    <3>3. CASE current[t]
      BY <3>1, <3>2, <3>3, SaveKeepsManual
    <3>4. CASE ~current[t]
      <4>1. pc[t] = "loaded" /\ pc'[t] = "idle"
        BY <3>2 DEF IInv, TypeOK, Ready
      <4> QED BY <2>1, <3>2, <3>4, <4>1 DEF SavesOutdated
    <3> QED BY <3>3, <3>4
  <2>3. ASSUME NEW t \in Tasks, MildEdit(t) PROVE Allowed
    BY <2>2, <2>3 DEF MildEdit
  <2>4. ASSUME NEW t \in Tasks, LocalWgEnsure(t) PROVE Allowed
    <3>1. CASE NeedsKeys(copy[t])
      <4>1. PICK k \in Keys : /\ db' = [copy[t] EXCEPT !.local_wg = k] /\ json' = json
                              /\ pc' = [pc EXCEPT ![t] = "idle"]
        BY <2>4, <3>1 DEF LocalWgEnsure, Save, Quit
      <4> DEFINE c == [copy[t] EXCEPT !.local_wg = k]
      <4>2. c \in AppConfig /\ c.servers = copy[t].servers /\ Ready(t)
        <5>1. copy[t] \in AppConfig
          BY DEF IInv, TypeOK
        <5>2. Ready(t)
          BY <2>4 DEF LocalWgEnsure
        <5> QED BY <5>1, <5>2 DEF AppConfig
      <4>3. KeepsManual(copy[t].servers, c.servers, {})
        <5>1. copy[t].servers \in Seq(Servers) /\ NamesDiffer(copy[t].servers)
          BY <4>2 DEF IInv, TypeOK, TaskOK, Ready, AppConfig
        <5> HIDE DEF c
        <5> QED BY <4>2, <5>1, SameKept
      <4> HIDE DEF c
      <4>4. db' = c
        BY <4>1 DEF c
      <4>5. CASE current[t]
        BY <4>2, <4>3, <4>4, <4>5, SaveKeepsManual
      <4>6. CASE ~current[t]
        <5>1. pc[t] = "loaded" /\ pc'[t] = "idle"
          BY <4>1, <4>2 DEF IInv, TypeOK, Ready
        <5> QED BY <2>1, <4>1, <4>6, <5>1 DEF SavesOutdated
      <4> QED BY <4>5, <4>6
    <3>2. CASE ~NeedsKeys(copy[t])
      BY <2>1, <2>4, <3>2 DEF LocalWgEnsure
    <3> QED BY <3>1, <3>2
  <2>5. UI \in Tasks /\ Workers \subseteq Tasks
    BY DEF Tasks
  <2>6. CASE \E t \in Tasks : \/ LoadLists(t) \/ LoadRest(t) \/ LoadFails(t) \/ NoDatabase(t)
                              \/ LoadNothing(t) \/ ReadOld(t) \/ EndWithoutSave(t)
    BY <2>1, <2>6 DEF LoadLists, LoadRest, LoadFails, NoDatabase, LoadNothing, ReadOld, EndWithoutSave
  <2>7. CASE Restart
    BY <2>1, <2>7 DEF Restart
  <2>8. CASE MarkVersionSeen \/ \E t \in Tasks : SaveFails(t) \/ MigrateFails(t)
    BY <2>1, <2>8 DEF MarkVersionSeen, SaveFails, MigrateFails
  <2>9. CASE Synchronous(UI)
    <3>1. \/ MildEdit(UI)
          \/ RemoveNode(UI) /\ \E s : EditBut(UI, {s})
          \/ ClearSubscriptionNodes(UI) /\ EditBut(UI, Dots)
      BY <2>5, <2>9, CommandsEdit
    <3>2. CASE RemoveNode(UI) /\ \E s : EditBut(UI, {s})
      <4>1. PICK s : EditBut(UI, {s})
        BY <3>2
      <4>2. Lost \subseteq {s} \/ SavesOutdated(UI)
        BY <2>2, <2>5, <4>1
      <4>3. CASE Lost \subseteq {s}
        <5>1. Lost = {} \/ (s \in Lost /\ Lost = {s})
          BY <4>3
        <5> QED BY <3>2, <5>1
      <4> QED BY <2>5, <4>2, <4>3
    <3>3. CASE ClearSubscriptionNodes(UI) /\ EditBut(UI, Dots)
      <4>1. Lost \subseteq Dots \/ SavesOutdated(UI)
        BY <2>2, <2>5, <3>3
      <4>2. CASE Lost \subseteq Dots
        <5>1. \A s \in Lost : HasDot(s.name)
          BY <4>2 DEF Dots
        <5> QED BY <3>3, <5>1
      <4> QED BY <2>5, <4>1, <4>2
    <3> HIDE DEF Allowed
    <3> QED BY <2>3, <2>5, <3>1, <3>2, <3>3
  <2>10. ASSUME NEW t \in Tasks, LocalWgSet(t) PROVE Allowed
    BY <2>3, <2>10, CommandsEdit
  <2>11. ASSUME NEW t \in Workers, Asynchronous(t) PROVE Allowed
    BY <2>3, <2>5, <2>11, CommandsEdit
  <2>12. ASSUME NEW t \in Tasks, RenameOld(t) PROVE Allowed
    <3>1. db # None /\ db' = db
      BY <2>12 DEF RenameOld, IInv, TaskOK
    <3> QED BY <3>1 DEF Lost, Files
  <2>13. ASSUME NEW t \in Tasks, MigrateSave(t) PROVE Allowed
    <3>1. /\ pc[t] = "old" /\ db' = copy[t] /\ json' = json /\ pc'[t] = "migrated"
          /\ copy[t] # None
      BY <2>13, NoneAssumption DEF MigrateSave, IInv, TypeOK
    <3>2. CASE current[t]
      <4>1. db = None /\ copy[t] = json
        BY <3>1, <3>2 DEF IInv, TaskOK
      <4>2. Lost = {}
        BY <3>1, <4>1 DEF Lost, Files
      <4> QED BY <4>2
    <3>3. CASE ~current[t]
      BY <2>1, <3>1, <3>3 DEF SavesOutdated
    <3> QED BY <3>2, <3>3
  <2> HIDE DEF Allowed
  <2> QED BY <2>4, <2>6, <2>7, <2>8, <2>9, <2>10, <2>11, <2>12, <2>13 DEF Next
<1>2. ManualNodesSurvive <=> [][Allowed]_vars
  BY DEF ManualNodesSurvive, Lost
<1> HIDE DEF Allowed
<1> QED BY <1>1, <1>2, IInvHolds, PTL DEF Spec
=============================================================================

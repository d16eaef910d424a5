----------------------------- MODULE Dns_proofs -----------------------------
(***************************************************************************)
(* Proofs about the two parts of name resolution, which share nothing: the *)
(* resolver (DnsResolver), for every number of callers and names and every *)
(* timeout and time to live the assumption admits, and the allocator of    *)
(* fake addresses (FakeIp), for every set of domains and every range size. *)
(***************************************************************************)
EXTENDS DnsResolver, FakeIp, TLAPS

\* An empty cache with nobody calling satisfies the invariant.
LEMMA InitEstablishesIInv == Init => IInv
  BY ResolverAssumption
  DEF Init, IInv, TypeOK, SingleFlight, LeaderIsTimely, EntryNamesLeader, NegativeEntryIsRecent,
      JoinedHasLed, WaiterIsYounger, Places, Guard, LongAgo

\* Every step of a caller keeps the types.
LEMMA StepKeepsTypes ==
  ASSUME TypeOK, NEW c \in Callers, Call(c) \/ Step(c) \/ Drop(c)
  PROVE  TypeOK'
<1> USE ResolverAssumption DEF TypeOK, Places, Guard, LongAgo
<1>1. CASE Call(c)
  BY <1>1 DEF Call
<1>2. CASE CacheHit(c)
  BY <1>2 DEF CacheHit
<1>3. CASE Join(c)
  BY <1>3 DEF Join
<1>4. CASE Arm(c)
  BY <1>4 DEF Arm
<1>5. CASE Lead(c)
  BY <1>5 DEF Lead
<1>6. CASE Publish(c)
  <2>1. Answers \subseteq SUBSET Addrs
    BY DEF Answers
  <2> QED BY <1>6, <2>1 DEF Publish, Ttl
<1>7. CASE NotifyWaiters(c)
  BY <1>7 DEF NotifyWaiters
<1>8. CASE GuardTimeout(c)
  BY <1>8 DEF GuardTimeout
<1>9. CASE Drop(c)
  BY <1>9 DEF Drop
<1> QED BY <1>1, <1>2, <1>3, <1>4, <1>5, <1>6, <1>7, <1>8, <1>9 DEF Step

\* Every step of a caller keeps the other parts of the invariant.
LEMMA StepKeepsIInv ==
  ASSUME IInv, NEW c \in Callers, Call(c) \/ Step(c) \/ Drop(c)
  PROVE  IInv'
<1> USE ResolverAssumption
<1>0. TypeOK'
  BY StepKeepsTypes DEF IInv
<1> USE DEF IInv, TypeOK, SingleFlight, LeaderIsTimely, EntryNamesLeader, NegativeEntryIsRecent,
            JoinedHasLed, WaiterIsYounger
<1>1. CASE Call(c)
  BY <1>0, <1>1 DEF Call
<1>2. CASE CacheHit(c)
  BY <1>0, <1>2 DEF CacheHit
<1>3. CASE Join(c)
  BY <1>0, <1>3 DEF Join
<1>4. CASE Arm(c)
  <2>1. /\ SingleFlight' /\ LeaderIsTimely' /\ EntryNamesLeader'
        /\ NegativeEntryIsRecent' /\ JoinedHasLed'
    BY <1>4 DEF Arm
  <2>2. WaiterIsYounger'
    <3> SUFFICES ASSUME NEW d \in Callers, pc'[d] = "waiting", pc'[on'[d]] = "leading"
                 PROVE  timer'[d] <= timer'[on'[d]]
      OBVIOUS
    <3>1. on[d] \in Callers /\ on[d] # c /\ on'[d] = on[d]
      BY <1>4 DEF Arm
    <3>2. CASE d = c
      BY <3>1, <3>2, <1>4 DEF Arm, Guard
    <3>3. CASE d # c
      BY <3>1, <3>3, <1>4 DEF Arm
    <3> QED BY <3>2, <3>3
  <2> QED BY <1>0, <2>1, <2>2
<1>5. CASE Lead(c)
  BY <1>0, <1>5 DEF Lead
<1>6. CASE Publish(c)
  BY <1>0, <1>6 DEF Publish, Ttl
<1>7. CASE NotifyWaiters(c)
  BY <1>0, <1>7 DEF NotifyWaiters
<1>8. CASE GuardTimeout(c)
  BY <1>0, <1>8 DEF GuardTimeout
<1>9. CASE Drop(c)
  BY <1>0, <1>9 DEF Drop
<1> QED BY <1>1, <1>2, <1>3, <1>4, <1>5, <1>6, <1>7, <1>8, <1>9 DEF Step

\* The passing of time keeps the invariant.
LEMMA TickKeepsIInv ==
  ASSUME IInv, Tick
  PROVE  IInv'
<1> USE ResolverAssumption DEF IInv, Tick
<1>1. TypeOK'
  BY DEF TypeOK, Places, Guard, LongAgo, TtlLeft
<1>2. SingleFlight' /\ JoinedHasLed' /\ EntryNamesLeader'
  BY DEF SingleFlight, JoinedHasLed, EntryNamesLeader
<1>3. LeaderIsTimely'
  <2> SUFFICES ASSUME NEW c \in Callers, pc[c] = "leading"
               PROVE  timer'[c] <= QueryTimeout
    BY DEF LeaderIsTimely
  <2>1. timer[c] \in Nat /\ timer[c] <= QueryTimeout /\ timer[c] # QueryTimeout
    BY DEF LeaderIsTimely, TypeOK, Due
  <2>2. timer'[c] = timer[c] + 1
    BY <2>1 DEF Guard
  <2> QED BY <2>1, <2>2
<1>4. NegativeEntryIsRecent'
  BY DEF NegativeEntryIsRecent, TypeOK, TtlLeft, LongAgo
<1>5. WaiterIsYounger'
  BY DEF WaiterIsYounger, JoinedHasLed, TypeOK, Due, Guard, LeaderIsTimely
<1> QED BY <1>1, <1>2, <1>3, <1>4, <1>5

\* The invariant is inductive.
LEMMA NextKeepsIInv == IInv /\ [Next]_vars => IInv'
<1> SUFFICES ASSUME IInv, [Next]_vars PROVE IInv'
  OBVIOUS
<1>1. CASE Next
  BY <1>1, StepKeepsIInv, TickKeepsIInv DEF Next
<1>2. CASE UNCHANGED vars
  BY <1>2 DEF vars, IInv, TypeOK, SingleFlight, LeaderIsTimely,
              EntryNamesLeader, NegativeEntryIsRecent, JoinedHasLed, WaiterIsYounger
<1> QED BY <1>1, <1>2

\* The invariant holds in every reachable state.
THEOREM IInvHolds == Spec => []IInv
  BY InitEstablishesIInv, NextKeepsIInv, PTL DEF Spec

\* For every number of callers the cache, the timers and the times to live stay
\* within their bounds (resolve, resolve_leader).
THEOREM TypesHold == Spec => []TypeOK
<1>1. IInv => TypeOK
  BY DEF IInv
<1> QED BY <1>1, IInvHolds, PTL

\* For every number of callers and whatever futures are dropped, a name never
\* has two queries in flight.
THEOREM FlightsAreSingle == Spec => []SingleFlight
<1>1. IInv => SingleFlight
  BY DEF IInv
<1> QED BY <1>1, IInvHolds, PTL

\* For every choice of the two times to live, an error is never reported later
\* than NEGATIVE_TTL after the failure it stands for.
THEOREM FailuresAreRecent == Spec => FailureIsRecent
<1> DEFINE Recent == \A c \in Callers :
      result'[c] = {} /\ result[c] # {} => sinceFail'[name[c]] < NegativeTTL
<1>1. ASSUME IInv, NEW c \in Callers, Call(c) \/ Step(c) \/ Drop(c)
      PROVE  Recent
  <2> USE <1>1, ResolverAssumption DEF IInv, TypeOK
  <2>1. CASE CacheHit(c)
    BY <2>1 DEF CacheHit, NegativeEntryIsRecent
  <2>2. CASE Publish(c)
    BY <2>2 DEF Publish
  <2>3. CASE UNCHANGED result
    BY <2>3
  <2> QED BY <2>1, <2>2, <2>3
          DEF Step, Call, Join, Arm, Lead, NotifyWaiters, GuardTimeout, Drop
<1>2. IInv /\ [Next]_vars => [Recent]_vars
  BY <1>1 DEF Next, Tick, vars
<1> QED BY <1>2, IInvHolds, PTL DEF Spec, FailureIsRecent

\* For every query timeout and every positive margin: the guard timeout of a
\* waiter fires only after the flight it joined is over, or its leader dropped.
THEOREM GuardsOutliveFlights == Spec => []GuardOutlivesFlight
<1>1. IInv => GuardOutlivesFlight
  <2> SUFFICES ASSUME IInv, NEW c \in Callers, pc[c] = "waiting", timer[c] = Guard,
                      pc[on[c]] # "dropped", flight[name[c]] = on[c]
               PROVE  FALSE
    BY DEF GuardOutlivesFlight
  <2>1. on[c] \in Callers /\ on[c] # None
    BY ResolverAssumption DEF IInv, JoinedHasLed
  <2>2. pc[on[c]] = "leading"
    BY <2>1 DEF IInv, TypeOK, EntryNamesLeader, Places
  <2>3. timer[c] <= timer[on[c]] /\ timer[on[c]] <= QueryTimeout
    BY <2>1, <2>2 DEF IInv, WaiterIsYounger, LeaderIsTimely
  <2>4. timer[on[c]] \in Int
    BY <2>1, ResolverAssumption DEF IInv, TypeOK, Guard
  <2> QED
    BY <2>3, <2>4, ResolverAssumption DEF Guard
<1> QED BY <1>1, IInvHolds, PTL

-----------------------------------------------------------------------------
(***************************************************************************)
(* The allocator.                                                          *)
(***************************************************************************)

\* The initial maps are empty, which satisfies every part of the invariant.
LEMMA FakeIpStarts == FakeIpInit => FakeIpInv
  BY RangeAssumption
  DEF FakeIpInit, FakeIpInv, FakeIpTypeOK, MapsAreInverse, BoundPrefix, StampsFollowRing,
      EvictedLongAgo, Offsets

\* The cursor stays on a usable offset.
LEMMA AdvanceInRange ==
  ASSUME NEW c \in Offsets
  PROVE  /\ Advance(c) \in Offsets
         /\ Advance(c) = IF c = Count - 1 THEN 1 ELSE c + 1
  BY RangeAssumption DEF Advance, Offsets

\* One allocation preserves the inductive invariant.
LEMMA AllocateKeepsInv ==
  ASSUME FakeIpInv, NEW domain \in Domains, Allocate(domain)
  PROVE  FakeIpInv'
<1> USE RangeAssumption
<1>1. cursor \in Offsets /\ cursor' \in Offsets
      /\ cursor' = IF cursor = Count - 1 THEN 1 ELSE cursor + 1
  BY AdvanceInRange DEF FakeIpInv, FakeIpTypeOK, Allocate
<1>2. FakeIpTypeOK'
  BY <1>1 DEF FakeIpInv, FakeIpTypeOK, Allocate, Rebind, Offsets
<1>3. /\ ip_to_dom' = [ip_to_dom EXCEPT ![cursor] = domain]
      /\ dom_to_ip' = [d \in Domains |-> IF d = domain THEN cursor
                         ELSE IF d = ip_to_dom[cursor] THEN Unbound
                         ELSE dom_to_ip[d]]
      /\ dom_to_ip[domain] = Unbound
      /\ fresh' = fresh + 1
      /\ given' = [given EXCEPT ![domain] = fresh + 1]
  BY DEF Allocate, Rebind
<1>a. Unbound \notin Offsets /\ Unbound \notin Domains
  BY DEF Offsets
<1>b. \A i \in Offsets : ip_to_dom[i] # domain
  BY <1>a, <1>3 DEF FakeIpInv, FakeIpTypeOK, MapsAreInverse
<1>4. MapsAreInverse'
  <2>1. ASSUME NEW d \in Domains, dom_to_ip'[d] # Unbound
        PROVE  ip_to_dom'[dom_to_ip'[d]] = d
    <3>1. CASE d = domain
      BY <3>1, <1>1, <1>3 DEF FakeIpInv, FakeIpTypeOK
    <3>2. CASE d # domain
      <4>1. dom_to_ip'[d] = dom_to_ip[d] /\ d # ip_to_dom[cursor]
        BY <2>1, <3>2, <1>3
      <4>2. dom_to_ip[d] \in Offsets /\ ip_to_dom[dom_to_ip[d]] = d
        BY <2>1, <4>1 DEF FakeIpInv, FakeIpTypeOK, MapsAreInverse
      <4> QED BY <4>1, <4>2, <1>3 DEF FakeIpInv, FakeIpTypeOK
    <3> QED BY <3>1, <3>2
  <2>2. ASSUME NEW i \in Offsets, ip_to_dom'[i] # Unbound
        PROVE  dom_to_ip'[ip_to_dom'[i]] = i
    <3>1. CASE i = cursor
      BY <3>1, <1>1, <1>3 DEF FakeIpInv, FakeIpTypeOK
    <3>2. CASE i # cursor
      <4>1. ip_to_dom'[i] = ip_to_dom[i]
        BY <3>2, <1>3 DEF FakeIpInv, FakeIpTypeOK
      <4>2. ip_to_dom[i] \in Domains /\ dom_to_ip[ip_to_dom[i]] = i
        BY <2>2, <4>1 DEF FakeIpInv, FakeIpTypeOK, MapsAreInverse
      <4>3. ip_to_dom[i] # ip_to_dom[cursor]
        BY <4>2, <3>2, <1>1, <1>a DEF FakeIpInv, FakeIpTypeOK, MapsAreInverse
      <4> QED BY <4>1, <4>2, <4>3, <1>3, <1>b
    <3> QED BY <3>1, <3>2
  <2> QED BY <2>1, <2>2 DEF MapsAreInverse
<1>5. BoundPrefix'
  BY <1>1, <1>3 DEF FakeIpInv, FakeIpTypeOK, BoundPrefix, Offsets
<1>6. StampsFollowRing'
  <2> SUFFICES ASSUME NEW i \in Offsets, ip_to_dom'[i] # Unbound
               PROVE  given'[ip_to_dom'[i]] = BoundAt(i)'
    BY DEF StampsFollowRing
  <2>1. CASE i = cursor
    BY <2>1, <1>1, <1>3 DEF FakeIpInv, FakeIpTypeOK, BoundAt, Offsets
  <2>2. CASE i # cursor
    <3>1. ip_to_dom'[i] = ip_to_dom[i] /\ ip_to_dom[i] # domain
      BY <2>2, <1>3, <1>b DEF FakeIpInv, FakeIpTypeOK
    <3>2. given'[ip_to_dom'[i]] = BoundAt(i)
      BY <3>1, <1>3 DEF FakeIpInv, FakeIpTypeOK, StampsFollowRing
    <3>3. BoundAt(i)' = BoundAt(i)
      BY <2>2, <1>1, <1>3 DEF FakeIpInv, FakeIpTypeOK, BoundAt, Offsets
    <3> QED BY <3>2, <3>3
  <2> QED BY <2>1, <2>2
<1>7. EvictedLongAgo'
  <2> SUFFICES ASSUME NEW d \in Domains
               PROVE  /\ dom_to_ip'[d] = Unbound /\ given'[d] > 0
                           => fresh' >= given'[d] + Count - 1
                      /\ dom_to_ip'[d] # Unbound => given'[d] > 0
    BY DEF EvictedLongAgo
  <2>1. CASE d = domain
    BY <2>1, <1>1, <1>3 DEF FakeIpInv, FakeIpTypeOK, Offsets
  <2>2. CASE d # domain /\ d = ip_to_dom[cursor]
    <3>1. given[d] = fresh + 2 - Count
      BY <2>2, <1>1 DEF FakeIpInv, FakeIpTypeOK, StampsFollowRing, BoundAt, Offsets
    <3> QED BY <2>2, <1>1, <1>3, <3>1 DEF FakeIpInv, FakeIpTypeOK, Offsets
  <2>3. CASE d # domain /\ d # ip_to_dom[cursor]
    BY <2>3, <1>1, <1>3 DEF FakeIpInv, FakeIpTypeOK, EvictedLongAgo, Offsets
  <2> QED BY <2>1, <2>2, <2>3
<1> QED BY <1>2, <1>4, <1>5, <1>6, <1>7 DEF FakeIpInv

\* The inductive invariant holds in every reachable state.
THEOREM FakeIpInvHolds == FakeIpSpec => []FakeIpInv
<1>1. FakeIpInv /\ [FakeIpNext]_fakeIpVars => FakeIpInv'
  <2> SUFFICES ASSUME FakeIpInv, [FakeIpNext]_fakeIpVars PROVE FakeIpInv'
    OBVIOUS
  <2>1. CASE FakeIpNext
    BY <2>1, AllocateKeepsInv DEF FakeIpNext
  <2>2. CASE UNCHANGED fakeIpVars
    BY <2>2 DEF fakeIpVars, FakeIpInv, FakeIpTypeOK, MapsAreInverse, BoundPrefix,
                StampsFollowRing, BoundAt, EvictedLongAgo
  <2> QED BY <2>1, <2>2
<1> QED BY <1>1, FakeIpStarts, PTL DEF FakeIpSpec

\* For every range the cursor and both maps stay within it: offset 0 and the
\* offset past the range are never handed out (allocate).
THEOREM FakeIpTypesHold == FakeIpSpec => []FakeIpTypeOK
<1>1. FakeIpInv => FakeIpTypeOK
  BY DEF FakeIpInv
<1> QED BY <1>1, FakeIpInvHolds, PTL

\* For every range and every order of requests, the forward and the reverse
\* map of the allocator stay inverse to each other.
THEOREM MapsStayInverse == FakeIpSpec => []MapsAreInverse
<1>1. FakeIpInv => MapsAreInverse
  BY DEF FakeIpInv
<1> QED BY <1>1, FakeIpInvHolds, PTL

\* For every range, an address restores the domain it was handed out for
\* until count-1 further domains have been allocated.
THEOREM BindingsOutliveRange == FakeIpSpec => []BindingOutlivesRange
<1>1. FakeIpInv => BindingOutlivesRange
  <2> SUFFICES ASSUME FakeIpInv, NEW d \in Domains,
                      given[d] > 0, fresh - given[d] < Count - 1
               PROVE  dom_to_ip[d] # Unbound /\ DomainOf(dom_to_ip[d]) = d
    BY DEF BindingOutlivesRange
  <2>1. dom_to_ip[d] # Unbound
    BY RangeAssumption DEF FakeIpInv, FakeIpTypeOK, EvictedLongAgo
  <2> QED BY <2>1 DEF FakeIpInv, MapsAreInverse, DomainOf
<1> QED BY <1>1, FakeIpInvHolds, PTL

\* For every range, an eviction takes the oldest binding and happens only when
\* all addresses are in use.
THEOREM EvictionTakesOldest == FakeIpSpec => EvictsOldest
<1>1. ASSUME FakeIpInv, NEW domain \in Domains, Allocate(domain),
             NEW d \in Domains, dom_to_ip[d] # Unbound, dom_to_ip'[d] # dom_to_ip[d]
      PROVE  /\ \A i \in Offsets : ip_to_dom[i] # Unbound
             /\ \A e \in Domains : dom_to_ip[e] # Unbound => given[d] <= given[e]
  <2> USE RangeAssumption
  <2>1. d = ip_to_dom[cursor] /\ cursor \in Offsets
    BY <1>1 DEF FakeIpInv, FakeIpTypeOK, Allocate, Rebind
  <2>2. fresh >= Count - 1
    BY <2>1, <1>1 DEF FakeIpInv, FakeIpTypeOK, BoundPrefix, Offsets
  <2>3. \A i \in Offsets : ip_to_dom[i] # Unbound
    BY <2>2 , <1>1 DEF FakeIpInv, BoundPrefix
  <2>4. given[d] = fresh + 2 - Count
    BY <2>1, <2>3, <1>1 DEF FakeIpInv, FakeIpTypeOK, StampsFollowRing, BoundAt, Offsets
  <2>5. ASSUME NEW e \in Domains, dom_to_ip[e] # Unbound
        PROVE  given[d] <= given[e]
    <3>1. dom_to_ip[e] \in Offsets /\ ip_to_dom[dom_to_ip[e]] = e
      BY <2>5, <1>1 DEF FakeIpInv, FakeIpTypeOK, MapsAreInverse
    <3>2. given[e] = BoundAt(dom_to_ip[e])
      BY <3>1, <2>3, <1>1 DEF FakeIpInv, StampsFollowRing
    <3>3. \A j \in Offsets : BoundAt(j) >= fresh + 2 - Count
      BY <2>1, <1>1 DEF FakeIpInv, FakeIpTypeOK, BoundAt, Offsets
    <3> QED BY <3>1, <3>2, <3>3, <2>4
  <2> QED BY <2>3, <2>5
<1>2. FakeIpInv /\ [FakeIpNext]_fakeIpVars =>
        [\A d \in Domains :
           dom_to_ip[d] # Unbound /\ dom_to_ip'[d] # dom_to_ip[d] =>
             /\ \A i \in Offsets : ip_to_dom[i] # Unbound
             /\ \A e \in Domains : dom_to_ip[e] # Unbound => given[d] <= given[e]]_fakeIpVars
  BY <1>1 DEF FakeIpNext, fakeIpVars
<1> QED BY <1>2, FakeIpInvHolds, PTL DEF FakeIpSpec, EvictsOldest
=============================================================================

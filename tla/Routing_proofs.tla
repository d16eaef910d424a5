--------------------------- MODULE Routing_proofs ---------------------------
(***************************************************************************)
(* Proofs about Routing for every list of rules, every set of outbounds    *)
(* and every answer of the resolver.                                       *)
(***************************************************************************)
EXTENDS Routing, SequenceTheorems, WellFoundedInduction, TLAPS

\* The input does not change, so neither does what the rule list means.
LEMMA MeaningIsFixed ==
  ASSUME UNCHANGED input
  PROVE  /\ UNCHANGED <<rules, default, outbounds, default_proxy, fakeip,
                        resolver, target, answer>>
         /\ SeenHost' = SeenHost
         /\ Reversed(target)' = Reversed(target)
         /\ KnownIp(Reversed(target))' = KnownIp(Reversed(target))
         /\ CannotTell' = CannotTell
         /\ NoneApplies(answer)' = NoneApplies(answer)
         /\ \A k : Applies(k, answer)' = Applies(k, answer)
         /\ \A k : IsFirst(k, answer)' = IsFirst(k, answer)
         /\ \A k : Untested(k)' = Untested(k)
         /\ (InputOK => InputOK')
  BY DEF input, SeenHost, Reversed, KnownIp, CannotTell, NoneApplies, Applies,
         IsFirst, Untested, SeenAddrs, NonIpOk, HasIpCrit, InputOK

\* The target the rules see is a target, and its parts have their types.
LEMMA SeenIsTyped ==
  ASSUME InputOK
  PROVE  /\ Reversed(target) \in Targets
         /\ SeenHost \in Hosts \cup {None}
         /\ KnownIp(Reversed(target)) \in Addrs \cup {None}
<1>1. ASSUME NEW t \in Targets
      PROVE  KnownIp(t) \in Addrs \cup {None} /\ t.host \in Hosts \cup {None}
  BY RoutingAssumption DEF KnownIp, Targets, ToHost, ToAddr
<1>2. Reversed(target) \in Targets
  BY <1>1, RoutingAssumption DEF InputOK, Reversed, Targets, ToHost
<1> QED BY <1>1, <1>2 DEF SeenHost

\* Initially nothing has been looked at.
LEMMA InitEstablishesIInv == Init => IInv
<1> SUFFICES ASSUME Init PROVE IInv
  OBVIOUS
<1>1. rules \in Seq(Rules)
  <2>1. PICK n \in 0 .. MaxRules : rules \in [1 .. n -> Rules]
    BY DEF Init
  <2>2. n \in Nat
    BY <2>1, RoutingAssumption
  <2> QED BY <2>1, <2>2, SeqDef
<1>2. InputOK
  BY <1>1 DEF Init, InputOK
<1>3. TypeOK
  <2>1. i \in 1 .. Len(rules) + 1
    BY <1>1, LenProperties DEF Init
  <2>2. action \in RouteActions
    <3>1. default \in {Direct, Proxy(None)} /\ action = default
      BY DEF Init
    <3> QED BY <3>1 DEF RouteActions
  <2>3. matched \in BOOLEAN /\ pending_block \in BOOLEAN
    BY DEF Init
  <2> QED BY <2>1, <2>2, <2>3 DEF Init, TypeOK
<1>4. LocalsMean /\ Undecided /\ Decided /\ ResolvesOnlyIfNeeded /\ FirstMatch
  BY DEF Init, LocalsMean, Undecided, Decided, ResolvesOnlyIfNeeded, FirstMatch
<1> QED BY <1>2, <1>3, <1>4 DEF IInv

\* Passing over a rule that does not apply keeps the invariant.
LEMMA PassOverKeepsIInv ==
  ASSUME IInv, pc = "loop", i <= Len(rules), ~matched,
         UNCHANGED <<input, pc, domain, ip, effective, resolved, matched, action, routed>>,
         i' = i + 1, pending_block' \in BOOLEAN,
         ~Applies(i, answer),
         pending_block' <=> pending_block \/ (CannotTell /\ Untested(i)),
         resolved = "no" /\ NonIpOk(rules[i], SeenHost) /\ HasIpCrit(rules[i]) =>
           ip # None \/ ~resolver
  PROVE  IInv'
<1> USE DEF IInv
<1>0. InputOK' /\ Len(rules) \in Nat
  BY MeaningIsFixed DEF InputOK
<1>1. TypeOK'
  BY <1>0, MeaningIsFixed DEF TypeOK
<1>2. LocalsMean'
  BY MeaningIsFixed DEF LocalsMean, SeenHost
<1>3. \A j : j \in 1 .. i' - 1 <=> (j \in 1 .. i - 1 \/ j = i)
  BY <1>0 DEF TypeOK
<1>4. Undecided'
  <2>1. action' = default' /\ \A j \in 1 .. i' - 1 : ~Applies(j, answer)'
    BY <1>3, MeaningIsFixed DEF Undecided
  <2>2. pending_block' <=> CannotTell' /\ \E j \in 1 .. i' - 1 : Untested(j)'
    BY <1>3, MeaningIsFixed DEF Undecided
  <2>3. resolved' = "no" => \A j \in 1 .. i' - 1 :
          NonIpOk(rules[j], SeenHost) /\ HasIpCrit(rules[j]) => ip # None \/ ~resolver
    BY <1>3 DEF Undecided
  <2>4. \A j : (NonIpOk(rules[j], SeenHost) /\ HasIpCrit(rules[j]))'
               = (NonIpOk(rules[j], SeenHost) /\ HasIpCrit(rules[j]))
    BY MeaningIsFixed DEF NonIpOk, HasIpCrit
  <2> QED BY <2>1, <2>2, <2>3, <2>4, MeaningIsFixed DEF Undecided
<1>5. Decided' /\ FirstMatch'
  BY DEF Decided, FirstMatch
<1>6. ResolvesOnlyIfNeeded'
  BY MeaningIsFixed DEF ResolvesOnlyIfNeeded, NonIpOk, HasIpCrit
<1> QED BY <1>0, <1>1, <1>2, <1>4, <1>5, <1>6

\* Deciding by a rule that applies keeps the invariant.
LEMMA DecideKeepsIInv ==
  ASSUME IInv, pc = "loop", i <= Len(rules), ~matched,
         Decide(rules[i]), Applies(i, answer)
  PROVE  IInv'
<1> USE DEF IInv, Decide
<1>0. InputOK' /\ Len(rules) \in Nat /\ i \in 1 .. Len(rules) /\ rules[i] \in Rules
  BY MeaningIsFixed DEF InputOK, TypeOK
<1>1. rules[i].action \in RouteActions
  BY <1>0, RoutingAssumption DEF RuleType
<1>2. TypeOK'
  BY <1>0, <1>1, MeaningIsFixed DEF TypeOK
<1>3. LocalsMean'
  BY MeaningIsFixed DEF LocalsMean
<1>4. Undecided' /\ FirstMatch'
  BY DEF Undecided, FirstMatch
<1>5. IsFirst(i, answer)
  BY <1>0 DEF IsFirst, Undecided
<1>6. Decided'
  BY <1>0, <1>5, MeaningIsFixed DEF Decided
<1>7. ResolvesOnlyIfNeeded'
  BY MeaningIsFixed DEF ResolvesOnlyIfNeeded, NonIpOk, HasIpCrit
<1> QED BY <1>0, <1>2, <1>3, <1>4, <1>6, <1>7

\* In the loop, before a rule has decided, the index is below the end only if
\* no rule has decided.
LEMMA LoopIsUndecided ==
  ASSUME IInv, MatchedAtEnd, NEW r \in Rules, At(r)
  PROVE  ~matched /\ pc = "loop" /\ i <= Len(rules) /\ r = rules[i]
  BY DEF IInv, TypeOK, InputOK, At, MatchedAtEnd

\* Every action keeps the invariant.
LEMMA NextKeepsIInv ==
  ASSUME IInv, MatchedAtEnd, Next
  PROVE  IInv' /\ MatchedAtEnd'
<1>a. CASE Begin
  <2> USE <1>a DEF Begin
  <2>0. InputOK' /\ UNCHANGED input
    BY MeaningIsFixed DEF IInv
  <2>1. TypeOK'
    BY <2>0, SeenIsTyped, MeaningIsFixed DEF IInv, TypeOK, SeenHost
  <2>2. LocalsMean'
    BY <2>0, MeaningIsFixed DEF IInv, LocalsMean, SeenHost
  <2>3. Undecided' /\ Decided' /\ FirstMatch' /\ ResolvesOnlyIfNeeded'
    BY <2>0, MeaningIsFixed
    DEF IInv, LocalsMean, Undecided, Decided, FirstMatch, ResolvesOnlyIfNeeded, TypeOK
  <2>4. MatchedAtEnd'
    BY DEF MatchedAtEnd, IInv, LocalsMean
  <2> QED BY <2>0, <2>1, <2>2, <2>3, <2>4 DEF IInv
<1>b. ASSUME NEW r \in Rules, At(r), ~NonIpOk(r, domain), Skip
      PROVE  IInv' /\ MatchedAtEnd'
  <2>1. ~Applies(i, answer) /\ ~Untested(i) /\ ~NonIpOk(rules[i], SeenHost)
    BY <1>b, LoopIsUndecided DEF IInv, LocalsMean, Applies, Untested
  <2> QED BY <2>1, <1>b, LoopIsUndecided, PassOverKeepsIInv
          DEF Skip, IInv, TypeOK, MatchedAtEnd
<1>c. ASSUME NEW r \in Rules, At(r), NonIpOk(r, domain), ~HasIpCrit(r), Decide(r)
      PROVE  IInv' /\ MatchedAtEnd'
  <2>1. Applies(i, answer)
    BY <1>c, LoopIsUndecided DEF IInv, LocalsMean, Applies
  <2> QED BY <2>1, <1>c, LoopIsUndecided, DecideKeepsIInv, MeaningIsFixed DEF Decide, MatchedAtEnd
<1>d. ASSUME NEW r \in Rules, IpRule(r), ip # None, ip \in r.ip, Decide(r)
      PROVE  IInv' /\ MatchedAtEnd'
  <2>1. Applies(i, answer)
    BY <1>d, LoopIsUndecided DEF IInv, LocalsMean, Applies, IpRule, SeenAddrs
  <2> QED BY <2>1, <1>d, LoopIsUndecided, DecideKeepsIInv, MeaningIsFixed
          DEF Decide, MatchedAtEnd, IpRule
<1>e. ASSUME NEW r \in Rules, IpRule(r), ip # None, ip \notin r.ip, Skip
      PROVE  IInv' /\ MatchedAtEnd'
  <2>1. ~Applies(i, answer) /\ ~CannotTell
    BY <1>e, LoopIsUndecided DEF IInv, LocalsMean, Applies, IpRule, SeenAddrs, CannotTell
  <2> QED BY <2>1, <1>e, LoopIsUndecided, PassOverKeepsIInv
          DEF Skip, IInv, TypeOK, MatchedAtEnd, IpRule
<1>f. ASSUME NEW r \in Rules, IpRule(r), ip = None, ~resolver, Skip
      PROVE  IInv' /\ MatchedAtEnd'
  <2>1. ~Applies(i, answer) /\ ~CannotTell
    BY <1>f, LoopIsUndecided DEF IInv, LocalsMean, Applies, IpRule, SeenAddrs, CannotTell
  <2> QED BY <2>1, <1>f, LoopIsUndecided, PassOverKeepsIInv
          DEF Skip, IInv, TypeOK, MatchedAtEnd, IpRule
<1>g. CASE Resolve
  <2> PICK r \in Rules :
        /\ IpRule(r) /\ ip = None /\ resolver /\ resolved = "no"
        /\ resolved' = (IF answer = {} THEN "failed" ELSE "ok")
        /\ UNCHANGED <<input, pc, i, domain, ip, effective, matched, pending_block, action, routed>>
    BY <1>g DEF Resolve
  <2>0. InputOK' /\ ~matched /\ pc = "loop" /\ i \in 1 .. Len(rules) /\ r = rules[i]
    BY MeaningIsFixed, LoopIsUndecided DEF IInv, IpRule, TypeOK, InputOK
  <2>1. TypeOK' /\ LocalsMean' /\ Decided' /\ FirstMatch' /\ MatchedAtEnd'
    BY <2>0, MeaningIsFixed
    DEF IInv, TypeOK, LocalsMean, Decided, FirstMatch, MatchedAtEnd
  <2>2. Undecided'
    BY <2>0, MeaningIsFixed DEF IInv, Undecided
  <2>3. NonIpOk(rules[i], SeenHost) /\ HasIpCrit(rules[i]) /\ KnownIp(Reversed(target)) = None
    BY <2>0 DEF IInv, LocalsMean, IpRule
  <2>4. \A j \in 1 .. i - 1 : ~NonIpOk(rules[j], SeenHost)
    BY <2>0 DEF IInv, Undecided, Applies
  <2>5. ResolvesOnlyIfNeeded'
    BY <2>0, <2>3, <2>4, MeaningIsFixed DEF ResolvesOnlyIfNeeded, NonIpOk, HasIpCrit
  <2> QED BY <2>0, <2>1, <2>2, <2>5 DEF IInv
<1>h. ASSUME NEW r \in Rules, IpRule(r), ip = None, resolved = "ok",
             answer \cap r.ip # {}, Decide(r)
      PROVE  IInv' /\ MatchedAtEnd'
  <2>1. Applies(i, answer)
    BY <1>h, LoopIsUndecided DEF IInv, LocalsMean, Applies, IpRule, SeenAddrs
  <2> QED BY <2>1, <1>h, LoopIsUndecided, DecideKeepsIInv, MeaningIsFixed
          DEF Decide, MatchedAtEnd, IpRule
<1>i. ASSUME NEW r \in Rules, IpRule(r), ip = None, resolved = "ok",
             answer \cap r.ip = {}, Skip
      PROVE  IInv' /\ MatchedAtEnd'
  <2>1. ~Applies(i, answer) /\ ~CannotTell
    BY <1>i, LoopIsUndecided DEF IInv, LocalsMean, Applies, IpRule, SeenAddrs, CannotTell
  <2> QED BY <2>1, <1>i, LoopIsUndecided, PassOverKeepsIInv
          DEF Skip, IInv, TypeOK, MatchedAtEnd, IpRule
<1>j. CASE UntestedRule
  <2> PICK r \in Rules :
        /\ IpRule(r) /\ ip = None /\ resolved = "failed"
        /\ pending_block' = Outstanding(r)
        /\ i' = i + 1
        /\ UNCHANGED <<input, pc, domain, ip, effective, resolved, matched, action, routed>>
    BY <1>j DEF UntestedRule
  <2>0. ~matched /\ pc = "loop" /\ i \in 1 .. Len(rules) /\ r = rules[i] /\ Len(rules) \in Nat
    BY LoopIsUndecided DEF IInv, IpRule, TypeOK, InputOK
  <2>1. ~Applies(i, answer) /\ CannotTell
    BY <2>0 DEF IInv, LocalsMean, Applies, IpRule, SeenAddrs, CannotTell
  <2>2. Untested(i) <=> r.action.kind = "block"
    BY <2>0 DEF Untested, IpRule, IInv, LocalsMean
  <2>3. pending_block' <=> pending_block \/ (CannotTell /\ Untested(i))
    BY <2>1, <2>2 DEF Outstanding
  <2>4. pending_block' \in BOOLEAN
    BY DEF Outstanding
  <2>5. IInv'
    BY <2>0, <2>1, <2>3, <2>4, PassOverKeepsIInv
  <2> QED BY <2>0, <2>5 DEF MatchedAtEnd
<1>k. CASE Finish
  <2> USE <1>k DEF Finish
  <2>0. InputOK' /\ UNCHANGED input /\ Len(rules) \in Nat
    BY MeaningIsFixed DEF IInv, InputOK
  <2>1. action' = IF ~matched /\ pending_block THEN Block ELSE action
    OBVIOUS
  <2>2. TypeOK'
    <3>1. action' \in RouteActions
      BY <2>1 DEF IInv, TypeOK, RouteActions
    <3>2. ASSUME NEW a \in RouteActions
          PROVE  /\ Decision(a) \in Decisions
                 /\ Chosen(a) \in Tags \cup {None} /\ Fallback(a) \in Tags \cup {None}
      BY RoutingAssumption
      DEF IInv, InputOK, RouteActions, Decision, Decisions, Chosen, Fallback, Direct, Block, Proxy
    <3>3. routed' \in RoutedType
      BY <3>1, <3>2, <2>1 DEF RoutedType, IInv, TypeOK
    <3> QED BY <2>0, <3>1, <3>3, MeaningIsFixed DEF IInv, TypeOK
  <2>3. LocalsMean' /\ Undecided' /\ Decided' /\ MatchedAtEnd'
    BY <2>0, MeaningIsFixed DEF IInv, LocalsMean, Undecided, Decided, MatchedAtEnd
  <2>4. ResolvesOnlyIfNeeded'
    BY <2>0, MeaningIsFixed DEF IInv, ResolvesOnlyIfNeeded, NonIpOk, HasIpCrit
  <2>5. ASSUME NEW k \in 1 .. Len(rules), IsFirst(k, answer)
        PROVE  action' = rules[k].action
    <3>1. matched
      BY <2>0, <2>5 DEF IInv, Undecided, IsFirst
    <3>2. PICK m \in 1 .. Len(rules) : IsFirst(m, answer) /\ action = rules[m].action
      BY <3>1 DEF IInv, Decided
    <3>3. m = k
      BY <2>0, <2>5, <3>2 DEF IsFirst
    <3> QED BY <3>1, <3>2, <3>3, <2>1
  <2>6. ASSUME NoneApplies(answer)
        PROVE  action' = IF CannotTell /\ \E k \in 1 .. Len(rules) : Untested(k)
                         THEN Block ELSE default
    <3>1. ~matched
      BY <2>6 DEF IInv, Decided, NoneApplies, IsFirst
    <3>2. pending_block <=> CannotTell /\ \E j \in 1 .. Len(rules) : Untested(j)
      BY <2>0, <3>1 DEF IInv, Undecided
    <3> QED BY <3>1, <3>2, <2>1 DEF IInv, Undecided
  <2>7. FirstMatch'
    BY <2>0, <2>5, <2>6, MeaningIsFixed DEF FirstMatch
  <2> QED BY <2>0, <2>2, <2>3, <2>4, <2>7 DEF IInv
<1> QED BY <1>a, <1>b, <1>c, <1>d, <1>e, <1>f, <1>g, <1>h, <1>i, <1>j, <1>k
        DEF Next, NotThisRule, PlainRule, KnownAddress, NoResolver, ResolvedAddress

\* The loop invariant holds in every reachable state.
THEOREM IInvHolds == Spec => [](IInv /\ MatchedAtEnd)
<1>1. Init => MatchedAtEnd
  BY DEF Init, MatchedAtEnd
<1>2. IInv /\ MatchedAtEnd /\ UNCHANGED vars => (IInv /\ MatchedAtEnd)'
  <2> SUFFICES ASSUME IInv, MatchedAtEnd, UNCHANGED vars PROVE (IInv /\ MatchedAtEnd)'
    OBVIOUS
  <2>1. UNCHANGED input /\ UNCHANGED locals
    BY DEF vars
  <2>2. InputOK' /\ TypeOK' /\ MatchedAtEnd'
    BY <2>1, MeaningIsFixed DEF IInv, TypeOK, locals, MatchedAtEnd
  <2>3. LocalsMean' /\ Undecided' /\ Decided' /\ FirstMatch'
    BY <2>1, MeaningIsFixed
    DEF IInv, locals, LocalsMean, Undecided, Decided, FirstMatch, NonIpOk, HasIpCrit
  <2>4. ResolvesOnlyIfNeeded'
    BY <2>1, MeaningIsFixed DEF IInv, locals, ResolvesOnlyIfNeeded, NonIpOk, HasIpCrit
  <2> QED BY <2>2, <2>3, <2>4 DEF IInv
<1>3. IInv /\ MatchedAtEnd /\ [Next]_vars => (IInv /\ MatchedAtEnd)'
  BY <1>2, NextKeepsIInv
<1> QED BY <1>1, <1>3, InitEstablishesIInv, PTL DEF Spec

\* For every list of rules the loop of route() stays within the list and its
\* locals within their types.
THEOREM TypesHold == Spec => []TypeOK
<1>1. IInv => TypeOK
  BY DEF IInv
<1> QED BY <1>1, IInvHolds, PTL

\* For every list of rules route() returns the action of the first rule that
\* applies, and never lets an untested Block fall through to the default.
THEOREM RouteIsFirstMatch == Spec => []FirstMatch
<1>1. IInv => FirstMatch
  BY DEF IInv
<1> QED BY <1>1, IInvHolds, PTL

\* For every list of rules a name goes to the resolver only when the first
\* rule it satisfies otherwise needs its addresses.
THEOREM ResolveIsLazy == Spec => []ResolvesOnlyIfNeeded
<1>1. IInv => ResolvesOnlyIfNeeded
  BY DEF IInv
<1> QED BY <1>1, IInvHolds, PTL

\* For every list of rules: a connection that a failing resolver leaves to the
\* default action meets no Block rule first, whatever its addresses are.  (A
\* rule that applies without an address decides as always, also below a Block
\* rule that could not be tested.)
THEOREM DnsFailureOpensNothing == Spec => []NoBypassByDnsFailure
<1>1. IInv => NoBypassByDnsFailure
  <2> SUFFICES ASSUME IInv, pc = "done", CannotTell, NoneApplies(answer),
                      action.kind # "block",
                      NEW s \in SUBSET Addrs, NEW k \in 1 .. Len(rules), IsFirst(k, s)
               PROVE  rules[k].action.kind # "block"
    BY DEF NoBypassByDnsFailure
  <2>1. ~\E j \in 1 .. Len(rules) : Untested(j)
    BY DEF IInv, FirstMatch, Block
  <2>2. NonIpOk(rules[k], SeenHost) /\ ~Applies(k, answer)
    BY DEF IsFirst, Applies, NoneApplies
  <2>3. HasIpCrit(rules[k])
    BY <2>2 DEF Applies
  <2> QED BY <2>1, <2>2, <2>3 DEF Untested
<1> QED BY <1>1, IInvHolds, PTL

\* What is returned stays what the action and the restored target say.
LEMMA RoutedMeansHolds == Spec => []RoutedMeans
<1>1. Init => RoutedMeans
  BY DEF Init, RoutedMeans
<1>2. IInv /\ RoutedMeans /\ [Next]_vars => RoutedMeans'
  <2> SUFFICES ASSUME IInv, RoutedMeans, [Next]_vars PROVE RoutedMeans'
    OBVIOUS
  <2>1. ASSUME UNCHANGED input
        PROVE  \A a : /\ Decision(a)' = Decision(a) /\ Chosen(a)' = Chosen(a)
                      /\ Fallback(a)' = Fallback(a)
    BY <2>1 DEF input, Decision, Chosen, Fallback
  <2>2. CASE Finish
    <3>1. UNCHANGED input /\ effective = Reversed(target)
      BY <2>2 DEF Finish, IInv, LocalsMean
    <3> QED BY <2>1, <2>2, <3>1, MeaningIsFixed DEF Finish, RoutedMeans
  <2>3. CASE UNCHANGED vars
    BY <2>1, <2>3, MeaningIsFixed DEF vars, locals, input, RoutedMeans, Decision, Chosen, Fallback, Reversed, KnownIp
  <2>4. CASE Next /\ ~Finish
    <3>1. pc' = "loop"
      BY <2>4 DEF Next, Begin, NotThisRule, PlainRule, KnownAddress, NoResolver, Resolve,
                  ResolvedAddress, UntestedRule, IpRule, At, Skip, Decide
    <3> QED BY <3>1 DEF RoutedMeans
  <2> QED BY <2>2, <2>3, <2>4
<1> QED BY <1>1, <1>2, IInvHolds, PTL DEF Spec

\* A set of naturals has a least element.
LEMMA LeastNatural ==
  ASSUME NEW A \in SUBSET Nat, A # {}
  PROVE  \E m \in A : \A k \in A : m <= k
<1>1. PICK m \in A : \A k \in A : <<k, m>> \notin OpToRel(<, Nat)
  BY WFMin, NatLessThanWellFounded, Zenon
<1>2. \A k \in A : ~(k < m)
  BY <1>1, Zenon DEF OpToRel
<1>3. ASSUME NEW k \in A PROVE m <= k
  <2>1. k \in Nat /\ m \in Nat
    BY <1>1
  <2>2. ~(k < m)
    BY <1>2
  <2> QED BY <2>1, <2>2
<1> QED BY <1>1, <1>3

\* For every list of rules resolve_target decides as route() does, for a target
\* with an address of its own that is no fake one, or without rules on addresses.
THEOREM SyncDecidesTheSame == Spec => []ResolveTargetAgrees
<1>1. IInv /\ RoutedMeans => ResolveTargetAgrees
  <2> SUFFICES ASSUME IInv, RoutedMeans, pc = "done", Reversed(target) = target,
                      KnownIp(target) # None \/ \A k \in 1 .. Len(rules) : ~HasIpCrit(rules[k])
               PROVE  routed.decision = resolve_target
    BY DEF ResolveTargetAgrees
  <2> DEFINE hits == {k \in 1 .. Len(rules) : TestedNow(rules[k])}
             first == CHOOSE k \in hits : \A j \in hits : k <= j
  <2>1. routed.decision = Decision(action) /\ Len(rules) \in Nat
    BY DEF RoutedMeans, IInv, InputOK
  <2>2. SeenHost = target.host
    BY DEF SeenHost
  <2>3. ASSUME NEW k \in 1 .. Len(rules)
        PROVE  TestedNow(rules[k]) <=> Applies(k, answer)
    <3>1. CASE KnownIp(target) # None
      BY <2>2, <3>1 DEF TestedNow, Applies, SeenAddrs
    <3>2. CASE ~HasIpCrit(rules[k])
      BY <2>2, <3>2 DEF TestedNow, Applies
    <3> QED BY <3>1, <3>2
  <2>4. CASE hits = {}
    <3>1. NoneApplies(answer)
      BY <2>3, <2>4 DEF NoneApplies
    <3>2. ~(CannotTell /\ \E k \in 1 .. Len(rules) : Untested(k))
      BY DEF CannotTell, Untested
    <3>3. action = default
      BY <3>1, <3>2 DEF IInv, FirstMatch
    <3> QED BY <2>1, <2>4, <3>3 DEF resolve_target
  <2>5. CASE hits # {}
    <3>1. hits \in SUBSET Nat
      BY <2>1
    <3>2. PICK k \in hits : \A j \in hits : k <= j
      BY <2>5, <3>1, LeastNatural
    <3>3. first \in hits /\ \A j \in hits : first <= j
      BY <3>2
    <3>4. IsFirst(first, answer)
      <4>1. first \in 1 .. Len(rules) /\ TestedNow(rules[first])
        BY <3>3
      <4>2. Applies(first, answer)
        BY <4>1, <2>3
      <4>3. ASSUME NEW j \in 1 .. first - 1 PROVE ~Applies(j, answer)
        <5>1. j \in 1 .. Len(rules) /\ ~(first <= j)
          BY <4>1, <2>1
        <5>2. j \notin hits
          BY <3>3, <5>1
        <5> QED BY <2>3, <5>1, <5>2
      <4> HIDE DEF first
      <4> QED BY <4>1, <4>2, <4>3 DEF IsFirst
    <3>5. action = rules[first].action
      BY <3>3, <3>4 DEF IInv, FirstMatch
    <3> QED BY <2>1, <2>5, <3>5 DEF resolve_target
  <2> QED BY <2>4, <2>5
<1> QED BY <1>1, IInvHolds, RoutedMeansHolds, PTL
=============================================================================

------------------------------ MODULE Routing ------------------------------
(***************************************************************************)
(* Engine::route of crates/net/src/engine.rs: the target of a connection   *)
(* is taken through the rules in order; the first rule whose criteria hold *)
(* decides.  A rule with IP criteria needs an address: a literal one, or   *)
(* the answer of the resolver, which is asked once and only when such a    *)
(* rule is reached.  A Block rule that could not be tested because the     *)
(* resolver failed blocks the connection unless a later rule decides.      *)
(*                                                                         *)
(* A domain criterion (domains and geosite together) is the set of hosts   *)
(* it matches, an IP criterion (ip_cidrs and geoip together) the set of    *)
(* addresses; Absent stands for a rule without the criterion.  The ports and  *)
(* processes of a rule either admit the connection or not.                 *)
(***************************************************************************)
EXTENDS Integers, Sequences

CONSTANTS
  Hosts,       \* host names, literal addresses written as names included
  Addrs,       \* IP addresses
  LiteralIp,   \* literal_ip: the address a host name spells, or None
  FakeDomain,  \* FakeIp::domain_of: the name behind a fake address, or None
  Tags,        \* names of outbounds
  Rules,       \* the rules a configuration may contain
  Absent,         \* a criterion that is absent
  None,        \* Option::None
  MaxRules     \* bound on the length of the rule list

Direct == [kind |-> "direct", tag |-> None]
Block == [kind |-> "block", tag |-> None]
Proxy(t) == [kind |-> "proxy", tag |-> t]
RouteActions == {Direct, Block} \cup {Proxy(t) : t \in Tags \cup {None}}

RuleType == [dom : (SUBSET Hosts) \cup {Absent}, rest : BOOLEAN,
             ip : (SUBSET Addrs) \cup {Absent}, action : RouteActions]

\* Names the DNS side asks a fake address for are no literal addresses.
ASSUME RoutingAssumption ==
  /\ None \notin Hosts /\ None \notin Addrs /\ None \notin Tags
  /\ LiteralIp \in [Hosts -> Addrs \cup {None}]
  /\ FakeDomain \in [Addrs -> Hosts \cup {None}]
  /\ \A a \in Addrs : FakeDomain[a] # None => LiteralIp[FakeDomain[a]] = None
  /\ Rules \subseteq RuleType
  /\ MaxRules \in Nat

VARIABLES
  \* the engine and the call: fixed while the call runs
  rules,          \* Engine.rules
  default,        \* Engine.default_action
  outbounds,      \* the tags Engine.outbounds has
  default_proxy,  \* Engine.default_proxy
  fakeip,         \* whether the engine has a FakeIp
  resolver,       \* whether the engine has a resolver
  target,         \* the target of the connection
  answer,         \* the addresses the resolver would return; {} is a failure
  \* the locals of route()
  pc, i, domain, ip, effective, resolved, matched, pending_block, action, routed

input == <<rules, default, outbounds, default_proxy, fakeip, resolver, target, answer>>
locals == <<pc, i, domain, ip, effective, resolved, matched, pending_block, action, routed>>
vars == <<input, locals>>

\* Target::Domain and Target::Socket.
ToHost(h) == [host |-> h, addr |-> None]
ToAddr(a) == [host |-> None, addr |-> a]
Targets == {ToHost(h) : h \in Hosts} \cup {ToAddr(a) : a \in Addrs}

Decisions == [kind : {"direct", "block"}, tag : {None}] \cup [kind : {"proxy"}, tag : Tags]
RoutedType == [decision : Decisions, target : Targets,
               chosen : Tags \cup {None}, fallback : Tags \cup {None}]

TypeOK ==
  /\ pc \in {"begin", "loop", "done"}
  /\ i \in 1 .. Len(rules) + 1
  /\ domain \in Hosts \cup {None}
  /\ ip \in Addrs \cup {None}
  /\ effective \in Targets
  /\ resolved \in {"no", "ok", "failed"}
  /\ matched \in BOOLEAN /\ pending_block \in BOOLEAN
  /\ action \in RouteActions
  /\ pc = "done" => routed \in RoutedType

Init ==
  /\ rules \in UNION {[1 .. n -> Rules] : n \in 0 .. MaxRules}
  /\ default \in {Direct, Proxy(None)}
  /\ outbounds \in SUBSET Tags
  /\ default_proxy \in Tags \cup {None}
  /\ fakeip \in BOOLEAN
  /\ resolver \in BOOLEAN
  /\ target \in Targets
  /\ answer \in SUBSET Addrs /\ (~resolver => answer = {})
  /\ pc = "begin" /\ i = 1
  /\ domain = None /\ ip = None /\ effective = target
  /\ resolved = "no" /\ matched = FALSE /\ pending_block = FALSE
  /\ action = default /\ routed = None

\* The address of a target, if it has one without asking the resolver.
KnownIp(t) == IF t.host # None THEN LiteralIp[t.host] ELSE t.addr

\* The target with a fake address replaced by the name it stands for.
Reversed(t) ==
  LET a == KnownIp(t) IN
  IF fakeip /\ a # None /\ FakeDomain[a] # None THEN ToHost(FakeDomain[a]) ELSE t

\* The FakeIP reversal and the start of the loop.
Begin ==
  /\ pc = "begin"
  /\ pc' = "loop"
  /\ effective' = Reversed(target)
  /\ domain' = Reversed(target).host
  /\ ip' = KnownIp(Reversed(target))
  /\ UNCHANGED <<input, i, resolved, matched, pending_block, action, routed>>

\* non_ip_ok and has_ip_crit.
NonIpOk(r, h) == /\ r.dom # Absent => h # None /\ h \in r.dom
                 /\ r.rest
HasIpCrit(r) == r.ip # Absent

\* The loop is at rule r.
At(r) == pc = "loop" /\ i <= Len(rules) /\ r = rules[i]

\* The rule under the loop decides.
Decide(r) ==
  /\ action' = r.action
  /\ matched' = TRUE
  /\ i' = Len(rules) + 1
  /\ UNCHANGED <<input, pc, domain, ip, effective, resolved, pending_block, routed>>

\* The loop goes on to the next rule.
Skip ==
  /\ i' = i + 1
  /\ UNCHANGED <<input, pc, domain, ip, effective, resolved, matched,
                 pending_block, action, routed>>

\* A rule whose other criteria do not hold.
NotThisRule == \E r \in Rules : At(r) /\ ~NonIpOk(r, domain) /\ Skip

\* A rule without IP criteria.
PlainRule == \E r \in Rules : At(r) /\ NonIpOk(r, domain) /\ ~HasIpCrit(r) /\ Decide(r)

\* Defect: the other criteria are not looked at first.
IpRuleEager(r) == At(r) /\ HasIpCrit(r)

\* A rule with IP criteria that is otherwise satisfied.
IpRule(r) == At(r) /\ NonIpOk(r, domain) /\ HasIpCrit(r)

\* The address is known.
KnownAddress == \E r \in Rules :
  /\ IpRule(r) /\ ip # None
  /\ IF ip \in r.ip THEN Decide(r) ELSE Skip

\* A domain and no resolver: the rule cannot be tested.
NoResolver == \E r \in Rules : IpRule(r) /\ ip = None /\ ~resolver /\ Skip

\* The first rule that needs an address asks the resolver and waits.
Resolve == \E r \in Rules :
  /\ IpRule(r) /\ ip = None /\ resolver /\ resolved = "no"
  /\ resolved' = IF answer = {} THEN "failed" ELSE "ok"
  /\ UNCHANGED <<input, pc, i, domain, ip, effective, matched, pending_block, action, routed>>

\* The resolver answered.
ResolvedAddress == \E r \in Rules :
  /\ IpRule(r) /\ ip = None /\ resolved = "ok"
  /\ IF answer \cap r.ip # {} THEN Decide(r) ELSE Skip

\* Defect: a failure of the resolver is taken for "no match".
ForgetBlock(r) == FALSE

\* Defect: the flag holds only for the latest rule.
LatestBlock(r) == r.action.kind = "block"

\* Whether a Block is outstanding after rule r could not be tested.
Outstanding(r) == pending_block \/ r.action.kind = "block"

\* The resolver failed: a Block rule stays outstanding.
UntestedRule == \E r \in Rules :
  /\ IpRule(r) /\ ip = None /\ resolved = "failed"
  /\ pending_block' = Outstanding(r)
  /\ i' = i + 1
  /\ UNCHANGED <<input, pc, domain, ip, effective, resolved, matched, action, routed>>

\* act_full: a Proxy action needs an outbound of that name, else it blocks.
Decision(a) ==
  IF a.kind # "proxy" THEN [kind |-> a.kind, tag |-> None]
  ELSE LET key == IF a.tag # None THEN a.tag ELSE default_proxy IN
       IF key \in outbounds THEN [kind |-> "proxy", tag |-> key] ELSE Block

\* act_full: a node named by a rule falls back to the default node.
Chosen(a) ==
  IF a.kind = "proxy" /\ a.tag # None /\ default_proxy # None /\ a.tag # default_proxy
  THEN a.tag ELSE None
Fallback(a) == IF Chosen(a) # None /\ default_proxy \in outbounds THEN default_proxy ELSE None

\* The end of route(): an outstanding Block wins over the default action.
Finish ==
  LET a == IF ~matched /\ pending_block THEN Block ELSE action IN
  /\ pc = "loop" /\ i = Len(rules) + 1
  /\ pc' = "done"
  /\ action' = a
  /\ routed' = [decision |-> Decision(a), target |-> effective,
                chosen |-> Chosen(a), fallback |-> Fallback(a)]
  /\ UNCHANGED <<input, i, domain, ip, effective, resolved, matched, pending_block>>

Next ==
  \/ Begin
  \/ NotThisRule \/ PlainRule \/ KnownAddress
  \/ NoResolver \/ Resolve \/ ResolvedAddress \/ UntestedRule
  \/ Finish

Spec == Init /\ [][Next]_vars

(***************************************************************************)
(* resolve_target, the other way through the rules: one call without the   *)
(* resolver and without the FakeIP table.                                  *)
(***************************************************************************)

\* Defect: an address that is written as a name is taken for a name only.
TestedWithoutLiteral(r) ==
  /\ NonIpOk(r, target.host)
  /\ HasIpCrit(r) => target.addr \in r.ip

\* The rule decides: its IP criteria are held against a known address only.
TestedNow(r) ==
  /\ NonIpOk(r, target.host)
  /\ HasIpCrit(r) => KnownIp(target) # None /\ KnownIp(target) \in r.ip

resolve_target ==
  LET hits == {k \in 1 .. Len(rules) : TestedNow(rules[k])}
      first == CHOOSE k \in hits : \A j \in hits : k <= j
  IN  Decision(IF hits = {} THEN default ELSE rules[first].action)

-----------------------------------------------------------------------------
(***************************************************************************)
(* What the rule list means, independently of the loop.                    *)
(***************************************************************************)

\* The host and the addresses the rules see, if the resolver returns s.
SeenHost == Reversed(target).host
SeenAddrs(s) == LET a == KnownIp(Reversed(target)) IN
                IF a # None THEN {a} ELSE IF resolver THEN s ELSE {}

\* Rule number k applies if the resolver returns s.
Applies(k, s) == /\ NonIpOk(rules[k], SeenHost)
                 /\ HasIpCrit(rules[k]) => SeenAddrs(s) \cap rules[k].ip # {}

\* Rule number k is the first that applies.
IsFirst(k, s) == /\ k \in 1 .. Len(rules)
                 /\ Applies(k, s)
                 /\ \A j \in 1 .. k - 1 : ~Applies(j, s)

\* Nothing applies and a Block rule could not be tested.
Untested(k) == /\ k \in 1 .. Len(rules)
               /\ NonIpOk(rules[k], SeenHost) /\ HasIpCrit(rules[k])
               /\ rules[k].action.kind = "block"
NoneApplies(s) == \A k \in 1 .. Len(rules) : ~Applies(k, s)
CannotTell == KnownIp(Reversed(target)) = None /\ resolver /\ answer = {}

(***************************************************************************)
(* Properties.                                                             *)
(***************************************************************************)

\* route() gives the first rule that applies in the order of the list, whatever
\* mixture of domain and IP rules comes before it; if none applies, Block when
\* an untested Block rule is among them, else the default action.
FirstMatch ==
  pc = "done" =>
    /\ \A k \in 1 .. Len(rules) : IsFirst(k, answer) => action = rules[k].action
    /\ NoneApplies(answer) =>
         action = IF CannotTell /\ \E k \in 1 .. Len(rules) : Untested(k)
                  THEN Block ELSE default

\* Suppressing the DNS answer does not turn a Block into the default action: a
\* connection that leaves by the default action because the resolver failed
\* would not have met a Block rule first for any addresses the name may really
\* have.  A rule that applies without an address keeps its priority, also below
\* an untested Block rule (the comment of route says so).
NoBypassByDnsFailure ==
  pc = "done" /\ CannotTell /\ NoneApplies(answer) /\ action.kind # "block" =>
    \A s \in SUBSET Addrs : \A k \in 1 .. Len(rules) :
      IsFirst(k, s) => rules[k].action.kind # "block"

\* A name is sent to the resolver only if no rule above the first one that
\* needs its addresses has decided (no DNS leak for names that domain rules
\* settle), and never for a target with an address of its own.
ResolvesOnlyIfNeeded ==
  resolved # "no" =>
    /\ resolver /\ KnownIp(Reversed(target)) = None
    /\ \E k \in 1 .. Len(rules) :
         /\ NonIpOk(rules[k], SeenHost) /\ HasIpCrit(rules[k])
         /\ \A j \in 1 .. k - 1 : ~NonIpOk(rules[j], SeenHost)

\* resolve_target and route() are two loops over one rule list, and the comment
\* of resolve_target says where the first may stand in for the second: the
\* target has an address of its own, or no rule asks for one.  There they come
\* to the same decision - the FakeIP table, the resolver and the outstanding
\* Block change nothing - provided the address is not one of the FakeIP table,
\* which only route() takes back to its name.
ResolveTargetAgrees ==
  pc = "done" /\ Reversed(target) = target
    /\ (KnownIp(target) # None \/ \A k \in 1 .. Len(rules) : ~HasIpCrit(rules[k]))
    => routed.decision = resolve_target

(***************************************************************************)
(* The loop invariant behind them.                                         *)
(***************************************************************************)

InputOK ==
  /\ rules \in Seq(Rules)
  /\ default \in {Direct, Proxy(None)}
  /\ default_proxy \in Tags \cup {None} /\ outbounds \in SUBSET Tags
  /\ target \in Targets /\ answer \in SUBSET Addrs
  /\ fakeip \in BOOLEAN /\ resolver \in BOOLEAN /\ (~resolver => answer = {})

\* What the locals mean once the target has been looked at.
LocalsMean ==
  /\ pc = "begin" => i = 1 /\ ~matched
  /\ pc # "begin" => /\ domain = SeenHost
                     /\ ip = KnownIp(Reversed(target))
                     /\ effective = Reversed(target)
  /\ resolved = "ok" => answer # {}
  /\ resolved = "failed" => answer = {}
  /\ resolved # "no" => resolver /\ pc # "begin" /\ ip = None

\* While no rule has decided, none above the current one applies, and a Block
\* is outstanding exactly if one of them could not be tested.
Undecided ==
  pc # "done" /\ ~matched =>
    /\ action = default
    /\ \A j \in 1 .. i - 1 : ~Applies(j, answer)
    /\ pending_block <=> CannotTell /\ \E j \in 1 .. i - 1 : Untested(j)
    /\ resolved = "no" => \A j \in 1 .. i - 1 :
         NonIpOk(rules[j], SeenHost) /\ HasIpCrit(rules[j]) =>
           ip # None \/ ~resolver

\* When a rule has decided, it is the first that applies.
Decided == pc # "done" /\ matched =>
  \E k \in 1 .. Len(rules) : IsFirst(k, answer) /\ action = rules[k].action

\* A rule that has decided ends the loop.
MatchedAtEnd == matched => i = Len(rules) + 1

\* What route() returns is act_full of the action, for the restored target.
RoutedMeans ==
  pc = "done" =>
    routed = [decision |-> Decision(action), target |-> Reversed(target),
              chosen |-> Chosen(action), fallback |-> Fallback(action)]

IInv ==
  /\ InputOK
  /\ TypeOK
  /\ LocalsMean
  /\ Undecided
  /\ Decided
  /\ ResolvesOnlyIfNeeded
  /\ FirstMatch

=============================================================================

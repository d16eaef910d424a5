----------------------------- MODULE MCRouting -----------------------------
(***************************************************************************)
(* Instance of Routing: a real name, a real and a fake address, both also  *)
(* written as names, and rules of every shape the loop tells apart.        *)
(***************************************************************************)
EXTENDS Routing, TLC

CONSTANTS h1, lit, fakelit, a1, fake, t1, t2

MCHosts == {h1, lit, fakelit}
MCAddrs == {a1, fake}
MCLiteralIp == (h1 :> None) @@ (lit :> a1) @@ (fakelit :> fake)
MCFakeDomain == (a1 :> None) @@ (fake :> h1)
MCTags == {t1, t2}

Rule(d, ok, n, a) == [dom |-> d, rest |-> ok, ip |-> n, action |-> a]

MCRules ==
  { Rule(Absent, TRUE, {a1}, Block),
    Rule({h1}, TRUE, {a1}, Block),
    Rule({lit}, TRUE, Absent, Block),
    Rule(Absent, TRUE, {a1}, Proxy(t1)),
    Rule(Absent, TRUE, {fake}, Direct),
    Rule({h1}, TRUE, Absent, Direct),
    Rule(Absent, FALSE, {a1}, Block) }
=============================================================================

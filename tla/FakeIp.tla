------------------------------- MODULE FakeIp -------------------------------
(***************************************************************************)
(* The FakeIP allocator of crates/net/src/fakeip.rs: a two-way map between *)
(* domains and synthetic IPv4 addresses.  Addresses are handed out round   *)
(* robin; when the range is exhausted the binding of the address that is   *)
(* handed out again is evicted.  An address is represented by its offset   *)
(* from the base of the range (offset 0, the network address, is never     *)
(* handed out).  Every operation runs under the mutex `inner', so it is    *)
(* one action.                                                             *)
(***************************************************************************)
EXTENDS Integers

CONSTANTS
  Domains,    \* the domain names the DNS side asks for
  Count,      \* FakeIp.count: the size of the range, offset 0 included
  Unbound,    \* "no binding"
  MaxFresh    \* bound on the number of fresh allocations

\* FakeIp::new refuses ranges with fewer than two usable addresses.
ASSUME RangeAssumption ==
  /\ Count \in Nat /\ Count >= 3
  /\ MaxFresh \in Nat
  /\ Unbound \notin Domains
  /\ Unbound \notin Nat

VARIABLES
  cursor,     \* Inner.cursor: the next offset to hand out
  dom_to_ip,  \* Inner.dom_to_ip
  ip_to_dom,  \* Inner.ip_to_dom
  fresh,      \* history: how many fresh allocations there have been
  given       \* history: the number of d's latest fresh allocation, 0 if none

fakeIpVars == <<cursor, dom_to_ip, ip_to_dom, fresh, given>>

\* The offsets that are handed out: 1 .. count-1.
Offsets == 1 .. Count - 1

FakeIpTypeOK ==
  /\ cursor \in Offsets
  /\ dom_to_ip \in [Domains -> Offsets \cup {Unbound}]
  /\ ip_to_dom \in [Offsets -> Domains \cup {Unbound}]
  /\ fresh \in Nat
  /\ given \in [Domains -> Nat]

FakeIpInit ==
  /\ cursor = 1
  /\ dom_to_ip = [d \in Domains |-> Unbound]
  /\ ip_to_dom = [i \in Offsets |-> Unbound]
  /\ fresh = 0
  /\ given = [d \in Domains |-> 0]

\* Defect: the wrap comes one address too early.
AdvanceEarly(c) == IF c + 2 >= Count THEN 1 ELSE c + 1

\* The cursor after one fresh allocation: it wraps past the end to offset 1.
Advance(c) == IF c + 1 >= Count THEN 1 ELSE c + 1

\* Defect: the evicted domain keeps its forward entry.
RebindKeepsOld(domain, ip) == [dom_to_ip EXCEPT ![domain] = ip]

\* The forward map after `domain' takes the address `ip': the domain that held
\* the address before, if any, loses its binding.
Rebind(domain, ip) ==
  [d \in Domains |-> IF d = domain THEN ip
                     ELSE IF d = ip_to_dom[ip] THEN Unbound
                     ELSE dom_to_ip[d]]

\* FakeIp::allocate for a domain without a binding.
Allocate(domain) ==
  /\ fresh < MaxFresh
  /\ dom_to_ip[domain] = Unbound
  /\ cursor' = Advance(cursor)
  /\ ip_to_dom' = [ip_to_dom EXCEPT ![cursor] = domain]
  /\ dom_to_ip' = Rebind(domain, cursor)
  /\ fresh' = fresh + 1
  /\ given' = [given EXCEPT ![domain] = fresh + 1]

\* FakeIp::domain_of.
DomainOf(ip) == ip_to_dom[ip]

\* allocate for a bound domain and domain_of change nothing.
FakeIpNext == \E d \in Domains : Allocate(d)

FakeIpSpec == FakeIpInit /\ [][FakeIpNext]_fakeIpVars

-----------------------------------------------------------------------------
(***************************************************************************)
(* Properties.                                                             *)
(***************************************************************************)

\* The two hash maps of Inner stay inverse to each other through every
\* eviction: a domain that still has an address is the one domain_of returns
\* for it, and no address points at a domain that was evicted or moved.
MapsAreInverse ==
  /\ \A d \in Domains :
       dom_to_ip[d] # Unbound => ip_to_dom[dom_to_ip[d]] = d
  /\ \A i \in Offsets :
       ip_to_dom[i] # Unbound => dom_to_ip[ip_to_dom[i]] = i

\* An application that was told a fake address may connect to it for as long
\* as fewer than count-1 other domains were allocated since: until then route()
\* still restores the domain it asked for (no binding is reused early).
BindingOutlivesRange ==
  \A d \in Domains :
    given[d] > 0 /\ fresh - given[d] < Count - 1 =>
      /\ dom_to_ip[d] # Unbound
      /\ DomainOf(dom_to_ip[d]) = d

\* "вытеснением старейших привязок": a binding is taken away only when every
\* address is in use, and it is the oldest one.
EvictsOldest ==
  [][\A d \in Domains :
       dom_to_ip[d] # Unbound /\ dom_to_ip'[d] # dom_to_ip[d] =>
         /\ \A i \in Offsets : ip_to_dom[i] # Unbound
         /\ \A e \in Domains : dom_to_ip[e] # Unbound => given[d] <= given[e]]_fakeIpVars

(***************************************************************************)
(* The inductive invariant behind the three: the number of the allocation  *)
(* that bound an offset is a function of its distance from the cursor.     *)
(***************************************************************************)

\* The offsets below the cursor are bound; once the range has been used up all
\* are, and before that the cursor counts the allocations.
BoundPrefix ==
  /\ fresh < Count - 1 => cursor = fresh + 1
  /\ \A i \in Offsets : ip_to_dom[i] # Unbound <=> (i < cursor \/ fresh >= Count - 1)

\* Which allocation bound offset i.
BoundAt(i) == IF i < cursor THEN fresh + 1 + i - cursor
                            ELSE fresh + 2 + i - cursor - Count

StampsFollowRing ==
  \A i \in Offsets : ip_to_dom[i] # Unbound => given[ip_to_dom[i]] = BoundAt(i)

\* A domain that lost its binding lost it a whole range ago.
EvictedLongAgo ==
  \A d \in Domains :
    /\ dom_to_ip[d] = Unbound /\ given[d] > 0 => fresh >= given[d] + Count - 1
    /\ dom_to_ip[d] # Unbound => given[d] > 0

FakeIpInv ==
  /\ FakeIpTypeOK
  /\ MapsAreInverse
  /\ BoundPrefix
  /\ StampsFollowRing
  /\ EvictedLongAgo

=============================================================================

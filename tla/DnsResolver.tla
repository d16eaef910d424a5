---------------------------- MODULE DnsResolver ----------------------------
(***************************************************************************)
(* DnsResolver::resolve of crates/net/src/dns/mod.rs: a cache with time to *)
(* live and single flight.  The first caller of a name leads: it asks the  *)
(* server and publishes the answer; the callers that come meanwhile wait   *)
(* for the leader's Notify under a guard timeout and read the cache again. *)
(*                                                                         *)
(* A caller is one call of resolve.  Callers in Dropped run inside a       *)
(* tokio::time::timeout that may drop their future at any await (the HTTP  *)
(* front end of engine.rs does so); the others run to the end.             *)
(*                                                                         *)
(* Time is discrete and relative: Tick ages every timer by one unit and    *)
(* waits for the timers that are due.                                      *)
(***************************************************************************)
EXTENDS Integers, FiniteSets

CONSTANTS
  Callers,       \* calls of resolve
  Dropped,       \* the callers whose future may be dropped
  Names,         \* host names
  Addrs,         \* the addresses an answer may hold
  None,          \* "no flight" / "no result"
  QueryTimeout,  \* self.timeout, the time limit of one query
  GuardExtra,    \* what a waiter adds to it (two seconds)
  PositiveTTL,   \* POSITIVE_TTL
  NegativeTTL    \* NEGATIVE_TTL

ASSUME ResolverAssumption ==
  /\ Dropped \subseteq Callers
  /\ None \notin Callers
  /\ QueryTimeout \in Nat /\ GuardExtra \in Nat \ {0}
  /\ NegativeTTL \in Nat \ {0} /\ PositiveTTL \in Nat
  /\ NegativeTTL <= PositiveTTL

VARIABLES
  flight,     \* the leader of the InFlight entry of a name, None if there is none
  ready,      \* the addresses of the Ready entry of a name ({}: negative)
  ttl,        \* the time until that entry expires; 0: expired or absent
  pc,         \* where each caller is
  name,       \* the name each caller resolves
  on,         \* the flight whose Notify a caller waits for
  timer,      \* how long a leader has asked, or a waiter has waited
  result,     \* what resolve returned; {} is Err
  sinceFail   \* history: time since the last failed flight of a name

vars == <<flight, ready, ttl, pc, name, on, timer, result, sinceFail>>

\* Defect: the guard has no margin over the query timeout.
GuardNoMargin == QueryTimeout

\* The guard timeout of a waiter.
Guard == QueryTimeout + GuardExtra

\* The time sinceFail stops counting at.
LongAgo == NegativeTTL

Places == {"new", "check", "hold", "waiting", "leading", "notify", "done", "dropped"}

TypeOK ==
  /\ flight \in [Names -> Callers \cup {None}]
  /\ ready \in [Names -> SUBSET Addrs]
  /\ ttl \in [Names -> 0 .. PositiveTTL]
  /\ pc \in [Callers -> Places]
  /\ name \in [Callers -> Names]
  /\ on \in [Callers -> Callers \cup {None}]
  /\ timer \in [Callers -> 0 .. Guard]
  /\ result \in [Callers -> (SUBSET Addrs) \cup {None}]
  /\ sinceFail \in [Names -> 0 .. LongAgo]

Init ==
  /\ flight = [n \in Names |-> None]
  /\ ready = [n \in Names |-> {}]
  /\ ttl = [n \in Names |-> 0]
  /\ pc = [c \in Callers |-> "new"]
  /\ name \in [Callers -> Names]
  /\ on = [c \in Callers |-> None]
  /\ timer = [c \in Callers |-> 0]
  /\ result = [c \in Callers |-> None]
  /\ sinceFail = [n \in Names |-> LongAgo]

\* Somebody calls resolve.
Call(c) ==
  /\ pc[c] = "new"
  /\ pc' = [pc EXCEPT ![c] = "check"]
  /\ UNCHANGED <<flight, ready, ttl, name, on, timer, result, sinceFail>>

\* The cache holds an answer that has not expired: cache_result returns it.
CacheHit(c) ==
  LET n == name[c] IN
  /\ pc[c] = "check"
  /\ flight[n] = None /\ ttl[n] > 0
  /\ pc' = [pc EXCEPT ![c] = "done"]
  /\ result' = [result EXCEPT ![c] = ready[n]]
  /\ UNCHANGED <<flight, ready, ttl, name, on, timer, sinceFail>>

\* The name is in flight: take its Notify and let go of the lock.
Join(c) ==
  LET n == name[c] IN
  /\ pc[c] = "check"
  /\ flight[n] # None
  /\ pc' = [pc EXCEPT ![c] = "hold"]
  /\ on' = [on EXCEPT ![c] = flight[n]]
  /\ UNCHANGED <<flight, ready, ttl, name, timer, result, sinceFail>>

\* Create the notified() future: only from here on is a notification seen.
Arm(c) ==
  /\ pc[c] = "hold"
  /\ pc' = [pc EXCEPT ![c] = "waiting"]
  /\ timer' = [timer EXCEPT ![c] = 0]
  /\ UNCHANGED <<flight, ready, ttl, name, on, result, sinceFail>>

\* Defect: the role of the leader is taken without looking at the flight.
LeadAnyway(c) ==
  LET n == name[c] IN
  /\ pc[c] = "check"
  /\ ttl[n] = 0
  /\ pc' = [pc EXCEPT ![c] = "leading"]
  /\ flight' = [flight EXCEPT ![n] = c]
  /\ timer' = [timer EXCEPT ![c] = 0]
  /\ UNCHANGED <<ready, ttl, name, on, result, sinceFail>>

\* No entry, or an expired one: put InFlight there and ask the server.
Lead(c) ==
  LET n == name[c] IN
  /\ pc[c] = "check"
  /\ flight[n] = None /\ ttl[n] = 0
  /\ pc' = [pc EXCEPT ![c] = "leading"]
  /\ flight' = [flight EXCEPT ![n] = c]
  /\ timer' = [timer EXCEPT ![c] = 0]
  /\ UNCHANGED <<ready, ttl, name, on, result, sinceFail>>

\* resolve_uncached: the A and the AAAA answers together; a query that fails
\* or times out adds nothing, and no addresses at all is an error.
Answers == {a \cup aaaa : a, aaaa \in SUBSET Addrs}

\* Defect: a failure is kept as long as an answer.
TtlAlwaysPositive(ips) == PositiveTTL

\* The time to live of an entry: short for a failure.
Ttl(ips) == IF ips = {} THEN NegativeTTL ELSE PositiveTTL

\* resolve_leader: publish the answer under the lock.
Publish(c) ==
  LET n == name[c] IN
  /\ pc[c] = "leading"
  /\ \E ips \in Answers :
       /\ ready' = [ready EXCEPT ![n] = ips]
       /\ ttl' = [ttl EXCEPT ![n] = Ttl(ips)]
       /\ result' = [result EXCEPT ![c] = ips]
       /\ sinceFail' = IF ips = {} THEN [sinceFail EXCEPT ![n] = 0] ELSE sinceFail
  /\ flight' = [flight EXCEPT ![n] = None]
  /\ pc' = [pc EXCEPT ![c] = "notify"]
  /\ UNCHANGED <<name, on, timer>>

\* notify_waiters: whoever waits for this flight's Notify reads the cache again.
NotifyWaiters(c) ==
  /\ pc[c] = "notify"
  /\ pc' = [d \in Callers |-> IF d = c THEN "done"
                              ELSE IF pc[d] = "waiting" /\ on[d] = c THEN "check"
                              ELSE pc[d]]
  /\ UNCHANGED <<flight, ready, ttl, name, on, timer, result, sinceFail>>

\* Defect: after the guard timeout the same Notify is waited for again.
GuardWaitsAgain(c) ==
  /\ pc[c] = "waiting"
  /\ timer[c] = Guard
  /\ timer' = [timer EXCEPT ![c] = 0]
  /\ UNCHANGED <<flight, ready, ttl, pc, name, on, result, sinceFail>>

\* The guard timeout of a waiter: it reads the cache again.
GuardTimeout(c) ==
  /\ pc[c] = "waiting"
  /\ timer[c] = Guard
  /\ pc' = [pc EXCEPT ![c] = "check"]
  /\ UNCHANGED <<flight, ready, ttl, name, on, timer, result, sinceFail>>

\* The timeout around the caller drops its future at an await.
Drop(c) ==
  /\ c \in Dropped
  /\ pc[c] \in {"waiting", "leading"}
  /\ pc' = [pc EXCEPT ![c] = "dropped"]
  /\ UNCHANGED <<flight, ready, ttl, name, on, timer, result, sinceFail>>

\* A timer of this caller has expired and is served before time goes on.
Due(c) ==
  \/ pc[c] = "leading" /\ timer[c] = QueryTimeout
  \/ pc[c] = "waiting" /\ timer[c] = Guard

\* The time an entry has left one unit later.
TtlLeft(t) == IF t > 0 THEN t - 1 ELSE 0

\* One unit of time.
Tick ==
  /\ \A c \in Callers : ~Due(c)
  /\ timer' = [c \in Callers |-> IF pc[c] \in {"leading", "waiting"} /\ timer[c] < Guard
                                 THEN timer[c] + 1 ELSE timer[c]]
  /\ ttl' = [n \in Names |-> TtlLeft(ttl[n])]
  /\ sinceFail' = [n \in Names |-> IF sinceFail[n] < LongAgo
                                   THEN sinceFail[n] + 1 ELSE LongAgo]
  /\ UNCHANGED <<flight, ready, pc, name, on, result>>

\* What a caller does by itself once resolve has been called.
Step(c) ==
  \/ CacheHit(c)
  \/ Join(c)
  \/ Arm(c)
  \/ Lead(c)
  \/ Publish(c)
  \/ NotifyWaiters(c)
  \/ GuardTimeout(c)

Next ==
  \/ \E c \in Callers : Call(c) \/ Step(c) \/ Drop(c)
  \/ Tick

\* The runtime polls every task that can go on, and time passes.
Fairness ==
  /\ \A c \in Callers : WF_vars(Step(c))
  /\ WF_vars(Tick)

Spec == Init /\ [][Next]_vars
FairSpec == Spec /\ Fairness

-----------------------------------------------------------------------------
(***************************************************************************)
(* Properties.                                                             *)
(***************************************************************************)

\* However the callers of a page load interleave, a name has at most one query
\* in flight, and it is the one the cache entry names ("ОДИН реальный запрос,
\* а не шторм").
SingleFlight ==
  \A c \in Callers : pc[c] = "leading" => flight[name[c]] = c

\* A failure never sticks: whoever is told Err is told of a flight that failed
\* no longer than NEGATIVE_TTL ago, through however many waits and re-reads.
FailureIsRecent ==
  [][\A c \in Callers :
       result'[c] = {} /\ result[c] # {} => sinceFail'[name[c]] < NegativeTTL]_vars

\* The guard timeout is long enough: when it fires, the flight the waiter
\* joined is over and the entry it will read is not that flight's any more,
\* unless the leader of the flight was dropped.
GuardOutlivesFlight ==
  \A c \in Callers :
    pc[c] = "waiting" /\ timer[c] = Guard /\ pc[on[c]] # "dropped" => flight[name[c]] # on[c]

\* Every call of resolve returns, for every order of callers, answers and lost
\* notifications, as long as no caller is dropped on the way.
ResolveReturns ==
  \A c \in Callers : pc[c] \in {"check", "hold", "waiting", "leading"} ~>
    pc[c] = "done" \/ \E d \in Callers : pc[d] = "dropped"

(***************************************************************************)
(* The inductive invariants behind them.                                   *)
(***************************************************************************)

\* A leader asks for no longer than the query timeout.
LeaderIsTimely ==
  \A c \in Callers : pc[c] = "leading" => timer[c] <= QueryTimeout

\* The leader of an entry in flight asks for that name, or was dropped asking.
EntryNamesLeader ==
  \A n \in Names : flight[n] # None =>
    name[flight[n]] = n /\ pc[flight[n]] \in {"leading", "dropped"}

\* An entry without addresses was published by the latest failed flight.
NegativeEntryIsRecent ==
  \A n \in Names : ttl[n] > 0 /\ ready[n] = {} => sinceFail[n] + ttl[n] <= NegativeTTL

\* A Notify belongs to a caller that has led.
JoinedHasLed ==
  \A c \in Callers : pc[c] \in {"hold", "waiting"} =>
    on[c] \in Callers /\ pc[on[c]] \in {"leading", "notify", "done", "dropped"}

\* A waiter has not waited longer than the flight it joined has lasted.
WaiterIsYounger ==
  \A c \in Callers : pc[c] = "waiting" /\ pc[on[c]] = "leading" =>
    timer[c] <= timer[on[c]]

IInv ==
  /\ TypeOK
  /\ SingleFlight
  /\ LeaderIsTimely
  /\ EntryNamesLeader
  /\ NegativeEntryIsRecent
  /\ JoinedHasLed
  /\ WaiterIsYounger

=============================================================================

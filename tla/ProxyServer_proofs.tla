------------------------- MODULE ProxyServer_proofs -------------------------
(***************************************************************************)
(* Proofs about ProxyServer for every number of connections, permits,      *)
(* engines and attempts, and for whatever the engines decide.              *)
(***************************************************************************)
EXTENDS ProxyServer, FiniteSetTheorems, TLAPS

\* The live tasks of a port are finitely many.
LEMMA ActiveIsFinite ==
  ASSUME NEW p
  PROVE  IsFiniteSet(ActiveOn(p)) /\ Cardinality(ActiveOn(p)) \in Nat
<1>1. ActiveOn(p) \subseteq Conns
  BY DEF ActiveOn, Active
<1> QED BY <1>1, ServerAssumption, FS_Subset, FS_CardinalityType

\* A task that ends leaves the live tasks of its port and of no other.
LEMMA EndLeaves ==
  ASSUME TypeOK, NEW c \in Conns, pc[c] \notin {"new", "closed"}, End(c)
  PROVE  /\ c \in ActiveOn(Port(c))
         /\ \A p : ActiveOn(p)' = IF p = Port(c) THEN ActiveOn(p) \ {c} ELSE ActiveOn(p)
  BY DEF TypeOK, End, ActiveOn, Active, Port, fixed, server

\* A task that is accepted joins the live tasks of its port.
LEMMA AcceptJoins ==
  ASSUME TypeOK, NEW c \in Conns, Accept(c)
  PROVE  /\ c \notin ActiveOn(Port(c))
         /\ \A p : ActiveOn(p)' = IF p = Port(c) THEN ActiveOn(p) \cup {c} ELSE ActiveOn(p)
  BY DEF TypeOK, Accept, ActiveOn, Active, Port, fixed, server

\* Whichever way a task ends, permits and registry stay right.
LEMMA EndKeepsBooks ==
  ASSUME EndingsAddUp, NEW c \in Conns, pc[c] \notin {"new", "closed"}, End(c),
         dialled' \in [Conns -> SUBSET Nodes], noticed' \in SUBSET Conns,
         told' \in [Conns -> {"nothing", "ok", "refused", "denied", "bad"}]
  PROVE  EndingsAddUp'
<1> USE DEF EndingsAddUp
<1>0. PICK q \in Ports : q = Port(c)
  BY DEF Port, Ports
<1>1. /\ ActiveOn(q)' = ActiveOn(q) \ {c}
      /\ \A p : p # q => ActiveOn(p)' = ActiveOn(p)
      /\ c \in ActiveOn(q)
  BY <1>0, EndLeaves
<1>2. /\ Cardinality(ActiveOn(q) \ {c}) = Cardinality(ActiveOn(q)) - 1
      /\ Cardinality(ActiveOn(q) \ {c}) \in Nat
  <2>1. IsFiniteSet(ActiveOn(q))
    BY ActiveIsFinite
  <2>2. IsFiniteSet(ActiveOn(q) \ {c})
    BY <2>1, FS_RemoveElement
  <2> QED BY <1>1, <2>1, <2>2, FS_RemoveElement, FS_CardinalityType
<1>3. /\ permits' = [permits EXCEPT ![q] = @ + 1]
      /\ permits \in [Ports -> 0 .. MaxConns]
      /\ \A p \in Ports : permits[p] + Cardinality(ActiveOn(p)) = MaxConns
  BY <1>0 DEF End, TypeOK, PermitsAddUp
<1>4. permits[q] + 1 \in 0 .. MaxConns
  BY <1>2, <1>3, ActiveIsFinite, ServerAssumption
<1>8. PermitsAddUp'
  <2> SUFFICES ASSUME NEW p \in Ports
               PROVE  permits'[p] + Cardinality(ActiveOn(p)') = MaxConns
    BY DEF PermitsAddUp
  <2>1. CASE p = q
    <3>1. permits'[q] = permits[q] + 1 /\ permits[q] \in Nat
      BY <1>3, ServerAssumption
    <3>2. Cardinality(ActiveOn(q)') = Cardinality(ActiveOn(q)) - 1
      BY <1>1, <1>2
    <3> QED BY <1>3, <3>1, <3>2, <2>1, ActiveIsFinite
  <2>2. CASE p # q
    BY <1>1, <1>3, <2>2
  <2> QED BY <2>1, <2>2
<1>5. TypeOK'
  <2>1. permits' \in [Ports -> 0 .. MaxConns]
    BY <1>3, <1>4
  <2>2. pc' \in [Conns -> Places]
    BY DEF TypeOK, End, Places
  <2>3. /\ registry' \in SUBSET Conns /\ timer' \in [Conns -> Nat]
        /\ age' \in [Conns -> 0 .. HandshakeTimeout]
    BY ServerAssumption DEF TypeOK, End
  <2> QED BY <2>1, <2>2, <2>3 DEF TypeOK, End, fixed, server
<1>6. RegistryIsExact'
  BY DEF RegistryIsExact, End, TypeOK
<1> QED BY <1>5, <1>6, <1>8

\* A step of a live task that goes on living keeps the books.
LEMMA GoKeepsBooks ==
  ASSUME EndingsAddUp, NEW c \in Conns, pc[c] \notin {"new", "closed"},
         UNCHANGED <<fixed, permits>>,
         NEW place \in Places \ {"new", "closed"}, pc' = [pc EXCEPT ![c] = place],
         place \in {"registered", "relay", "killing"} <=> c \in registry',
         \A d \in Conns \ {c} : d \in registry' <=> d \in registry,
         registry' \in SUBSET Conns
  PROVE  PermitsAddUp' /\ RegistryIsExact' /\ pc' \in [Conns -> Places]
<1> USE DEF EndingsAddUp
<1>1. \A p : ActiveOn(p)' = ActiveOn(p)
  BY DEF TypeOK, ActiveOn, Active, Port, fixed, server
<1>2. PermitsAddUp'
  BY <1>1 DEF PermitsAddUp
<1>3. RegistryIsExact'
  BY DEF RegistryIsExact, TypeOK
<1>4. pc' \in [Conns -> Places]
  BY DEF TypeOK
<1> QED BY <1>2, <1>3, <1>4

\* Every action keeps permits and registry right.
LEMMA NextKeepsBooks ==
  ASSUME IInv, Next
  PROVE  EndingsAddUp'
<1> USE DEF IInv, EndingsAddUp
<1>0. EndingsAddUp
  OBVIOUS
<1>h. ASSUME UNCHANGED history
      PROVE  /\ dialled' \in [Conns -> SUBSET Nodes] /\ noticed' \in SUBSET Conns
             /\ told' \in [Conns -> {"nothing", "ok", "refused", "denied", "bad"}]
  BY <1>h DEF TypeOK, history
<1>r. ASSUME NEW c \in Conns
      PROVE  /\ RouteOf(c) \in RouteType
             /\ RouteOf(c).node \in Nodes \cup {None} /\ RouteOf(c).fallback \in Nodes \cup {None}
  <2>1. policy[eng[c]] \in Routes
    BY DEF TypeOK
  <2> QED BY <2>1, ServerAssumption DEF RouteOf, RouteType
<1>1. ASSUME NEW c \in Conns, Accept(c) PROVE EndingsAddUp'
  <2> USE <1>1
  <2>0. PICK q \in Ports : q = Port(c)
    BY DEF Port, Ports
  <2>1. /\ ActiveOn(q)' = ActiveOn(q) \cup {c} /\ c \notin ActiveOn(q)
        /\ \A p : p # q => ActiveOn(p)' = ActiveOn(p)
    BY <2>0, AcceptJoins
  <2>2. Cardinality(ActiveOn(q) \cup {c}) = Cardinality(ActiveOn(q)) + 1
    BY <2>1, ActiveIsFinite, FS_AddElement
  <2>3. /\ permits' = [permits EXCEPT ![q] = @ - 1] /\ permits[q] > 0
        /\ permits \in [Ports -> 0 .. MaxConns]
        /\ \A p \in Ports : permits[p] + Cardinality(ActiveOn(p)) = MaxConns
    BY <2>0 DEF Accept, TypeOK, PermitsAddUp
  <2>4. PermitsAddUp'
    <3> SUFFICES ASSUME NEW p \in Ports
                 PROVE  permits'[p] + Cardinality(ActiveOn(p)') = MaxConns
      BY DEF PermitsAddUp
    <3>1. CASE p = q
      <4>1. permits'[q] = permits[q] - 1 /\ permits[q] \in Nat
        BY <2>3, ServerAssumption
      <4>2. Cardinality(ActiveOn(q)') = Cardinality(ActiveOn(q)) + 1
        BY <2>1, <2>2
      <4> QED BY <2>3, <4>1, <4>2, <3>1, ActiveIsFinite
    <3>2. CASE p # q
      BY <2>1, <2>3, <3>2
    <3> QED BY <3>1, <3>2
  <2>5. TypeOK'
    <3>1. permits' \in [Ports -> 0 .. MaxConns]
      BY <2>3, ServerAssumption
    <3>2. pc' \in [Conns -> Places] /\ eng' \in [Conns -> 1 .. Versions]
      <4>1. EngineFor(c) \in 1 .. Versions
        BY ServerAssumption DEF TypeOK, EngineFor
      <4> QED BY <4>1 DEF TypeOK, Accept, Places
    <3> QED BY <3>1, <3>2 DEF TypeOK, Accept, fixed, server, history
  <2>6. RegistryIsExact'
    BY DEF RegistryIsExact, Accept, TypeOK, fixed, server
  <2> QED BY <2>4, <2>5, <2>6
<1>2. ASSUME NEW c \in Conns, Reject(c) PROVE EndingsAddUp'
  <2> USE <1>2
  <2>1. \A p : ActiveOn(p)' = ActiveOn(p)
    BY DEF TypeOK, Reject, ActiveOn, Active, Port, fixed, server
  <2>2. PermitsAddUp'
    BY <2>1 DEF PermitsAddUp, Reject
  <2>3. TypeOK'
    BY DEF TypeOK, Reject, fixed, server, history, Places
  <2>4. RegistryIsExact'
    BY DEF RegistryIsExact, Reject, TypeOK, fixed, server
  <2> QED BY <2>2, <2>3, <2>4
<1>3. ASSUME NEW c \in Conns,
             \/ HandshakeExpires(c) \/ HttpExpires(c) \/ Killed(c)
             \/ ClientFails(c) \/ EstablishFails(c) \/ PeerCloses(c)
      PROVE  EndingsAddUp'
  <2>1. UNCHANGED history /\ pc[c] \notin {"new", "closed"}
    BY <1>3 DEF HandshakeExpires, HttpExpires, Killed, ClientFails, EstablishFails, PeerCloses
  <2>2. End(c)
    BY <1>3 DEF HandshakeExpires, HttpExpires, Killed, ClientFails, EstablishFails, PeerCloses
  <2> QED BY <2>1, <2>2, <1>0, <1>h, EndKeepsBooks
<1>4. ASSUME NEW c \in Conns, Blocked(c) \/ GiveUp(c) \/ BadRequest(c)
      PROVE  EndingsAddUp'
  <2>1. pc[c] \notin {"new", "closed"} /\ UNCHANGED <<dialled, noticed>>
    BY <1>4 DEF Blocked, GiveUp, BadRequest
  <2>2. End(c)
    BY <1>4 DEF Blocked, GiveUp, BadRequest
  <2>3. told' \in [Conns -> {"nothing", "ok", "refused", "denied", "bad"}]
    BY <1>4 DEF Blocked, GiveUp, BadRequest, Reply, TypeOK
  <2>4. dialled' \in [Conns -> SUBSET Nodes] /\ noticed' \in SUBSET Conns
    BY <2>1 DEF TypeOK
  <2> QED BY <2>1, <2>2, <2>3, <2>4, <1>0, EndKeepsBooks
<1>5. ASSUME NEW c \in Conns, NEW place \in Places, Go(c, place),
             pc[c] \notin {"new", "closed"}, place \notin {"new", "closed"},
             place \in {"registered", "relay", "killing"} <=> c \in registry,
             eng' = eng, via' \in [Conns -> {"main", "fallback"}],
             attempt' \in [Conns -> 1 .. Attempts],
             dialled' \in [Conns -> SUBSET Nodes], noticed' \in SUBSET Conns,
             told' \in [Conns -> {"nothing", "ok", "refused", "denied", "bad"}]
      PROVE  EndingsAddUp'
  <2>1. PermitsAddUp' /\ RegistryIsExact' /\ pc' \in [Conns -> Places]
    BY <1>5, <1>0, GoKeepsBooks DEF Go, TypeOK
  <2>2. timer' \in [Conns -> Nat]
    BY <1>5 DEF Go, TypeOK
  <2>3. TypeOK'
    BY <1>5, <2>1, <2>2 DEF Go, TypeOK, fixed, server
  <2> QED BY <2>1, <2>3
<1>6. ASSUME NEW c \in Conns, FirstByte(c) \/ Requested(c) \/ OriginalDst(c) \/ StartRelay(c)
      PROVE  EndingsAddUp'
  <2>1. PICK place \in Places :
          /\ Go(c, place) /\ pc[c] \notin {"new", "closed"} /\ place \notin {"new", "closed"}
          /\ place \in {"registered", "relay", "killing"} <=>
               pc[c] \in {"registered", "relay", "killing"}
    BY <1>6 DEF FirstByte, Requested, OriginalDst, StartRelay, Places
  <2>2. eng' = eng /\ via' = via /\ attempt' = attempt /\ UNCHANGED history
    BY <1>6 DEF FirstByte, Requested, OriginalDst, StartRelay
  <2>3. place \in {"registered", "relay", "killing"} <=> c \in registry
    BY <2>1 DEF RegistryIsExact
  <2>4. via' \in [Conns -> {"main", "fallback"}] /\ attempt' \in [Conns -> 1 .. Attempts]
    BY <2>2 DEF TypeOK
  <2> QED BY <2>1, <2>2, <2>3, <2>4, <1>h, <1>5
<1>7. ASSUME NEW c \in Conns, StartDial(c) \/ DialSucceeds(c) \/ Retry(c) \/ FallBack(c)
      PROVE  EndingsAddUp'
  <2>1. PICK place \in {"dial", "up"} : Go(c, place)
    BY <1>7 DEF StartDial, DialSucceeds, Retry, FallBack
  <2>2. eng' = eng /\ told' = told /\ pc[c] \in {"route", "dial"}
    BY <1>7 DEF StartDial, DialSucceeds, Retry, FallBack, history
  <2>3. via' \in [Conns -> {"main", "fallback"}]
    BY <1>7 DEF StartDial, DialSucceeds, Retry, FallBack, TypeOK
  <2>4. attempt' \in [Conns -> 1 .. Attempts]
    BY <1>7, ServerAssumption DEF StartDial, DialSucceeds, Retry, FallBack, TypeOK
  <2>5. dialled' \in [Conns -> SUBSET Nodes]
    BY <1>7, <1>r DEF StartDial, DialSucceeds, Retry, FallBack, TypeOK, history
  <2>6. noticed' \in SUBSET Conns
    BY <1>7 DEF StartDial, DialSucceeds, Retry, FallBack, TypeOK, history
  <2>7. /\ place \in Places /\ place \notin {"new", "closed"} /\ pc[c] \notin {"new", "closed"}
        /\ place \in {"registered", "relay", "killing"} <=> c \in registry
    BY <2>2 DEF Places, RegistryIsExact
  <2>8. told' \in [Conns -> {"nothing", "ok", "refused", "denied", "bad"}]
    BY <2>2 DEF TypeOK
  <2> QED BY <2>1, <2>2, <2>3, <2>4, <2>5, <2>6, <2>7, <2>8, <1>5
<1>8. ASSUME NEW c \in Conns, Establish(c) PROVE EndingsAddUp'
  <2>1. "registered" \in Places \ {"new", "closed"}
    BY DEF Places
  <2>2. PermitsAddUp' /\ RegistryIsExact' /\ pc' \in [Conns -> Places]
    BY <1>8, <1>0, <2>1, GoKeepsBooks DEF Establish, Reply, TypeOK
  <2>3. TypeOK'
    BY <1>8, <2>2 DEF Establish, Reply, TypeOK, fixed, server
  <2> QED BY <2>2, <2>3
<1>9. ASSUME NEW c \in Conns, DropConnection(c) PROVE EndingsAddUp'
  <2>1. pc[c] \in {"registered", "relay", "killing"}
    BY <1>9 DEF DropConnection, RegistryIsExact
  <2>2. PICK place \in {"registered", "relay", "killing"} : pc' = [pc EXCEPT ![c] = place]
    BY <1>9, <2>1 DEF DropConnection
  <2>3. place \in Places \ {"new", "closed"}
    BY DEF Places
  <2>4. PermitsAddUp' /\ RegistryIsExact' /\ pc' \in [Conns -> Places]
    BY <1>9, <1>0, <2>1, <2>2, <2>3, GoKeepsBooks DEF DropConnection, TypeOK
  <2>5. TypeOK'
    BY <1>9, <2>4 DEF DropConnection, TypeOK, fixed, server, history
  <2> QED BY <2>4, <2>5
<1>10. CASE Reload
  <2>1. \A p : ActiveOn(p)' = ActiveOn(p)
    BY <1>10 DEF TypeOK, Reload, ActiveOn, Active, Port, fixed, server
  <2>2. PermitsAddUp'
    BY <1>10, <2>1 DEF PermitsAddUp, Reload
  <2>3. TypeOK'
    BY <1>10, ServerAssumption DEF TypeOK, Reload, fixed, server, history
  <2> QED BY <1>10, <2>2, <2>3 DEF RegistryIsExact, Reload, fixed, server
<1>12. ASSUME NEW p \in Ports, AcceptFails(p) PROVE EndingsAddUp'
  <2>1. \A q : ActiveOn(q)' = ActiveOn(q)
    BY <1>12 DEF TypeOK, AcceptFails, ActiveOn, Active, Port, fixed
  <2>2. PermitsAddUp'
    BY <1>12, <2>1 DEF PermitsAddUp, AcceptFails
  <2>3. TypeOK'
    BY <1>12 DEF TypeOK, AcceptFails, fixed, history
  <2> QED BY <1>12, <2>2, <2>3 DEF RegistryIsExact, AcceptFails
<1>11. CASE Tick
  <2>1. \A p : ActiveOn(p)' = ActiveOn(p)
    BY <1>11 DEF TypeOK, Tick, ActiveOn, Active, Port, fixed, server
  <2>2. PermitsAddUp'
    BY <1>11, <2>1 DEF PermitsAddUp, Tick
  <2>3. timer' \in [Conns -> Nat]
    BY <1>11 DEF Tick, TypeOK
  <2>4. age' \in [Conns -> 0 .. HandshakeTimeout]
    <3>1. ASSUME NEW c \in Conns, WholeTimed(c) PROVE age[c] + 1 \in 0 .. HandshakeTimeout
      BY <1>11, <3>1, ServerAssumption DEF Tick, Due, TypeOK
    <3> QED BY <1>11, <3>1 DEF Tick, TypeOK
  <2>5. TypeOK'
    BY <1>11, <2>3, <2>4 DEF TypeOK, Tick, fixed, server, history
  <2> QED BY <1>11, <2>2, <2>5 DEF RegistryIsExact, Tick, fixed, server
<1> QED BY <1>1, <1>2, <1>3, <1>4, <1>6, <1>7, <1>8, <1>9, <1>10, <1>11, <1>12
        DEF Next, Serve

\* What a step does not touch keeps its progress.
LEMMA UntouchedKeepsProgress ==
  ASSUME NEW d \in Conns, Progress(d), policy' = policy,
         pc'[d] = pc[d], eng'[d] = eng[d], via'[d] = via[d], dialled'[d] = dialled[d],
         told'[d] = told[d], d \in noticed' <=> d \in noticed
  PROVE  Progress(d)'
  BY DEF Progress, NotDialled, InDial, RouteOf

\* A connection that is not dialling, or stops dialling, keeps its progress if
\* nothing is dialled or said.
LEMMA QuietStepKeepsProgress ==
  ASSUME NEW c \in Conns, Progress(c), policy' = policy,
         eng'[c] = eng[c], via'[c] = via[c], dialled'[c] = dialled[c],
         told'[c] = told[c], c \in noticed' <=> c \in noticed,
         pc'[c] \in {"new", "origdst", "peek", "handshake", "head", "route", "assoc"} =>
           pc[c] \in {"new", "origdst", "peek", "handshake", "head", "route", "assoc"},
         pc'[c] = "dial" => pc[c] = "dial",
         pc[c] = "closed" => pc'[c] = "closed"
  PROVE  Progress(c)'
  BY DEF Progress, NotDialled, InDial, RouteOf

\* Every action keeps the progress of every connection.
LEMMA NextKeepsProgress ==
  ASSUME IInv, Next, NEW d \in Conns
  PROVE  Progress(d)'
<1>0. TypeOK /\ Progress(d) /\ RegistryIsExact
  BY DEF IInv, EndingsAddUp
<1>p. policy' = policy
  BY DEF Next, Accept, Reject, Serve, AcceptFails, Reload, Tick, HandshakeExpires, HttpExpires,
         Blocked, StartDial, Retry, FallBack, GiveUp, Establish, StartRelay, Killed, FirstByte,
         Requested, OriginalDst, BadRequest, ClientFails, DialSucceeds, EstablishFails, PeerCloses,
         DropConnection, End, Go, fixed, server
<1>1. ASSUME NEW c \in Conns, Accept(c) PROVE Progress(d)'
  <2>1. CASE d = c
    BY <1>0, <1>1, <2>1 DEF Accept, Progress, NotDialled, RouteOf, TypeOK, history, fixed, server
  <2>2. CASE d # c
    BY <1>0, <1>p, <1>1, <2>2, UntouchedKeepsProgress DEF Accept, TypeOK, history
  <2> QED BY <2>1, <2>2
<1>2. ASSUME NEW c \in Conns,
             \/ Reject(c) \/ HandshakeExpires(c) \/ HttpExpires(c) \/ Killed(c)
             \/ ClientFails(c) \/ EstablishFails(c) \/ PeerCloses(c)
      PROVE  Progress(d)'
  <2>1. UNCHANGED <<eng, via, history>> /\ pc' = [pc EXCEPT ![c] = "closed"]
    BY <1>2 DEF Reject, HandshakeExpires, HttpExpires, Killed, ClientFails, EstablishFails,
                PeerCloses, End
  <2>2. CASE d = c
    BY <1>0, <1>p, <2>1, <2>2, QuietStepKeepsProgress DEF history, TypeOK
  <2>3. CASE d # c
    BY <1>0, <1>p, <2>1, <2>3, UntouchedKeepsProgress DEF history, TypeOK
  <2> QED BY <2>2, <2>3
<1>3. ASSUME NEW c \in Conns,
             \/ FirstByte(c) \/ Requested(c) \/ OriginalDst(c) \/ StartRelay(c) \/ Retry(c) \/ DropConnection(c)
      PROVE  Progress(d)'
  <2>1. UNCHANGED <<eng, via, history>>
    BY <1>3 DEF FirstByte, Requested, OriginalDst, StartRelay, Retry, DropConnection
  <2>2. ASSUME NEW e \in Conns, e # c PROVE pc'[e] = pc[e]
    BY <1>0, <1>3, <2>2 DEF FirstByte, Requested, OriginalDst, StartRelay, Retry, DropConnection, Go, TypeOK
  <2>3. /\ pc'[c] \in {"new", "origdst", "peek", "handshake", "head", "route", "assoc"} =>
            pc[c] \in {"new", "origdst", "peek", "handshake", "head", "route", "assoc"}
        /\ pc'[c] = "dial" => pc[c] = "dial"
        /\ pc[c] = "closed" => pc'[c] = "closed"
    BY <1>0, <1>3 DEF FirstByte, Requested, OriginalDst, StartRelay, Retry, DropConnection, Go, TypeOK
  <2>4. CASE d = c
    BY <1>0, <1>p, <2>1, <2>3, <2>4, QuietStepKeepsProgress DEF history
  <2>5. CASE d # c
    BY <1>0, <1>p, <2>1, <2>2, <2>5, UntouchedKeepsProgress DEF history
  <2> QED BY <2>4, <2>5
<1>4. ASSUME NEW c \in Conns, Blocked(c) \/ BadRequest(c) PROVE Progress(d)'
  <2>1. /\ UNCHANGED <<eng, via, dialled, noticed>> /\ pc' = [pc EXCEPT ![c] = "closed"]
        /\ pc[c] \in {"route", "head"}
        /\ \E r \in {"nothing", "denied", "bad"} : told' = [told EXCEPT ![c] = r]
    BY <1>4 DEF Blocked, BadRequest, Reply, End
  <2>2. CASE d = c
    BY <1>0, <1>p, <2>1, <2>2 DEF Progress, NotDialled, RouteOf, TypeOK
  <2>3. CASE d # c
    BY <1>0, <1>p, <2>1, <2>3, UntouchedKeepsProgress DEF TypeOK
  <2> QED BY <2>2, <2>3
<1>5. ASSUME NEW c \in Conns, GiveUp(c) PROVE Progress(d)'
  <2>1. CASE d = c
    <3>1. InDial(c) /\ ~(c \in noticed)
      BY <1>0, <1>5, <2>1 DEF GiveUp, Progress, InDial
    <3>2. RouteOf(c)' = RouteOf(c) /\ UNCHANGED <<via, dialled, noticed>> /\ pc'[c] = "closed"
      BY <1>0, <1>p, <1>5 DEF GiveUp, End, RouteOf, TypeOK
    <3>3. told'[c] = "refused" =>
            dialled[c] = {RouteOf(c).node, RouteOf(c).fallback} \ {None}
      BY <1>0, <1>5, <3>1 DEF GiveUp, Reply, InDial, TypeOK
    <3>4. dialled[c] \subseteq {RouteOf(c).node, RouteOf(c).fallback} \ {None}
      BY <1>0, <2>1 DEF Progress
    <3> QED BY <2>1, <3>1, <3>2, <3>3, <3>4 DEF Progress
  <2>2. CASE d # c
    BY <1>0, <1>p, <1>5, <2>2, UntouchedKeepsProgress DEF GiveUp, Reply, End, TypeOK
  <2> QED BY <2>1, <2>2
<1>6. ASSUME NEW c \in Conns, StartDial(c) PROVE Progress(d)'
  <2>1. CASE d = c
    <3>1. RouteOf(c)' = RouteOf(c) /\ UNCHANGED <<via, told, noticed>> /\ pc'[c] = "dial"
      BY <1>0, <1>p, <1>6 DEF StartDial, Go, RouteOf, TypeOK
    <3>2. dialled'[c] = {RouteOf(c).node} /\ RouteOf(c).node # None /\ NotDialled(c)
      BY <1>0, <1>6, <2>1 DEF StartDial, TypeOK, Progress
    <3> QED BY <2>1, <3>1, <3>2 DEF Progress, InDial, NotDialled
  <2>2. CASE d # c
    BY <1>0, <1>p, <1>6, <2>2, UntouchedKeepsProgress DEF StartDial, Go, TypeOK
  <2> QED BY <2>1, <2>2
<1>7. ASSUME NEW c \in Conns, DialSucceeds(c) PROVE Progress(d)'
  <2>1. CASE d = c
    <3>1. RouteOf(c)' = RouteOf(c) /\ UNCHANGED <<via, told, dialled>> /\ pc'[c] = "up"
      BY <1>0, <1>p, <1>7 DEF DialSucceeds, Go, RouteOf, TypeOK
    <3>2. InDial(c) /\ dialled[c] \subseteq {RouteOf(c).node, RouteOf(c).fallback} \ {None}
      BY <1>0, <1>7, <2>1 DEF DialSucceeds, Progress
    <3>3. c \in noticed' => via[c] = "fallback"
      BY <1>7, <3>2 DEF DialSucceeds, InDial
    <3> QED BY <2>1, <3>1, <3>2, <3>3 DEF Progress, InDial
  <2>2. CASE d # c
    BY <1>0, <1>p, <1>7, <2>2, UntouchedKeepsProgress DEF DialSucceeds, Go, TypeOK
  <2> QED BY <2>1, <2>2
<1>8. ASSUME NEW c \in Conns, FallBack(c) PROVE Progress(d)'
  <2>1. CASE d = c
    <3>1. RouteOf(c)' = RouteOf(c) /\ UNCHANGED <<told, noticed>> /\ pc'[c] = "dial"
      BY <1>0, <1>p, <1>8 DEF FallBack, Go, RouteOf, TypeOK
    <3>2. InDial(c) /\ via[c] = "main" /\ RouteOf(c).fallback # None /\ via'[c] = "fallback"
      BY <1>0, <1>8, <2>1 DEF FallBack, Progress, TypeOK
    <3>3. dialled'[c] = {RouteOf(c).node, RouteOf(c).fallback}
      BY <1>0, <1>8, <3>2 DEF FallBack, InDial, TypeOK
    <3> QED BY <2>1, <3>1, <3>2, <3>3 DEF Progress, InDial
  <2>2. CASE d # c
    BY <1>0, <1>p, <1>8, <2>2, UntouchedKeepsProgress DEF FallBack, Go, TypeOK
  <2> QED BY <2>1, <2>2
<1>9. ASSUME NEW c \in Conns, Establish(c) PROVE Progress(d)'
  <2>1. CASE d = c
    <3>1. RouteOf(c)' = RouteOf(c) /\ UNCHANGED <<via, dialled, noticed>>
          /\ pc'[c] = "registered" /\ told'[c] # "refused"
      BY <1>0, <1>p, <1>9 DEF Establish, Reply, RouteOf, TypeOK
    <3> QED BY <1>0, <2>1, <3>1 DEF Progress
  <2>2. CASE d # c
    BY <1>0, <1>p, <1>9, <2>2, UntouchedKeepsProgress DEF Establish, Reply, TypeOK
  <2> QED BY <2>1, <2>2
<1>10. ASSUME Reload \/ Tick \/ \E p \in Ports : AcceptFails(p) PROVE Progress(d)'
  BY <1>0, <1>p, <1>10, UntouchedKeepsProgress DEF Reload, Tick, AcceptFails, history
<1> QED BY <1>1, <1>2, <1>3, <1>4, <1>5, <1>6, <1>7, <1>8, <1>9, <1>10
        DEF Next, Serve

\* Before the first connection nothing is taken, registered, dialled or said.
LEMMA InitEstablishesIInv == Init => IInv
<1> SUFFICES ASSUME Init PROVE IInv
  OBVIOUS
<1>1. TypeOK
  BY ServerAssumption DEF Init, TypeOK, Places
<1>2. PermitsAddUp
  <2>1. \A p : ActiveOn(p) = {}
    BY DEF Init, ActiveOn, Active
  <2>2. \A p \in Ports : Cardinality(ActiveOn(p)) = 0
    BY <2>1, FS_EmptySet
  <2> QED BY <2>2, ServerAssumption DEF Init, PermitsAddUp
<1>3. RegistryIsExact
  BY DEF Init, RegistryIsExact
<1>4. \A c \in Conns : Progress(c)
  BY DEF Init, Progress, NotDialled
<1> QED BY <1>1, <1>2, <1>3, <1>4 DEF IInv, EndingsAddUp

\* The inductive invariant holds in every reachable state.
THEOREM IInvHolds == Spec => []IInv
<1>1. IInv /\ [Next]_vars => IInv'
  <2>1. IInv /\ Next => IInv'
    BY NextKeepsBooks, NextKeepsProgress DEF IInv
  <2>2. IInv /\ UNCHANGED vars => IInv'
    <3> SUFFICES ASSUME IInv, UNCHANGED vars PROVE IInv'
      OBVIOUS
    <3>1. TypeOK' /\ RegistryIsExact'
      BY DEF IInv, EndingsAddUp, TypeOK, RegistryIsExact, vars
    <3>2. PermitsAddUp'
      BY DEF IInv, EndingsAddUp, PermitsAddUp, ActiveOn, Active, Port, vars
    <3>3. \A c \in Conns : Progress(c)'
      BY UntouchedKeepsProgress DEF IInv, vars
    <3> QED BY <3>1, <3>2, <3>3 DEF IInv, EndingsAddUp
  <2> QED BY <2>1, <2>2
<1> QED BY <1>1, InitEstablishesIInv, PTL DEF Spec

\* For every number of connections and permits: no permit is lost or given
\* twice, and the registry holds what relays.
THEOREM BooksAreRight == FairSpec => []EndingsAddUp
<1>1. IInv => EndingsAddUp
  BY DEF IInv
<1> QED BY <1>1, IInvHolds, PTL DEF FairSpec

\* For every sequence of engines a connection dials what its own engine decided,
\* is refused only after the fallback, and noticed only through it.
THEOREM RoutesAreKept == FairSpec => []DialsAsRouted
<1>1. IInv => DialsAsRouted
  BY DEF IInv, Progress, DialsAsRouted, DialsOwnRoute, FallbackTried, RouteOf
<1> QED BY <1>1, IInvHolds, PTL DEF FairSpec
=============================================================================

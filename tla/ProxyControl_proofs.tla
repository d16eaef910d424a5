------------------------ MODULE ProxyControl_proofs ------------------------
(***************************************************************************)
(* Proofs about ProxyControl for every list of listeners and every number  *)
(* of overlapping starts.                                                  *)
(*                                                                         *)
(* The invariant says who holds what: the accept task of an address that   *)
(* listens belongs to a MultiSocks that is still there, and the listeners  *)
(* of every MultiSocks that is still there listen, but for those an accept *)
(* error has ended (Owners).  A MultiSocks is lost only if Store finds     *)
(* another one in the slot.  It cannot before two starts overlap, when the *)
(* slot stays empty while a start is in flight, nor with a single          *)
(* listener, which two of them cannot both hold unless accept failed.      *)
(***************************************************************************)
EXTENDS ProxyControl, TLAPS

\* A start that has, or may get, listeners.
There(s) == pc[s] # "idle"

\* A listening address belongs to a MultiSocks that is there.
HeldByOwner == \A l \in Listeners : Live(l) => l \in proxies[bound[l]] /\ There(bound[l])

\* The listeners of a MultiSocks listen, unless an accept error ended one.
OwnersHold ==
  \A s \in Starts : \A l \in proxies[s] : l \notin ended => bound[l] = s /\ l \notin aborted

\* There are listeners only while a start or its MultiSocks is there.
IdleIsEmpty == \A s \in Starts : proxies[s] # {} => There(s)

AbortedAreBound == \A l \in aborted : bound[l] # None

SlotIsDone == \A s \in Starts : pc[s] = "done" <=> slot = s

StoredHaveListeners == \A s \in Starts : pc[s] \in {"store", "done"} => proxies[s] # {}

Owners == HeldByOwner /\ OwnersHold /\ IdleIsEmpty /\ AbortedAreBound /\ SlotIsDone /\ StoredHaveListeners

IInv == TypeOK /\ Owners

\* Writing an address to the registry, completely or not, leaves an address.
LEMMA RegistryTypes ==
  ASSUME NEW a \in Addresses, NEW ok \in BOOLEAN, SetRegistry(a, ok),
         server \in Addresses \cup {None}, enabled \in BOOLEAN
  PROVE  server' \in Addresses \cup {None} /\ enabled' \in BOOLEAN /\ regOk' \in BOOLEAN
BY DEF SetRegistry

\* Every step preserves the type invariant.
LEMMA TypeStep == TypeOK /\ [Next]_vars => TypeOK'
<1> SUFFICES ASSUME TypeOK, [Next]_vars PROVE TypeOK'
  OBVIOUS
<1>l. \A l \in Listeners : Local(l) \in Addresses /\ SystemAddr(l) \in Addresses
  BY DEF Local, SystemAddr, Addresses
<1>z. 0 \in 0 .. Versions /\ \A v \in 1 .. Versions : v \in 0 .. Versions
  BY ControlAssumption
<1> USE ControlAssumption DEF TypeOK, Listeners, config, starting, listeners, registry, history
<1>1. ASSUME NEW s \in Starts, StartStep(s) PROVE TypeOK'
  <2>1. CASE ProxyStart(s)
    <3>1. (IF list = {} THEN {System} ELSE list) \in SUBSET Listeners
      OBVIOUS
    <3> QED
      BY <2>1, <3>1 DEF ProxyStart
  <2>2. CASE BuildEngine(s)
    <3>1. PICK l \in todo[s] :
            \/ todo' = [todo EXCEPT ![s] = @ \ {l}] /\ UNCHANGED <<pc, built>>
            \/ /\ built' = [built EXCEPT ![s] = version]
               /\ pc' = [pc EXCEPT ![s] = "built"]
               /\ UNCHANGED todo
      BY <2>2 DEF BuildEngine, First
    <3>2. CASE todo' = [todo EXCEPT ![s] = @ \ {l}] /\ UNCHANGED <<pc, built>>
      <4>1. todo[s] \ {l} \in SUBSET Listeners
        OBVIOUS
      <4> QED
        BY <2>2, <3>2, <4>1 DEF BuildEngine
    <3>3. CASE built' = [built EXCEPT ![s] = version] /\ pc' = [pc EXCEPT ![s] = "built"]
               /\ UNCHANGED todo
      <4>1. built' \in [Starts -> 0 .. Versions]
        BY <1>z, <3>3
      <4>2. pc' \in [Starts -> {"idle", "loop", "built", "store", "done", "lost"}]
        BY <3>3
      <4> QED
        BY <2>2, <3>3, <4>1, <4>2 DEF BuildEngine
    <3> QED
      BY <3>1, <3>2, <3>3
  <2>3. CASE Bind(s)
    <3>1. PICK l \in todo[s] :
            /\ bound' = [bound EXCEPT ![l] = s]
            /\ rules' = [rules EXCEPT ![s][l] = built[s]]
            /\ proxies' = [proxies EXCEPT ![s] = @ \cup {l}]
            /\ todo' = [todo EXCEPT ![s] = @ \ {l}]
      BY <2>3 DEF Bind, First
    <3>2. l \in Listeners /\ todo[s] \ {l} \in SUBSET Listeners
              /\ proxies[s] \cup {l} \in SUBSET Listeners
      OBVIOUS
    <3>3. todo' \in [Starts -> SUBSET Listeners] /\ proxies' \in [Starts -> SUBSET Listeners]
      BY <3>1, <3>2
    <3>4. bound' \in [Listeners -> Starts \cup {None}]
      BY <3>1, <3>2
    <3>5. rules' \in [Starts -> [Listeners -> 0 .. Versions]]
      <4>1. [rules[s] EXCEPT ![l] = built[s]] \in [Listeners -> 0 .. Versions]
        BY <3>2
      <4> QED
        BY <3>1, <4>1
    <3>6. /\ pc' \in [Starts -> {"idle", "loop", "built", "store", "done", "lost"}]
          /\ built' \in [Starts -> 0 .. Versions]
      BY <1>z, <2>3 DEF Bind
    <3> QED
      BY <2>3, <3>3, <3>4, <3>5, <3>6 DEF Bind
  <2>4. CASE BindFails(s)
    <3>1. todo[s] \ First(todo[s]) \in SUBSET Listeners
      OBVIOUS
    <3>2. todo' \in [Starts -> SUBSET Listeners]
      BY <2>4, <3>1 DEF BindFails
    <3>3. /\ pc' \in [Starts -> {"idle", "loop", "built", "store", "done", "lost"}]
          /\ built' \in [Starts -> 0 .. Versions]
      BY <1>z, <2>4 DEF BindFails
    <3> QED
      BY <2>4, <3>2, <3>3 DEF BindFails
  <2>5. CASE StartFails(s)
    BY <2>5 DEF StartFails
  <2>6. CASE SetSystemAddr(s)
    <3>1. /\ server' \in Addresses \cup {None} /\ enabled' \in BOOLEAN /\ regOk' \in BOOLEAN
          /\ sysSet' \in SUBSET Starts
      <4>1. CASE System \in proxies[s]
        <5>1. PICK ok \in BOOLEAN : SetRegistry(SystemAddr(System), ok)
          BY <2>6, <4>1 DEF SetSystemAddr
        <5>2. SystemAddr(System) \in Addresses
          BY <1>l
        <5>3. sysSet' \in SUBSET Starts
          BY <2>6, <4>1 DEF SetSystemAddr
        <5> QED
          BY <5>1, <5>2, <5>3, RegistryTypes
      <4>2. CASE System \notin proxies[s]
        BY <2>6, <4>2 DEF SetSystemAddr
      <4> QED
        BY <4>1, <4>2
    <3>2. pc' \in [Starts -> {"idle", "loop", "built", "store", "done", "lost"}]
      BY <2>6 DEF SetSystemAddr
    <3> QED
      BY <2>6, <3>1, <3>2 DEF SetSystemAddr
  <2>7. CASE Store(s)
    BY <2>7 DEF Store
  <2> QED
    BY <1>1, <2>1, <2>2, <2>3, <2>4, <2>5, <2>6, <2>7 DEF StartStep
<1>2. CASE ProxyStop
  <2>1. CASE slot = None
    BY <1>2, <2>1 DEF ProxyStop, ClearRegistry
  <2>2. CASE slot # None
    <3>1. slot \in Starts /\ Tasks(slot) \subseteq Listeners
      BY <2>2 DEF Tasks
    <3>2. /\ aborted' \in SUBSET Listeners /\ slot' = None
          /\ sysSet' \in SUBSET Starts
          /\ pc' \in [Starts -> {"idle", "loop", "built", "store", "done", "lost"}]
      BY <1>2, <2>2, <3>1 DEF ProxyStop, Consumed
    <3>3. proxies' \in [Starts -> SUBSET Listeners]
      BY <1>2, <2>2, <3>1 DEF ProxyStop, Consumed
    <3>4. rules' \in [Starts -> [Listeners -> 0 .. Versions]]
      <4>1. [l \in Listeners |-> 0] \in [Listeners -> 0 .. Versions]
        BY <1>z
      <4> QED
        <5>1. rules' = [rules EXCEPT ![slot] = [l \in Listeners |-> 0]]
          BY <1>2, <2>2 DEF ProxyStop, Consumed
        <5>2. rules \in [Starts -> [Listeners -> 0 .. Versions]]
          OBVIOUS
        <5> HIDE DEF TypeOK, Listeners
        <5> QED
          BY ONLY <3>1, <4>1, <5>1, <5>2
    <3>5. /\ enabled' \in BOOLEAN /\ regOk' \in BOOLEAN /\ UNCHANGED server
      BY <1>2 DEF ProxyStop, ClearRegistry
    <3> QED
      BY <1>2, <2>2, <3>2, <3>3, <3>4, <3>5 DEF ProxyStop
  <2> QED
    BY <2>1, <2>2
<1>3. CASE SetSystemProxy
  <2>1. Primary(slot) \subseteq Listeners
    BY <1>3 DEF SetSystemProxy, Primary, First
  <2>2. /\ server' \in Addresses \cup {None} /\ enabled' \in BOOLEAN /\ regOk' \in BOOLEAN
        /\ sysOn' \in BOOLEAN
    <3>1. PICK l \in Primary(slot), ok \in BOOLEAN : SetRegistry(Local(l), ok)
      BY <1>3 DEF SetSystemProxy
    <3>2. Local(l) \in Addresses
      BY <1>l, <2>1, <3>1
    <3>3. sysOn' \in BOOLEAN
      BY <1>3 DEF SetSystemProxy
    <3> QED
      BY <3>1, <3>2, <3>3, RegistryTypes
  <2> QED
    BY <1>3, <2>2 DEF SetSystemProxy
<1>4. CASE ClearSystemProxy
  BY <1>4 DEF ClearSystemProxy, ClearRegistry
<1>5. CASE EditRules
  <2>1. version' \in 1 .. Versions /\ bad' \in SUBSET Listeners /\ missed' \in BOOLEAN
    BY <1>5 DEF EditRules, Quiet
  <2>2. rules' \in [Starts -> [Listeners -> 0 .. Versions]]
    BY <1>z, <1>5, <2>1 DEF EditRules
  <2> QED
    BY <1>5, <2>1, <2>2 DEF EditRules
<1>6. CASE SetSocksProxies
  BY <1>6 DEF SetSocksProxies
<1>7. CASE ChangeNodes
  BY <1>7 DEF ChangeNodes
<1>8. ASSUME NEW l \in Listeners, DropListener(l) PROVE TypeOK'
  BY <1>8 DEF DropListener
<1>9. CASE Exit
  <2>1. /\ rules' \in [Starts -> [Listeners -> 0 .. Versions]]
        /\ built' \in [Starts -> 0 .. Versions]
    BY <1>z, <1>9 DEF Exit
  <2> QED
    BY <1>9, <2>1 DEF Exit
<1>10. CASE UNCHANGED vars
  BY <1>10 DEF vars
<1>11. ASSUME NEW l \in Listeners, AcceptFails(l) PROVE TypeOK'
  BY <1>11 DEF AcceptFails
<1> QED
  BY <1>1, <1>2, <1>3, <1>4, <1>5, <1>6, <1>7, <1>8, <1>9, <1>10, <1>11 DEF Next

\* Every step preserves who holds what.
LEMMA IInvStep == IInv /\ [Next]_vars => IInv'
<1> SUFFICES ASSUME IInv, [Next]_vars PROVE Owners'
  BY TypeStep DEF IInv
<1>a. /\ None \notin Starts
      /\ slot \in Starts \cup {None}
      /\ bound \in [Listeners -> Starts \cup {None}]
      /\ proxies \in [Starts -> SUBSET Listeners]
      /\ todo \in [Starts -> SUBSET Listeners]
      /\ aborted \in SUBSET Listeners /\ ended \in SUBSET Listeners
      /\ DOMAIN pc = Starts /\ pc = [s \in Starts |-> pc[s]]
  BY ControlAssumption DEF IInv, TypeOK
<1> USE <1>a DEF HeldByOwner, OwnersHold, IdleIsEmpty, AbortedAreBound, SlotIsDone, StoredHaveListeners, Live, There
<1>b. Owners
  BY DEF IInv
<1>c. ASSUME UNCHANGED <<bound, aborted, proxies, slot, pc, ended>> PROVE Owners'
  BY <1>b, <1>c DEF Owners
<1>d. ASSUME NEW s \in Starts, UNCHANGED <<bound, aborted, proxies, slot, ended>>,
             pc[s] \notin {"idle", "done"}, NEW p, p \in {"loop", "built", "store"},
             p = "store" => proxies[s] # {},
             pc' = [pc EXCEPT ![s] = p]
      PROVE  Owners'
  <2>1. \A t \in Starts : pc'[t] = IF t = s THEN p ELSE pc[t]
    BY <1>d
  <2>2. \A t \in Starts : There(t)' <=> There(t)
    BY <1>d, <2>1
  <2>3. HeldByOwner' /\ OwnersHold' /\ IdleIsEmpty' /\ AbortedAreBound'
    BY <1>b, <1>d, <2>2 DEF Owners
  <2>4. SlotIsDone' /\ StoredHaveListeners'
    BY <1>b, <1>d, <2>1 DEF Owners
  <2> QED
    BY <2>3, <2>4 DEF Owners
<1>1. ASSUME NEW s \in Starts, StartStep(s) PROVE Owners'
  <2>1. CASE ProxyStart(s)
    <3>1. pc[s] = "idle" /\ slot = None /\ UNCHANGED <<bound, aborted, slot, proxies, ended>>
      BY <2>1 DEF ProxyStart, listeners
    <3>2. \A t \in Starts : pc'[t] = IF t = s THEN "loop" ELSE pc[t]
      BY <2>1 DEF ProxyStart
    <3>3. proxies[s] = {}
      BY <1>b, <3>1 DEF Owners
    <3>4. \A l \in Listeners : Live(l) => bound[l] \in Starts \ {s}
      BY <1>b, <3>1 DEF Owners
    <3>5. HeldByOwner'
      BY <1>b, <3>1, <3>2, <3>3, <3>4 DEF Owners
    <3>6. OwnersHold' /\ IdleIsEmpty' /\ AbortedAreBound'
      BY <1>b, <3>1, <3>2, <3>3 DEF Owners
    <3>7. SlotIsDone' /\ StoredHaveListeners'
      BY <1>b, <3>1, <3>2, <3>3 DEF Owners
    <3> QED
      BY <3>5, <3>6, <3>7 DEF Owners
  <2>2. CASE BuildEngine(s)
    <3>1. pc[s] = "loop" /\ UNCHANGED <<bound, aborted, proxies, slot, ended>>
            /\ (UNCHANGED pc \/ pc' = [pc EXCEPT ![s] = "built"])
      BY <2>2 DEF BuildEngine, listeners, history
    <3> QED
      BY <1>c, <1>d, <3>1
  <2>3. CASE Bind(s)
    <3>1. PICK l \in todo[s] :
            /\ bound[l] = None
            /\ bound' = [bound EXCEPT ![l] = s]
            /\ proxies' = [proxies EXCEPT ![s] = @ \cup {l}]
      BY <2>3 DEF Bind, First
    <3>2. l \in Listeners
      OBVIOUS
    <3>3. pc[s] = "built" /\ UNCHANGED <<aborted, slot, ended>>
      BY <2>3 DEF Bind, history
    <3>4. \A t \in Starts : pc'[t] = IF t = s THEN "loop" ELSE pc[t]
      BY <2>3 DEF Bind
    <3>5. \A m \in Listeners : bound'[m] = IF m = l THEN s ELSE bound[m]
      BY <3>1, <3>2
    <3>6. \A t \in Starts : proxies'[t] = IF t = s THEN proxies[s] \cup {l} ELSE proxies[t]
      BY <3>1
    <3>7. l \notin aborted
      BY <1>b, <3>1 DEF Owners
    <3>8. \A t \in Starts : l \notin ended => l \notin proxies[t]
      BY <1>b, <3>1 DEF Owners
    <3>9. \A t \in Starts : There(t)' <=> There(t)
      BY <3>3, <3>4
    <3>10. HeldByOwner'
      <4>1. SUFFICES ASSUME NEW m \in Listeners, Live(m)'
                     PROVE  m \in proxies'[bound'[m]] /\ There(bound[m])'
        OBVIOUS
      <4>2. CASE m = l
        BY <3>2, <3>3, <3>5, <3>6, <3>9, <4>2
      <4>3. CASE m # l
        <5>1. Live(m) /\ bound'[m] = bound[m]
          BY <3>3, <3>5, <4>1, <4>3
        <5> QED
          BY <1>b, <3>6, <3>9, <5>1 DEF Owners
      <4> QED
        BY <4>2, <4>3
    <3>11. OwnersHold'
      BY <1>b, <3>2, <3>3, <3>5, <3>6, <3>7, <3>8, <3>9 DEF Owners
    <3>12. IdleIsEmpty' /\ AbortedAreBound' /\ SlotIsDone' /\ StoredHaveListeners'
      BY <1>b, <3>2, <3>3, <3>4, <3>5, <3>6, <3>9 DEF Owners
    <3> QED
      BY <3>10, <3>11, <3>12 DEF Owners
  <2>4. CASE BindFails(s)
    BY <1>d, <2>4 DEF BindFails, listeners, history
  <2>5. CASE StartFails(s)
    <3>1. pc[s] = "loop" /\ proxies[s] = {} /\ UNCHANGED <<bound, aborted, proxies, slot, ended>>
      BY <2>5 DEF StartFails, listeners, history
    <3>2. \A t \in Starts : pc'[t] = IF t = s THEN "idle" ELSE pc[t]
      BY <2>5 DEF StartFails
    <3>3. \A l \in Listeners : Live(l) => bound[l] \in Starts \ {s}
      BY <1>b, <3>1 DEF Owners
    <3>4. HeldByOwner' /\ OwnersHold' /\ IdleIsEmpty' /\ AbortedAreBound'
      BY <1>b, <3>1, <3>2, <3>3 DEF Owners
    <3>5. SlotIsDone' /\ StoredHaveListeners'
      BY <1>b, <3>1, <3>2 DEF Owners
    <3> QED
      BY <3>4, <3>5 DEF Owners
  <2>6. CASE SetSystemAddr(s)
    BY <1>d, <2>6 DEF SetSystemAddr, listeners, history
  <2>7. CASE Store(s)
    <3>1. pc[s] = "store" /\ slot' = s /\ UNCHANGED <<bound, aborted, proxies, ended>>
      BY <2>7 DEF Store, listeners, history
    <3>2. \A t \in Starts : pc'[t] = IF t = s THEN "done" ELSE IF t = slot THEN "lost" ELSE pc[t]
      BY <2>7 DEF Store
    <3>3. \A t \in Starts : There(t)' <=> There(t)
      BY <1>b, <3>1, <3>2 DEF Owners
    <3>4. HeldByOwner' /\ OwnersHold' /\ IdleIsEmpty' /\ AbortedAreBound'
      BY <1>b, <3>1, <3>3 DEF Owners
    <3>5. SlotIsDone' /\ StoredHaveListeners'
      BY <1>b, <3>1, <3>2 DEF Owners
    <3> QED
      BY <3>4, <3>5 DEF Owners
  <2> QED
    BY <1>1, <2>1, <2>2, <2>3, <2>4, <2>5, <2>6, <2>7 DEF StartStep
<1>2. CASE ProxyStop
  <2>1. CASE slot = None
    BY <1>2, <1>c, <2>1 DEF ProxyStop, history
  <2>2. CASE slot # None
    <3>1. /\ slot \in Starts /\ slot' = None /\ UNCHANGED <<bound, ended>>
          /\ \A l \in Listeners : l \in aborted' <=>
               l \in aborted \/ (l \in proxies[slot] /\ bound[l] = slot)
          /\ aborted' \subseteq Listeners
      BY <1>2, <2>2 DEF ProxyStop, Consumed, Tasks, history
    <3>2. \A t \in Starts : /\ pc'[t] = IF t = slot THEN "idle" ELSE pc[t]
                            /\ proxies'[t] = IF t = slot THEN {} ELSE proxies[t]
      BY <1>2, <2>2, <3>1 DEF ProxyStop, Consumed
    <3>4. HeldByOwner'
      <4>1. SUFFICES ASSUME NEW l \in Listeners, Live(l)'
                     PROVE  l \in proxies'[bound'[l]] /\ There(bound[l])'
        OBVIOUS
      <4>2. Live(l) /\ bound'[l] = bound[l] /\ ~(l \in proxies[slot] /\ bound[l] = slot)
        BY <3>1, <4>1
      <4>3. bound[l] \in Starts \ {slot} /\ l \in proxies[bound[l]] /\ There(bound[l])
        BY <1>b, <4>2 DEF Owners
      <4> QED
        BY <3>2, <4>2, <4>3
    <3>5. OwnersHold' /\ IdleIsEmpty'
      BY <1>b, <3>1, <3>2 DEF Owners
    <3>6. AbortedAreBound' /\ SlotIsDone' /\ StoredHaveListeners'
      BY <1>b, <3>1, <3>2 DEF Owners
    <3> QED
      BY <3>4, <3>5, <3>6 DEF Owners
  <2> QED
    BY <2>1, <2>2
<1>3. CASE SetSystemProxy
  BY <1>3, <1>c DEF SetSystemProxy, starting, listeners, history
<1>4. CASE ClearSystemProxy
  BY <1>4, <1>c DEF ClearSystemProxy, starting, listeners, history
<1>5. CASE EditRules
  BY <1>5, <1>c DEF EditRules, starting
<1>6. CASE SetSocksProxies
  BY <1>6, <1>c DEF SetSocksProxies, starting, listeners, history
<1>7. CASE ChangeNodes
  BY <1>7, <1>c DEF ChangeNodes, starting, listeners, history
<1>8. ASSUME NEW l \in Listeners, DropListener(l) PROVE Owners'
  <2>1. l \in aborted /\ aborted' = aborted \ {l} /\ UNCHANGED <<proxies, slot, pc, ended>>
    BY <1>8 DEF DropListener, starting, history
  <2>2. \A m \in Listeners : bound'[m] = IF m = l THEN None ELSE bound[m]
    BY <1>8 DEF DropListener
  <2>3. HeldByOwner'
    BY <1>b, <2>1, <2>2 DEF Owners
  <2>4. OwnersHold' /\ IdleIsEmpty' /\ AbortedAreBound' /\ SlotIsDone' /\ StoredHaveListeners'
    BY <1>b, <2>1, <2>2 DEF Owners
  <2> QED
    BY <2>3, <2>4 DEF Owners
<1>9. CASE Exit
  <2>1. /\ slot' = None /\ aborted' = {} /\ bound' = [l \in Listeners |-> None]
        /\ pc' = [s \in Starts |-> "idle"] /\ proxies' = [s \in Starts |-> {}]
    BY <1>9 DEF Exit
  <2> QED
    BY <2>1 DEF Owners
<1>10. CASE UNCHANGED vars
  BY <1>10, <1>c DEF vars
<1>11. ASSUME NEW l \in Listeners, AcceptFails(l) PROVE Owners'
  <2>1. /\ l \notin aborted /\ ended' = ended \cup {l}
        /\ UNCHANGED <<aborted, proxies, slot, pc>>
    BY <1>11 DEF AcceptFails, starting
  <2>2. \A m \in Listeners : bound'[m] = IF m = l THEN None ELSE bound[m]
    BY <1>11 DEF AcceptFails
  <2>3. HeldByOwner'
    BY <1>b, <2>1, <2>2 DEF Owners
  <2>4. OwnersHold' /\ IdleIsEmpty' /\ AbortedAreBound' /\ SlotIsDone' /\ StoredHaveListeners'
    BY <1>b, <2>1, <2>2 DEF Owners
  <2> QED
    BY <2>3, <2>4 DEF Owners
<1> QED
  BY <1>1, <1>2, <1>3, <1>4, <1>5, <1>6, <1>7, <1>8, <1>9, <1>10, <1>11 DEF Next

\* The invariant holds of every behaviour: whatever overlaps, fails or exits,
\* a MultiSocks holds exactly the sockets it bound.
THEOREM IInvHolds == Spec => []IInv
<1>1. Init => TypeOK
  <2> SUFFICES ASSUME Init PROVE TypeOK
    OBVIOUS
  <2>1. 1 \in 1 .. Versions /\ 0 \in 0 .. Versions /\ {} \in SUBSET Listeners
    BY ControlAssumption
  <2>2. /\ pc \in [Starts -> {"idle", "loop", "built", "store", "done", "lost"}]
        /\ todo \in [Starts -> SUBSET Listeners] /\ proxies \in [Starts -> SUBSET Listeners]
    BY <2>1 DEF Init
  <2>3. /\ built \in [Starts -> 0 .. Versions]
        /\ rules \in [Starts -> [Listeners -> 0 .. Versions]]
        /\ bound \in [Listeners -> Starts \cup {None}]
    BY <2>1 DEF Init
  <2> QED
    BY <2>1, <2>2, <2>3 DEF Init, TypeOK
<1>2. Init => Owners
  BY ControlAssumption DEF Init, Listeners, Owners, HeldByOwner, OwnersHold, IdleIsEmpty,
     AbortedAreBound, SlotIsDone, StoredHaveListeners, Live, There
<1> QED
  BY <1>1, <1>2, IInvStep, PTL DEF Spec, IInv

\* Whatever overlaps, fails or exits, the slots, the listeners and the registry
\* hold what they may hold.
THEOREM TypesHold == Spec => []TypeOK
<1>1. IInv => TypeOK
  BY DEF IInv
<1> QED BY <1>1, IInvHolds, PTL

-----------------------------------------------------------------------------
\* Until two starts have overlapped: while one is in flight no other is, and
\* the slot is empty.
OneAtATime ==
  ~raced => /\ \A s, t \in Starts : InFlight(s) /\ InFlight(t) => s = t
            /\ \A s \in Starts : InFlight(s) => slot = None

\* Every step preserves OneAtATime.
LEMMA OneAtATimeStep == IInv /\ OneAtATime /\ [Next]_vars => OneAtATime'
<1> SUFFICES ASSUME IInv, OneAtATime, [Next]_vars, ~raced' PROVE OneAtATime'
  BY DEF OneAtATime
<1>a. /\ DOMAIN pc = Starts /\ pc = [s \in Starts |-> pc[s]] /\ SlotIsDone
      /\ raced \in BOOLEAN
  BY DEF IInv, TypeOK, Owners
<1>b. ~raced
  BY <1>a DEF Next, StartStep, ProxyStart, BuildEngine, Bind, BindFails, StartFails,
     SetSystemAddr, Store, ProxyStop, SetSystemProxy, ClearSystemProxy, EditRules,
     SetSocksProxies, ChangeNodes, DropListener, AcceptFails, Exit, history, vars
<1> USE <1>a, <1>b DEF OneAtATime, InFlight
<1>c. ASSUME UNCHANGED <<pc, slot>> PROVE OneAtATime'
  BY <1>c
<1>1. ASSUME NEW s \in Starts, StartStep(s) PROVE OneAtATime'
  <2>1. CASE ProxyStart(s)
    <3>1. \A t \in Starts : ~InFlight(t)
      BY <2>1 DEF ProxyStart, Quiet
    <3>2. slot = None /\ slot' = slot /\ \A t \in Starts : t # s => pc'[t] = pc[t]
      BY <2>1 DEF ProxyStart
    <3> QED
      BY <3>1, <3>2
  <2>2. CASE BuildEngine(s)
    BY <2>2 DEF BuildEngine
  <2>3. CASE Bind(s)
    BY <2>3 DEF Bind
  <2>4. CASE BindFails(s)
    BY <2>4 DEF BindFails
  <2>5. CASE StartFails(s)
    BY <2>5 DEF StartFails
  <2>6. CASE SetSystemAddr(s)
    BY <2>6 DEF SetSystemAddr
  <2>7. CASE Store(s)
    BY <2>7 DEF Store
  <2> QED
    BY <1>1, <2>1, <2>2, <2>3, <2>4, <2>5, <2>6, <2>7 DEF StartStep
<1>2. CASE ProxyStop
  BY <1>2 DEF ProxyStop, Consumed
<1>3. CASE Exit
  BY <1>3 DEF Exit
<1> QED
  BY <1>1, <1>2, <1>3, <1>c DEF Next, SetSystemProxy, ClearSystemProxy, EditRules,
     SetSocksProxies, ChangeNodes, DropListener, AcceptFails, starting, vars

\* No MultiSocks has been overwritten in the slot.
NoneLost == ~raced \/ (N = 1 /\ ended = {}) => \A s \in Starts : pc[s] # "lost"

\* Store never finds the slot taken before two starts have overlapped, or when
\* there is one listener and accept has not failed.
LEMMA NoneLostStep == IInv /\ OneAtATime /\ NoneLost /\ [Next]_vars => NoneLost'
<1> SUFFICES ASSUME IInv, OneAtATime, NoneLost, [Next]_vars,
                    ~raced' \/ (N = 1 /\ ended' = {}) PROVE NoneLost'
  BY DEF NoneLost
<1>b. ~raced \/ (N = 1 /\ ended = {})
  BY DEF Next, StartStep, ProxyStart, BuildEngine, Bind, BindFails, StartFails,
     SetSystemAddr, Store, ProxyStop, SetSystemProxy, ClearSystemProxy, EditRules,
     SetSocksProxies, ChangeNodes, DropListener, AcceptFails, Exit, history, vars, IInv, TypeOK
<1>a. pc = [s \in Starts |-> pc[s]] /\ Owners /\ slot \in Starts \cup {None}
      /\ proxies \in [Starts -> SUBSET Listeners] /\ None \notin Starts
  BY ControlAssumption DEF IInv, TypeOK
<1> USE <1>a, <1>b DEF NoneLost
<1>1. ASSUME NEW s \in Starts, StartStep(s) PROVE NoneLost'
  <2>1. CASE Store(s)
    <3>1. slot = None
      <4>1. CASE ~raced
        BY <2>1, <4>1 DEF Store, OneAtATime, InFlight
      <4>2. CASE N = 1 /\ ended = {}
        <5> SUFFICES ASSUME slot # None PROVE FALSE
          OBVIOUS
        <5>1. pc[s] = "store" /\ slot \in Starts /\ pc[slot] = "done"
          BY <2>1 DEF Store, Owners, SlotIsDone
        <5>2. proxies[s] # {} /\ proxies[slot] # {}
          BY <5>1 DEF Owners, StoredHaveListeners
        <5>3. \A t \in Starts : proxies[t] \subseteq {1}
          BY <4>2 DEF Listeners
        <5>4. 1 \in proxies[s] /\ 1 \in proxies[slot]
          BY <5>1, <5>2, <5>3
        <5>5. bound[1] = s /\ bound[1] = slot
          BY <4>2, <5>1, <5>4 DEF Owners, OwnersHold
        <5> QED
          BY <5>1, <5>5
      <4> QED
        BY <4>1, <4>2
    <3> QED
      BY <2>1, <3>1 DEF Store
  <2> QED
    BY <1>1, <2>1 DEF StartStep, ProxyStart, BuildEngine, Bind, BindFails, StartFails, SetSystemAddr
<1>2. CASE ProxyStop
  BY <1>2 DEF ProxyStop, Consumed
<1>3. CASE Exit
  BY <1>3 DEF Exit
<1> QED
  BY <1>1, <1>2, <1>3 DEF Next, SetSystemProxy, ClearSystemProxy, EditRules,
     SetSocksProxies, ChangeNodes, DropListener, AcceptFails, starting, vars

\* Until two proxy_start have overlapped, or with one listener of which accept
\* has not failed, every listener that accepts connections can be stopped by
\* proxy_stop, for any number of starts.  After an overlap with two listeners
\* it is not so: the second Store drops the MultiSocks of the first.
THEOREM ListenersAreNotOrphaned == Spec => []NoOrphanListener
<1>1. Init => OneAtATime /\ NoneLost
  BY DEF Init, OneAtATime, NoneLost, InFlight
<1>2. IInv /\ NoneLost => NoOrphanListener
  <2> SUFFICES ASSUME IInv, NoneLost, Quiet, ~raced \/ (N = 1 /\ ended = {}), NEW l \in Listeners, Live(l)
               PROVE  slot = bound[l] /\ l \in proxies[slot]
    BY DEF NoOrphanListener, Owned
  <2>1. bound[l] \in Starts /\ l \in proxies[bound[l]] /\ pc[bound[l]] # "idle"
    BY DEF IInv, TypeOK, Owners, HeldByOwner, There, Live
  <2>2. pc[bound[l]] = "done"
    BY <2>1 DEF NoneLost, Quiet, InFlight, IInv, TypeOK
  <2>3. slot = bound[l]
    BY <2>1, <2>2 DEF IInv, Owners, SlotIsDone
  <2> QED
    BY <2>1, <2>3, ControlAssumption
<1> QED
  BY <1>1, <1>2, OneAtATimeStep, NoneLostStep, IInvHolds, PTL DEF Spec

-----------------------------------------------------------------------------
\* The listener that the registry names listens, and whoever stops it will
\* clear it: the user's switch is on, or its MultiSocks has system_set.
ClearedWithOwner ==
  running /\ regOk /\ enabled =>
    /\ server \in Addresses
    /\ server = SystemAddr(server.port) \/ sysOn
    /\ server.port \notin ended =>
         Live(server.port) /\ (sysOn \/ bound[server.port] \in sysSet)

\* Every step preserves ClearedWithOwner.
LEMMA ClearedWithOwnerStep == IInv /\ ClearedWithOwner /\ [Next]_vars => ClearedWithOwner'
<1> SUFFICES ASSUME IInv, ClearedWithOwner, [Next]_vars, running', regOk' PROVE ClearedWithOwner'
  BY DEF ClearedWithOwner
<1>a. /\ Owners /\ None \notin Starts /\ None \notin Listeners /\ System \in Listeners
      /\ slot \in Starts \cup {None} /\ bound \in [Listeners -> Starts \cup {None}]
      /\ proxies \in [Starts -> SUBSET Listeners] /\ aborted \in SUBSET Listeners
      /\ todo \in [Starts -> SUBSET Listeners]
      /\ sysOn \in BOOLEAN /\ enabled \in BOOLEAN /\ regOk \in BOOLEAN
  BY ControlAssumption DEF IInv, TypeOK, Listeners
<1>b. running
  BY DEF Next, vars
<1>l. /\ \A l \in Listeners : /\ Local(l) \in Addresses /\ Local(l).port = l
                             /\ SystemAddr(l) \in Addresses /\ SystemAddr(l).port = l
      /\ \A a \in Addresses : a.port \in Listeners
  BY DEF Local, SystemAddr, Addresses
<1> USE <1>a, <1>b, <1>l DEF ClearedWithOwner, Live
<1>c. ASSUME UNCHANGED <<registry, sysOn, sysSet, bound, aborted, ended>>
      PROVE  ClearedWithOwner'
  BY <1>c DEF registry
<1>1. ASSUME NEW s \in Starts, StartStep(s) PROVE ClearedWithOwner'
  <2>1. CASE ProxyStart(s)
    BY <1>c, <2>1 DEF ProxyStart, listeners, registry
  <2>2. CASE Bind(s)
    <3>1. PICK l \in todo[s] : bound[l] = None /\ bound' = [bound EXCEPT ![l] = s]
      BY <2>2 DEF Bind, First
    <3>2. regOk /\ UNCHANGED <<enabled, server, sysOn, sysSet, aborted, ended>>
      BY <2>2 DEF Bind, registry, history
    <3>3. enabled /\ server.port \notin ended => server.port # l /\ server.port \in Listeners
      BY <3>1, <3>2
    <3>4. \A m \in Listeners : m # l => bound'[m] = bound[m]
      BY <3>1
    <3> QED
      BY <3>2, <3>3, <3>4
  <2>3. CASE SetSystemAddr(s)
    <3>1. CASE System \in proxies[s]
      <4>1. sysSet' = sysSet \cup {s} /\ enabled' /\ server' = SystemAddr(System)
              /\ UNCHANGED <<bound, aborted, ended>>
        BY <2>3, <3>1 DEF SetSystemAddr, SetRegistry, listeners, history
      <4>2. System \notin ended => bound[System] = s /\ System \notin aborted
        BY <3>1 DEF Owners, OwnersHold
      <4> QED
        BY <4>1, <4>2
    <3>2. CASE System \notin proxies[s]
      BY <1>c, <2>3, <3>2 DEF SetSystemAddr, listeners, registry, history
    <3> QED
      BY <3>1, <3>2
  <2> QED
    BY <1>1, <1>c, <2>1, <2>2, <2>3 DEF StartStep, BuildEngine, BindFails, StartFails, Store,
       listeners, registry, history
<1>2. CASE ProxyStop
  <2>1. CASE sysOn \/ slot \in sysSet
    BY <1>2, <2>1 DEF ProxyStop, ClearRegistry
  <2>2. CASE ~sysOn /\ slot \notin sysSet
    <3>1. regOk /\ UNCHANGED <<enabled, server, bound, ended>> /\ ~sysOn'
      BY <1>2, <2>2 DEF ProxyStop, registry, history
    <3>2. \A l \in Listeners : l \in aborted' => l \in aborted \/ bound[l] = slot
      BY <1>2 DEF ProxyStop, Tasks
    <3>3. \A t : t \in sysSet => t \in sysSet'
      BY <1>2, <2>2 DEF ProxyStop, Consumed
    <3> QED
      BY <2>2, <3>1, <3>2, <3>3
  <2> QED
    BY <2>1, <2>2
<1>3. CASE SetSystemProxy
  <2>1. PICK l \in proxies[slot] : enabled' /\ server' = Local(l) /\ sysOn'
    BY <1>3 DEF SetSystemProxy, SetRegistry, Primary, First
  <2>2. /\ slot \in Starts /\ l \in Listeners /\ UNCHANGED <<bound, aborted, ended>>
        /\ l \notin ended => bound[l] = slot /\ l \notin aborted
    BY <1>3 DEF SetSystemProxy, listeners, history, Owners, OwnersHold
  <2> QED
    BY <2>1, <2>2
<1>4. CASE ClearSystemProxy
  BY <1>4 DEF ClearSystemProxy, ClearRegistry
<1>5. ASSUME NEW l \in Listeners, DropListener(l) PROVE ClearedWithOwner'
  <2>1. /\ regOk /\ UNCHANGED <<enabled, server, sysOn, sysSet, ended>>
        /\ l \in aborted /\ aborted' \subseteq aborted
    BY <1>5 DEF DropListener, registry, history
  <2>2. \A m \in Listeners : m # l => bound'[m] = bound[m]
    BY <1>5 DEF DropListener
  <2> QED
    BY <2>1, <2>2
<1>6. ASSUME NEW l \in Listeners, AcceptFails(l) PROVE ClearedWithOwner'
  <2>1. /\ regOk /\ UNCHANGED <<enabled, server, sysOn, sysSet, aborted>>
        /\ ended' = ended \cup {l}
    BY <1>6 DEF AcceptFails, registry
  <2>2. \A m \in Listeners : m # l => bound'[m] = bound[m]
    BY <1>6 DEF AcceptFails
  <2> QED
    BY <2>1, <2>2
<1> QED
  BY <1>1, <1>2, <1>3, <1>4, <1>5, <1>6, <1>c DEF Next, EditRules, SetSocksProxies, ChangeNodes,
     Exit, listeners, registry, starting, history, vars

\* As long as the process lives and the last registry write went through, no
\* stop leaves its listener's address in the registry, and an address at which
\* the listener does not answer was written by the user's switch, for any
\* number of listeners, wherever they are, and of overlapping starts.
THEOREM SystemProxyIsLive == Spec => []SysProxyPointsToLive
<1>1. Init => ClearedWithOwner
  BY DEF Init, ClearedWithOwner
<1>2. IInv /\ ClearedWithOwner /\ [Next]_vars => ClearedWithOwner'
  BY ClearedWithOwnerStep
<1>3. ClearedWithOwner => SysProxyPointsToLive
  BY DEF ClearedWithOwner, SysProxyPointsToLive
<1> QED
  BY <1>1, <1>2, <1>3, IInvHolds, PTL DEF Spec

-----------------------------------------------------------------------------
\* If the last edit reached everyone, a start in flight has bound its listeners
\* with the saved rules and holds an engine built from them, and so has the
\* MultiSocks in the slot.
RulesCurrent ==
  ~missed => \A s \in Starts : InFlight(s) \/ slot = s =>
               /\ \A l \in proxies[s] : rules[s][l] = version
               /\ pc[s] = "built" => built[s] = version

\* Every step preserves RulesCurrent.
LEMMA RulesCurrentStep == IInv /\ RulesCurrent /\ [Next]_vars => RulesCurrent'
<1> SUFFICES ASSUME IInv, RulesCurrent, [Next]_vars, ~missed' PROVE RulesCurrent'
  BY DEF RulesCurrent
<1>a. /\ Owners /\ None \notin Starts /\ slot \in Starts \cup {None}
      /\ bound \in [Listeners -> Starts \cup {None}]
      /\ proxies \in [Starts -> SUBSET Listeners] /\ todo \in [Starts -> SUBSET Listeners]
      /\ DOMAIN pc = Starts /\ pc = [s \in Starts |-> pc[s]]
      /\ DOMAIN built = Starts /\ rules \in [Starts -> [Listeners -> 0 .. Versions]]
  BY ControlAssumption DEF IInv, TypeOK
<1> USE <1>a DEF RulesCurrent, InFlight
<1>c. ASSUME UNCHANGED <<missed, version, rules, proxies>>,
             \A s \in Starts : InFlight(s)' \/ slot' = s => InFlight(s) \/ slot = s,
             \A s \in Starts : pc'[s] = "built" => pc[s] = "built" /\ built'[s] = built[s]
      PROVE  RulesCurrent'
  BY <1>c
<1>1. ASSUME NEW s \in Starts, StartStep(s) PROVE RulesCurrent'
  <2>1. CASE ProxyStart(s)
    <3>1. /\ slot = None /\ slot' = None /\ UNCHANGED <<version, rules, built, proxies>>
          /\ missed' = (missed /\ ~Quiet)
      BY <2>1 DEF ProxyStart, config, listeners
    <3>2. /\ \A t \in Starts : pc'[t] = IF t = s THEN "loop" ELSE pc[t]
          /\ proxies[s] = {}
      BY <2>1 DEF ProxyStart, Owners, IdleIsEmpty, There
    <3>3. CASE Quiet
      <4>1. \A t \in Starts : InFlight(t)' \/ slot' = t => t = s
        BY <3>1, <3>2, <3>3 DEF Quiet
      <4> QED
        BY <3>1, <3>2, <4>1
    <3>4. CASE ~missed
      BY <3>1, <3>2, <3>4
    <3> QED
      BY <3>1, <3>3, <3>4
  <2>2. CASE BuildEngine(s)
    <3>1. /\ pc[s] = "loop" /\ UNCHANGED <<missed, version, rules, proxies, slot>>
          /\ \/ UNCHANGED <<pc, built>>
             \/ /\ built' = [built EXCEPT ![s] = version]
                /\ pc' = [pc EXCEPT ![s] = "built"]
      BY <2>2 DEF BuildEngine, config, listeners, history
    <3> QED
      BY <3>1
  <2>3. CASE Bind(s)
    <3>1. PICK l \in todo[s] :
            /\ rules' = [rules EXCEPT ![s][l] = built[s]]
            /\ proxies' = [proxies EXCEPT ![s] = @ \cup {l}]
      BY <2>3 DEF Bind, First
    <3>2. pc[s] = "built" /\ UNCHANGED <<missed, version, slot>>
      BY <2>3 DEF Bind, config, history
    <3>3. \A t \in Starts : pc'[t] = IF t = s THEN "loop" ELSE pc[t]
      BY <2>3 DEF Bind
    <3>4. \A t \in Starts : t # s => built'[t] = built[t]
      BY <2>3 DEF Bind
    <3>5. l \in Listeners /\ built[s] = version /\ ~missed
      BY <3>2
    <3>6. \A t \in Starts : \A m \in Listeners :
            rules'[t][m] = IF t = s /\ m = l THEN version ELSE rules[t][m]
      BY <3>1, <3>5
    <3>7. \A t \in Starts : proxies'[t] = IF t = s THEN proxies[s] \cup {l} ELSE proxies[t]
      BY <3>1
    <3> QED
      BY <3>2, <3>3, <3>4, <3>5, <3>6, <3>7
  <2>4. CASE BindFails(s)
    BY <1>c, <2>4 DEF BindFails, config, listeners, history
  <2>5. CASE StartFails(s)
    BY <1>c, <2>5 DEF StartFails, config, listeners, history
  <2>6. CASE SetSystemAddr(s)
    BY <1>c, <2>6 DEF SetSystemAddr, config, listeners, history
  <2>7. CASE Store(s)
    BY <1>c, <2>7 DEF Store, config, listeners, history
  <2> QED
    BY <1>1, <2>1, <2>2, <2>3, <2>4, <2>5, <2>6, <2>7 DEF StartStep
<1>2. CASE ProxyStop
  <2>1. CASE slot = None
    BY <1>c, <1>2, <2>1 DEF ProxyStop, config, history
  <2>2. CASE slot # None
    <3>1. slot \in Starts /\ slot' = None /\ UNCHANGED <<missed, version, built>>
      BY <1>2, <2>2 DEF ProxyStop, Consumed, config, history
    <3>2. \A t \in Starts : /\ pc'[t] = IF t = slot THEN "idle" ELSE pc[t]
                            /\ t # slot => proxies'[t] = proxies[t] /\ rules'[t] = rules[t]
      BY <1>2, <2>2, <3>1 DEF ProxyStop, Consumed
    <3> QED
      BY <3>1, <3>2
  <2> QED
    BY <2>1, <2>2
<1>3. CASE EditRules
  <2>1. /\ Quiet /\ UNCHANGED <<pc, proxies, slot>>
        /\ slot # None => proxies[slot] \cap bad' = {}
    BY <1>3 DEF EditRules, starting
  <2>2. \A s \in Starts : slot = s => \A l \in proxies[s] : rules'[s][l] = version'
    BY <1>3, <2>1 DEF EditRules, Reloaded
  <2>3. \A s \in Starts : ~InFlight(s)
    BY <2>1 DEF Quiet
  <2> QED
    BY <2>1, <2>2, <2>3
<1>4. CASE Exit
  BY <1>4 DEF Exit
<1> QED
  BY <1>1, <1>2, <1>3, <1>4, <1>c DEF Next, SetSystemProxy, ClearSystemProxy, SetSocksProxies,
     ChangeNodes, DropListener, AcceptFails, config, starting, listeners, history, vars

\* Every listener of the running proxy has the rules saved last, whatever was
\* edited and started before, as long as the last edit came when no start was
\* in flight and every engine could be built.
THEOREM SavedRulesAreLive == Spec => []RulesAreLive
<1>1. Init => RulesCurrent
  BY ControlAssumption DEF Init, RulesCurrent, InFlight
<1>2. IInv /\ RulesCurrent => RulesAreLive
  BY DEF IInv, TypeOK, RulesCurrent, RulesAreLive
<1> QED
  BY <1>1, <1>2, RulesCurrentStep, IInvHolds, PTL DEF Spec

=============================================================================

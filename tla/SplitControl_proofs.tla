------------------------ MODULE SplitControl_proofs ------------------------
(***************************************************************************)
(* Proofs about SplitControl for every number of overlapping split_apply   *)
(* commands and every REOPEN_AFTER and MAX_REOPEN.                         *)
(*                                                                         *)
(* NoZombieCapture names who is responsible for a running capture.  It is  *)
(* kept by every step once we know that a command has a controller in hand *)
(* exactly while it stops it (HoldersStop): only then does StopController  *)
(* not push another controller out of the command's hand.                  *)
(***************************************************************************)
EXTENDS SplitControl, TLAPS

\* A command holds a controller exactly while it stops it.
HoldersStop == \A x \in Commands : holding[x] # None <=> pc[x] \in {"stopOld", "stopTaken"}

IInv == TypeOK /\ HoldersStop /\ NoZombieCapture

\* What StopController does to the hands of the commands.
LEMMA StopControllerHolds ==
  ASSUME TypeOK, NEW x \in Commands, NEW c \in Applies, StopController(x, c)
  PROVE  /\ stop' \in SUBSET Applies
         /\ holding' \in [Commands -> Applies \cup {None}]
         /\ \A y \in Commands : holding'[y] = IF y = x THEN c ELSE holding[y]
BY DEF StopController, TypeOK

\* Every step preserves the type invariant, the counters' bounds included.
LEMMA TypeStep == TypeOK /\ [Next]_vars => TypeOK'
<1> SUFFICES ASSUME TypeOK, [Next]_vars PROVE TypeOK'
  OBVIOUS
<1>a. /\ Applies \subseteq Commands /\ Clear \in Commands
      /\ ReopenAfter \in Nat \ {0} /\ MaxReopen \in Nat \ {0}
  BY SplitAssumption DEF Commands
<1> USE <1>a DEF commands, capture
<1>1. ASSUME NEW a \in Applies, ApplyBegin(a) PROVE TypeOK'
  <2>1. stop' \in SUBSET Applies /\ holding' \in [Commands -> Applies \cup {None}]
    <3>1. CASE slot = None
      BY <1>1, <3>1 DEF ApplyBegin, TypeOK
    <3>2. CASE slot # None
      BY <1>1, <3>2, StopControllerHolds DEF ApplyBegin, TypeOK
    <3> QED
      BY <3>1, <3>2
  <2>2. pc' \in [Commands -> {"idle", "stopOld", "start", "store", "stopTaken"}]
    BY <1>1 DEF ApplyBegin, TypeOK
  <2> QED
    BY <1>1, <2>1, <2>2 DEF ApplyBegin, TypeOK
<1>2. ASSUME NEW x \in Commands, Stopped(x) PROVE TypeOK'
  BY <1>2 DEF Stopped, CloseShared, TypeOK
<1>3. ASSUME NEW a \in Applies, StartFails(a) PROVE TypeOK'
  BY <1>3 DEF StartFails, TypeOK
<1>4. ASSUME NEW a \in Applies, StartSucceeds(a) PROVE TypeOK'
  BY <1>4 DEF StartSucceeds, TypeOK
<1>5. ASSUME NEW a \in Applies, Store(a) PROVE TypeOK'
  <2>1. /\ stop' \in SUBSET Applies /\ holding' \in [Commands -> Applies \cup {None}]
        /\ lock' \in Commands \cup {None}
    <3>1. CASE slot = None
      BY <1>5, <3>1 DEF Store, TypeOK
    <3>2. CASE slot # None
      BY <1>5, <3>2, StopControllerHolds DEF Store, TypeOK
    <3> QED
      BY <3>1, <3>2
  <2>2. pc' \in [Commands -> {"idle", "stopOld", "start", "store", "stopTaken"}]
    BY <1>5 DEF Store, TypeOK
  <2> QED
    BY <1>5, <2>1, <2>2 DEF Store, TypeOK
<1>6. CASE ClearBegin
  <2>1. stop' \in SUBSET Applies /\ holding' \in [Commands -> Applies \cup {None}]
    BY <1>6, StopControllerHolds DEF ClearBegin, TypeOK
  <2>2. pc' \in [Commands -> {"idle", "stopOld", "start", "store", "stopTaken"}]
    BY <1>6 DEF ClearBegin, TypeOK
  <2> QED
    BY <1>6, <2>1, <2>2 DEF ClearBegin, TypeOK
<1>7. ASSUME NEW c \in Applies, CaptureStep(c) PROVE TypeOK'
  <2>1. CASE Received(c)
    BY <2>1 DEF Received, TypeOK
  <2>2. CASE RecvFails(c)
    BY <2>2 DEF RecvFails, TypeOK
  <2>3. CASE Recover(c)
    BY <2>3 DEF Recover, CloseShared, TypeOK
  <2>4. CASE ReopenSucceeds(c)
    BY <2>4 DEF ReopenSucceeds, TypeOK
  <2>5. CASE ReopenFails(c)
    BY <2>5 DEF ReopenFails, TypeOK
  <2>6. CASE SeesStop(c)
    BY <2>6 DEF SeesStop, TypeOK
  <2> QED
    BY <1>7, <2>1, <2>2, <2>3, <2>4, <2>5, <2>6 DEF CaptureStep
<1>8. ASSUME NEW c \in Applies, InjectBegin(c) \/ InjectorStep(c) PROVE TypeOK'
  BY <1>8 DEF InjectBegin, InjectorStep, InjectEnd, OutTaskEnds, TypeOK
<1>9. CASE WatcherPolls
  <2>1. SeenHealthy \in BOOLEAN
    BY DEF SeenHealthy
  <2> QED
    BY <1>9, <2>1 DEF WatcherPolls, TypeOK
<1>10. CASE UNCHANGED vars
  BY <1>10 DEF vars, TypeOK
<1> QED
  BY <1>1, <1>2, <1>3, <1>4, <1>5, <1>6, <1>7, <1>8, <1>9, <1>10 DEF Next, ApplyStep

\* Every step keeps a responsible owner for every running capture.
LEMMA IInvStep == IInv /\ [Next]_vars => IInv'
<1> SUFFICES ASSUME IInv, [Next]_vars PROVE HoldersStop' /\ NoZombieCapture'
  BY TypeStep DEF IInv
<1>a. /\ TypeOK /\ Applies \subseteq Commands /\ Clear \in Commands
      /\ None \notin Applies /\ Clear \notin Applies
  BY SplitAssumption DEF IInv, Commands
<1>b. /\ DOMAIN pc = Commands /\ pc = [x \in Commands |-> pc[x]]
      /\ holding \in [Commands -> Applies \cup {None}]
      /\ thread = [c \in Applies |-> thread[c]]
      /\ slot \in Applies \cup {None} /\ shared \in SUBSET Applies
  BY DEF IInv, TypeOK
<1>c. HoldersStop /\ NoZombieCapture
  BY DEF IInv
<1> USE <1>a, <1>b DEF HoldersStop, NoZombieCapture, commands, capture
\* A step that stops c, from the slot, and leaves the captures alone.
<1>d. ASSUME NEW x \in Commands, slot \in Applies, StopController(x, slot),
             UNCHANGED <<thread, shared>>, pc[x] \in {"idle", "store"},
             NEW p \in {"stopOld", "stopTaken"}, pc' = [pc EXCEPT ![x] = p],
             pc[x] = "store" => slot' = x /\ x \in Applies
      PROVE  HoldersStop' /\ NoZombieCapture'
  <2>1. \A y \in Commands : holding'[y] = IF y = x THEN slot ELSE holding[y]
    BY <1>d, StopControllerHolds
  <2>2. \A y \in Commands : pc'[y] = IF y = x THEN p ELSE pc[y]
    BY <1>d
  <2>3. HoldersStop'
    BY <1>c, <1>d, <2>1, <2>2
  <2>4. holding[x] = None
    BY <1>c, <1>d
  <2>5. NoZombieCapture'
    BY <1>c, <1>d, <2>1, <2>2, <2>4
  <2> QED
    BY <2>3, <2>5
<1>1. ASSUME NEW a \in Applies, ApplyBegin(a) PROVE HoldersStop' /\ NoZombieCapture'
  <2>1. CASE slot = None
    <3>1. /\ pc[a] = "idle" /\ pc' = [pc EXCEPT ![a] = "start"]
          /\ UNCHANGED <<slot, holding, thread, shared>>
      BY <1>1, <2>1 DEF ApplyBegin
    <3> QED
      BY <1>c, <3>1
  <2>2. CASE slot # None
    BY <1>1, <1>d, <2>2 DEF ApplyBegin
  <2> QED
    BY <2>1, <2>2
<1>2. ASSUME NEW x \in Commands, Stopped(x) PROVE HoldersStop' /\ NoZombieCapture'
  <2> DEFINE d == holding[x]
  <2>1. d \in Applies
    BY <1>2, <1>c DEF Stopped
  <2>2. /\ thread' = [thread EXCEPT ![d] = "none"] /\ shared' = shared \ {d}
        /\ holding' = [holding EXCEPT ![x] = None] /\ slot' = slot
        /\ pc[x] \in {"stopOld", "stopTaken"}
        /\ pc' = [pc EXCEPT ![x] = IF @ = "stopOld" THEN "start" ELSE "idle"]
    BY <1>2 DEF Stopped, CloseShared
  <2>3. HoldersStop'
    BY <1>c, <2>2
  <2>4. ASSUME NEW c \in Applies, thread'[c] # "none" \/ c \in shared'
        PROVE  slot' = c \/ pc'[c] = "store" \/ \E y \in Commands : holding'[y] = c
    <3>1. c # d /\ (thread[c] # "none" \/ c \in shared)
      BY <2>1, <2>2, <2>4
    <3>2. CASE slot = c \/ pc[c] = "store"
      BY <2>2, <3>2
    <3>3. ASSUME NEW y \in Commands, holding[y] = c PROVE holding'[y] = c
      BY <2>2, <3>1, <3>3
    <3> QED
      BY <1>c, <3>1, <3>2, <3>3
  <2> QED
    BY <2>3, <2>4
<1>3. ASSUME NEW a \in Applies, StartFails(a) PROVE HoldersStop' /\ NoZombieCapture'
  BY <1>c, <1>3 DEF StartFails
<1>4. ASSUME NEW a \in Applies, StartSucceeds(a) PROVE HoldersStop' /\ NoZombieCapture'
  BY <1>c, <1>4 DEF StartSucceeds
<1>5. ASSUME NEW a \in Applies, Store(a) PROVE HoldersStop' /\ NoZombieCapture'
  <2>1. CASE slot = None
    <3>1. /\ pc[a] = "store" /\ pc' = [pc EXCEPT ![a] = "idle"] /\ slot' = a
          /\ UNCHANGED <<holding, thread, shared>>
      BY <1>5, <2>1 DEF Store
    <3> QED
      BY <1>c, <2>1, <3>1
  <2>2. CASE slot # None
    BY <1>5, <1>d, <2>2 DEF Store
  <2> QED
    BY <2>1, <2>2
<1>6. CASE ClearBegin
  BY <1>6, <1>d DEF ClearBegin
<1>7. ASSUME NEW c \in Applies, CaptureStep(c) PROVE HoldersStop' /\ NoZombieCapture'
  <2>1. /\ UNCHANGED <<slot, pc, holding>> /\ thread[c] # "none"
        /\ \A d \in Applies : d # c => thread'[d] = thread[d] /\ (d \in shared' => d \in shared)
    BY <1>7 DEF CaptureStep, Received, RecvFails, Recover, CloseShared, ReopenSucceeds,
       ReopenFails, SeesStop
  <2> QED
    BY <1>c, <2>1
<1>8. ASSUME UNCHANGED <<slot, pc, holding, thread, shared>>
      PROVE  HoldersStop' /\ NoZombieCapture'
  BY <1>c, <1>8
<1>9. ASSUME NEW c \in Applies, InjectBegin(c) \/ InjectorStep(c)
      PROVE  HoldersStop' /\ NoZombieCapture'
  BY <1>8, <1>9 DEF InjectBegin, InjectorStep, InjectEnd, OutTaskEnds
<1> QED
  BY <1>1, <1>2, <1>3, <1>4, <1>5, <1>6, <1>7, <1>8, <1>9 DEF Next, ApplyStep, WatcherPolls, vars

\* The invariant holds of every behaviour of the commands, the capture threads
\* and the injectors.
THEOREM IInvHolds == Spec => []IInv
<1>1. Init => TypeOK
  <2>1. \A c \in Applies : 0 < ReopenAfter /\ 0 < MaxReopen
    BY SplitAssumption
  <2> QED
    BY <2>1 DEF Init, TypeOK
<1>2. Init => HoldersStop /\ NoZombieCapture
  BY DEF Init, HoldersStop, NoZombieCapture
<1> QED
  BY <1>1, <1>2, IInvStep, PTL DEF Spec, IInv

\* For every number of commands the slot, the capture threads and their counts
\* of failures stay within their types and bounds.
THEOREM TypesHold == Spec => []TypeOK
<1>1. IInv => TypeOK
  BY DEF IInv
<1> QED BY <1>1, IInvHolds, PTL

\* However many split_apply and split_clear overlap, a capture that runs has an
\* owner that will stop it: no zombie is left beside the controller in the slot.
THEOREM CapturesAreOwned == Spec => []NoZombieCapture
<1>1. IInv => NoZombieCapture
  BY DEF IInv
<1> QED
  BY <1>1, IInvHolds, PTL

=============================================================================

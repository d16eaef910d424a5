---------------------------- MODULE SplitControl ----------------------------
(***************************************************************************)
(* Split tunnelling with the WinDivert driver: the commands split_apply    *)
(* and split_clear and the health watcher of app/src-tauri/src/main.rs     *)
(* over the slot SplitState, WinpkSplitController of crates/cli/src/lib.rs *)
(* and the capture thread of crates/platform-windows/src/windivert/mod.rs. *)
(*                                                                         *)
(* In the DIVERT mode a filter takes every outgoing packet of the machine  *)
(* as long as one reference to its handle exists: the one in SharedHandle, *)
(* the one of the capture thread, or the clone an injector holds during    *)
(* send.  A filter whose packets no thread receives cuts the machine off.  *)
(*                                                                         *)
(* split_apply is async and several may overlap; each start that succeeds  *)
(* makes a controller, named after its command.  split_clear runs on the   *)
(* main thread, one at a time.  The packets are left out.                  *)
(***************************************************************************)
EXTENDS Integers

CONSTANTS
  Applies,      \* split_apply commands, and the controllers they make
  Clear,        \* the split_clear command
  None,         \* Option::None
  ReopenAfter,  \* REOPEN_AFTER: failed receives in a row before the handle is reopened
  MaxReopen     \* MAX_REOPEN: failed reopenings before the thread gives up

ASSUME SplitAssumption ==
  /\ Clear \notin Applies /\ None \notin Applies \cup {Clear}
  /\ ReopenAfter \in Nat \ {0} /\ MaxReopen \in Nat \ {0}

Commands == Applies \cup {Clear}

VARIABLES
  slot,      \* SplitState: the controller in it
  lock,      \* the command that keeps the lock of SplitState while it stops a controller
  pc,        \* each command: "idle", "stopOld", "start", "store", "stopTaken"
  holding,   \* the controller a command has taken out and is stopping
  stop,      \* controllers whose stop flag is set
  thread,    \* each capture thread: "none", "recv", "recover", "gone"
  errors,    \* consec_err in "recv", fails in "recover"
  healthy,   \* SplitTunnel.healthy
  shared,    \* controllers with Some in SharedHandle
  injecting, \* the handle an injector's send uses: "none", "current", "old"
  outTask,   \* each out_task: "none", "running", "aborted"
  told       \* last_healthy of the watcher: FALSE after the error toast

vars == <<slot, lock, pc, holding, stop, thread, errors, healthy, shared, injecting, outTask, told>>

commands == <<slot, lock, pc, holding>>
capture == <<thread, errors, healthy, shared>>

TypeOK ==
  /\ slot \in Applies \cup {None}
  /\ lock \in Commands \cup {None}
  /\ pc \in [Commands -> {"idle", "stopOld", "start", "store", "stopTaken"}]
  /\ holding \in [Commands -> Applies \cup {None}]
  /\ stop \in SUBSET Applies
  /\ thread \in [Applies -> {"none", "recv", "recover", "gone"}]
  /\ errors \in [Applies -> Nat]
  /\ \A c \in Applies : errors[c] < IF thread[c] = "recv" THEN ReopenAfter ELSE MaxReopen
  /\ healthy \in SUBSET Applies
  /\ shared \in SUBSET Applies
  /\ injecting \in [Applies -> {"none", "current", "old"}]
  /\ outTask \in [Applies -> {"none", "running", "aborted"}]
  /\ told \in BOOLEAN

Init ==
  /\ slot = None /\ lock = None
  /\ pc = [x \in Commands |-> "idle"]
  /\ holding = [x \in Commands |-> None]
  /\ stop = {}
  /\ thread = [c \in Applies |-> "none"]
  /\ errors = [c \in Applies |-> 0]
  /\ healthy = {} /\ shared = {}
  /\ injecting = [c \in Applies |-> "none"]
  /\ outTask = [c \in Applies |-> "none"]
  /\ told = TRUE

-----------------------------------------------------------------------------
(* The commands. *)

\* Defect: the thread is joined without having been told to stop.
StopForgetsFlag(x, c) ==
  /\ holding' = [holding EXCEPT ![x] = c]
  /\ UNCHANGED stop

\* WinpkSplitController::stop: the Drop of SplitTunnel sets the stop flag.
StopController(x, c) ==
  /\ holding' = [holding EXCEPT ![x] = c]
  /\ stop' = stop \cup {c}

\* The old controller is taken and the lock released before it is stopped.
ApplyBegin(a) ==
  /\ pc[a] = "idle" /\ lock = None
  /\ slot # a /\ thread[a] = "none" /\ injecting[a] = "none" /\ outTask[a] = "none"
  /\ IF slot = None
     THEN pc' = [pc EXCEPT ![a] = "start"] /\ UNCHANGED <<holding, stop>>
     ELSE pc' = [pc EXCEPT ![a] = "stopOld"] /\ StopController(a, slot)
  /\ slot' = None
  /\ UNCHANGED <<lock, capture, injecting, outTask, told>>

\* SharedHandle of c is emptied: a send that goes on keeps the old handle.
CloseShared(c) ==
  /\ shared' = shared \ {c}
  /\ injecting' = [injecting EXCEPT ![c] = IF @ = "current" THEN "old" ELSE @]

\* Defect: the Drop does not wait for the capture thread.
StoppedUnjoined(x) ==
  /\ pc[x] \in {"stopOld", "stopTaken"}
  /\ thread' = thread
  /\ CloseShared(holding[x])
  /\ outTask' = [outTask EXCEPT ![holding[x]] = "aborted"]
  /\ stop' = stop \ {holding[x]}
  /\ holding' = [holding EXCEPT ![x] = None]
  /\ pc' = [pc EXCEPT ![x] = IF @ = "stopOld" THEN "start" ELSE "idle"]
  /\ lock' = IF lock = x THEN None ELSE lock
  /\ UNCHANGED <<slot, errors, healthy, told>>

\* The thread is joined, the handle closed and the out_task aborted.
Stopped(x) ==
  /\ pc[x] \in {"stopOld", "stopTaken"}
  /\ thread[holding[x]] = "gone"
  /\ thread' = [thread EXCEPT ![holding[x]] = "none"]
  /\ CloseShared(holding[x])
  /\ outTask' = [outTask EXCEPT ![holding[x]] = "aborted"]
  /\ stop' = stop \ {holding[x]}
  /\ holding' = [holding EXCEPT ![x] = None]
  /\ pc' = [pc EXCEPT ![x] = IF @ = "stopOld" THEN "start" ELSE "idle"]
  /\ lock' = IF lock = x THEN None ELSE lock
  /\ UNCHANGED <<slot, errors, healthy, told>>

\* No applications, no engine, no rights, no driver or no handle.
StartFails(a) ==
  /\ pc[a] = "start"
  /\ pc' = [pc EXCEPT ![a] = "idle"]
  /\ UNCHANGED <<slot, lock, holding, stop, capture, injecting, outTask, told>>

\* The handle is opened, the capture thread and the out_task are spawned.
StartSucceeds(a) ==
  /\ pc[a] = "start"
  /\ pc' = [pc EXCEPT ![a] = "store"]
  /\ shared' = shared \cup {a}
  /\ thread' = [thread EXCEPT ![a] = "recv"]
  /\ errors' = [errors EXCEPT ![a] = 0]
  /\ healthy' = healthy \cup {a}
  /\ outTask' = [outTask EXCEPT ![a] = "running"]
  /\ UNCHANGED <<slot, lock, holding, stop, injecting, told>>

\* A controller that got into the slot meanwhile is stopped under the lock.
Store(a) ==
  /\ pc[a] = "store" /\ lock = None
  /\ slot' = a
  /\ IF slot = None
     THEN pc' = [pc EXCEPT ![a] = "idle"] /\ UNCHANGED <<lock, holding, stop>>
     ELSE /\ pc' = [pc EXCEPT ![a] = "stopTaken"]
          /\ lock' = a
          /\ StopController(a, slot)
  /\ UNCHANGED <<capture, injecting, outTask, told>>

\* split_clear stops what it takes out of the slot, under the lock.
ClearBegin ==
  /\ pc[Clear] = "idle" /\ lock = None
  /\ slot # None
  /\ slot' = None
  /\ pc' = [pc EXCEPT ![Clear] = "stopTaken"]
  /\ lock' = Clear
  /\ StopController(Clear, slot)
  /\ UNCHANGED <<capture, injecting, outTask, told>>

-----------------------------------------------------------------------------
(* capture_loop.  A packet and the timeout of recv_wait are one here.  *)

Received(c) ==
  /\ thread[c] = "recv"
  /\ errors' = [errors EXCEPT ![c] = 0]
  /\ thread' = [thread EXCEPT ![c] = IF c \in stop THEN "gone" ELSE "recv"]
  /\ UNCHANGED <<commands, stop, healthy, shared, injecting, outTask, told>>

RecvFails(c) ==
  /\ thread[c] = "recv" /\ c \notin stop
  /\ errors[c] + 1 < ReopenAfter
  /\ errors' = [errors EXCEPT ![c] = @ + 1]
  /\ UNCHANGED <<commands, stop, thread, healthy, shared, injecting, outTask, told>>

\* Defect: the old handle stays in SharedHandle during the recovery.
RecoverUnclosed(c) ==
  /\ thread[c] = "recv" /\ c \notin stop
  /\ errors[c] + 1 >= ReopenAfter
  /\ thread' = [thread EXCEPT ![c] = "recover"]
  /\ errors' = [errors EXCEPT ![c] = 0]
  /\ healthy' = healthy \ {c}
  /\ UNCHANGED <<commands, stop, shared, injecting, outTask, told>>

\* A series of errors: the filter is removed before the handle is reopened.
Recover(c) ==
  /\ thread[c] = "recv" /\ c \notin stop
  /\ errors[c] + 1 >= ReopenAfter
  /\ thread' = [thread EXCEPT ![c] = "recover"]
  /\ errors' = [errors EXCEPT ![c] = 0]
  /\ healthy' = healthy \ {c}
  /\ CloseShared(c)
  /\ UNCHANGED <<commands, stop, outTask, told>>

ReopenSucceeds(c) ==
  /\ thread[c] = "recover" /\ c \notin stop
  /\ thread' = [thread EXCEPT ![c] = "recv"]
  /\ errors' = [errors EXCEPT ![c] = 0]
  /\ healthy' = healthy \cup {c}
  /\ shared' = shared \cup {c}
  /\ UNCHANGED <<commands, stop, injecting, outTask, told>>

\* After MAX_REOPEN failures the thread gives up; the controller stays.
ReopenFails(c) ==
  /\ thread[c] = "recover" /\ c \notin stop
  /\ \/ /\ errors[c] + 1 < MaxReopen
        /\ errors' = [errors EXCEPT ![c] = @ + 1]
        /\ UNCHANGED thread
     \/ /\ errors[c] + 1 >= MaxReopen
        /\ thread' = [thread EXCEPT ![c] = "gone"]
        /\ errors' = [errors EXCEPT ![c] = 0]
  /\ UNCHANGED <<commands, stop, healthy, shared, injecting, outTask, told>>

\* The flag is seen after an error of recv_wait or between two reopenings.
SeesStop(c) ==
  /\ thread[c] \in {"recv", "recover"} /\ c \in stop
  /\ thread' = [thread EXCEPT ![c] = "gone"]
  /\ errors' = [errors EXCEPT ![c] = 0]
  /\ UNCHANGED <<commands, stop, healthy, shared, injecting, outTask, told>>

CaptureStep(c) ==
  \/ Received(c) \/ RecvFails(c) \/ Recover(c)
  \/ ReopenSucceeds(c) \/ ReopenFails(c) \/ SeesStop(c)

-----------------------------------------------------------------------------
(* The out_task and the watcher. *)

\* ResponseInjector::inject clones the handle out of SharedHandle ...
InjectBegin(c) ==
  /\ outTask[c] # "none" /\ injecting[c] = "none" /\ c \in shared
  /\ injecting' = [injecting EXCEPT ![c] = "current"]
  /\ UNCHANGED <<commands, stop, capture, outTask, told>>

\* ... and drops its clone after the send.
InjectEnd(c) ==
  /\ injecting[c] # "none"
  /\ injecting' = [injecting EXCEPT ![c] = "none"]
  /\ UNCHANGED <<commands, stop, capture, outTask, told>>

\* An aborted out_task ends at its next await.
OutTaskEnds(c) ==
  /\ outTask[c] = "aborted" /\ injecting[c] = "none"
  /\ outTask' = [outTask EXCEPT ![c] = "none"]
  /\ UNCHANGED <<commands, stop, capture, injecting, told>>

\* Defect: the watcher asks whether there is a controller, not how it is.
SeenAny == TRUE

\* What the watcher reads: no controller counts as healthy.
SeenHealthy == slot = None \/ slot \in healthy

\* The toast is sent when the answer changes.
WatcherPolls ==
  /\ lock = None
  /\ told # SeenHealthy
  /\ told' = SeenHealthy
  /\ UNCHANGED <<commands, stop, capture, injecting, outTask>>

-----------------------------------------------------------------------------
ApplyStep(a) == StartFails(a) \/ StartSucceeds(a) \/ Store(a) \/ Stopped(a)

InjectorStep(c) == InjectEnd(c) \/ OutTaskEnds(c)

Next ==
  \/ \E a \in Applies : ApplyBegin(a) \/ ApplyStep(a)
  \/ ClearBegin \/ Stopped(Clear)
  \/ \E c \in Applies : CaptureStep(c) \/ InjectBegin(c) \/ InjectorStep(c)
  \/ WatcherPolls

Spec == Init /\ [][Next]_vars

\* The threads and tasks run: a command goes on, recv_wait returns within 200
\* milliseconds, a reopening is tried every two seconds, a send returns and the
\* watcher polls.  The lock is free between the clicks of a user, so a command
\* that waits for it gets it (SF).
FairSpec ==
  /\ Spec
  /\ \A a \in Applies : WF_vars(StartFails(a) \/ StartSucceeds(a)) /\ SF_vars(Store(a))
  /\ \A x \in Commands : WF_vars(Stopped(x))
  /\ \A c \in Applies : WF_vars(CaptureStep(c)) /\ WF_vars(InjectorStep(c))
  /\ WF_vars(WatcherPolls)

-----------------------------------------------------------------------------
(***************************************************************************)
(* Properties.                                                             *)
(***************************************************************************)

\* Every capture thread that runs and every handle in a SharedHandle belongs
\* to the controller in the slot, to a start that will store it or to the
\* command that is stopping it.  So once the commands have returned, whatever
\* their order, no forgotten capture goes on beside the one in SplitState.
NoZombieCapture ==
  \A c \in Applies :
    thread[c] # "none" \/ c \in shared =>
      slot = c \/ pc[c] = "store" \/ \E x \in Commands : holding[x] = c

\* The machine's traffic is not cut off for good: a filter whose packets no
\* thread receives (a thread that ended or recovers, a handle kept open only by
\* a send) is removed or received from again.
Undrained(c) ==
  \/ injecting[c] = "old"
  \/ thread[c] # "recv" /\ (c \in shared \/ injecting[c] = "current")

NoBlackhole == \A c \in Applies : Undrained(c) ~> ~Undrained(c)

\* Every command returns: joining the capture thread under the lock of
\* SplitState does not hang, not even during a recovery.
CommandsReturn == \A x \in Commands : pc[x] # "idle" ~> pc[x] = "idle"

\* When the capture thread of the controller in the slot has given up, the user
\* gets the error toast.
GiveUpIsTold == \A c \in Applies : slot = c /\ thread[c] = "gone" ~> slot # c \/ ~told

=============================================================================

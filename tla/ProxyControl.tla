---------------------------- MODULE ProxyControl ----------------------------
(***************************************************************************)
(* Starting, stopping and reconfiguring the local proxy: the commands of   *)
(* app/src-tauri/src/main.rs over the slot ProxyState, MultiSocks and      *)
(* ProxyController of crates/cli/src/lib.rs, and the Windows system proxy. *)
(*                                                                         *)
(* proxy_start is async and runs on a thread of the runtime: it looks at   *)
(* the slot, binds the configured listeners one after the other and stores *)
(* the result, without the lock in between.  The other commands are        *)
(* synchronous and run one at a time on the main thread, each a step here. *)
(* Overwriting the slot drops the old MultiSocks, which detaches its       *)
(* accept tasks and does not stop them.  An error of accept ends a task on *)
(* its own, and nobody is told.                                            *)
(***************************************************************************)
EXTENDS Integers

CONSTANTS
  N,          \* listeners of the config, tried in the order 1 .. N
  Starts,     \* proxy_start commands that may be in flight
  None,       \* Option::None
  System,     \* the listener marked `system`; an empty list means this one
  Elsewhere,  \* listeners on one address that is not 127.0.0.1; the others
              \* are on 127.0.0.1 or on all addresses.  Ports differ.
  Faulty,     \* bound: listeners of which accept can fail
  BadSets,    \* which listeners' engines an edit can make impossible to build
  Versions    \* bound: versions of the routing rules

ASSUME ControlAssumption ==
  /\ N \in Nat \ {0}
  /\ None \notin Starts /\ None \notin 1 .. N
  /\ System \in 1 .. N
  /\ Elsewhere \subseteq 1 .. N /\ Faulty \subseteq 1 .. N
  /\ \A b \in BadSets : b \subseteq 1 .. N
  /\ Versions \in Nat \ {0}

VARIABLES
  list,      \* the configured listeners (socks_proxies)
  version,   \* the version of the rules in the config
  bad,       \* listeners whose engine cannot be built from the config
  slot,      \* ProxyState: the start whose MultiSocks is in it
  pc,        \* each proxy_start: "idle", "loop", "built", "store", "done", "lost"
  todo,      \* listeners a start has not tried yet
  built,     \* the version of the engine built for the next bind, or 0
  proxies,   \* MultiSocks.proxies
  sysSet,    \* starts whose MultiSocks has system_set
  bound,     \* which start's accept task holds each address
  rules,     \* the version of the engine in the ArcSwap of each start's listener
  aborted,   \* listeners whose accept task is aborted and not dropped yet
  enabled,   \* ProxyEnable of the Windows registry
  server,    \* ProxyServer of the Windows registry
  sysOn,     \* SysProxyState
  running,   \* the process is running
  ended,     \* history: listeners whose accept task ended by an error
  raced,     \* history: a start began while another was in flight
  missed,    \* history: the last edit did not reach every listener, because
             \* a start was in flight or a listener's engine could not be built
  regOk      \* history: the last write of the registry succeeded

vars == <<list, version, bad, slot, pc, todo, built, proxies, sysSet, bound,
          rules, aborted, enabled, server, sysOn, running, ended, raced, missed, regOk>>

config == <<list, version, bad>>
starting == <<pc, todo, built, proxies>>
listeners == <<bound, rules, aborted>>
registry == <<enabled, server, regOk>>
history == <<ended, raced, missed>>

Listeners == 1 .. N

\* What ProxyServer may name: the port of a listener at its own address or at
\* 127.0.0.1.
Addresses == [port : Listeners, host : {"own", "127.0.0.1"}]
Local(l) == [port |-> l, host |-> "127.0.0.1"]

TypeOK ==
  /\ list \in SUBSET Listeners /\ bad \in SUBSET Listeners
  /\ version \in 1 .. Versions
  /\ slot \in Starts \cup {None}
  /\ pc \in [Starts -> {"idle", "loop", "built", "store", "done", "lost"}]
  /\ todo \in [Starts -> SUBSET Listeners]
  /\ built \in [Starts -> 0 .. Versions]
  /\ proxies \in [Starts -> SUBSET Listeners]
  /\ sysSet \in SUBSET Starts
  /\ bound \in [Listeners -> Starts \cup {None}]
  /\ rules \in [Starts -> [Listeners -> 0 .. Versions]]
  /\ aborted \in SUBSET Listeners /\ ended \in SUBSET Listeners
  /\ enabled \in BOOLEAN /\ server \in Addresses \cup {None}
  /\ sysOn \in BOOLEAN /\ running \in BOOLEAN
  /\ raced \in BOOLEAN /\ missed \in BOOLEAN /\ regOk \in BOOLEAN

Init ==
  /\ list \in SUBSET Listeners
  /\ version = 1 /\ bad = {}
  /\ slot = None
  /\ pc = [s \in Starts |-> "idle"]
  /\ todo = [s \in Starts |-> {}]
  /\ built = [s \in Starts |-> 0]
  /\ proxies = [s \in Starts |-> {}]
  /\ sysSet = {}
  /\ bound = [l \in Listeners |-> None]
  /\ rules = [s \in Starts |-> [l \in Listeners |-> 0]]
  /\ aborted = {} /\ ended = {}
  /\ enabled = FALSE /\ server = None
  /\ sysOn = FALSE
  /\ running = TRUE
  /\ raced = FALSE /\ missed = FALSE /\ regOk = TRUE

InFlight(s) == pc[s] \in {"loop", "built", "store"}

\* The first of the listeners S in the order of the config.
First(S) == {l \in S : \A m \in S : l <= m}

\* No proxy_start is between its check of the slot and its store.
Quiet == \A s \in Starts : ~InFlight(s)

-----------------------------------------------------------------------------
(* sysproxy.rs: set writes ProxyEnable, then ProxyServer, then ProxyOverride. *)

\* Each write may be the one that fails.
SetRegistry(addr, ok) ==
  /\ regOk' = ok
  /\ \/ ok /\ enabled' = TRUE /\ server' = addr
     \/ ~ok /\ UNCHANGED <<enabled, server>>
     \/ ~ok /\ enabled' = TRUE /\ server' \in {server, addr}

ClearRegistry(ok) ==
  /\ regOk' = ok
  /\ enabled' = (enabled /\ ~ok)
  /\ UNCHANGED server

-----------------------------------------------------------------------------
(* proxy_start and MultiSocks::start. *)

\* The slot is empty: MultiSocks::start loads the list.
ProxyStart(s) ==
  /\ pc[s] = "idle"
  /\ slot = None
  /\ pc' = [pc EXCEPT ![s] = "loop"]
  /\ todo' = [todo EXCEPT ![s] = IF list = {} THEN {System} ELSE list]
  /\ raced' = (raced \/ ~Quiet)
  /\ missed' = (missed /\ ~Quiet)
  /\ UNCHANGED <<config, slot, built, proxies, sysSet, listeners, registry, sysOn, running, ended>>

\* ProxyController::start loads the config and builds the engine; a listener
\* whose engine cannot be built is skipped.
BuildEngine(s) ==
  /\ pc[s] = "loop" /\ todo[s] # {}
  /\ \E l \in First(todo[s]) :
       \/ /\ l \in bad
          /\ todo' = [todo EXCEPT ![s] = @ \ {l}]
          /\ UNCHANGED <<pc, built>>
       \/ /\ l \notin bad
          /\ built' = [built EXCEPT ![s] = version]
          /\ pc' = [pc EXCEPT ![s] = "built"]
          /\ UNCHANGED todo
  /\ UNCHANGED <<config, slot, proxies, sysSet, listeners, registry, sysOn, running, history>>

\* The address is free: the accept task is spawned.
Bind(s) ==
  /\ pc[s] = "built"
  /\ \E l \in First(todo[s]) :
       /\ bound[l] = None
       /\ bound' = [bound EXCEPT ![l] = s]
       /\ rules' = [rules EXCEPT ![s][l] = built[s]]
       /\ proxies' = [proxies EXCEPT ![s] = @ \cup {l}]
       /\ todo' = [todo EXCEPT ![s] = @ \ {l}]
  /\ pc' = [pc EXCEPT ![s] = "loop"]
  /\ built' = [built EXCEPT ![s] = 0]
  /\ UNCHANGED <<config, slot, sysSet, aborted, registry, sysOn, running, history>>

\* The address is taken, by us or by someone else: the listener is skipped.
BindFails(s) ==
  /\ pc[s] = "built"
  /\ todo' = [todo EXCEPT ![s] = @ \ First(@)]
  /\ pc' = [pc EXCEPT ![s] = "loop"]
  /\ built' = [built EXCEPT ![s] = 0]
  /\ UNCHANGED <<config, slot, proxies, sysSet, listeners, registry, sysOn, running, history>>

\* No listener came up: the command fails and the slot is left alone.
StartFails(s) ==
  /\ pc[s] = "loop" /\ todo[s] = {} /\ proxies[s] = {}
  /\ pc' = [pc EXCEPT ![s] = "idle"]
  /\ UNCHANGED <<config, slot, todo, built, proxies, sysSet, listeners, registry, sysOn, running, history>>

\* What a client must use to reach listener l: 127.0.0.1 if the listener is
\* there or on all addresses.
SystemAddr(l) == IF l \in Elsewhere THEN [port |-> l, host |-> "own"] ELSE Local(l)

\* The marked listener becomes the system proxy; a registry error is logged.
SetSystemAddr(s) ==
  /\ pc[s] = "loop" /\ todo[s] = {} /\ proxies[s] # {}
  /\ pc' = [pc EXCEPT ![s] = "store"]
  /\ IF System \in proxies[s]
     THEN \/ SetRegistry(SystemAddr(System), TRUE) /\ sysSet' = sysSet \cup {s}
          \/ SetRegistry(SystemAddr(System), FALSE) /\ UNCHANGED sysSet
     ELSE UNCHANGED <<registry, sysSet>>
  /\ UNCHANGED <<config, slot, todo, built, proxies, listeners, sysOn, running, history>>

\* The result is put into the slot; a MultiSocks that was there is dropped.
Store(s) ==
  /\ pc[s] = "store"
  /\ pc' = [t \in Starts |-> IF t = s THEN "done" ELSE IF t = slot THEN "lost" ELSE pc[t]]
  /\ slot' = s
  /\ UNCHANGED <<config, todo, built, proxies, sysSet, listeners, registry, sysOn, running, history>>

-----------------------------------------------------------------------------
(* The synchronous commands. *)

\* The accept tasks of a MultiSocks that still run.
Tasks(s) == {l \in proxies[s] : bound[l] = s}

\* What is left of a MultiSocks that MultiSocks::stop has consumed.
Consumed(s) ==
  /\ pc' = [pc EXCEPT ![s] = "idle"]
  /\ proxies' = [proxies EXCEPT ![s] = {}]
  /\ rules' = [rules EXCEPT ![s] = [l \in Listeners |-> 0]]
  /\ sysSet' = sysSet \ {s}
  /\ slot' = None

\* Defect: only SysProxyState decides whether the system proxy is cleared.
ProxyStopFlagOnly ==
  /\ IF slot = None THEN UNCHANGED <<aborted, slot, pc, proxies, rules, sysSet>>
     ELSE aborted' = aborted \cup Tasks(slot) /\ Consumed(slot)
  /\ IF sysOn THEN \E ok \in BOOLEAN : ClearRegistry(ok) ELSE UNCHANGED registry
  /\ sysOn' = FALSE
  /\ UNCHANGED <<config, todo, built, bound, running, history>>

\* Defect: the MultiSocks is taken out of the slot and dropped.
ProxyStopDrops ==
  /\ IF slot = None THEN UNCHANGED <<slot, pc, proxies, rules, sysSet>> ELSE Consumed(slot)
  /\ IF sysOn \/ slot \in sysSet THEN \E ok \in BOOLEAN : ClearRegistry(ok)
     ELSE UNCHANGED registry
  /\ sysOn' = FALSE
  /\ UNCHANGED <<config, todo, built, bound, aborted, running, history>>

\* proxy_stop and MultiSocks::stop: the accept tasks are aborted, and the
\* system proxy is cleared if the MultiSocks or the user had set it; an error
\* is ignored.
ProxyStop ==
  /\ IF slot = None THEN UNCHANGED <<aborted, slot, pc, proxies, rules, sysSet>>
     ELSE aborted' = aborted \cup Tasks(slot) /\ Consumed(slot)
  /\ IF sysOn \/ slot \in sysSet THEN \E ok \in BOOLEAN : ClearRegistry(ok)
     ELSE UNCHANGED registry
  /\ sysOn' = FALSE
  /\ UNCHANGED <<config, todo, built, bound, running, history>>

\* primary_addr: the system listener, or else the first one.
Primary(s) == IF System \in proxies[s] THEN {System} ELSE First(proxies[s])

\* 127.0.0.1 and the port of the primary listener, whatever its address is.
SetSystemProxy ==
  /\ slot # None
  /\ \E l \in Primary(slot) :
       \/ SetRegistry(Local(l), TRUE) /\ sysOn' = TRUE
       \/ SetRegistry(Local(l), FALSE) /\ UNCHANGED sysOn
  /\ UNCHANGED <<config, slot, starting, sysSet, listeners, running, history>>

ClearSystemProxy ==
  /\ \/ ClearRegistry(TRUE) /\ sysOn' = FALSE
     \/ ClearRegistry(FALSE) /\ UNCHANGED sysOn
  /\ UNCHANGED <<config, slot, starting, sysSet, listeners, running, history>>

\* Defect: the reload leaves out the first listener.
ReloadedTail(s, b) == {l \in proxies[s] : (\A m \in proxies[s] : m <= l => m \notin b) /\ \E m \in proxies[s] : m < l}

\* MultiSocks::reload: the listeners in order, up to the first whose engine
\* cannot be built.
Reloaded(s, b) == {l \in proxies[s] : \A m \in proxies[s] : m <= l => m \notin b}

\* add_rule, update_rule, remove_rule, move_rule, apply_preset, set_settings:
\* the config is saved, then reload_running_proxy.
EditRules ==
  /\ version < Versions
  /\ version' = version + 1
  /\ bad' \in BadSets
  /\ rules' = [s \in Starts |-> [l \in Listeners |->
                 IF slot = s /\ l \in Reloaded(s, bad') THEN version' ELSE rules[s][l]]]
  /\ missed' = (~Quiet \/ (slot # None /\ proxies[slot] \cap bad' # {}))
  /\ UNCHANGED <<list, slot, starting, sysSet, bound, aborted, registry, sysOn, running, ended, raced>>

\* set_socks_proxies: used by the next start.
SetSocksProxies ==
  /\ list' \in SUBSET Listeners
  /\ UNCHANGED <<version, bad, slot, starting, sysSet, listeners, registry, sysOn, running, history>>

\* remove_node and the subscriptions change the nodes and reload nothing.
ChangeNodes ==
  /\ bad' \in BadSets
  /\ UNCHANGED <<list, version, slot, starting, sysSet, listeners, registry, sysOn, running, history>>

-----------------------------------------------------------------------------
\* The runtime drops an aborted accept task, and with it the socket.
DropListener(l) ==
  /\ l \in aborted
  /\ aborted' = aborted \ {l}
  /\ bound' = [bound EXCEPT ![l] = None]
  /\ UNCHANGED <<config, slot, starting, sysSet, rules, registry, sysOn, running, history>>

\* accept fails: serve_routed returns, the accept task is over and its socket
\* closed.  The MultiSocks keeps its controller.
AcceptFails(l) ==
  /\ l \in Faulty /\ bound[l] # None /\ l \notin aborted
  /\ bound' = [bound EXCEPT ![l] = None]
  /\ ended' = ended \cup {l}
  /\ UNCHANGED <<config, slot, starting, sysSet, rules, aborted, registry, sysOn, running, raced, missed>>

\* The tray's "quit", perform_update and relaunch_as_admin end the process.
Exit ==
  /\ running' = FALSE
  /\ slot' = None /\ sysSet' = {} /\ sysOn' = FALSE
  /\ bound' = [l \in Listeners |-> None] /\ aborted' = {}
  /\ pc' = [s \in Starts |-> "idle"]
  /\ todo' = [s \in Starts |-> {}] /\ proxies' = [s \in Starts |-> {}]
  /\ built' = [s \in Starts |-> 0]
  /\ rules' = [s \in Starts |-> [l \in Listeners |-> 0]]
  /\ UNCHANGED <<config, registry, history>>

StartStep(s) ==
  \/ ProxyStart(s) \/ BuildEngine(s) \/ Bind(s) \/ BindFails(s)
  \/ StartFails(s) \/ SetSystemAddr(s) \/ Store(s)

Next ==
  /\ running
  /\ \/ \E s \in Starts : StartStep(s)
     \/ ProxyStop \/ SetSystemProxy \/ ClearSystemProxy
     \/ EditRules \/ SetSocksProxies \/ ChangeNodes
     \/ \E l \in Listeners : DropListener(l) \/ AcceptFails(l)
     \/ Exit

Spec == Init /\ [][Next]_vars

-----------------------------------------------------------------------------
(***************************************************************************)
(* Properties.                                                             *)
(***************************************************************************)

Live(l) == bound[l] # None /\ l \notin aborted

\* Every listener that accepts connections belongs to the MultiSocks in the
\* slot, so proxy_stop can stop it.
Owned == \A l \in Listeners : Live(l) => slot = bound[l] /\ l \in proxies[slot]

\* When no proxy_start is in flight, the slot owns every listener that accepts
\* connections: nothing listens that proxy_stop does not stop.  Starts, stops,
\* edits, accept errors and registry errors come in any order; what is left out
\* is that two starts overlapped, the race that proxy_start allows.  It is
\* harmless with one listener as long as no accept error freed its address.
NoOrphanListener == Quiet /\ (~raced \/ (N = 1 /\ ended = {})) => Owned

\* Every listener of the running proxy decides by the rules that were saved
\* last, if the save came when no start was in flight and the engine of every
\* listener could be built.  An edit that reaches them all makes up for one
\* that did not.
RulesAreLive == slot # None /\ ~missed => \A l \in proxies[slot] : rules[slot][l] = version

\* As long as the process runs and the last registry write went through, no
\* proxy address of ours stays behind in Windows when its listener is stopped,
\* whatever the order of overlapping starts, stops and clicks on the
\* system-proxy switch.  Only an accept error takes the listener away from under
\* it (serve_routed).  The address is one the listener answers at, unless the
\* user's switch wrote it: set_system_proxy (main.rs) names 127.0.0.1 even for a
\* listener that is elsewhere, and then nothing answers there.
SysProxyPointsToLive ==
  running /\ regOk /\ enabled /\ server # None =>
    /\ Live(server.port) \/ server.port \in ended
    /\ server = SystemAddr(server.port) \/ sysOn

=============================================================================

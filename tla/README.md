# JammVPN in TLA+

Specifications of the parts of JammVPN (a Windows VPN client in Rust with a
local proxy, rule-based routing and per-application split tunnelling) whose
correctness depends on the order in which things happen: tasks that share a
cache, commands that overlap an `await`, timeouts that race an answer, a driver
that fails in the middle. TLC checks the modules on small instances, TLAPS
proves the main invariants for every value of the constants.

## 1. The system and its parts

| Part | Code | State | Operations | Hard about it |
|---|---|---|---|---|
| FakeIP allocator | `crates/net/src/fakeip.rs` | two maps, a cursor | `allocate`, `domain_of` | a ring that wraps and evicts; two maps that must stay inverse |
| DNS resolver | `crates/net/src/dns/mod.rs` | cache of `InFlight`/`Ready` entries | `resolve` | single flight, lost wake-ups, guard timeout against a late answer, a leader whose future is dropped |
| Routing engine | `crates/net/src/engine.rs` (`Engine::route`), `crates/core/src/routing` | none between calls | `route`, `resolve_target` | lazy resolve in the middle of a rule list, blocks that cannot be tested, FakeIP reversal, fallback |
| Local proxy | `crates/net/src/engine.rs` (`serve_routed`, `handle_http`, `connect_with_retry`, `connect_routed`, `serve_transparent_redirect`), `inbound.rs` | semaphore, engine in an `ArcSwap`, one task per connection | accept, handshake, dial, relay, reload | every way a task may end; timeouts around timeouts; a reload between accept and dial; an accept loop that ends by itself |
| Connection registry | `crates/net/src/conn.rs` | table of live connections, a kill signal each | `register`, `drop_connection`, `Drop` | a kill before anybody waits for it |
| Proxy control | `app/src-tauri/src/main.rs`, `crates/cli/src/lib.rs` (`MultiSocks`, `ProxyController`) | `ProxyState`, `SysProxyState`, the accept tasks | `proxy_start`, `proxy_stop`, edits with reload, the system-proxy switch | check, `await`, store; two flags that decide who clears the registry; a listener that is gone while the slot still holds it |
| System proxy | `crates/platform-windows/src/sysproxy.rs` | three registry values | `set`, `clear` | one of several writes fails; the process ends |
| Split control | `main.rs` (`split_apply`, `split_clear`, watcher), `lib.rs` (`WinpkSplitController`) | `SplitState` | apply, clear, poll | overlapping applies; a join under a lock |
| WinDivert capture | `crates/platform-windows/src/windivert/mod.rs` | shared handle, capture thread, injector | receive, recover, reopen, inject, `Drop` | a filter nobody drains cuts the machine off; three holders of one handle |
| UDP ASSOCIATE | `crates/net/src/udp.rs`, UDP sessions of `outbound.rs` | table of flows, a bounded queue each | datagram in, reply, idle, end of the control connection | a full queue is taken for a dead flow; a `select!` that drops a half-read packet |
| TUIC, Hysteria2 | `crates/net/src/{tuic,hysteria2}` | one QUIC connection in a cell, table of flows by id, partial packets | open, associate, fragment, demultiplex | ids that wrap, one slow flow against all others, a lost connection |
| Userspace netstack | `crates/net/src/netstack.rs` | slots with sockets, flow tables, abandoned sockets, one driver | inject, poll, relay, abort, remove | handles that are reused, wake-ups between look and wait, two idle timeouts and a cancel that can be lost |
| Outbounds (TCP) | `outbound.rs`, `from_profile.rs`, `vless.rs`, `trojan.rs` | the layers of a stream | dial step by step, read, write, flush, shut down | a request left in a buffer, an answer's head cut anywhere, servers that disagree |
| Ciphered streams | `shadowsocks/`, `vless_encryption/` | keys, nonces, a sealed buffer, the stage of the reader | seal, open, rekey | partial writes, a nonce at its limit |
| REALITY | `reality/`, `reality_transport.rs` | handshake, transcript, sequence numbers, buffers | handshake, verify, records | who is at the other end; the order and cutting of the server's messages |
| Vision | `vision/` | modes of both directions, padding, filter, deframers | pad, unpad, switch, read, write | the switch from the session to bare TCP with bytes on the way |
| Configuration store | `crates/cli/src/{lib,store}.rs`, `crates/core/src/config.rs` | the database, a copy per command | load, change, save, migrate | whole-config saves that overlap, also with a migration; an unreadable database taken for an empty one |
| Process attribution | `crates/platform-windows/src/winpkfilter/attribution.rs` | cached tables with ages | `resolve` | forced refresh against its cooldown |
| WireGuard | `crates/net/src/wireguard`, `wgserver.rs` | boringtun's | tunnel, relay | timers of an external crate |
| Input | link parsers, geo databases | none | parse, look up | formats |
| The rest | self-update, autostart, DPAPI, WFP driver, UI | the operating system's | | I/O |

How they meet: the UI calls the commands of `main.rs`; `proxy_start` builds an
`Engine` per listener and spawns `serve_routed`; each connection takes a
snapshot of the engine, asks `Engine::route`, which asks the FakeIP allocator
and the DNS resolver, and dials an outbound, which builds a stream in layers or
a UDP session. An edit of the rules swaps the engine. `split_apply` builds another engine under a netstack that is fed by the
capture thread. The commands share only the slots in Tauri's state and the
database; connections share the resolver's cache, the semaphore and the
registry.

## 2. The modules

Every variable and action carries the name of the field or function it stands
for; `PROJECT.json` gives the lines. Actions are cut where the code can be
interleaved: at an `await`, at the release of a lock, at a step of another
thread. What runs under one lock, or without an `await` on the only thread that
touches the state, is one action.

**FakeIp** — `allocate` and `domain_of` under the mutex of `Inner`. An address is
its offset in the range; `Count` is the size of the range. `fresh` and `given`
number the allocations so that "oldest" can be said.

**DnsResolver** — one process per call of `resolve`, one action per piece between
two awaits: the look at the cache (hit, join, lead), the creation of the
`Notified` future after the lock is gone (`Arm`; before it a notification is
lost), the publication, `notify_waiters`, the guard timeout. A query yields a
set of addresses, the empty set for every failure. `Drop` models the
`tokio::time::timeout` around `handle_http`, which drops a caller at an await.
Time is relative: `Tick` ages all timers and cannot pass one that is due.

**Routing** — `Engine::route` as a loop over the rule list, one step per rule and
one for the resolver's answer. A criterion is the set of hosts or addresses it
matches, `Absent` where the rule has none; the reference (`IsFirst`, `Applies`,
`Untested`) says what the list means without the loop. `resolve_target`, the
synchronous loop over the same list that does not resolve, stands beside it. `MCRouting`
gives the shapes of rules. A fake address whose binding is gone (an engine rebuilt,
engine.rs:224-236) is dialled like any other address; the FakeIP table is a constant
of the module.

**ProxyServer** — the life of a client connection: permit, first byte, handshake
or HTTP head, route, dial with attempts and fallback, reply, registration,
relay, end. What the client speaks is its `kind` (SOCKS5 CONNECT, UDP ASSOCIATE,
HTTP, redirected). `End` is the drop of the task: the permit goes back and the
`ConnGuard` takes the entry out of the registry. An error of `accept` ends the loop of
its port (engine.rs:605, 829) and leaves the connections running. A connection takes
the engine that is current when it is accepted, a redirected one the engine its server
was started with (engine.rs:818-836). An engine is what it decides (`policy`). `MCProxyServer` gives the shapes of decisions.

**ProxyControl** — `proxy_start` from its check of the slot to its store, one
listener after the other (load the config and build the engine, bind), and the
synchronous commands as one step each. The slot holds the start whose
`MultiSocks` is in it. Overwriting the slot detaches the accept tasks of the old
one (dropping a `JoinHandle` does not abort). An accept error ends a listener and
leaves slot and registry as they are (`ended`). `enabled` and `server` are the
registry; each write may fail. A start writes the address of its listener
(lib.rs:2009: an unspecified one becomes 127.0.0.1), the user's
switch always 127.0.0.1 and the port (main.rs:194). `Exit` is the end of the process.

**SplitControl** — `split_apply` and `split_clear` over `SplitState` with the lock
and the join of the capture thread, the thread's loop with its recovery, the
holders of the handle (`shared`, the thread, `injecting`), the `out_task` and the
watcher's polls. A controller is named after the command that started it.
Packets are left out; a packet and the timeout of `recv_wait` are the same step.

**ConfigStore** — every command that edits the configuration: it loads all,
changes a part of its copy, saves all. A load is a row of `SELECT`s without a
transaction (first the lists, then the single values), a save is one
transaction. The synchronous commands follow each other on the UI thread, the
asynchronous ones - downloads of subscriptions and share links imported on a
worker - wait between load and save. The migration of the old file goes step by step
in the load of whichever command finds no database (`NoDatabase`, `ReadOld`,
`MigrateSave` or `MigrateFails`, `RenameOld`), so that two can be in it; loads and
saves that fail and a restart are actions too. A name has a base, a number, and " · "
in it or not (`Dotted`), which is what `clear_subscription_nodes` looks at. `current` and
`overlap` record which copies are out of date.

**VisionCodec, VisionStream, VisionPlain, Vision** — the Vision stream over REALITY
and over VLESS encryption. Data are cells: an inner TLS record is a header and a
rest, a padded block is UUID, header, content and padding. A cell of kind L is no TLS
but looks like the start of a hello (one byte 0x16 at the end is enough,
tls_handshake_util.rs:105-122) and is held in the deframer like one; `Held` is what is
left there. The UUID is one cell: the way the unpadder takes a first read of fewer
than 16 bytes (vision_unpad.rs:101-104) is left out. Codec holds the
deframer, the filter, padding and unpadding; the two stream modules are the
methods of the streams as operators on a record; Vision puts one at each end of
a TCP connection that holds `cap` cells, with a relay at each end.

**Pipe** — the abstract specification of a proxied connection: in each direction
what is written is read, once and in order, and the end is told after all of it;
a direction may break and is then silent. Vision and Tunnel implement it
(`IsPipe == P!Spec`), each with its own `sent`, `got`, `shut` and `ended`.

**Wire, Framing, Reality, Dialer, ProxyPeer, Tunnel** — one TCP connection through
an outbound. `Wire` has frames of cells and symbolic cryptography (a sealed frame
opens under its key and nonce only); `Framing` the streams of Shadowsocks,
Shadowsocks 2022 and VLESS encryption; `Reality` the handshake with the
verification of the server and the record layer; `Dialer` the way from a profile
to the steps of a dial; `ProxyPeer` the server, which is external and speaks what
its configuration names; `Tunnel` runs them: each step of the dial reads and writes
whatever number of cells TCP takes, the server may cut its flight anywhere, send a
NewSessionTicket, or sign with a key that is not the certificate's, and the stream that results is used by an
application and a target. With `flow` Vision the tunnel ends at the handover, where
module Vision begins.

**Packets, QuicUdp, UdpRelay** — an association with its flow table and tasks over
eight kinds of outbound. `Packets`: fragments, reassembly, the replay window and
the framing of datagrams in streams. `QuicUdp`: the QUIC connection that all clones
of an outbound share, with its cells, its table of ids and the reading task.
`UdpRelay`: the loop, the tasks, and a network that loses, delays, reorders and
duplicates. A destination answers with the pieces it was sent, so that a reply
tells what it is an answer to. An id that is given again finds whatever is left of its
former flow: answers on the way, partial packets, the reading task that waits to hand
over and then removes the entry (tuic/udp.rs:114-115); `late` marks the flows that got
their id in such a state. A task that writes to a stream is in a state of its own
(`sending`), which it need not leave. Two simplifications: a packet number counts the
datagrams of its flow (the code has one u16 for the manager, tuic/udp.rs:77, so that
the model has no wrap of it), and garbage from the client is dropped (in the code a
four-byte datagram of ATYP 3 runs over its end, udp.rs:43, 71).

**Netstack** — slots are numbers that are reused as in smoltcp's `SocketSet`; the
driver polls and removes (one critical section), notifies, sleeps; `relay_tcp` and
the two loops of `relay_udp` are cut at their awaits. Of TCP the opening,
half-closes, resets and retransmissions are kept, with incarnations to tell two
connections of one port apart; payload is left out. A load with `stalls` has an
outbound whose `send` need not return. smoltcp and the applications
are external, and an error of `out_tx`, which ends the driver, is left out.

`*_proofs` hold the theorems about the module they extend.

## 3. The runs

| Run | Instance | Shows |
|---|---|---|
| `fakeip` | 5 domains, 3 usable addresses, 9 fresh allocations: the ring wraps three times | `MapsAreInverse`, `BindingOutlivesRange`, `EvictsOldest` |
| `dns_resolver` | 3 callers of one name (leader, waiter, late-comer), one of which may be dropped; query 2, guard 3, lives 3 and 1 | `SingleFlight`, `GuardOutlivesFlight`, `FailureIsRecent`, `ResolveReturns` |
| `routing` | all lists of up to 3 of 7 rule shapes, literal and fake targets, every answer | `FirstMatch`, `NoBypassByDnsFailure`, `ResolvesOnlyIfNeeded`, `ResolveTargetAgrees` (where the synchronous loop may stand in for `route`) |
| `proxy` | 2 connections of all kinds, one permit per port, 2 attempts, one reload, accept errors | `EndingsAddUp` (permits, registry), `DialsAsRouted` (own engine, fallback tried), `HangingClientLeaves` |
| `control` | 2 listeners, one of them not on 127.0.0.1 and with an `accept` that can fail, 2 overlapping starts (symmetric), one edit, registry errors, exit | `NoOrphanListener`, `RulesAreLive`, `SysProxyPointsToLive` |
| `split` | 2 overlapping applies and a clear, 2 errors to recover, 3 failures to give up | `NoZombieCapture`, `NoBlackhole`, `CommandsReturn`, `GiveUpIsTold` |
| `config` | 3 commands on the UI thread and one worker, 2 subscriptions at one host, 2 bases of names, one with a dot, 2 key pairs, up to 3 nodes and 2 rules | `ConfigIsSound` (a copy is current unless somebody saved; names and tags identify), `KeysAgree`, `ManualNodesSurvive` (up to the losses it names) |
| `vision` | 11 dialogues (TLS 1.3 with and without XTLS, TLS 1.2, no TLS, TLS behind a prefix, broken TLS, data that look like the start of a hello), both layers, TCP of 3 and of 10 cells | `StreamsAreSound` (fails only where the code gives up, holds back only what may be the start of a record), `IsPipe` and `AllArrives` for all that is not held back |
| `tunnel` | 32 scenarios: every outbound with a server that agrees, wrong keys, stale REALITY keys, refused requests, records cut in one, four or inside a message, a session ticket, a certificate with the right HMAC and another signer, old clocks; 3 or 8 cells of TCP; a key is good for 3 records | `LayersStayInStep` (no key, nonce or buffer gets out of step; nothing held back at the handover), `OnlyTheServer`, `IsPipe`, `AllArrives` |
| `udp` | 8 kinds of outbound, 4 scripts (two flows in fragments, a queue that overflows, a packet too long, strangers at the relay socket), for TUIC a fifth in which ids come round while answers wait; 5 flows, 2 ids, queues of 1, 2 arrivals, 1 fault | `TablesAgree` (a live flow is found under its id unless it is late), `RepliesAreSound` (genuine, once), `NothingIsStuck` (but in a write) |
| `netstack` | 6 loads (two sources at one destination, a port used twice with two faults, replies that fill a buffer, both protocols; two over an outbound that may stall), 2 slots, 2 tasks, 2 packets waiting, buffers of 1 | `SocketsAreAccountedFor`, `ApplicationsAreTold`, `NoLostWakeUp`, `HalfEndedFlowEnds`, `AbandonedAreRemoved` |

The bounds are the least at which every case occurs: the smallest range that
evicts while another domain is newer, the third caller that arrives between a
publication and its notification, the rule list with an untested rule between a
match and the default, the second connection that finds the port full, the
second listener that lets both of two overlapping starts succeed, the second
apply that finds the first one's controller in the slot, the third command that
loads between the load and the save of another, a TCP smaller than a record so
that every write is partial, five flows with two ids, so that ids come round while
answers of a former owner wait, a slot that is
used a second time while its first owner still runs. One name, one reload and one
edit suffice because entries, engines and rule versions do not interact with each
other of their kind. The theorems remove the bounds where they apply.

The invariants of the runs from `proxy` on that bundle several statements are
conjunctions of named parts, the type invariant among them; in the modules with a
proof module the type invariant is part of a theorem. Every property, and in
a bundle every part, is also run against a defective variant of a definition (the
operators commented "Defect"), which it rejects.

One run is expected to fail. `udp_cut`: `spawn_flow` (udp.rs:221) polls
`session.recv()` in a `select!` with the queue of the client's datagrams; for Trojan
and VLESS `recv` reads length and payload from a stream, a datagram in between drops
what was read, and what follows is taken for a packet. outbound.rs:371 says `recv`
takes the next answer of the target, and netstack.rs:446-447 says why the netstack
has no such `select!`. `RepliesAreGenuine` in the run `udp` shows that replies are
genuine as long as this has not happened.

### What the code does otherwise than it says

Met while modelling, part of the modules as they are, without a run of their own
(the properties of the runs leave these cases out, or state what holds in spite
of them):

* dns/mod.rs:94-95, after the guard timeout "Ready уже там": when the HTTP timeout
  drops the leader its `InFlight` entry stays, and waiters go round for ever.
* engine.rs:522, 625: the handshake timeout encloses the whole of `handle_http`, an
  HTTP tunnel is cut after ten seconds; three attempts do not fit into them either,
  so that a fallback is not dialled when a node hangs.
* engine.rs:605, 829: an accept error ends the server of a port; slot, status and system
  proxy do not notice. main.rs:194: the system-proxy switch writes 127.0.0.1 also when
  the listener is bound to another address, where nothing answers
  (`SysProxyPointsToLive` names both).
* engine.rs:50-51, 848: `serve_transparent_redirect` ignores `Routed.fallback`.
* main.rs:21, 145-151: two starts pass the check, the second store forgets the first
  `MultiSocks`. main.rs:172-173, 377: update, restart and quit leave the system proxy
  set. main.rs:26, windivert/mod.rs:331: after `MAX_REOPEN` failures the thread ends
  and the controller stays in the slot; the watcher's notice (main.rs:695-701) reads as
  if the capture had recovered. main.rs:685: an empty slot counts as healthy.
* lib.rs:852 "Ручные ключи остаются" and main.rs:333 say manual nodes remain; lib.rs:866:
  `clear_subscription_nodes` removes every node with " · " in its name, also a manual one
  that a load made distinct so. lib.rs:147-158: of two commands that migrate at a time
  the later one saves what it read of the old file, or nothing when the file is already
  renamed, over what the first has saved since. lib.rs:156: a migration that is interrupted leaves an empty
  database that hides the old file. lib.rs:148: an unreadable database is an empty
  configuration, which the next save makes true.
* vision_stream.rs:628: the first read decrypts every record it got and fails on raw
  bytes behind a Direct command. :1268-1273 says that non-TLS data that end like a
  record would hang; neither flush (:1481) nor shutdown (:1497) sends them, so that the
  peer sees the end without them, and a write that is held back whole returns zero
  bytes, which the relay takes for a failure. vision_stream.rs:548: the session takes every write,
  so an upload faster than TCP is buffered without bound (common.rs:80).
* reality_client_connection.rs:584-601: a handshake message split over two records is
  not put together. :838: a NewSessionTicket runs into `unreachable!`.
* `security=tls` of Trojan and VLESS profiles is dialled in plain TCP.
* tuic/config.rs:71: the tunnel in the `OnceCell` outlives its connection and is not
  replaced. udp.rs:34, 168: a full queue replaces the flow instead of dropping the
  datagram. udp.rs:181: `connect_udp` is awaited inside the loop, without a timeout of
  its own for streams; nor have the writes of a datagram to them (outbound.rs:339-355,
  awaited at udp.rs:225 and netstack.rs:462): where a server does not read, the flow
  stays in its table. tuic/udp.rs:114-115: the entry that is removed after a failed
  hand-over may by then be a new flow's, and late answers and fragments of an id reach
  its next flow. udp.rs:43, 71: a datagram of ATYP 3 without a length byte is indexed
  past its end. A rejected or duplicate packet of Shadowsocks 2022, or an ICMP
  error, ends its flow; two server sessions that alternate reset the replay window.
  The association belongs to the first local sender, also of garbage.
* netstack.rs:524: with two sources at one UDP destination the first socket takes the
  datagrams of both, and its source gets the answers. :367: an application that
  half-closes early is in CloseWait, which `wait_established` does not accept, and is
  reset after `ACCEPT_TIMEOUT`. :459, :463: one direction of a UDP flow may be over for
  another `UDP_IDLE` while the flow keeps its place.

Also visible in the modules: a reload stops at the first listener whose engine
cannot be built and the rest keep the old rules (lib.rs:2041, `missed` in
ProxyControl); a rule saved while a start is in flight does not reach the new
listener (same); `set` writes `ProxyEnable` before `ProxyServer`, so that an error in
between enables an old address (`regOk`); a kill between `register` and the relay is
lost (conn.rs:105); two overlapping `split_apply` do run two captures until the second one stores; an injector's
clone keeps a filter installed that windivert/mod.rs:312 takes for removed.

## 4. Fairness

* `DnsResolver`: every caller that can go on does (the runtime polls woken tasks)
  and time passes. A dropped caller is exempt, and `ResolveReturns` promises
  nothing once one was dropped, because then it is false.
* `ProxyServer`: the server's own steps, `Engine::route` among them, and time. Nothing
  is assumed of clients, nodes or the user: their silence is ended by a timeout.
* `SplitControl`: commands, threads and sends go on: `recv_wait` returns within
  200 ms, a reopening is tried every two seconds, `WinDivertSend` returns, the
  watcher polls every two seconds. A start ends one way or the other. The store
  of a controller is strongly fair: other holders of the lock come one click of
  the user at a time, so that it is free over and over. Nothing is assumed of
  what a receive or a reopening yields.
* `Vision`, `Tunnel`: the relays poll again when TCP wakes them. Weak fairness of a
  relay (Vision) or of the whole connection (Tunnel, whose servers either go on or
  close); the guards are written out in place of `ENABLED`.
* `UdpRelay`: the association and its tasks go on; lookups, sends on sockets and the
  steps of the QUIC tunnel end in time. The stream of a Trojan or VLESS server may take
  for ever to open and to take a datagram, for there the code has no timeout. Nothing is
  assumed of what arrives.
* `Netstack`: the driver, the timers and the loops of UDP flows. A `send` on a socket
  returns; one on a stream that may stall need not. Nothing is assumed of applications
  or answers.

The other modules have no liveness property.

## 5. The theorems

TLAPS proves the following for every value of the constants that satisfies the
named assumptions of the module. Finiteness is assumed where something is counted, of the
connections in ProxyServer, the slots and the tasks in Netstack and the flows in
UdpRelay, and nowhere else:

* **FakeIp** (`Count >= 3`, as the constructor demands): `MapsStayInverse`,
  `BindingsOutliveRange`, `EvictionTakesOldest`. Inverse maps are not inductive
  by themselves for the other two: the invariant adds that the offsets below the
  cursor are bound (`BoundPrefix`), that the number of the allocation behind an
  offset follows from its distance to the cursor (`StampsFollowRing`) and that a
  domain without a binding lost it a whole range ago (`EvictedLongAgo`).
* **DnsResolver** (`GuardExtra > 0`, `NEGATIVE_TTL <= POSITIVE_TTL`):
  `FlightsAreSingle`, `FailuresAreRecent`, `GuardsOutliveFlights`. The last rests
  on `WaiterIsYounger` (nobody waits longer than the flight has lasted) and
  `LeaderIsTimely`; the second on `NegativeEntryIsRecent`.
* **Routing**: `RouteIsFirstMatch`, `ResolveIsLazy`, `DnsFailureOpensNothing`, from
  the loop invariant `Undecided`/`Decided`: above the current rule none applies,
  and a block is outstanding exactly if one of them could not be tested.
  `DnsFailureOpensNothing` is about connections that no rule decides: a rule below an
  untested block that applies without an address keeps its priority, as the comment
  of `route` has it. `SyncDecidesTheSame`: `resolve_target` comes to the same decision
  for a target with an address of its own that is not fake, or if no rule asks for one.
* **ProxyServer** (finitely many connections): `BooksAreRight`, `RoutesAreKept`. The
  books (permits, registry) are inductive together, accept errors included; the routes need
  `Progress`: what has been dialled and said for a connection follows from where its
  task is, the rule's node in the first round and the fallback only in the second.
* **ProxyControl**: `ListenersAreNotOrphaned`, `SystemProxyIsLive`,
  `SavedRulesAreLive`. Under all three lies `Owners`: an address that listens
  belongs to a `MultiSocks` that is still there, and its listeners listen. On top,
  the slot stays empty while a start is in flight as long as none has overlapped
  (`OneAtATime`); the port in the registry has somebody who will clear it
  (`ClearedWithOwner`), and behind it is a listener unless an accept error ended it, at
  the very address unless the user's switch, which always names 127.0.0.1, is on; starts in flight and the slot have the saved rules unless
  an edit missed them (`RulesCurrent`).
* **SplitControl**: `CapturesAreOwned`. `NoZombieCapture` needs that a command has a
  controller in hand exactly while it stops it (`HoldersStop`).
* **ConfigStore** (`None` is no configuration, title, key or label): `ConfigurationIsSound`,
  `HandedKeysAreStored`, and of a step `ManualNodesStay`. `TaskOK` says what a task
  holds half way through a load and after it, `Orderly` that wherever a configuration
  is kept its tags differ and a manual node has none; without the second an update of
  a subscription could take a manual node along. `ManualNodesStay` compares whole names
  and allows what the code does: `remove_node` takes one, `clear_subscription_nodes` those
  with a dot, a save from an outdated copy and an empty database before the migration
  take others. It rests on `PrefixStays` and `Stable`: renaming is decided by the nodes
  in front, so that those which stay in their order keep their names. That the loops over nodes, titles
  and tags make names distinct holds for lists of every length.
* **Netstack** (no fewer slots than tasks: smoltcp's socket set grows on demand, the
  model's is fixed): `EverySocketIsAccountedFor`, `EveryApplicationIsTold`,
  `NoWakeUpIsLost`. To `OneOwner` and `FlowTables` the invariant adds what a socket
  and a packet on its way know of the application (`ConnectionsOK`), what a task knows
  of its socket (`TasksOK`), that work is done or the driver kicked (`Noticed`), that
  a slot is left for every task to come (`SlotsSuffice`) and that a dropped stack
  leaves nothing (`DroppedIsEmpty`). A poll is two folds, over the packets and over
  the sockets; `ReceivedIn` and `PolledIn` carry `StackOK` through them.
* **UdpRelay** over QuicUdp and Packets (every queue, window, fragment and
  range of ids has room for one, and there is a number for every flow a script may
  open): `TheTablesAgree`, `RepliesStaySound`. `TablesInv` is the first
  invariant: the form of every part of the state, and `Agree`: while the reading task
  lives the table of the manager and the ids of the flows that live are inverse to each
  other but for the flows that are `late`, which got an id again while an answer, a
  fragment or the waiting task of its former flow was left. The second, for flows that
  are not late and, of streams, not cut (`udp_cut` shows what these deliver),
  `RepliesInv`, says that there is a history `H` - for each flow the numbers of the
  datagrams it was given, in their order - that accounts for every answer. The flow sent
  a prefix of its list and its queue holds the rest (`QueueOK`), no number is in two
  places of `H` (`Apart`), and since a payload names its number an answer is known by
  its flow and its place. Then, for each kind of transport, an answer that may still be
  given was not given yet: while the server keeps its session the replay window refuses
  the number of every answer that was (`ReplayOK`); the wire of a stream holds the packets not read so far one after the
  other, the first perhaps begun (`Framed`); a fragment in the air is not among the
  fragments collected, and neither it nor these belong to an answer that is queued,
  waits or was given (`PacketsOK`, `AnswersOK`). The lemmas below it are about the
  operators: what `accept` takes it did not see before and sees from then on, though
  the window moved (`AcceptOnce`); all fragments put together are the payload
  (`JoinedIsWhole`); what `reassemble` keeps, gives up and completes (`ReassembleCases`).

The type invariant is a conjunct of the theorem `IInvHolds` in ProxyServer,
ConfigStore and Netstack and of `TheTablesAgree` in UdpRelay, the theorem
`FakeIpTypesHold` for FakeIp and `TypesHold` in the others. `Dns_proofs` holds the
theorems of both FakeIp (whose specification is named `FakeIpSpec`) and DnsResolver,
which share no variable.

The prover cannot apply the library's induction theorems, whose parameter is an
operator. Where an invariant needs what a loop computes, the induction is done by
hand on a set: the arguments for which the claim holds contain the empty one, and
with each one its successor, so they are all of them (`SetInduction`, `UpTo`, from
`LeastNatural`: a set of naturals with an element has a least one). `FoldExists` and
`LoopExists` show in the same way that the function a recursive definition chooses
exists; from then on it can be unfolded. `NumberedIsNew` is a pigeonhole: of
`Cardinality(used) + 1` numbered names one is not in use.

A proof attempt corrected Netstack: two arms of a CASE overlapped, which TLC reads
as the first and TLA+ leaves open; the arms are now disjoint. Another corrected
UdpRelay: datagrams without a payload are alike, so that two empty answers of one
destination are counted as the same one twice. `DeliveredOnce` now speaks of answers
with a payload; no script of the run sends two empty datagrams, which is why TLC did not
notice. And `With` in Packets stands for the operators of TLC's module that the prover
does not know.

Only model-checked:

* the liveness properties (`ResolveReturns`, `HangingClientLeaves`, `NoBlackhole`,
  `CommandsReturn`, `GiveUpIsTold`, `AllArrives`, `NothingIsStuck`, `HalfEndedFlowEnds`,
  `AbandonedAreRemoved`), which are out of the prover's reach;
* Vision and Tunnel, the refinement of `Pipe` included: what they read and write
  is defined by RECURSIVE operators over cells, for which tlapm has no SMT backend
  (`StreamsAreSound`, `LayersStayInStep`, `OnlyTheServer` are their invariants).

## 6. Not modelled

Bytes: the layout of headers, the ciphers, the parsers, the geo files and the DNS
codec have no order of events to get wrong, and a model would repeat them; where a
protocol is modelled its messages are terms and frames. QUIC, smoltcp, boringtun,
SQLite and the drivers are external. In the modelled parts: byte counters, logs, the
wording of notices, TCP streams of TUIC and Hysteria2 (users of the tunnel only), TCP
payload in the netstack. Whole parts:
process attribution, the split decision, the WinpkFilter backend of the split,
WireGuard and the control of its local server, URL tests, the operating-system parts
and the UI (`PROJECT.json` gives the reason of each).

## 7. Plan

Done, in this order: FakeIp, DnsResolver, Routing, ProxyServer, ProxyControl,
SplitControl; ConfigStore, Vision over Pipe, Tunnel over Pipe, UdpRelay, Netstack.

Next, most important first:

1. **ProcessResolver** — cached tables with ages against the cooldown: how long a
   connection can be attributed to nobody or to an earlier owner of its port.
2. **Client** — composition of DnsResolver and ProxyServer: the dropped HTTP caller as
   the source of `Drop`, the outcome of a dial from `Tunnel`.
3. The WinpkFilter event loop with its adapter modes, the split decision and the
   domain patterns as pure operators against a reference.
4. The control of the local WireGuard server, the same slot pattern as ProxyControl.

## 8. Running it

In this directory, `tlc -config <cfg> <module>` checks a run (`PROJECT.json` lists
them; the slowest take two or three minutes with two workers) and `tlapm <module>.tla`
checks the proofs of a `_proofs` module.

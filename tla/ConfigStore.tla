---------------------------- MODULE ConfigStore ----------------------------
(***************************************************************************)
(* The configuration on disk and the commands that edit it (crates/cli:    *)
(* lib.rs, store.rs; crates/core: config.rs, secret.rs).  Every command    *)
(* loads the whole configuration, changes a part of its copy and saves the *)
(* whole copy.  The synchronous commands follow each other on the UI       *)
(* thread; the asynchronous ones wait for downloads between their load and *)
(* their save, or run on a worker thread.                                  *)
(*                                                                         *)
(* A load is a row of SELECTs without a transaction: first the lists of    *)
(* servers, subscriptions and rules, then the single values.  A save is    *)
(* one transaction.  What a command downloads is chosen when it saves: it  *)
(* depends on nothing the tasks share.                                     *)
(***************************************************************************)
EXTENDS Integers, Sequences, FiniteSets, SequencesExt

CONSTANTS
  UI,          \* the thread of the synchronous commands
  Workers,     \* the asynchronous commands under way
  Urls,        \* subscriptions
  Titles,      \* names a provider or the user may give a subscription
  Host,        \* sub_host: the host in a URL
  Bases,       \* names of nodes as the links spell them
  Dotted,      \* those that have a " · " in them
  RuleIds,     \* rules
  Preset,      \* the rules of a preset
  Keys,        \* key pairs local_wg_ensure may generate
  Manual,      \* the origin of a node that came from no subscription
  None,        \* Option::None, a file that does not exist
  MaxCommands, \* bound on the commands of a behaviour
  MaxServers,  \* bound on the nodes of a configuration
  MaxRules     \* bound on the rules of a configuration

Tasks == {UI} \cup Workers

ASSUME ConfigStoreAssumption ==
  /\ UI \notin Workers /\ Manual \notin Urls
  /\ Host \in [Urls -> Titles]
  /\ Preset \in Seq(RuleIds) /\ Dotted \subseteq Bases
  /\ Urls # {} /\ Bases # {} /\ None \notin Titles \cup Keys
  /\ MaxCommands \in Nat /\ MaxServers \in Nat /\ MaxRules \in Nat

VARIABLES
  db,       \* config.db
  json,     \* config.json of the versions before SQLite
  copy,     \* the copy a task works on
  pc,       \* where a task is
  commands, \* number of commands begun
  \* history
  current,  \* whether a task's copy is what the files held, and still hold
  handed,   \* keys of the local WireGuard server that were handed out
  overlap    \* whether a copy that was not current has been saved or handed out

vars == <<db, json, copy, pc, commands, current, handed, overlap>>

\* A name or a tag: a base, and the suffixes that made it distinct.
Labels == Seq(Bases \cup Titles \cup Urls \cup {Manual} \cup Nat) \ {<<>>}

Servers == [from : Urls \cup {Manual}, name : Labels, tag : Labels \cup {None}]
Subscriptions == [url : Urls, tag : Labels \cup {None}]

\* The settings that have a command of their own and are kept as they are:
\* AppConfig.options is the set of those that have been set.
Options == {"connection", "geo", "split", "socks", "upstream"}

AppConfig == [servers : Seq(Servers), subscriptions : Seq(Subscriptions),
              rules : Seq(RuleIds), default_proxy : Labels \cup {None},
              options : SUBSET Options, local_wg : Keys \cup {None}]

\* An option that is absent is not a value.
ASSUME NoneAssumption == None \notin Labels \cup AppConfig

\* AppConfig::default.
Default == [servers |-> <<>>, subscriptions |-> <<>>, rules |-> <<>>,
            default_proxy |-> None, options |-> {}, local_wg |-> None]

Places == {"idle", "lists", "nodb", "old", "loaded", "migrated"}

TypeOK ==
  /\ db \in AppConfig \cup {None} /\ json \in AppConfig \cup {None}
  /\ copy \in [Tasks -> AppConfig]
  /\ pc \in [Tasks -> Places]
  /\ commands \in 0 .. MaxCommands
  /\ current \in [Tasks -> BOOLEAN]
  /\ handed \subseteq Keys /\ overlap \in BOOLEAN

Node(u, b) == [from |-> u, name |-> <<b>>, tag |-> None]

\* Configurations a start may find.
Stored ==
  LET u == CHOOSE x \in Urls : TRUE
      b == CHOOSE x \in Bases : TRUE
      t == <<Host[u]>>
  IN { Default,
       [Default EXCEPT !.servers = <<[Node(u, b) EXCEPT !.tag = t], Node(Manual, b)>>,
                       !.subscriptions = <<[url |-> u, tag |-> t]>>,
                       !.rules = Preset, !.default_proxy = <<b>>] }

Init ==
  /\ \/ db \in Stored /\ json = None
     \/ db = None /\ json \in Stored \cup {None}
  /\ copy = [t \in Tasks |-> Default]
  /\ pc = [t \in Tasks |-> "idle"]
  /\ commands = 0
  /\ current = [t \in Tasks |-> FALSE]
  /\ handed = {} /\ overlap = FALSE

-----------------------------------------------------------------------------
(***************************************************************************)
(* Distinct names and tags.                                                *)
(***************************************************************************)

\* The first of base, base (2), base (3), ... that is not used.
Numbered(base, used) ==
  IF base \notin used THEN base
  ELSE LET n == CHOOSE k \in 2 .. Cardinality(used) + 2 :
                  /\ Append(base, k) \notin used
                  /\ \A j \in 2 .. k - 1 : Append(base, j) \in used
       IN Append(base, n)

\* Vec::retain: the elements of seq that are in S, in their order.
retain(seq, S) ==
  LET Add(done, x) == IF x \in S THEN Append(done, x) ELSE done
  IN FoldLeft(Add, <<>>, seq)

\* Defect: a name made distinct is not compared with the names in use.
NameOfUnchecked(s, used) ==
  IF s.name \notin used THEN s.name ELSE Append(s.name, s.from)

\* The name a server gets: its own if nobody above has it, else one that
\* ends in its address, and in a number if that is taken too.
NameOf(s, used) ==
  IF s.name \notin used THEN s.name ELSE Numbered(Append(s.name, s.from), used)

\* ensure_distinct_node_names.
DistinctNames(servers) ==
  LET Add(done, s) ==
        Append(done, [s EXCEPT !.name = NameOf(s, {d.name : d \in ToSet(done)})])
  IN FoldLeft(Add, <<>>, servers)

\* sub_tag: the tag of a subscription, or its host.
SubTag(sub) == IF sub.tag # None THEN sub.tag ELSE <<Host[sub.url]>>

\* Defect: tags are left as the providers name them.
NoDistinctTags(subs) ==
  [i \in DOMAIN subs |-> [subs[i] EXCEPT !.tag = SubTag(subs[i])]]

\* ensure_distinct_sub_tags.
DistinctTags(subs) ==
  LET Add(done, s) ==
        Append(done, [s EXCEPT !.tag = Numbered(SubTag(s), {d.tag : d \in ToSet(done)})])
  IN FoldLeft(Add, <<>>, subs)

\* sanitize_config; the FakeIP range is one of the options.
Sanitized(cfg) == [cfg EXCEPT !.servers = DistinctNames(@)]

-----------------------------------------------------------------------------
(***************************************************************************)
(* load_config.                                                            *)
(***************************************************************************)

\* The command has its copy.
Ready(t) == pc[t] = "loaded"

\* load_vec: the lists.
Lists(d) == [Default EXCEPT !.servers = d.servers, !.subscriptions = d.subscriptions,
                            !.rules = d.rules]

\* The first SELECTs of a load; other tasks may save before the rest.
LoadLists(t) ==
  /\ pc[t] = "idle" /\ commands < MaxCommands /\ db # None
  /\ pc' = [pc EXCEPT ![t] = "lists"]
  /\ copy' = [copy EXCEPT ![t] = Lists(db)]
  /\ current' = [current EXCEPT ![t] = TRUE]
  /\ commands' = commands + 1
  /\ UNCHANGED <<db, json, handed, overlap>>

\* Defect: the values of the kv table stay at their defaults.
RestForgotten(t) == copy[t]

\* kv_get: the values read after the lists.
Rest(t) == [copy[t] EXCEPT !.default_proxy = db.default_proxy,
              !.options = db.options, !.local_wg = db.local_wg]

\* The rest of the load, and sanitize_config.
LoadRest(t) ==
  /\ pc[t] = "lists"
  /\ pc' = [pc EXCEPT ![t] = "loaded"]
  /\ copy' = [copy EXCEPT ![t] = Sanitized(Rest(t))]
  /\ UNCHANGED <<db, json, commands, current, handed, overlap>>

\* The database cannot be read or a secret cannot be decrypted: an empty
\* configuration is taken.
LoadFails(t) ==
  /\ pc[t] = "lists"
  /\ pc' = [pc EXCEPT ![t] = "loaded"]
  /\ copy' = [copy EXCEPT ![t] = Default]
  /\ current' = [current EXCEPT ![t] = FALSE]
  /\ UNCHANGED <<db, json, commands, handed, overlap>>

\* The database does not exist.  From here on other tasks may create it.
NoDatabase(t) ==
  /\ pc[t] = "idle" /\ commands < MaxCommands /\ db = None
  /\ pc' = [pc EXCEPT ![t] = "nodb"]
  /\ commands' = commands + 1
  /\ UNCHANGED <<db, json, copy, current, handed, overlap>>

\* Nor does the old file.
LoadNothing(t) ==
  /\ pc[t] = "nodb" /\ json = None
  /\ pc' = [pc EXCEPT ![t] = "loaded"]
  /\ copy' = [copy EXCEPT ![t] = Default]
  /\ current' = [current EXCEPT ![t] = db = None]
  /\ UNCHANGED <<db, json, commands, handed, overlap>>

\* The old file exists and is read; one that cannot be read, or that another
\* task renames before, is taken for an empty configuration.
ReadOld(t) ==
  /\ pc[t] = "nodb" /\ json # None
  /\ pc' = [pc EXCEPT ![t] = "old"]
  /\ \E c \in {json, Default} :
       /\ copy' = [copy EXCEPT ![t] = c]
       /\ current' = [current EXCEPT ![t] = c = json /\ db = None]
  /\ UNCHANGED <<db, json, commands, handed, overlap>>

\* It is saved in the database, whatever other tasks have put there meanwhile.
MigrateSave(t) ==
  /\ pc[t] = "old"
  /\ pc' = [pc EXCEPT ![t] = "migrated"]
  /\ db' = copy[t]
  /\ copy' = [copy EXCEPT ![t] = Sanitized(@)]
  /\ current' = [u \in Tasks |-> u = t /\ current[t]]
  /\ overlap' = (overlap \/ ~current[t])
  /\ UNCHANGED <<json, commands, handed>>

\* The save fails, before or after it has created the database.
MigrateFails(t) ==
  /\ pc[t] = "old"
  /\ pc' = [pc EXCEPT ![t] = "loaded"]
  /\ copy' = [copy EXCEPT ![t] = Sanitized(@)]
  /\ \/ db' = db /\ current' = [current EXCEPT ![t] = FALSE]
     \/ db = None /\ db' = Default /\ current' = [u \in Tasks |-> FALSE]
  /\ UNCHANGED <<json, commands, handed, overlap>>

\* The old file is renamed after a save that succeeded.
RenameOld(t) ==
  /\ pc[t] = "migrated"
  /\ json' = None
  /\ pc' = [pc EXCEPT ![t] = "loaded"]
  /\ UNCHANGED <<db, copy, commands, current, handed, overlap>>

\* first_run_of_version: opening the database creates the file.
MarkVersionSeen ==
  /\ db = None
  /\ db' = Default
  /\ current' = [t \in Tasks |-> Ready(t) /\ current[t] /\ copy[t] = Default]
  /\ UNCHANGED <<json, copy, pc, commands, handed, overlap>>

\* The process ends and is started again.
Restart ==
  /\ \E t \in Tasks : pc[t] # "idle"
  /\ pc' = [t \in Tasks |-> "idle"]
  /\ copy' = [t \in Tasks |-> Default]
  /\ current' = [t \in Tasks |-> FALSE]
  /\ UNCHANGED <<db, json, commands, handed, overlap>>

-----------------------------------------------------------------------------
(***************************************************************************)
(* The commands.  A command that reads only, finds nothing to change, or   *)
(* fails to save ends without a write.                                     *)
(***************************************************************************)

Quit(t) ==
  /\ pc' = [pc EXCEPT ![t] = "idle"]
  /\ copy' = [copy EXCEPT ![t] = Default]

EndWithoutSave(t) ==
  /\ Ready(t)
  /\ Quit(t)
  /\ current' = [current EXCEPT ![t] = FALSE]
  /\ UNCHANGED <<db, json, commands, handed, overlap>>

\* protect_config or a statement of the transaction fails: nothing is written,
\* but the file may have been created.
SaveFails(t) ==
  /\ Ready(t) /\ db = None
  /\ Quit(t)
  /\ db' = Default
  /\ current' = [u \in Tasks |-> u # t /\ Ready(u) /\ current[u] /\ copy[u] = Default]
  /\ UNCHANGED <<json, commands, handed, overlap>>

\* store::save.
Save(t, cfg) ==
  /\ Quit(t)
  /\ db' = cfg
  /\ current' = [u \in Tasks |-> FALSE]
  /\ UNCHANGED <<json, commands>>

\* A command that changes cfg to another and hands out no keys.
Edit(t, cfg) ==
  /\ Save(t, cfg)
  /\ overlap' = (overlap \/ ~current[t])
  /\ UNCHANGED handed

Index(s) == 1 .. Len(s)

AddRule(t) == \E r \in RuleIds :
  /\ Ready(t) /\ Len(copy[t].rules) < MaxRules
  /\ Edit(t, [copy[t] EXCEPT !.rules = Append(@, r)])

UpdateRule(t) == \E r \in RuleIds : \E i \in Index(copy[t].rules) :
  /\ Ready(t)
  /\ Edit(t, [copy[t] EXCEPT !.rules[i] = r])

RemoveRule(t) == \E i \in Index(copy[t].rules) :
  /\ Ready(t)
  /\ Edit(t, [copy[t] EXCEPT !.rules = RemoveAt(@, i)])

\* move_rule: a swap with the neighbour above or below.
MoveRule(t) == \E i \in 1 .. Len(copy[t].rules) - 1 :
  /\ Ready(t)
  /\ Edit(t, [copy[t] EXCEPT !.rules[i] = copy[t].rules[i + 1],
                             !.rules[i + 1] = copy[t].rules[i]])

ApplyPreset(t) == Ready(t) /\ Edit(t, [copy[t] EXCEPT !.rules = Preset])

\* set_settings.
SetSettings(t) == \E d \in {s.name : s \in ToSet(copy[t].servers)} \cup {None} :
  /\ Ready(t)
  /\ Edit(t, [copy[t] EXCEPT !.default_proxy = d])

\* A setting is written as the user gave it.
SetOption(t, o) == Ready(t) /\ Edit(t, [copy[t] EXCEPT !.options = @ \cup {o}])

SetConnection(t) == SetOption(t, "connection")
SetGeoPaths(t) == SetOption(t, "geo")
SetSplit(t) == SetOption(t, "split")
SetSocksProxies(t) == SetOption(t, "socks")

\* download_geo loads only after its downloads, in set_geo_paths.
DownloadGeo(t) == SetGeoPaths(t)

\* remove_node: the default proxy is reset with its node.
RemoveNode(t) == \E s \in ToSet(copy[t].servers) :
  /\ Ready(t)
  /\ Edit(t, [copy[t] EXCEPT !.servers = retain(@, {x \in ToSet(@) : x.name # s.name}),
                             !.default_proxy = IF @ = s.name THEN None ELSE @])

\* import of a share link.
ImportLink(t) == \E b \in Bases :
  /\ Ready(t) /\ Len(copy[t].servers) < MaxServers
  /\ Edit(t, [copy[t] EXCEPT !.servers = Append(@, Node(Manual, b))])

\* import_config: a pasted text with one node in it.
ImportConfig(t) == ImportLink(t)

HasUrl(subs, u) == \E s \in ToSet(subs) : s.url = u

AddSubscription(t) == \E u \in Urls, g \in Titles \cup {None} :
  /\ Ready(t) /\ ~HasUrl(copy[t].subscriptions, u)
  /\ LET tag == IF g = None THEN None ELSE <<g>>
     IN Edit(t, [copy[t] EXCEPT
                   !.subscriptions = DistinctTags(Append(@, [url |-> u, tag |-> tag]))])

Untagged(servers, tags) == retain(servers, {s \in ToSet(servers) : s.tag \notin tags})

RemoveSubscription(t) == \E sub \in ToSet(copy[t].subscriptions) :
  /\ Ready(t)
  /\ Edit(t, [copy[t] EXCEPT
                !.subscriptions = retain(@, {s \in ToSet(@) : s.url # sub.url}),
                !.servers = Untagged(@, {SubTag(sub)})])

\* A name with " · " in it: as the link spells it, or made distinct.
HasDot(name) == Len(name) > 1 \/ name[1] \in Dotted

\* Defect: every node without the tag of a subscription goes.
ClearUntagged(t) ==
  /\ Ready(t)
  /\ Edit(t, [copy[t] EXCEPT !.servers = retain(@, {s \in ToSet(@) : s.tag # None})])

\* clear_subscription_nodes: by tag, or by the dot in the name.
ClearSubscriptionNodes(t) ==
  /\ Ready(t)
  /\ Edit(t, [copy[t] EXCEPT !.servers = retain(@, {s \in ToSet(@) :
                /\ s.tag \notin {SubTag(u) : u \in ToSet(copy[t].subscriptions)}
                /\ ~HasDot(s.name)})])

\* The answer of a provider: failure, or a title and nodes; a body that has no
\* link in it is an answer without nodes.
Fetched == [ok : {FALSE}] \cup
           [ok : {TRUE}, title : Titles \cup {None}, nodes : {<<>>} \cup {<<b>> : b \in Bases}]

\* Defect: nodes of the same name are replaced too.
MergedByName(servers, sub, f) ==
  retain(servers, {s \in ToSet(servers) : s.tag # SubTag(sub) /\ s.name \notin {<<b>> : b \in ToSet(f.nodes)}})
    \o [i \in DOMAIN f.nodes |-> [Node(sub.url, f.nodes[i]) EXCEPT !.tag = SubTag(sub)]]

\* The nodes with the tag of the subscription are replaced by the fetched ones.
Merged(servers, sub, f) ==
  Untagged(servers, {SubTag(sub)})
    \o [i \in DOMAIN f.nodes |-> [Node(sub.url, f.nodes[i]) EXCEPT !.tag = SubTag(sub)]]

\* Defect: an answer without a title clears the tag.
TitledAlways(sub, f) == IF f.ok THEN [sub EXCEPT !.tag = <<f.title>>] ELSE sub

\* A title a provider sends becomes the tag.
Titled(sub, f) ==
  IF f.ok /\ f.title # None THEN [sub EXCEPT !.tag = <<f.title>>] ELSE sub

\* The nodes of every subscription that answered are replaced, in their order.
MergedAll(servers, subs, f) ==
  LET Add(done, i) == IF f[i].ok THEN Merged(done, subs[i], f[i]) ELSE done
  IN FoldLeft(Add, servers, [i \in DOMAIN f |-> i])

\* update_subscriptions: all are fetched, then the tags are made distinct, then
\* the nodes of the ones that answered are replaced.
UpdateSubscriptions(t) ==
  /\ Ready(t)
  /\ \E f \in [Index(copy[t].subscriptions) -> Fetched] :
       LET subs == DistinctTags([i \in DOMAIN f |-> Titled(copy[t].subscriptions[i], f[i])])
           all == MergedAll(copy[t].servers, subs, f)
       IN /\ Len(all) <= MaxServers
          /\ Edit(t, [copy[t] EXCEPT !.subscriptions = subs, !.servers = all])

\* update_one_subscription.
UpdateOneSubscription(t) == \E i \in Index(copy[t].subscriptions), f \in Fetched :
  /\ Ready(t) /\ f.ok
  /\ LET subs == DistinctTags([copy[t].subscriptions EXCEPT ![i] = Titled(@, f)])
         all == Merged(copy[t].servers, subs[i], f)
     IN /\ Len(all) <= MaxServers
        /\ Edit(t, [copy[t] EXCEPT !.subscriptions = subs, !.servers = all])

\* import of a URL: a subscription that is there already keeps its tag.
Import(t) == \E u \in Urls, f \in Fetched :
  /\ Ready(t) /\ f.ok
  /\ LET old == copy[t].subscriptions
         subs == DistinctTags(IF HasUrl(old, u) THEN old
                              ELSE Append(old, Titled([url |-> u, tag |-> None], f)))
         i == CHOOSE k \in DOMAIN subs : subs[k].url = u
         all == Merged(copy[t].servers, subs[i], f)
     IN /\ Len(all) <= MaxServers
        /\ Edit(t, [copy[t] EXCEPT !.subscriptions = subs, !.servers = all])

\* Defect: keys are made anew by every call.
NeedsKeysAlways(cfg) == TRUE

\* local_wg_ensure generates keys once.
NeedsKeys(cfg) == cfg.local_wg = None

\* local_wg_ensure, local_wg_set and the commands that hand out the client's
\* configuration or start the server.
LocalWgEnsure(t) ==
  /\ Ready(t)
  /\ overlap' = (overlap \/ ~current[t])
  /\ IF NeedsKeys(copy[t])
     THEN \E k \in Keys \ (handed \cup {copy[u].local_wg : u \in Tasks}) :
            Save(t, [copy[t] EXCEPT !.local_wg = k]) /\ handed' = handed \cup {k}
     ELSE /\ Quit(t)
          /\ handed' = handed \cup {copy[t].local_wg}
          /\ current' = [current EXCEPT ![t] = FALSE]
          /\ UNCHANGED <<db, json, commands>>

\* local_wg_set, after its local_wg_ensure: the upstream node, if there are keys.
LocalWgSet(t) ==
  /\ Ready(t)
  /\ Edit(t, IF copy[t].local_wg = None THEN copy[t]
             ELSE [copy[t] EXCEPT !.options = @ \cup {"upstream"}])

-----------------------------------------------------------------------------

\* What the UI thread runs, and what a worker does.
Synchronous(t) ==
  \/ AddRule(t) \/ UpdateRule(t) \/ RemoveRule(t) \/ MoveRule(t) \/ ApplyPreset(t)
  \/ SetSettings(t) \/ SetConnection(t) \/ SetGeoPaths(t) \/ SetSplit(t) \/ SetSocksProxies(t)
  \/ RemoveNode(t) \/ ImportConfig(t)
  \/ AddSubscription(t) \/ RemoveSubscription(t) \/ ClearSubscriptionNodes(t)

Asynchronous(t) == UpdateSubscriptions(t) \/ UpdateOneSubscription(t) \/ Import(t)
                   \/ ImportLink(t) \/ DownloadGeo(t)

Next ==
  \/ \E t \in Tasks : \/ LoadLists(t) \/ LoadRest(t) \/ LoadFails(t)
                       \/ NoDatabase(t) \/ LoadNothing(t) \/ ReadOld(t)
                       \/ MigrateSave(t) \/ MigrateFails(t) \/ RenameOld(t)
                       \/ EndWithoutSave(t) \/ SaveFails(t)
                       \/ LocalWgEnsure(t) \/ LocalWgSet(t)
  \/ Synchronous(UI)
  \/ \E t \in Workers : Asynchronous(t)
  \/ MarkVersionSeen
  \/ Restart

Spec == Init /\ [][Next]_vars

-----------------------------------------------------------------------------
(***************************************************************************)
(* Properties.                                                             *)
(***************************************************************************)

\* A command works on what the files hold unless another command saved since it
\* began to load or the load failed: only then can its save undo an edit.
CopyIsCurrent ==
  \A t \in Tasks : Ready(t) /\ current[t] =>
    copy[t] = Sanitized(IF db # None THEN db ELSE Default)

NamesDiffer(servers) == \A i, j \in DOMAIN servers : i # j => servers[i].name # servers[j].name
TagsDiffer(subs) == \A i, j \in DOMAIN subs : i # j => subs[i].tag # subs[j].tag

\* No two nodes of a loaded configuration have the same name, also when a name
\* made distinct is the name of another node: names select the outbound.
NamesAreDistinct == \A t \in Tasks : Ready(t) => NamesDiffer(copy[t].servers)

\* No two stored subscriptions have the same tag, whatever titles the providers
\* send and whichever saves overlap: tags say whose nodes an update replaces.
TagsAreDistinct == db # None => TagsDiffer(db.subscriptions)

\* What the next load reads: the old file only as long as there is no database.
Files == IF db # None THEN db ELSE json

\* The nodes that came from no subscription, under the names a load gives them.
Manuals(cfg) == IF cfg = None THEN {}
                ELSE {s \in ToSet(DistinctNames(cfg.servers)) : s.from = Manual}

\* The task t saves a copy that is not what the files hold: another command has
\* saved since it was loaded, or the load had failed.
SavesOutdated(t) == ~current[t] /\ pc[t] \in {"old", "loaded"} /\ pc'[t] # pc[t] /\ db' # db

\* A node that came from no subscription stays, under its name, whatever is
\* updated, imported, added, removed or migrated.  remove_node takes one, and
\* clear_subscription_nodes, of which lib.rs:852 says that manual nodes remain,
\* only those with " · " in their names, which a load itself gives to a name that
\* is there already.  Otherwise nodes are lost in two ways: by a save from an
\* outdated copy, and when the database is created empty before the old file has
\* been migrated.
ManualNodesSurvive ==
  [][LET lost == Manuals(Files) \ Manuals(Files')
     IN \/ lost = {}
        \/ RemoveNode(UI) /\ \E s \in lost : lost = {s}
        \/ ClearSubscriptionNodes(UI) /\ \A s \in lost : HasDot(s.name)
        \/ \E t \in Tasks : SavesOutdated(t)
        \/ db = None /\ db' = Default]_vars

\* The keys of the local WireGuard server that were handed out, to the server
\* or in a client's configuration, are the stored ones unless saves overlapped.
KeysAgree == ~overlap => \A k \in handed : db # None /\ db.local_wg = k

\* What commands work on is sound, whichever loads and saves overlap: a copy is
\* current unless somebody saved meanwhile, names and tags identify.
ConfigIsSound == TypeOK /\ CopyIsCurrent /\ NamesAreDistinct /\ TagsAreDistinct

(***************************************************************************)
(* The inductive invariant behind them.                                    *)
(***************************************************************************)

ManualIsUntagged(servers) ==
  \A i \in DOMAIN servers : servers[i].from = Manual => servers[i].tag = None

\* Wherever a configuration is kept, the tags of its subscriptions differ and a
\* node that came from no subscription has no tag.
Orderly(cfg) == TagsDiffer(cfg.subscriptions) /\ ManualIsUntagged(cfg.servers)

\* A task at p whose copy is c, current if b, while the database holds d and the
\* old file j. Half way through a load the database exists, and unless somebody
\* saved meanwhile the copy has its lists; half way through a migration it has
\* what the old file holds; once it is loaded or migrated it has everything.
TaskOK(p, c, b, d, j) ==
  /\ Orderly(c)
  /\ p \in {"lists", "migrated"} => d # None
  /\ p = "lists" /\ b => c = Lists(d)
  /\ p = "old" /\ b => d = None /\ c = j
  /\ p \in {"loaded", "migrated"} =>
       /\ NamesDiffer(c.servers)
       /\ b => c = Sanitized(IF d # None THEN d ELSE Default) /\ (d = None => j = None)

IInv ==
  /\ TypeOK /\ KeysAgree
  /\ db # None => Orderly(db)
  /\ json # None => Orderly(json)
  /\ \A t \in Tasks : TaskOK(pc[t], copy[t], current[t], db, json)
=============================================================================

------------------------------- MODULE Plugins -------------------------------
(***************************************************************************)
(* The plugin thread: the registry of plugins, the pool of plugin workers, *)
(* start-up with dependency order, hooks for new blocks and for            *)
(* reorganisations, crashes of plugins and of workers, shutdown.  A step of *)
(* PluginManager is executed by the event loop of the plugin thread; what  *)
(* it awaits is a request to a worker, whose reply is handled later.       *)
(*                                                                         *)
(* Plugin code is external: onBlockChange stores something for the block,  *)
(* onReorg drops what is stored from fromBlock on, any of them may throw   *)
(* or take too long.  PluginThread never asks for hot reload, so neither a *)
(* reload nor a second enablePlugin happens.                               *)
(***************************************************************************)
EXTENDS Integers, Sequences, FiniteSets

CONSTANTS
    Files,       \* the plugin files in the order discoverPlugins finds them
    Setups,      \* what the files may hold: kind[p], "ok" or what is wrong with
                 \* p's, and needs[p], the dependencies it names
    Count,       \* workerCount
    Height,      \* the height of the chain when the node starts
    Reindexing,  \* whether the node starts with REINDEX, from a block above 0
    MaxBlocks,   \* bound: blocks indexed
    MaxReverts,  \* bound: reorganisations, the purge at start-up included
    MaxTroubles  \* bound: calls into a plugin that throw or take too long, and
                 \* workers that die

Plugin == {Files[i] : i \in DOMAIN Files}
Worker == 1 .. Count + 2 * MaxTroubles
NoWorker == 0

\* A file that is good, or where it is rejected.
Kinds == {"ok", "header", "body", "metadata", "permissions", "signature", "version"}

ASSUME PluginsAssumption ==
    /\ Files \in Seq(Plugin) /\ Cardinality(Plugin) = Len(Files)
    /\ Setups \subseteq [kind : [Plugin -> Kinds],
                        needs : [Plugin -> SUBSET Plugin]]
    /\ Count \in Nat \ {0} /\ Height \in Nat /\ Reindexing \in BOOLEAN
    /\ {MaxBlocks, MaxReverts, MaxTroubles} \subseteq Nat

VARIABLES
    setup,       \* the plugin files
    state,       \* PluginRegistry: the state of each plugin, "absent" if none
    graph,       \* PluginRegistry: plugin.dependencies, as last built
    workerOf,    \* PluginWorkerPool.pluginWorkerMap
    hosts,       \* workerInfo.plugins
    pool,        \* PluginWorkerPool.workers
    alive,       \* the workers that run; those not in pool are not ready yet
    lastId,      \* nextWorkerId
    events,      \* error and exit events of dead workers still to come
    quit,        \* the workers that ended with exit code 0
    loaded,      \* the worker's loadedPlugins, with the enabled flag
    inbox,       \* messages on their way to a worker
    running,     \* requests a worker works on
    replies,     \* what the event loop of the plugin thread has to handle
    script,      \* what the running method of PluginManager still has to do
    served,      \* the plugins with opcodes and routes
    dead,        \* the plugin thread has ended
    chain,       \* the indexed chain, a sequence of block ids
    notices,     \* blocks whose BLOCK_PROCESSED the P2P thread has not answered
    reorgs,      \* the dispatches of REORG: the plugins still to be told
    waiting,     \* the PLUGIN_REORG the indexer waits for, 0 if none
    reverts,     \* how many reverts there were
    data,        \* what each plugin has stored, a set of blocks
    spent,       \* blocks, faults, timeouts and deaths so far
    crossed,     \* history: blocks whose notice was on its way when reverted
    missed       \* history: plugins not told of a revert

registryVars == <<setup, state, graph, served>>
poolVars == <<workerOf, hosts, pool, alive, lastId, events, quit>>
workerVars == <<loaded, inbox, running>>
indexerVars == <<chain, notices, waiting, reverts>>
history == <<crossed, missed>>
vars == <<registryVars, poolVars, workerVars, replies, script, dead,
          indexerVars, reorgs, data, spent, history>>

PluginState == {"absent", "DISCOVERED", "VALIDATED", "LOADING", "LOADED",
                "ENABLED", "DISABLED", "CRASHED", "ERROR", "UNLOADING"}

\* VALID_STATE_TRANSITIONS, without SYNCING, which nothing sets.
Transitions ==
    {<<"DISCOVERED", "VALIDATED">>, <<"DISCOVERED", "ERROR">>,
     <<"VALIDATED", "LOADING">>, <<"VALIDATED", "ERROR">>,
     <<"LOADING", "LOADED">>, <<"LOADING", "ERROR">>,
     <<"LOADED", "ENABLED">>, <<"LOADED", "DISABLED">>, <<"LOADED", "UNLOADING">>,
     <<"ENABLED", "DISABLED">>, <<"ENABLED", "CRASHED">>, <<"ENABLED", "UNLOADING">>,
     <<"DISABLED", "ENABLED">>, <<"DISABLED", "UNLOADING">>,
     <<"CRASHED", "ENABLED">>, <<"CRASHED", "UNLOADING">>,
     <<"ERROR", "DISCOVERED">>, <<"UNLOADING", "DISCOVERED">>}

\* isValidStateTransition; setState throws when it is false.
May(p, new) == <<state[p], new>> \in Transitions
SetState(p, new) == state' = [state EXCEPT ![p] = new]

EnabledIn(st) == SelectSeq(Files, LAMBDA p : st[p] = "ENABLED")

Block(h, id) == [h |-> h, id |-> id]
OnChain(b) == b.h \in DOMAIN chain /\ chain[b.h] = b.id

\* A request to a worker.  by is who awaits the reply: the script, a dispatch
\* of REORG (number n), or nobody.
Request(by, n, p, do, arg) ==
    [by |-> by, n |-> n, p |-> p, do |-> do, arg |-> arg, over |-> FALSE]
Reply(r, ok) == [kind |-> "result", by |-> r.by, n |-> r.n, p |-> r.p, do |-> r.do, ok |-> ok]
Crash(p) == [kind |-> "crash", by |-> "nobody", n |-> 0, p |-> p, do |-> "", ok |-> FALSE]

\* getWorkerForPlugin.
Hosted(p) == workerOf[p] \in pool

\* sendMessage.
Send(w, r) == inbox' = [inbox EXCEPT ![w] = Append(@, r)]

Trouble == spent.faults + spent.timeouts + spent.deaths < MaxTroubles

-----------------------------------------------------------------------------
(* The methods of PluginManager, as a script of steps                        *)

\* A step; when it throws, the steps of its group are dropped.
Step(do, p, group) == [do |-> do, p |-> p, group |-> group]
Next1 == Head(script)
At(do) == ~dead /\ script # << >> /\ Next1.do = do

\* The event loop is free: the script awaits something, or there is none.
Free == ~dead /\ (script # << >> => Next1.do = "await")

DropGroup(s) == IF Next1.group = "all" THEN << >>
                ELSE SelectSeq(Tail(s), LAMBDA t : t.group # Next1.group)

\* The step is over, or it throws: out of init the error ends the thread, out of
\* PluginManager.shutdown it is logged and process.exit follows.
Done == script' = Tail(script) /\ UNCHANGED dead
Throws == script' = DropGroup(script) /\ dead' = (dead \/ Next1.group = "all")

\* Waiting for the reply to the step's request.
Awaits == script' = <<Step("await", Next1.p, Next1.group)>> \o Tail(script) /\ UNCHANGED dead

Concat(f) == LET all[i \in 0 .. Len(f)] == IF i = 0 THEN << >> ELSE all[i - 1] \o f[i]
             IN all[Len(f)]

\* parseHeader and parsePluginFile: sizes, magic number and checksum; the
\* metadata must be JSON.
ParseHeader(p) == setup.kind[p] # "header"
ParsePluginFile(p) == ParseHeader(p) /\ setup.kind[p] # "body"

\* validate: all the errors are collected, and one is enough.
ValidateMetadata(p) == setup.kind[p] # "metadata"
ValidatePermissions(p) == setup.kind[p] # "permissions"
ValidateSignature(p) == setup.kind[p] # "signature"
ValidateVersion(p) == setup.kind[p] # "version"
Validate(p) == /\ ValidateMetadata(p) /\ ValidatePermissions(p)
               /\ ValidateSignature(p) /\ ValidateVersion(p)

\* registerPlugin: a file that cannot be read is not registered.
RegisterPlugin ==
    /\ At("register")
    /\ LET p == Next1.p IN
       \/ ~ParsePluginFile(p) /\ Throws /\ UNCHANGED state
       \/ ParsePluginFile(p) /\ ~Validate(p) /\ SetState(p, "ERROR") /\ Throws
       \/ ParsePluginFile(p) /\ Validate(p) /\ SetState(p, "VALIDATED") /\ Done
    /\ UNCHANGED <<setup, graph, served, poolVars, workerVars, replies, indexerVars, reorgs, data, spent, history>>

Registered == {p \in Plugin : state[p] # "absent"}

\* buildDependencyGraph.
Dependencies == [p \in Plugin |-> IF p \in Registered THEN setup.needs[p] \cap Registered ELSE {}]
Dependents(p) == {q \in Registered : p \in graph[q]}

\* detectCycles: a plugin that reaches itself.
Cyclic == LET reach[n \in 0 .. Cardinality(Plugin)] ==
                  IF n = 0 THEN {<<p, q>> \in Plugin \X Plugin : q \in Dependencies[p]}
                  ELSE reach[n - 1] \cup
                       {<<p, q>> \in Plugin \X Plugin :
                            \E m \in Plugin : <<p, m>> \in reach[n - 1] /\ q \in Dependencies[m]}
          IN \E p \in Plugin : <<p, p>> \in reach[Cardinality(Plugin)]

\* validateDependencies: a required plugin that is not registered.
Missing == \E p \in Registered : ~ (setup.needs[p] \subseteq Registered)

\* topologicalSort: which of the orders is taken depends on the priorities.
LoadOrders == {o \in [1 .. Cardinality(Registered) -> Registered] :
                 \A i, j \in DOMAIN o :
                    /\ o[i] = o[j] => i = j
                    /\ o[i] \in Dependencies[o[j]] => i < j}

\* resolveDependencies and the loops over its result: load and enable at
\* start-up; disable and unload, in the opposite order, at shutdown.
ResolveDependencies ==
    /\ At("start") \/ At("stop")
    /\ graph' = Dependencies
    /\ \/ /\ Cyclic \/ Missing
          /\ Throws
       \/ /\ ~Cyclic /\ ~Missing
          /\ \E o \in LoadOrders :
             LET n == Len(o)
                 load == [i \in 1 .. n |-> <<Step("load", o[i], o[i]), Step("enable", o[i], o[i])>>]
                 stop == [i \in 1 .. n |-> <<Step("disable", o[n + 1 - i], o[n + 1 - i]),
                                             Step("unload", o[n + 1 - i], o[n + 1 - i])>>]
             IN script' = (IF Next1.do = "start" THEN Concat(load) ELSE Concat(stop)) \o Tail(script)
          /\ UNCHANGED dead
    /\ UNCHANGED <<setup, state, served, poolVars, workerVars, replies, indexerVars, reorgs, data, spent, history>>

\* selectWorkerForPlugin: the first of the workers with the fewest plugins.
Least == {w \in pool : \A v \in pool : Cardinality(hosts[w]) <= Cardinality(hosts[v])}
Selected == CHOOSE w \in Least : \A v \in Least : w <= v

\* areDependenciesReady.
Ready(p) == \A q \in graph[p] : state[q] = "ENABLED"

\* loadPlugin: dependencies that are not enabled leave the plugin as it is;
\* without a worker the load fails.
LoadPlugin ==
    /\ At("load")
    /\ LET p == Next1.p IN
       \/ ~ (state[p] = "VALIDATED" /\ Ready(p)) /\ Throws /\ UNCHANGED <<state, inbox>>
       \/ /\ state[p] = "VALIDATED" /\ Ready(p)
          /\ IF pool = {} THEN SetState(p, "ERROR") /\ Throws /\ UNCHANGED inbox
             ELSE /\ SetState(p, "LOADING") /\ Awaits
                  /\ Send(Selected, Request("script", Selected, p, "load", 0))
    /\ UNCHANGED <<setup, graph, served, poolVars, loaded, running, replies, indexerVars, reorgs, data, spent, history>>

\* enablePlugin.  A failure is followed by setState(ERROR), which throws too:
\* the state stays.
EnablePlugin ==
    /\ At("enable")
    /\ LET p == Next1.p IN
       \/ ~ (state[p] = "LOADED" /\ Hosted(p)) /\ Throws /\ UNCHANGED inbox
       \/ state[p] = "LOADED" /\ Hosted(p) /\ Awaits
          /\ Send(workerOf[p], Request("script", workerOf[p], p, "enable", 0))
    /\ UNCHANGED <<registryVars, poolVars, loaded, running, replies, indexerVars, reorgs, data, spent, history>>

\* disablePlugin, of an enabled plugin only.
DisablePlugin ==
    /\ At("disable")
    /\ LET p == Next1.p IN
       \/ state[p] # "ENABLED" /\ Done /\ UNCHANGED inbox
       \/ /\ state[p] = "ENABLED"
          /\ IF Hosted(p) THEN /\ Awaits
                               /\ Send(workerOf[p], Request("script", workerOf[p], p, "disable", 0))
             ELSE Throws /\ UNCHANGED inbox
    /\ UNCHANGED <<registryVars, poolVars, loaded, running, replies, indexerVars, reorgs, data, spent, history>>

\* unloadPlugin is called for a loaded or disabled plugin, and refuses one with
\* enabled dependents.
MayUnload(p) == /\ state[p] \in {"LOADED", "DISABLED"}
                /\ \A q \in Dependents(p) : state[q] # "ENABLED"

\* The registries of opcodes and of routes.
Serve(p) == served' = served \cup {p}
Unserve(p) == served' = served \ {p}

\* unregister.
Unregister(p) ==
    /\ SetState(p, "absent")
    /\ graph' = [graph EXCEPT ![p] = {}]

\* unloadPlugin: opcodes and routes go first, then the worker unloads.
UnloadPlugin ==
    /\ At("unload")
    /\ LET p == Next1.p IN
       \/ /\ ~MayUnload(p)
          /\ IF state[p] \in {"LOADED", "DISABLED"} THEN Throws ELSE Done
          /\ UNCHANGED <<registryVars, inbox>>
       \/ /\ MayUnload(p) /\ ~Hosted(p)
          /\ Unserve(p) /\ Unregister(p) /\ Done
          /\ UNCHANGED inbox
       \/ /\ MayUnload(p) /\ Hosted(p)
          /\ Unserve(p) /\ SetState(p, "UNLOADING") /\ Awaits
          /\ Send(workerOf[p], Request("script", workerOf[p], p, "unload", 0))
          /\ UNCHANGED graph
    /\ UNCHANGED <<setup, poolVars, loaded, running, replies, indexerVars, reorgs, data, spent, history>>

\* handleReindex, for the plugins enabled now.  Nothing ever gives a plugin an
\* install state, so each reports that it has synced nothing (getPluginSyncState):
\* it is asked to sync (onReindexRequired), never to purge.
HandleReindex ==
    /\ At("reindex")
    /\ LET on == EnabledIn(state) IN
       script' = [i \in DOMAIN on |-> Step("sync", on[i], "all")] \o Tail(script)
    /\ UNCHANGED <<registryVars, poolVars, workerVars, replies, dead, indexerVars, reorgs, data, spent, history>>

ReindexPlugin ==
    /\ At("sync")
    /\ LET p == Next1.p IN
       \/ ~Hosted(p) /\ Throws /\ UNCHANGED inbox
       \/ Hosted(p) /\ Awaits /\ Send(workerOf[p], Request("script", 0, p, "sync", 0))
    /\ UNCHANGED <<registryVars, poolVars, loaded, running, replies, indexerVars, reorgs, data, spent, history>>

\* EXIT_THREAD: shutdown of an initialised manager; otherwise the thread exits.
ExitThread ==
    /\ Free /\ \A i \in DOMAIN script : script[i].group # "exit"
    /\ \/ script = << >> /\ script' = <<Step("stop", "", "all"), Step("exit", "", "exit")>> /\ UNCHANGED dead
       \/ script # << >> /\ script' = << >> /\ dead' = TRUE
    /\ UNCHANGED <<registryVars, poolVars, workerVars, replies, indexerVars, reorgs, data, spent, history>>

\* PluginWorkerPool.shutdown and process.exit.
Exit ==
    /\ At("exit")
    /\ script' = << >> /\ dead' = TRUE
    /\ UNCHANGED <<registryVars, poolVars, workerVars, replies, indexerVars, reorgs, data, spent, history>>

-----------------------------------------------------------------------------
(* PluginWorkerThread                                                        *)

Hooks == {"block", "reorg", "sync"}

\* loadPlugin in the worker: the instance is in the table before onLoad runs.
StartLoad(w, p) == [loaded EXCEPT ![w][p] = "off"]

\* It throws before that, or onLoad does and the instance stays.
LoadThrows(w, p) == loaded' \in {loaded, [loaded EXCEPT ![w][p] = "no"]}

\* The first message of the worker is taken: a request for a plugin that is not
\* loaded, or a hook of one that is not enabled, fails at once.
TakeMessage(w) ==
    /\ ~dead /\ w \in alive /\ inbox[w] # << >>
    /\ LET r == Head(inbox[w])
           fails == \/ r.do # "load" /\ loaded[w][r.p] = "no"
                    \/ r.do \in Hooks /\ loaded[w][r.p] # "on"
       IN /\ inbox' = [inbox EXCEPT ![w] = Tail(@)]
          /\ running' = IF fails THEN running ELSE running \cup {[w |-> w, r |-> r]}
          /\ replies' = IF fails THEN Append(replies, Reply(r, FALSE)) ELSE replies
          /\ loaded' = IF r.do = "load" THEN StartLoad(w, r.p) ELSE loaded
    /\ UNCHANGED <<registryVars, poolVars, script, dead, indexerVars, reorgs, data, spent, history>>

\* What the plugin's own code does.
RunHook(r) ==
    data' = CASE r.do = "block" -> [data EXCEPT ![r.p] = @ \cup {r.arg}]
              [] r.do = "reorg" -> [data EXCEPT ![r.p] = {b \in @ : b.h < r.arg}]
              [] OTHER -> data

\* The enabled flag and the table of plugins follow the life cycle calls.
AfterCall(w, r) ==
    loaded' = CASE r.do = "enable" -> [loaded EXCEPT ![w][r.p] = "on"]
                [] r.do = "disable" -> [loaded EXCEPT ![w][r.p] = "off"]
                [] r.do = "unload" -> [loaded EXCEPT ![w][r.p] = "no"]
                [] OTHER -> loaded

\* The call into the plugin returns.  A hook whose time is over has been
\* answered already.
CallReturns(j) ==
    /\ ~dead /\ j \in running /\ j.w \in alive
    /\ running' = running \ {j}
    /\ RunHook(j.r) /\ AfterCall(j.w, j.r)
    /\ replies' = IF j.r.over THEN replies ELSE Append(replies, Reply(j.r, TRUE))
    /\ UNCHANGED <<registryVars, poolVars, inbox, script, dead, indexerVars, reorgs, spent, history>>

\* The call throws: a hook also reports a crash, except onReindexRequired that
\* returns false.
CallThrows(j) ==
    /\ ~dead /\ j \in running /\ j.w \in alive /\ Trouble
    /\ running' = running \ {j}
    /\ spent' = [spent EXCEPT !.faults = @ + 1]
    /\ \E report \in {<<Crash(j.r.p)>>, << >>} :
          /\ report = << >> => j.r.do \notin Hooks \/ j.r.do = "sync"
          /\ report # << >> => j.r.do \in Hooks
          /\ replies' = IF j.r.over THEN replies ELSE replies \o report \o <<Reply(j.r, FALSE)>>
    /\ IF j.r.do = "load" THEN LoadThrows(j.w, j.r.p) ELSE UNCHANGED loaded
    /\ UNCHANGED <<registryVars, poolVars, inbox, script, dead, indexerVars, reorgs, data, history>>

\* The timer of executeHook in the worker: the hook itself goes on.
HookTimesOut(j) ==
    /\ ~dead /\ j \in running /\ j.w \in alive /\ j.r.do \in Hooks /\ ~j.r.over /\ Trouble
    /\ running' = (running \ {j}) \cup {[j EXCEPT !.r.over = TRUE, !.r.by = "nobody"]}
    /\ replies' = replies \o <<Crash(j.r.p), Reply(j.r, FALSE)>>
    /\ spent' = [spent EXCEPT !.timeouts = @ + 1]
    /\ UNCHANGED <<registryVars, poolVars, loaded, inbox, script, dead, indexerVars, reorgs, data, history>>

Nobody(r) == [r EXCEPT !.by = "nobody"]

\* The timer of sendMessage in the pool: the request goes on for nobody.  A
\* worker that has ended answers nothing more.
Overdue(w) == IF w \in quit THEN UNCHANGED spent
              ELSE Trouble /\ spent' = [spent EXCEPT !.timeouts = @ + 1]

RequestTimesOut(j) ==
    /\ Free /\ j \in running /\ j.r.by # "nobody" /\ Overdue(j.w)
    /\ running' = (running \ {j}) \cup {[j EXCEPT !.r = Nobody(@)]}
    /\ replies' = Append(replies, Reply(j.r, FALSE))
    /\ UNCHANGED <<registryVars, poolVars, loaded, inbox, script, dead, indexerVars, reorgs, data, history>>

\* The same for a message that the worker has not taken.
MessageTimesOut(w, i) ==
    /\ Free /\ i \in DOMAIN inbox[w] /\ inbox[w][i].by # "nobody" /\ Overdue(w)
    /\ inbox' = [inbox EXCEPT ![w][i] = Nobody(@)]
    /\ replies' = Append(replies, Reply(inbox[w][i], FALSE))
    /\ UNCHANGED <<registryVars, poolVars, loaded, running, script, dead, indexerVars, reorgs, data, history>>

\* Mutant: the pool does not listen for the exit of a worker, whatever its code.
WorkerDiesUnheard(w) ==
    /\ ~dead /\ w \in pool \cap alive /\ Trouble
    /\ alive' = alive \ {w}
    /\ spent' = [spent EXCEPT !.deaths = @ + 1]
    /\ UNCHANGED <<registryVars, workerOf, hosts, pool, lastId, events, quit, workerVars, replies, script, dead, indexerVars, reorgs, data, history>>

\* A worker ends: process.exit in a plugin, or an uncaught error, which is
\* followed by an exit as well.  An exit with code 0 is not handled.
WorkerDies(w) ==
    /\ ~dead /\ w \in pool \cap alive /\ Trouble
    /\ alive' = alive \ {w}
    /\ \/ quit' = quit \cup {w} /\ UNCHANGED events
       \/ UNCHANGED quit /\ \E e \in {<<w>>, <<w, w>>} : events' = events \o e
    /\ spent' = [spent EXCEPT !.deaths = @ + 1]
    /\ UNCHANGED <<registryVars, workerOf, hosts, pool, lastId, workerVars, replies, script, dead, indexerVars, reorgs, data, history>>

-----------------------------------------------------------------------------
(* PluginWorkerPool: events of the workers                                   *)

\* The requests of a worker somebody waits for.
Pending(w) == {r \in {inbox[w][i] : i \in DOMAIN inbox[w]} \cup {j.r : j \in {k \in running : k.w = w}} :
                 r.by # "nobody"}

\* Some sequence of the elements of a set.
AsSeq(S) == CHOOSE s \in [1 .. Cardinality(S) -> S] : \A x \in S : \E i \in DOMAIN s : s[i] = x

\* createWorker.
CreateWorker == lastId' = lastId + 1 /\ alive' = alive \cup {lastId + 1}

\* handleWorkerCrash, for every event: pending requests are rejected and the
\* plugins of the worker crash.  setState throws for a plugin that is not
\* enabled, also when an earlier event crashed it, and the error ends the thread.
HandleWorkerCrash ==
    /\ Free /\ events # << >>
    /\ events' = Tail(events)
    /\ LET w == Head(events)
           mine == {p \in hosts[w] : state[p] # "absent"}
           lost == AsSeq(Pending(w))
       IN /\ workerOf' = [p \in Plugin |-> IF p \in hosts[w] THEN NoWorker ELSE workerOf[p]]
          /\ inbox' = [inbox EXCEPT ![w] = << >>]
          /\ running' = {j \in running : j.w # w}
          /\ loaded' = [loaded EXCEPT ![w] = [p \in Plugin |-> "no"]]
          /\ replies' = replies \o [i \in DOMAIN lost |-> Reply(lost[i], FALSE)]
          /\ IF \A p \in mine : May(p, "CRASHED")
             THEN /\ state' = [p \in Plugin |-> IF p \in mine THEN "CRASHED" ELSE state[p]]
                  /\ pool' = pool \ {w}
                  /\ CreateWorker
                  /\ UNCHANGED dead
             ELSE dead' = TRUE /\ UNCHANGED <<state, pool, lastId, alive>>
    /\ UNCHANGED <<setup, graph, served, hosts, quit, script, indexerVars, reorgs, data, spent, history>>

\* createWorker: the READY message.
WorkerReady(w) ==
    /\ Free /\ w \in alive \ pool
    /\ pool' = pool \cup {w}
    /\ UNCHANGED <<registryVars, workerOf, hosts, alive, lastId, events, quit, workerVars, replies, script, dead, indexerVars, reorgs, data, spent, history>>

-----------------------------------------------------------------------------
(* The event loop of the plugin thread: replies                              *)

Handling(kind, by) == Free /\ replies # << >> /\ Head(replies).kind = kind /\ Head(replies).by = by
Reply1 == Head(replies)

\* handlePluginCrash of the pool and of the manager.
HandlePluginCrash ==
    /\ Handling("crash", "nobody")
    /\ replies' = Tail(replies)
    /\ LET p == Reply1.p IN
       /\ workerOf' = [workerOf EXCEPT ![p] = NoWorker]
       /\ \/ state[p] = "absent" /\ UNCHANGED <<state, dead>>
          \/ May(p, "CRASHED") /\ SetState(p, "CRASHED") /\ UNCHANGED dead
          \/ state[p] # "absent" /\ ~May(p, "CRASHED") /\ dead' = TRUE /\ UNCHANGED state
    /\ UNCHANGED <<setup, graph, served, hosts, pool, alive, lastId, events, quit, workerVars, script, indexerVars, reorgs, data, spent, history>>

\* A reply nobody waits for any more.
IgnoreReply ==
    /\ Handling("result", "nobody")
    /\ replies' = Tail(replies)
    /\ UNCHANGED <<registryVars, poolVars, workerVars, script, dead, indexerVars, reorgs, data, spent, history>>

\* The rest of loadPlugin, enablePlugin, disablePlugin, unloadPlugin, handleReindex.
Resume ==
    /\ Handling("result", "script")
    /\ replies' = Tail(replies)
    /\ LET p == Reply1.p  w == Reply1.n  do == Reply1.do  ok == Reply1.ok IN
       \/ /\ do = "load" /\ ok
          /\ hosts' = [hosts EXCEPT ![w] = @ \cup {p}] /\ workerOf' = [workerOf EXCEPT ![p] = w]
          /\ Serve(p) /\ SetState(p, "LOADED") /\ Done /\ UNCHANGED graph
       \/ do = "load" /\ ~ok /\ SetState(p, "ERROR") /\ Throws
          /\ UNCHANGED <<hosts, workerOf, served, graph>>
       \/ do = "enable" /\ ok /\ May(p, "ENABLED") /\ SetState(p, "ENABLED") /\ Done
          /\ UNCHANGED <<hosts, workerOf, served, graph>>
       \/ do = "disable" /\ ok /\ May(p, "DISABLED") /\ SetState(p, "DISABLED") /\ Done
          /\ UNCHANGED <<hosts, workerOf, served, graph>>
       \/ /\ do \in {"enable", "disable"}
          /\ ~ (ok /\ May(p, IF do = "enable" THEN "ENABLED" ELSE "DISABLED"))
          /\ Throws /\ UNCHANGED <<hosts, workerOf, served, state, graph>>
       \/ /\ do = "unload"
          /\ hosts' = [hosts EXCEPT ![w] = @ \ {p}] /\ workerOf' = [workerOf EXCEPT ![p] = NoWorker]
          /\ Unregister(p) /\ Done /\ UNCHANGED served
       \/ do = "sync" /\ (IF ok THEN Done ELSE Throws)
          /\ UNCHANGED <<hosts, workerOf, served, state, graph>>
    /\ UNCHANGED <<setup, pool, alive, lastId, events, quit, workerVars, indexerVars, reorgs, data, spent, history>>

-----------------------------------------------------------------------------
(* HookDispatcher                                                            *)

Idle == [from |-> 0, todo |-> << >>]

\* Mutant: the indexer is answered only if no plugin failed.
EndDispatchOk(n, untold) ==
    /\ reorgs' = [reorgs EXCEPT ![n] = Idle]
    /\ waiting' = IF waiting = n /\ untold = {} THEN 0 ELSE waiting
    /\ missed' = missed \cup untold

\* A dispatch of REORG ends; PluginThread answers the indexer.
EndDispatch(n, untold) ==
    /\ reorgs' = [reorgs EXCEPT ![n] = Idle]
    /\ waiting' = IF waiting = n THEN 0 ELSE waiting
    /\ missed' = missed \cup untold

\* Mutant: the first plugin is the only one to be told.
ReorgHookDoneFirst ==
    /\ Handling("result", "reorg")
    /\ replies' = Tail(replies)
    /\ EndDispatch(Reply1.n, IF Reply1.ok THEN {} ELSE {Reply1.p})
    /\ UNCHANGED <<registryVars, poolVars, workerVars, script, dead, chain, notices, reverts, data, spent, crossed>>

\* dispatchSequential: the result of one plugin; the next one is called unless it
\* has no worker.  An error ends the dispatch.
ReorgHookDone ==
    /\ Handling("result", "reorg")
    /\ replies' = Tail(replies)
    /\ LET n == Reply1.n  d == reorgs[n] IN
       IF Reply1.ok /\ Len(d.todo) > 1 /\ Hosted(d.todo[2])
       THEN /\ Send(workerOf[d.todo[2]], Request("reorg", n, d.todo[2], "reorg", d.from))
            /\ reorgs' = [reorgs EXCEPT ![n].todo = Tail(@)]
            /\ UNCHANGED <<waiting, missed>>
       ELSE /\ EndDispatch(n, {d.todo[i] : i \in (IF Reply1.ok THEN 2 ELSE 1) .. Len(d.todo)})
            /\ UNCHANGED inbox
    /\ UNCHANGED <<registryVars, poolVars, loaded, running, script, dead, chain, notices, reverts, data, spent, crossed>>

\* dispatchParallel, of every enabled plugin that has a worker.
DispatchBlockChange(b) ==
    inbox' = [w \in Worker |->
                inbox[w] \o LET told == SelectSeq(Files, LAMBDA p : state[p] = "ENABLED" /\ workerOf[p] = w /\ w \in pool)
                            IN [i \in DOMAIN told |-> Request("nobody", 0, told[i], "block", b)]]

-----------------------------------------------------------------------------
(* BlockIndexer                                                              *)

InFlight == {r \in UNION {{inbox[w][i] : i \in DOMAIN inbox[w]} : w \in Worker} \cup {j.r : j \in running} :
               r.do = "block"}

\* A block is indexed; notifyBlockProcessed is not awaited, and asks P2P first.
IndexBlock ==
    /\ waiting = 0 /\ reverts > 0 /\ spent.blocks < MaxBlocks
    /\ spent' = [spent EXCEPT !.blocks = @ + 1]
    /\ chain' = Append(chain, Height + spent'.blocks)
    /\ notices' = notices \cup {Block(Len(chain'), Height + spent'.blocks)}
    /\ UNCHANGED <<registryVars, poolVars, workerVars, replies, script, dead, waiting, reverts, reorgs, data, history>>

\* The P2P thread has answered: PLUGIN_BLOCK_CHANGE.
NotifyBlockProcessed(b) ==
    /\ b \in notices /\ (Free \/ dead)
    /\ notices' = notices \ {b}
    /\ IF dead THEN UNCHANGED inbox ELSE DispatchBlockChange(b)
    /\ UNCHANGED <<registryVars, poolVars, loaded, running, replies, script, dead, chain, waiting, reverts, reorgs, data, spent, history>>

\* Core starts the indexer when the plugin thread is ready, or after 60 seconds.
Early == reverts = 0 /\ ~dead /\ script # << >>

\* revertChain and the purge at start-up: the storage goes back to from - 1,
\* then PLUGIN_REORG, which reaches the plugins that are enabled now.  At start-up
\* there may be no link to the plugin thread, and the node goes on without.
Revert(from) ==
    /\ waiting = 0 /\ reverts < MaxReverts
    /\ Early => Trouble
    /\ spent' = IF Early THEN [spent EXCEPT !.timeouts = @ + 1] ELSE spent
    /\ from \in DOMAIN chain \/ from = 1
    /\ reverts' = reverts + 1
    /\ chain' = SubSeq(chain, 1, from - 1)
    /\ crossed' = crossed \cup {b \in notices : b.h >= from} \cup {r.arg : r \in {q \in InFlight : q.arg.h >= from}}
    /\ \/ /\ Free
          /\ LET on == EnabledIn(state)
                 off == {p \in Plugin : state[p] # "ENABLED"}
             IN IF on # << >> /\ Hosted(on[1])
                THEN /\ Send(workerOf[on[1]], Request("reorg", reverts', on[1], "reorg", from))
                     /\ reorgs' = [reorgs EXCEPT ![reverts'] = [from |-> from, todo |-> on]]
                     /\ waiting' = reverts'
                     /\ missed' = missed \cup off
                ELSE /\ missed' = Plugin
                     /\ UNCHANGED <<inbox, reorgs, waiting>>
       \/ dead /\ waiting' = reverts' /\ missed' = Plugin /\ UNCHANGED <<inbox, reorgs>>
       \/ reverts = 0 /\ missed' = Plugin /\ UNCHANGED <<inbox, reorgs, waiting>>
    /\ UNCHANGED <<registryVars, poolVars, loaded, running, replies, script, dead, notices, data>>

\* The request of the indexer ends after 240 seconds; the hooks have 300.
IndexerTimesOut ==
    /\ waiting # 0
    /\ waiting' = 0
    /\ IF dead \/ quit # {} THEN UNCHANGED spent
       ELSE Trouble /\ spent' = [spent EXCEPT !.timeouts = @ + 1]
    /\ UNCHANGED <<registryVars, poolVars, workerVars, replies, script, dead, chain, notices, reverts, reorgs, data, history>>

-----------------------------------------------------------------------------

Init ==
    /\ setup \in Setups
    /\ state = [p \in Plugin |-> "absent"]
    /\ graph = [p \in Plugin |-> {}]
    /\ workerOf = [p \in Plugin |-> NoWorker]
    /\ hosts = [w \in Worker |-> {}]
    /\ pool = 1 .. Count /\ alive = 1 .. Count /\ lastId = Count
    /\ events = << >> /\ quit = {}
    /\ loaded = [w \in Worker |-> [p \in Plugin |-> "no"]]
    /\ inbox = [w \in Worker |-> << >>]
    /\ running = {} /\ replies = << >>
    /\ script = [i \in DOMAIN Files |-> Step("register", Files[i], Files[i])]
                \o <<Step("start", "", "all")>>
                \o (IF Reindexing THEN <<Step("reindex", "", "all")>> ELSE << >>)
    /\ served = {} /\ dead = FALSE
    /\ chain = [h \in 1 .. Height |-> h]
    /\ notices = {}
    /\ reorgs = [n \in 1 .. MaxReverts |-> Idle]
    /\ waiting = 0 /\ reverts = 0
    /\ data = [p \in Plugin |-> {Block(h, h) : h \in 1 .. Height}]
    /\ spent = [blocks |-> 0, faults |-> 0, timeouts |-> 0, deaths |-> 0]
    /\ crossed = {} /\ missed = {}

Manager == \/ RegisterPlugin \/ ResolveDependencies \/ LoadPlugin \/ EnablePlugin
           \/ DisablePlugin \/ UnloadPlugin \/ HandleReindex \/ ReindexPlugin
           \/ Resume \/ ReorgHookDone \/ HandlePluginCrash \/ IgnoreReply
           \/ HandleWorkerCrash \/ Exit

Next == \/ Manager \/ ExitThread
        \/ \E w \in Worker : TakeMessage(w) \/ WorkerDies(w) \/ WorkerReady(w)
        \/ \E w \in Worker : \E i \in DOMAIN inbox[w] : MessageTimesOut(w, i)
        \/ \E j \in running : CallReturns(j) \/ CallThrows(j) \/ HookTimesOut(j) \/ RequestTimesOut(j)
        \/ IndexBlock \/ (\E b \in notices : NotifyBlockProcessed(b))
        \/ (\E from \in 1 .. Len(chain) + 1 : Revert(from)) \/ IndexerTimesOut

Spec == Init /\ [][Next]_vars

\* The event loops run, a call into a plugin returns or its timer ends it, and
\* the timer of a request to a worker that has ended runs out.
Fairness ==
    /\ WF_vars(Manager)
    /\ WF_vars(\E w \in Worker : TakeMessage(w))
    /\ WF_vars(\E j \in running : CallReturns(j))
    /\ WF_vars(dead /\ IndexerTimesOut)
    /\ WF_vars(\E j \in running : j.w \in quit /\ RequestTimesOut(j))
    /\ WF_vars(\E w \in quit : \E i \in DOMAIN inbox[w] : MessageTimesOut(w, i))

FairSpec == Spec /\ Fairness

-----------------------------------------------------------------------------
(* Properties                                                                *)

TypeOK ==
    /\ state \in [Plugin -> PluginState] /\ graph \in [Plugin -> SUBSET Plugin]
    /\ workerOf \in [Plugin -> Worker \cup {NoWorker}] /\ hosts \in [Worker -> SUBSET Plugin]
    /\ {pool, alive, quit} \subseteq SUBSET Worker /\ lastId \in Worker
    /\ loaded \in [Worker -> [Plugin -> {"no", "off", "on"}]]
    /\ served \subseteq Plugin /\ dead \in BOOLEAN
    /\ waiting \in 0 .. MaxReverts /\ reverts \in 0 .. MaxReverts
    /\ missed \subseteq Plugin

\* A plugin that is ENABLED is enabled in a worker of the pool that runs, unless
\* the end of that worker, a crash report or the reply to a life cycle call is
\* still to be handled, or the worker ended with exit code 0.
EnabledIsRunning ==
    \A p \in Plugin : state[p] = "ENABLED" /\ ~dead =>
        /\ p \in served
        /\ \/ Hosted(p) /\ workerOf[p] \in alive /\ loaded[workerOf[p]][p] = "on"
           \/ \E i \in DOMAIN events : p \in hosts[events[i]]
           \/ script # << >> /\ Next1.do = "await" /\ Next1.p = p
           \/ spent.timeouts > 0 /\ \E i \in DOMAIN script : script[i].group = "exit"
           \/ workerOf[p] \in quit

\* A plugin that is ENABLED has its dependencies in the pool.
DependenciesServed ==
    \A p \in Plugin : state[p] = "ENABLED" /\ ~dead => setup.needs[p] \subseteq served

(***************************************************************************)
(* The registry and the workers agree, at start-up, after crashes and      *)
(* while the plugins are taken down: a plugin that is ENABLED, and so is   *)
(* sent hooks and served to the API, runs in a worker that is alive,       *)
(* unless that worker ended with exit code 0 (nobody hears of it), and     *)
(* none of the plugins it depends on was unloaded before it or never       *)
(* loaded.                                                                 *)
(***************************************************************************)
EnabledIsServed == TypeOK /\ EnabledIsRunning /\ DependenciesServed

\* A plugin that is ENABLED keeps nothing of a block that was reverted, unless
\* the notice of the block was still on its way when it was reverted, a plugin
\* told before it failed, it was not enabled when the others were told, or the
\* revert is not over.
OrphansExplained ==
    \A p \in Plugin : state[p] = "ENABLED" /\ ~dead =>
        \A b \in data[p] :
            \/ OnChain(b) \/ b \in crossed \/ p \in missed
            \/ \E n \in 1 .. reverts : reorgs[n].todo # << >> /\ reorgs[n].from <= b.h

\* A dispatch of REORG ends, whatever the plugins do: the indexer does not wait
\* for ever for plugins.
IndexerReleased == waiting # 0 ~> waiting = 0
=============================================================================

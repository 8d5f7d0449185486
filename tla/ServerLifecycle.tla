---------------------------- MODULE ServerLifecycle ----------------------------
(***************************************************************************)
(* The process around the MCP server: the restart loop of main.rs and the  *)
(* state machine of server/states.rs that it runs, one instance after      *)
(* another (a "generation").  A generation reads the configuration, waits  *)
(* for a schema and for a set of operations in either order, starts the    *)
(* transport, and then applies events until it stops or is replaced.       *)
(*                                                                         *)
(* Schemas and operation sets are versions: a stream yields the latest     *)
(* version its source has, and a new generation opens new streams.  The    *)
(* contents of the catalog are in module ToolCatalog.                      *)
(***************************************************************************)
EXTENDS Naturals

CONSTANTS
  Transports,  \* the transports that configurations choose from
  Addrs,       \* the listeners an HTTP generation binds (main, health check)
  MaxGen,      \* bound: generations
  MaxVersion,  \* bound: versions published by each source
  MaxEdits,    \* bound: edits of the configuration file
  BadSchemas   \* the schema versions that do not parse or validate

ASSUME LifecycleAssumption ==
  /\ Transports \subseteq {"http", "stdio"}
  /\ MaxGen \in Nat \ {0}
  /\ MaxVersion \in Nat
  /\ MaxEdits \in Nat
  /\ BadSchemas \subseteq 1..MaxVersion

Gens     == 1..MaxGen
Versions == 0..MaxVersion            \* 0: none yet
Kinds    == {"good", "unbuildable", "broken"}
LoopPhases  == {"Configuring", "SchemaConfigured", "OperationsConfigured", "Running"}
StartPhases == {"Starting", "Binding", "Serving"}
Phases   == {"Build", "Built", "Restarting", "Exited"} \cup LoopPhases \cup StartPhases

VARIABLES
  phase,       \* where main's loop or the state machine stands
  gen,         \* the current generation, 0 before the first is built
  config,      \* the configuration file: its validity, version and transport
  loaded,      \* the version that build_server read last, and its transport
  handlers,    \* main's own watchers: spawned if the first configuration is stdio
  watched,     \* the version the file watcher's first scan found
  schema, operations,       \* the versions held by the State
  schemaSrc, opsSrc,        \* the latest versions of the sources
  schemaSeen, opsSeen,      \* the latest versions the streams yielded
  schemaStream,             \* "open" or "ended"
  cancelled,   \* the generations whose CancellationToken is cancelled
  bound,       \* who holds each listening socket (0: nobody)
  tasks,       \* the accepting serve_http tasks of each generation
  waiting,     \* notifications not yet taken: "config" (file watcher), "task"
               \* (signal at the serve_http tasks), "main" (main's own watchers)
  sighup,      \* the one-shot SIGHUP stream
  shutdown     \* a SIGINT or SIGTERM: none, pending, or lost

loopVars   == <<schema, operations, schemaSeen, opsSeen, schemaStream>>
sourceVars == <<schemaSrc, opsSrc>>
configVars == <<config, loaded, handlers, watched>>
socketVars == <<cancelled, bound, tasks>>
signalVars == <<waiting, sighup, shutdown>>
vars == <<phase, gen, loopVars, sourceVars, configVars, socketVars, signalVars>>

TypeOK ==
  /\ phase \in Phases
  /\ gen \in 0..MaxGen
  /\ config \in [kind : Kinds, ver : 0..MaxEdits, transport : Transports]
  /\ loaded \in [ver : 0..MaxEdits, transport : Transports]
  /\ handlers \in {{}, {"main"}}
  /\ watched \in 0..MaxEdits
  /\ schema \in Versions /\ schemaSrc \in Versions /\ schemaSeen \in Versions
  /\ operations \in Versions /\ opsSrc \in Versions /\ opsSeen \in Versions
  /\ schemaStream \in {"open", "ended"}
  /\ cancelled \subseteq Gens
  /\ bound \in [Addrs -> 0..MaxGen]
  /\ tasks \in [Gens -> SUBSET Addrs]
  /\ waiting \subseteq {"config", "task", "main"}
  /\ sighup \in {"armed", "pending", "spent"}
  /\ shutdown \in {"none", "pending", "lost"}

Init ==
  /\ phase = "Build" /\ gen = 0
  /\ config \in [kind : Kinds \ {"broken"}, ver : {0}, transport : Transports]
  /\ loaded = [ver |-> 0, transport |-> config.transport] /\ watched = 0
  /\ handlers = IF config.transport = "stdio" THEN {"main"} ELSE {}
  /\ schema = 0 /\ operations = 0 /\ schemaSeen = 0 /\ opsSeen = 0
  /\ schemaSrc = 0 /\ opsSrc = 0 /\ schemaStream = "open"
  /\ cancelled = {}
  /\ bound = [a \in Addrs |-> 0]
  /\ tasks = [g \in Gens |-> {}]
  /\ waiting = {} /\ sighup = "armed" /\ shutdown = "none"

-----------------------------------------------------------------------------
(* main.rs: the process *)

\* The process is gone, and with it its tasks and sockets.
Exit ==
  /\ phase' = "Exited"
  /\ tasks' = [g \in Gens |-> {}]
  /\ bound' = [a \in Addrs |-> 0]

ExitOnly ==
  /\ Exit
  /\ UNCHANGED <<gen, loopVars, sourceVars, configVars, cancelled, signalVars>>

\* build_server reads the file again and builds a Server from it.
Build ==
  /\ phase = "Build"
  /\ gen < MaxGen
  /\ config.kind = "good"
  /\ phase' = "Built"
  /\ gen' = gen + 1
  /\ loaded' = [ver |-> config.ver, transport |-> config.transport]
  /\ UNCHANGED <<loopVars, sourceVars, config, handlers, watched, socketVars, signalVars>>

\* load_config or a later check of build_server fails: main returns the error.
BuildFails ==
  /\ phase = "Build"
  /\ config.kind # "good"
  /\ ExitOnly

\* Mutant of OpenStreams: the new generation keeps the schema of the previous one.
OpenStreamsKeepsSchema ==
  /\ phase = "Built"
  /\ phase' = "Configuring"
  /\ schema' = schema /\ operations' = 0 /\ schemaSeen' = 0 /\ opsSeen' = 0
  /\ schemaStream' = "open"
  /\ watched' = config.ver
  /\ waiting' = waiting \cap {"main"}
  /\ sighup' = "armed" /\ shutdown' = "none"
  /\ UNCHANGED <<gen, sourceVars, config, loaded, handlers, socketVars>>

\* StateMachine::start opens the six streams; the watcher's snapshot of the
\* file is taken here, after build_server has read it.
OpenStreams ==
  /\ phase = "Built"
  /\ phase' = "Configuring"
  /\ schema' = 0 /\ operations' = 0 /\ schemaSeen' = 0 /\ opsSeen' = 0
  /\ schemaStream' = "open"
  /\ watched' = config.ver
  /\ waiting' = waiting \cap {"main"}
  /\ sighup' = "armed" /\ shutdown' = "none"
  /\ UNCHANGED <<gen, sourceVars, config, loaded, handlers, socketVars>>

\* The pause of main.rs before it builds the next generation.  The environment
\* asks for no restart of the last generation, so the bound never blocks it.
Wake ==
  /\ phase = "Restarting"
  /\ gen < MaxGen
  /\ phase' = "Build"
  /\ UNCHANGED <<gen, loopVars, sourceVars, configVars, socketVars, signalVars>>

\* stdio: main's watcher and SIGHUP handler, which outlive the state machine,
\* validate the file and exit (75) for the parent process to restart.
StdioWatcherExits ==
  /\ "main" \in waiting /\ phase # "Exited"
  /\ config.kind # "broken"
  /\ ExitOnly

StdioWatcherRejects ==
  /\ "main" \in waiting /\ phase # "Exited"
  /\ config.kind = "broken"
  /\ waiting' = waiting \ {"main"}
  /\ UNCHANGED <<phase, gen, loopVars, sourceVars, configVars, socketVars,
                 sighup, shutdown>>

-----------------------------------------------------------------------------
(* states.rs: the event loop.  One action per event it processes. *)

ProcessSchema ==
  /\ phase \in LoopPhases
  /\ schemaStream = "open" /\ schemaSeen # schemaSrc
  /\ \/ /\ schemaSrc \in BadSchemas        \* sdl_to_api_schema(..)?
        /\ ExitOnly
     \/ /\ schemaSrc \notin BadSchemas
        /\ schema' = schemaSrc
        /\ schemaSeen' = schemaSrc
        /\ phase' = CASE phase = "Configuring"          -> "SchemaConfigured"
                      [] phase = "OperationsConfigured" -> "Starting"
                      [] OTHER                          -> phase
        /\ UNCHANGED <<gen, operations, opsSeen, schemaStream, sourceVars,
                       configVars, socketVars, signalVars>>

\* Mutant of ProcessOperations: a set that replaces another one is dropped.
ProcessFirstOperations ==
  /\ phase \in LoopPhases
  /\ opsSeen # opsSrc
  /\ operations' = IF operations = 0 THEN opsSrc ELSE operations
  /\ opsSeen' = opsSrc
  /\ phase' = CASE phase = "Configuring"      -> "OperationsConfigured"
                [] phase = "SchemaConfigured" -> "Starting"
                [] OTHER                      -> phase
  /\ UNCHANGED <<gen, schema, schemaSeen, schemaStream, sourceVars, configVars,
                 socketVars, signalVars>>

ProcessOperations ==
  /\ phase \in LoopPhases
  /\ opsSeen # opsSrc
  /\ operations' = opsSrc
  /\ opsSeen' = opsSrc
  /\ phase' = CASE phase = "Configuring"      -> "OperationsConfigured"
                [] phase = "SchemaConfigured" -> "Starting"
                [] OTHER                      -> phase
  /\ UNCHANGED <<gen, schema, schemaSeen, schemaStream, sourceVars, configVars,
                 socketVars, signalVars>>

\* The schema source gives up: fatal while there is no schema.
ProcessNoMoreSchema ==
  /\ phase \in LoopPhases /\ schemaStream = "open"
  /\ \/ /\ phase \in {"Configuring", "OperationsConfigured"}
        /\ ExitOnly
     \/ /\ phase \in {"SchemaConfigured", "Running"}
        /\ schemaStream' = "ended"
        /\ UNCHANGED <<phase, gen, schema, operations, schemaSeen, opsSeen,
                       sourceVars, configVars, socketVars, signalVars>>

\* OperationError is fatal in every state.
ProcessOperationError == phase \in LoopPhases /\ ExitOnly

\* CollectionError and ManifestError are fatal only before Running.
ProcessSourceError ==
  /\ phase \in LoopPhases
  /\ \/ phase # "Running" /\ ExitOnly
     \/ phase = "Running" /\ UNCHANGED vars

\* Mutant of CancelIfRunning: the old instance is dropped and not cancelled.
DropOnly == UNCHANGED cancelled

CancelIfRunning ==
  cancelled' = IF phase = "Running" THEN cancelled \cup {gen} ELSE cancelled

\* Mutant of ProcessConfigChanged: only a running server restarts.
ProcessConfigChangedRunning ==
  /\ phase \in LoopPhases
  /\ \/ "config" \in waiting /\ waiting' = waiting \ {"config"} /\ UNCHANGED sighup
     \/ sighup = "pending" /\ sighup' = "spent" /\ UNCHANGED waiting
  /\ \/ /\ config.kind = "broken" \/ phase # "Running"
        /\ UNCHANGED <<phase, cancelled, shutdown>>
     \/ /\ config.kind # "broken" /\ phase = "Running"
        /\ CancelIfRunning
        /\ phase' = "Restarting"
        /\ shutdown' = IF shutdown = "pending" THEN "lost" ELSE shutdown
  /\ UNCHANGED <<gen, loopVars, sourceVars, configVars, bound, tasks>>

\* ConfigChanged, from the file watcher or from SIGHUP.  The streams are
\* dropped with the state machine, and what was waiting in them with them.
ProcessConfigChanged ==
  /\ phase \in LoopPhases
  /\ \/ "config" \in waiting /\ waiting' = waiting \ {"config"} /\ UNCHANGED sighup
     \/ sighup = "pending" /\ sighup' = "spent" /\ UNCHANGED waiting
  /\ \/ /\ config.kind = "broken"
        /\ UNCHANGED <<phase, cancelled, shutdown>>
     \/ /\ config.kind # "broken"
        /\ CancelIfRunning
        /\ phase' = "Restarting"
        /\ shutdown' = IF shutdown = "pending" THEN "lost" ELSE shutdown
  /\ UNCHANGED <<gen, loopVars, sourceVars, configVars, bound, tasks>>

\* Mutant of ProcessShutdown: only a running server is shut down.
ProcessShutdownRunning ==
  /\ phase = "Running"
  /\ shutdown = "pending"
  /\ CancelIfRunning
  /\ Exit
  /\ UNCHANGED <<gen, loopVars, sourceVars, configVars, signalVars>>

\* Shutdown: cancel, leave the loop, and main returns Ok.
ProcessShutdown ==
  /\ phase \in LoopPhases
  /\ shutdown = "pending"
  /\ CancelIfRunning
  /\ Exit
  /\ UNCHANGED <<gen, loopVars, sourceVars, configVars, signalVars>>

-----------------------------------------------------------------------------
(* starting.rs *)

\* Operations, apps, prompts, search index and Rhai scripts are prepared.
StartHttp ==
  /\ phase = "Starting" /\ loaded.transport = "http"
  /\ phase' = "Binding"
  /\ UNCHANGED <<gen, loopVars, sourceVars, configVars, socketVars, signalVars>>

StartStdio ==
  /\ phase = "Starting" /\ loaded.transport = "stdio"
  /\ phase' = "Serving"
  /\ UNCHANGED <<gen, loopVars, sourceVars, configVars, socketVars, signalVars>>

StartFails == phase \in {"Starting", "Serving"} /\ ExitOnly

\* The listeners are bound concurrently; a held address makes bind fail.
Bind(a) ==
  /\ phase = "Binding"
  /\ bound[a] = 0
  /\ bound' = [bound EXCEPT ![a] = gen]
  /\ UNCHANGED <<phase, gen, loopVars, sourceVars, configVars, cancelled, tasks,
                 signalVars>>

\* The address is held by an older generation, or by another program.
BindFails(a) ==
  /\ phase = "Binding"
  /\ bound[a] # gen
  /\ ExitOnly

\* Mutant of SpawnServers: each listener is served as soon as it is bound.
SpawnServersEarly ==
  /\ phase = "Binding"
  /\ \E a \in Addrs : bound[a] = gen
  /\ tasks' = [tasks EXCEPT ![gen] = {a \in Addrs : bound[a] = gen}]
  /\ phase' = "Running"
  /\ UNCHANGED <<gen, loopVars, sourceVars, configVars, cancelled, bound, signalVars>>

\* Only when every listener is bound is a serving task spawned for each.
SpawnServers ==
  /\ phase = "Binding"
  /\ \A a \in Addrs : bound[a] = gen
  /\ tasks' = [tasks EXCEPT ![gen] = Addrs]
  /\ phase' = "Running"
  /\ UNCHANGED <<gen, loopVars, sourceVars, configVars, cancelled, bound, signalVars>>

\* Mutant of Drain: the task stops accepting and keeps its listener.
DrainKeepsSocket(g, a) ==
  /\ g \in cancelled /\ a \in tasks[g]
  /\ tasks' = [tasks EXCEPT ![g] = @ \ {a}]
  /\ UNCHANGED <<phase, gen, loopVars, sourceVars, configVars, cancelled, bound, signalVars>>

\* A token cancelled: axum stops accepting and gives up the socket.
Drain(g, a) ==
  /\ g \in cancelled /\ a \in tasks[g]
  /\ tasks' = [tasks EXCEPT ![g] = @ \ {a}]
  /\ bound' = [bound EXCEPT ![a] = 0]
  /\ UNCHANGED <<phase, gen, loopVars, sourceVars, configVars, cancelled, signalVars>>

\* The tasks' own shutdown_signal fires and cancels the generation's token.
TaskSignalled ==
  /\ "task" \in waiting /\ gen \in Gens /\ tasks[gen] # {}
  /\ cancelled' = cancelled \cup {gen}
  /\ waiting' = waiting \ {"task"}
  /\ UNCHANGED <<phase, gen, loopVars, sourceVars, configVars, bound, tasks,
                 sighup, shutdown>>

\* stdio: the client disconnects and service.waiting() returns.
StdioClosed ==
  /\ phase = "Serving"
  /\ phase' = "Running"
  /\ UNCHANGED <<gen, loopVars, sourceVars, configVars, socketVars, signalVars>>

-----------------------------------------------------------------------------
(* The environment *)

\* A watch exists only while a state machine runs, beside main's own if there are any.
Watching == phase \in LoopPhases \cup StartPhases

EditConfig ==
  /\ phase # "Exited" /\ config.ver < MaxEdits /\ gen < MaxGen
  /\ config' \in [kind : Kinds, ver : {config.ver + 1}, transport : Transports]
  /\ waiting' = waiting \cup (IF Watching THEN {"config"} ELSE {}) \cup handlers
  /\ UNCHANGED <<phase, gen, loaded, handlers, watched, loopVars, sourceVars, socketVars,
                 sighup, shutdown>>

PublishSchema ==
  /\ schemaSrc < MaxVersion /\ schemaSrc' = schemaSrc + 1
  /\ UNCHANGED <<phase, gen, loopVars, opsSrc, configVars, socketVars, signalVars>>

PublishOperations ==
  /\ opsSrc < MaxVersion /\ opsSrc' = opsSrc + 1
  /\ UNCHANGED <<phase, gen, loopVars, schemaSrc, configVars, socketVars, signalVars>>

\* The stream of the state machine yields one SIGHUP; main's handler loops.
Sighup ==
  /\ Watching /\ gen < MaxGen
  /\ sighup = "armed" \/ handlers # {}
  /\ sighup' = IF sighup = "armed" THEN "pending" ELSE sighup
  /\ waiting' = waiting \cup handlers
  /\ UNCHANGED <<phase, gen, loopVars, sourceVars, configVars, socketVars, shutdown>>

\* Before the first handler is installed the signal kills the process; between
\* two generations the handler is there but nobody listens.
Sigterm ==
  /\ phase # "Exited" /\ shutdown # "pending"
  /\ \/ gen = 0 /\ ExitOnly
     \/ /\ gen > 0
        /\ shutdown' = IF Watching THEN "pending" ELSE "lost"
        /\ waiting' = IF tasks[gen] # {} THEN waiting \cup {"task"} ELSE waiting
        /\ UNCHANGED <<phase, gen, loopVars, sourceVars, configVars, socketVars, sighup>>

-----------------------------------------------------------------------------
EventLoop == \/ ProcessSchema \/ ProcessOperations \/ ProcessNoMoreSchema
             \/ ProcessOperationError \/ ProcessSourceError
             \/ ProcessConfigChanged \/ ProcessShutdown
Main == Build \/ BuildFails \/ OpenStreams \/ Wake
StdioWatchers == StdioWatcherExits \/ StdioWatcherRejects
Start == \/ StartHttp \/ StartStdio \/ StartFails
         \/ \E a \in Addrs : Bind(a) \/ BindFails(a)
         \/ SpawnServers \/ StdioClosed
Tasks == TaskSignalled \/ \E g \in Gens, a \in Addrs : Drain(g, a)
Environment == EditConfig \/ PublishSchema \/ PublishOperations \/ Sighup \/ Sigterm

Next == EventLoop \/ Main \/ StdioWatchers \/ Start \/ Tasks \/ Environment

\* The runtime polls main, the event loop and the tasks; select_all polls every
\* stream that is ready.  Nothing is assumed of the environment: neither that
\* the stdio client ever disconnects nor that a source publishes.
Fairness ==
  /\ WF_vars(Main) /\ WF_vars(StdioWatchers) /\ WF_vars(StartHttp \/ StartStdio) /\ WF_vars(SpawnServers)
  /\ WF_vars(\E a \in Addrs : Bind(a) \/ BindFails(a))
  /\ WF_vars(ProcessSchema) /\ WF_vars(ProcessOperations)
  /\ WF_vars(ProcessConfigChanged) /\ WF_vars(ProcessShutdown)
  /\ WF_vars(Tasks)

Spec == Init /\ [][Next]_vars
FairSpec == Spec /\ Fairness

-----------------------------------------------------------------------------
(* Safety *)

\* A listening socket is never left open with nobody serving it: whoever holds
\* one is the instance that is binding right now or has a task accepting on it,
\* and every accepting task has its socket ("bind every listener before spawning
\* any serving task", starting.rs).
SocketsHaveServers ==
  /\ \A a \in Addrs : bound[a] # 0 =>
       \/ a \in tasks[bound[a]]
       \/ phase = "Binding" /\ bound[a] = gen
  /\ \A g \in Gens : \A a \in tasks[g] : bound[a] = g

\* Whatever still accepts connections is either the instance in the event loop or
\* has been told to stop: a restart leaves no unsupervised server behind, and two
\* configurations are never both live.
OneLiveGeneration ==
  \A g \in Gens : tasks[g] # {} =>
    g \in cancelled \/ (g = gen /\ phase = "Running")

\* A running HTTP instance that has not been told to stop serves all of its
\* listeners: never the MCP endpoint without its health endpoint or the reverse.
AllListenersServe ==
  (loaded.transport = "http" /\ phase = "Running" /\ gen \notin cancelled)
    => tasks[gen] = Addrs

\* Whatever the order in which schemas and operations arrive, and however often
\* either is replaced before the other one comes, the server starts and runs with
\* the last of each that its streams yielded.
StartsFromLatest ==
  /\ phase \in StartPhases \cup {"Running"} =>
       schema # 0 /\ operations # 0 /\ schema \notin BadSchemas
  /\ phase \in LoopPhases \cup StartPhases =>
       schema = schemaSeen /\ operations = opsSeen

-----------------------------------------------------------------------------
(* Liveness, under FairSpec *)

\* A SIGTERM or SIGINT that an instance receives ends the process, unless a
\* configuration change replaces the instance first: the signal is then lost.
ShutdownHonoured ==
  (loaded.transport = "http" /\ shutdown = "pending") ~> (phase = "Exited" \/ shutdown = "lost")

\* A good configuration file that stays as it is is eventually the one loaded,
\* whatever restarts, rejected edits and SIGHUPs came before it, unless the
\* process ends.  Two cases are excepted: an edit that no watcher could see, and a
\* process that an edit turned from HTTP to stdio, which has no watchers of its own
\* and whose event loop is blocked.
Unwatched == watched # loaded.ver \/ (loaded.transport = "stdio" /\ handlers = {})
ConfigConverges ==
  \A v \in 0..MaxEdits :
    (config.kind = "good" /\ config.ver = v)
      ~> (loaded.ver = v \/ config.ver # v \/ phase = "Exited" \/ Unwatched)

\* While the event loop runs, the latest operations of the source reach the catalog
\* (define-tools.mdx: hot reloading without restarting).  Over stdio it does not run
\* until the client has left.
OperationUpdatesApply ==
  \A v \in 1..MaxVersion :
    (phase = "Running" /\ opsSrc = v) ~> (operations = v \/ opsSrc # v \/ phase # "Running")

\* An edit of the configuration never ends a process that has been serving
\* (CHANGELOG.md: "If the updated config file contains errors, the server logs
\* the issue and continues running with the previous configuration").
ConfigErrorsKeepServing ==
  [][phase = "Build" /\ gen > 0 => phase' # "Exited"]_vars
================================================================================

# Verification of apollo-mcp-server

Apollo MCP Server turns GraphQL operations into MCP tools. It is a long-lived
process that reloads everything it serves while it serves it: the GraphQL schema,
the operations, the configuration file, its scripts, the signing keys of its
authorization servers. This directory holds TLA+ models of the parts where that reloading, and
the concurrency around it, decide whether the server is correct; the TLC runs that
check them; and the theorems TLAPS has checked about them.

Contents: [the system](#the-system), [modules](#modules-and-the-code),
[runs](#runs), [fairness](#fairness), [proofs](#proofs),
[where code and documents disagree](#where-code-and-documents-disagree),
[what is left out](#what-is-left-out), [plan](#plan), [how to run](#how-to-run).

`PROJECT.json` is the index: components, runs, mutants, the source lines behind
each definition, hazards with the properties that cover them, and theorems. Paths
below are relative to `src/crates/apollo-mcp-server/src` unless they start with
`registry/` (`src/crates/apollo-mcp-registry/src`), `src/crates` or `docs`
(`src/docs`).

## The system

### How the parts interact

```
 main.rs ── builds, restarts ──▶ StateMachine::start (event loop, one task)
   ▲  stdio: own config watcher        ▲ select_all over the event streams
   │  and SIGHUP handler               │
   │            ┌──────────────────────┼──────────────┬──────────────┐
   │        schema source       operation source   config watcher   signals
   │     (file, uplink, poller) (files, manifest, (registry/files)
   │                              collection)
   │
   └── Restart / Shutdown / Error ◀── event loop ──▶ Starting ──▶ Running
                                                       │             │
                                           binds listeners,     shared state:
                                           spawns serve_http    schema, operations,
                                           tasks, HealthCheck   tool_list_changes
                                                                     ▲
                           MCP requests (tools/list, tools/call) ────┘
                           auth middleware ──▶ NetworkedKeyResolver
```

The event loop is one task and handles one event at a time. What runs beside it is
the per-connection tasks of the HTTP server, the ticker of the health check, the
tasks that forward notifications, the pollers of the sources, which talk to the
loop through bounded channels, and over stdio two more tasks that main spawns.

### Inventory

For each component: its state; its operations; how it interacts with others; what
makes it hard; what makes it correct.

**Process and state machine** (`main.rs`, `server/states.rs`,
`server/states/{configuring,schema_configured,operations_configured,starting}.rs`).
State: the `State` enum with the schema and operations it has so far, the
cancellation token of the running instance, its listeners and serving tasks.
Operations: `build_server`, one `process_event` arm per event, `Starting::start`
(prepare, bind all, serve all), graceful stop, restart after 500 ms. Hard: schemas
and operations come in either order and may be replaced before the other arrives;
a restart builds a new instance while the old one drains; signals have several
listeners, some of which exist only part of the time; over stdio the loop is blocked
for as long as the client is connected. Correct when no socket is open unserved, only
one configuration is live, the server starts from the latest inputs, and shutdowns
and good configuration edits take effect.

**Tool catalog** (`server/states/running.rs`, `graphql.rs`). State: `schema` and
`operations` behind two locks, the app tools. Operations: `update_schema`,
`update_operations`, `list_tools`, `call_tool`, the introspection tools. Hard: a
call holds the read lock of the operations while the upstream endpoint answers; the
event loop itself waits for the write lock; an update writes two locks. Correct when
a call keeps the operation it found, clients never see a mixture or an older
catalog, updates apply and requests are answered.

**Tool list notifications** (`server/states/tool_list_changes.rs`,
`McpService::listen`). State: a watch channel, one receiver per legacy session or
subscription, whether each is being sent to. Operations: publish, initialize,
initialized, listen, send, close, cancel. Hard: the window between acknowledging
and subscribing, changes during a send, clients that do not read, shutdown in the
middle of a send. Correct when no change is lost and no client blocks another.

**Health check** (`health.rs`). State: counter, readiness flag, ticker task, shared
by every clone. Operations: record a rejection, tick, recover, clone and drop. Hard:
the ticker's lifetime is tied to the wrong owner. Correct when the server is
unready exactly while it should be.

**Signing key resolver** (`auth/networked_key_resolver.rs`). State: cache of key
sets, shared fetch in flight, time of the last attempt, per issuer. Operations:
`resolve_key`, the shared fetch. Hard: many requests miss together, the requests
that drive the fetch can be cancelled, two locks, expiry and rate limiting. Correct
when there is one fetch at a time and one per interval, a known key is not
rejected, and everybody is answered.

**Operation collections** (`registry/platform_api/operation_collections`,
`registry/platform_api.rs`). State: `previous_updated_at`, a channel of capacity 2.
Operations: first load, poll, fetch of changed entries, send. Hard: a poll and the
fetch after it are two requests that see two moments and of which one may fail; the
size limit ends polling. Correct when a collection that stays as it is reaches
the server.

**Schema sources** (`registry/uplink.rs`, `registry/uplink/schema`,
`registry/platform_api/schema.rs`). State: the id or hash of the last answer, the
endpoint being asked, a channel of capacity 2. Operations: poll, fall back to the
next endpoint, transform and send, poll the hash, fetch the document, read the watched
file. Hard: endpoints are replicas that lag; hash and document are two requests.
Correct when versions do not go back and what a source keeps serving arrives.

**Operation sources** (`operations/operation_source.rs`, `runtime/operation_source.rs`,
`registry/uplink/persisted_queries`, `registry/files.rs`). State: one watch per
configured path, the operations read so far by path, the chunks of a manifest.
Operations: select the source, read a path when its watch yields, send the set once
every path is read; download all chunks of a manifest. Hard: files change while they
are read, directories and files overlap, a manifest fails part of the way. Correct when
each set is complete and what is on disk in the end is what the server has.

**Rhai scripting** (`src/crates/apollo-mcp-rhai`). State: the shared engine, replaced
whole, with the scope its top level has left. Operations: load at start, reload, run the
hook of a GraphQL request on a clone of the scope. Hard: scripts are edited while they are
compiled; hooks run on other threads and may never return; closures turn variables into
cells that clones share, unless the load detaches them; an engine keeps the modules and
promises that hooks come to. Correct when a hook sees one version of the scripts and nothing
of other calls, a failed reload changes nothing, and a good one comes into use.

**Authentication middleware, dispatch and headers** (`auth.rs`, `auth/valid_token.rs`,
`auth/networked_key_resolver.rs`, `scope_requirements.rs`, `cors.rs`, `headers.rs`,
`operations/execution.rs`). State: none of its own. Operations: preflight, skip lists
by header or body, token against several servers, global and per-operation scopes,
dispatch to the server's own tools, an app's or an operation's, headers upstream. Hard:
the decision is made on one part of a request and the tool is found from another,
and operations may be replaced between the two. Correct when the tool that runs is
one that was permitted, a token is vouched for by the server that signed it, and good
tokens pass.

**Operations to tools** (`operations`, `graphql.rs`, `apps/tool.rs`, `apps/manifest.rs`,
`introspection/tools/execute.rs`). State: none that changes. Operations: description,
input schema, output schema and private fields of an operation, splitting of a
response, nesting of an app's results, ad hoc execution. Hard: four walks over one
document, each with its own treatment of fragments, aliases and abstract types.
Correct when the description shows what is selected, the schema accepts what a server
may answer, and private fields never reach the model but always the host.

**Introspection tools and schema index** (`introspection/tools`,
`schema_tree_shake.rs`, `src/crates/apollo-schema-index`). State: the index, built at
start. Operations: retain a type to a depth, index the schema, search and climb to the
root types. Hard: cyclic schemas, depth limits met on several ways, the index is
not rebuilt. Correct when climbs end, matches are found and shown with what is needed to
use them, and introspection shows exactly what is within the depth.

**Read-only or external parts.** Prompts and resources of apps are loaded once; reading
them is guarded like a call. A remote resource is fetched when it is read. Host validation is configured once and done by rmcp; the parsing and
environment expansion of the configuration are reduced to whether a file parses and
builds; telemetry observes. See [what is left out](#what-is-left-out).

## Modules and the code

Schemas, operation sets and configurations are versions or small sets; messages
have no contents. What is kept is the control: every guard, early return and error
path, and the order of the steps between two awaits. An action is a piece of
code that no other task can observe half done.

**ServerLifecycle** is `main` and the state machine, with everything one process
goes through: build, open the streams, process events, start, bind, serve, drain,
restart, exit. `phase` is the place in `main`'s loop or the variant of `State`; the
phases `Starting`, `Binding` and `Serving` are the places inside
`Starting::start` where it awaits, during which no event is processed. `gen` counts
instances; `cancelled`, `bound` and `tasks` say for each instance whether its
token is cancelled, which sockets it holds and which of its `serve_http` tasks
accept, so that the old instance's draining and the new one's binding interleave.
`config`, `loaded` and `watched` are three readings of one file: as it is, as
`build_server` read it, and as the watcher first scanned it. `waiting`, `sighup` and
`shutdown` are the notifications not yet taken, by listener: the streams of the
state machine, dropped with it, the serving tasks' own signal handlers, and main's
own watchers over stdio. Each arm of `process_event` is an action `Process...`; the
sources, the file and the signals are the environment. Bounds: `MaxGen`,
`MaxVersion`, `MaxEdits`. The environment asks for no restart in the last
generation, so that the bound itself never stops the program.

**ToolCatalog** is `Running`: the event loop's update as the steps between which
others run (queue for the lock, rebuild and write the schema, commit and unlock,
publish), the lock of the operations as tokio's fair queue, and the requests that
read. `compiled` is the local variable with the rebuilt operations. Bound:
`MaxSchema`. **AtomicCatalog** is what it promises: one catalog, changed in one
step, and answers that are the catalog at some moment. ToolCatalog implements it
under `tools <- IF step = "committing" THEN compiled ELSE operations`: an update
takes effect with the write of the schema, and the lock hides the rest.

**ToolNotifications** is the signal and its receivers. `unseen` is the watch
channel's "changed" mark of each receiver, `stage` the place of a session
(`Lifecycle`) or of a subscription, with `sending` for a send that has begun and not
ended; `list` and `told` are what the client has and has been told. The catalog is
reduced to whether its last change is published, which is the order ToolCatalog's
EveryChangeAnnounced establishes.

**HealthCheck** has the owners of clones, the ticker as a small machine, the
counter and the flag. A tick at or under the limit changes nothing and is no
action. Bound: `MaxRejected`. It stands alone and only its violation run checks it:
`start()` drops its clone when it has spawned the servers, which ends the ticker, so that
what the ticker does while it lives says nothing of a running server.

**RhaiScripts** has the script directory (`main.rhai` and a module that its top level or a
hook imports), a reload as the steps between which files may be edited, the engines that
hooks may still run on (the shared one is the last), and the hook of each call. A scope is
seen as the ways from a top-level variable to a value: into arrays and maps, into what a
closure captured, into the answer that a promise waits for. A top level captures all it can,
so that every way ends at a shared cell until `Detached` says which the load has left shared;
`Followed` is where `detach` goes on. A hook holds an engine (the `Arc`), has its own copy of
the variable, and writes to it, or to a cell by any way that is still shared. What an engine
itself keeps and hooks change are the modules imported and the answers of promises.
**CallExecution** composes this with the event loop and the lock of the operations, which a
call of an operation or of an app's tool holds while its hook and its request run, and for
which an update waits while it keeps the loop. A call makes one GraphQL request; the prefetches of an app's
tool count with it. Bounds: `Depth`, `MaxEdits`.

**KeyResolver** is one authorization server's part of the resolver: cache, slot and
window, callers and the shared fetch future. Callers' steps are those between taking
and releasing the two locks; `state` is the fetch's place, and a fetch makes
progress only while some caller awaits it (`Driven`), as `Shared` futures do. Time
is a nondeterministic expiry of the entry and of the window. **AtomicKeys** is what it
promises: one cache that everybody sees, filled by one fetch at a time, and callers that
find their key in it, wait for a fetch, or are refused because no fetch may start.
KeyResolver implements it with the mutex, the write lock and the polled future hidden:
keys are visible as soon as the fetch has the write lock (`VisibleCache`), the fetch is
there as long as its slot is (`OneFetch`), and a caller that holds or awaits a lock is still
asking (`Stage`).

**UplinkStream** is the poll loop of `stream_from_uplink`, its channel and the state
machine that receives. `serves` is what each endpoint serves at the moment, `at` the
endpoint being asked, `offer` and `got` an answer and the chunks of it that were
downloaded; `lastId` is the id of the next request. `rewound` is a history variable:
an endpoint that lags has answered "unchanged". **SchemaSources** extends it with
the published schema (document and hash are two requests) and the watched file,
and is `SchemaSource::into_stream`. Bounds: `MaxVersion`, and the environment's
publications, which come as it likes.

**OperationFiles** is the stream of the configured paths and that of a local manifest:
a notification per watch, a read that is not atomic with the edits of other files, the
barrier (`Emit`), errors that end the machine. **CollectionPoller** is the task of one
collection and the channel to the event loop. `previous` is `previous_updated_at`.
GraphOS changes between any two requests; an id that was removed is not given out
again; `forgotten` is a history variable for removals that a failed fetch made the poller
forget. **OperationSources** composes them by the source that the configuration
selects (`Selected`, `Buildable`), which includes the source that sends one empty
set. Bounds: `MaxContent`, `MaxEdits`, `MaxStamp`.

**RequestPath** is one HTTP request on its way: CORS layer, `oauth_validate` with its
early returns in order, the validator with discovery and key of each server, the scope
checks, the transport (rmcp, external), `call_tool_impl` and the headers of the GraphQL
request, or the list, resource or prompt that is asked for instead. A request is a record of what the code reads of it: verb, protocol version,
the call named by its headers, the call in its body, the app parameter, a listed header,
a token. `stage` is where it is; `UpdateOperations` may happen in between.

**TypeGraph** is a schema as a graph of types with the shaker's nodes on it: the retained
types, those whose fields a selection has cut, and the names left of them. **SchemaIndex** is
the index, built by a depth-first walk (`Visit` is one turn of its loop: one path from the
stack), and the climb of a search (`Climb` is one turn of the loop in `SchemaIndex::search`:
one path from the queue). **SchemaSearch** adds what the two tools do with the shaker, and here
`retain_type` is a loop: `calls` is the stack of its calls in progress, `RetainCall` is one turn
(the call on top returns early, or notes its depth and puts the calls it makes in its place),
so that types are retained in the order of the recursion and with the depths it gives them. A
lookup holds the read lock of the schema, so `Republish` waits until it is released. Every step
of SchemaSearch is a step of SchemaIndex or leaves its variables alone. Neither has a recursive
operator, so that both can be proved about.

**GraphQLDocument** is an operation with its fragments, and the *places* of a document: each
selection with the keys that lead to it, as the least set that has the top selections and what
is inside each of its members. It is the reference for the walks over documents.
**OperationCalls** is one operation that is loaded, and a call of its tool, of an app's tool
with its prefetch, or of `execute`. A JSON value is the kind (object, null, a scalar) at each
place in it. `collect_from_selections` is a loop: `pending` are the selections that are still
to be visited and `CollectNext` is one turn, in the order of the recursion; `Filtered`,
`Restricted` and `Nest` are what becomes of a response. It has no recursive operator.
**ToolDescription** adds what a predefined operation tells about itself, in loops as well:
`retain_type` and `retain_fragments` for the selections of the document (`retaining` are the
calls that are still to be made, `RetainNext` makes one), and the definitions of the input
schema (`defining`, `DefineNext`), both before the private fields are collected and in the
order of the recursion. Its reference is `Chosen`, the selections of a document with the type
each is on, which `AreChosen` defines as a least set. Each of its steps is a step of
OperationCalls or leaves its variables alone. **OperationTools** adds the output schema, with
the walk of `schema_walker/output.rs`, in the step that ends the collecting. `Answers` is what
a GraphQL server may answer to a document, written from the GraphQL rules and not from the
code. **SchemaTools** puts the lookups and the operations side by side in one specification;
they share the graph of types and no state. The walk of OperationTools is a RECURSIVE operator,
and so without theorems.

The modules meet at narrow places. SchemaSources and OperationSources produce the events
that ServerLifecycle takes as `SchemaArrives` and `OperationsArrive`; it hands a schema and
operations to ToolCatalog's `Init` and events to its `Take...` actions; ToolCatalog's
Commit and Publish are ToolNotifications' Commit and Publish, and its update is the
`UpdateOperations` of RequestPath; RequestPath asks KeyResolver for a key and its
`Execute` is a call of CallExecution, whose result is split by OperationCalls;
ServerLifecycle's cancelled token is ToolNotifications' `shutdown`.

## Runs

Each passing run checks deadlock unless the program or the modelled request really
ends: ServerLifecycle exits, RequestPath and SchemaTools follow one request or
operation, and in OperationSources and SchemaSources tasks end and edits are bounded.

| run | instance | states | shows |
|---|---|---|---|
| ServerLifecycle | HTTP with 2 listeners and stdio, and edits between them; 3 generations, 2 versions of each input of which schema 1 is bad, 2 edits | 463,000 | safety and liveness of the process |
| ToolCatalog | 2 clients, 1 operation, 1 app tool, 2 schemas | 257,742 | safety, refinement of AtomicCatalog, liveness |
| ToolNotifications | a legacy session, a subscriber, a slow subscriber | 194,398 | no lost change, no blocked client, delivery ends |
| KeyResolver | 2 callers, 2 keys, 2 fetches | 192,480 | one fetch and one start per window, refinement of AtomicKeys, no wrong rejection, everybody answered |
| SchemaSources | Uplink with 2 endpoints (schemas; manifests of 2 chunks), the Platform API and a file; 3 versions, the second without a manifest | 45,257 | whole manifests, newer versions, convergence |
| OperationSources | a directory with 2 files, one of them listed again; a manifest; a collection of up to 2 operations with limit 1; 2 edits | 35,634 | complete sets, what a poll knows, convergence |
| RequestPath | 3 configurations, 2 authorization servers of which one has a path, 12 tokens, 3 tools, 1 app, 2 sets of operations, an app with a local and a remote resource | 3,262,638 | permitted tools, vouched tokens, good tokens pass |
| CallExecution | 2 calls, values nested to depth 2, 2 edits of the scripts, any number of updates | 1,138,013 | hooks, engines, and good scripts coming into use |
| SchemaTools | 576 schemas over 2 objects, a union or interface and 2 inputs, many cyclic, 1 update; 190 documents, 2 prefetches | 1,994,909 | the shaker, search and index, tools of operations |

`ServerLifecycle_config_error`, `HealthCheck_overload` and `SchemaTools_repeated_key` are
violations; see [below](#where-code-and-documents-disagree).

### What the properties say

*ServerLifecycle.* `SocketsHaveServers`: a listening socket belongs to the instance
that is binding or has a task accepting on it. `OneLiveGeneration`: whatever accepts
is the current running instance or has been told to stop. `AllListenersServe`: a
running instance serves all of its listeners or was told to stop. `StartsFromLatest`:
it starts and runs with the last schema and operations its streams yielded.
`ShutdownHonoured`: a received signal ends the process unless a configuration change
replaces the instance first. `ConfigConverges`: a good file that stays is
eventually loaded. `OperationUpdatesApply`: while serving over HTTP, the source's
latest operations reach the catalog.

*ToolCatalog.* `CallsKeepTheirOperation`: a call in progress finds its tool in the
catalog until it returns. `EveryChangeAnnounced`: a committed change is on its way to
the signal. `SchemaNeverGoesBack`: over both locks, by client. `AtomicSpec`: the
refinement. `OperationsApply`, `RequestsAnswered`: updates and requests starve neither
each other nor themselves.

*ToolNotifications.* `NoLostInvalidation`: a connected client with a stale list has
a notification somewhere on its way. `FastClientsRefetch`: and acts on it, however
slow the others. `DeliveryEnds`: cancelling ends every delivery, blocked sends
included.

*KeyResolver.* `SingleFlight`: one fetch at a time, and one start per window.
`CachedKeysAccepted`: a request whose key has been in the cache ever since it asked is not
rejected. `AtomicKeysSpec`: the refinement. `ResolveReturns`: everybody is answered.

*SchemaSources.* `ManifestsAreWhole`: a manifest in the channel or in use is all the
chunks of one version. `OnlyNewerVersions`: versions from Uplink increase, until a lagging
endpoint has answered "unchanged". `SourceConverges`: a version that every endpoint, the
Platform API or the file keeps is loaded in the end, unless stream or server have ended.

*OperationSources.* `SetsAreComplete`: a set is sent only when each configured path has
been read, and is the operations of all the paths together.
`PreviousIsDelivered`: a sleeping poller believes it delivered what it delivered, so that
its next difference is the right one. `SourceConverges`: for each source that can be
selected, what it holds in the end the state machine has in the end.

*RequestPath.* `OnlyPermittedRuns`: with a token, its scopes satisfy the global
requirement and those of the very tool that runs; without one, that tool is in the skip
list and not an app's, or the request has a listed header; likewise for tools/list,
resources and prompts. `TokensAreVouched`: a
token that is let in or goes upstream is fresh, verified by a key of the server whose
issuer it names, and for this server. `GoodTokensPass`: 401 never answers a
preflight or a stateless GET, nor a good token because of another server than its own;
the scopes a 403 names suffice for the check that failed.

*CallExecution.* `HooksAreIsolated`: a hook runs to its end on the scripts it started with
but for a module that it is the first to import, and no write of another call shows through,
by the variable's name or through any closure, however deep; the answer of a promise is
excepted. `EnginesAreWhole`: each file that an engine has read has compiled and run, or the
engine is the empty one of a server without scripts; two files of an engine may be of two
versions. `ScriptsConverge`: once nobody edits them, calls end up running the scripts on disk
if these are good, although hooks and requests may never end. Two things can keep them from
it, and both are needed: a top level that never ends, and a call of an operation that never
ends while an update waits for its lock.

*SchemaTools.* `ClimbsEnd`: no path of a climb meets a type twice. `EveryTypeIsFound`:
the index knows exactly the types operations can reach, and a match has a way to a root.
`ResultsAreUsable`: each path that is shown starts at a root type and has the fields and
all input types needed to write it. `IntrospectionIsExact`: to depth d, the types at
most d - 1 references away, with all their fields. `ToolDescribesOperation`: the description
shows exactly the selected fields below the root, the input schema defines exactly the
types its variables lead to. `ResponsesFitSchema`: the output schema accepts every
response. `PrivateFieldsAreFiltered`: no private field is in `structuredContent` if the
document spreads each fragment in one place, and the host can put each response together
again, whatever the document.

Each module with variables but HealthCheck also defines its type invariant; except in
SchemaIndex, where it is a part of the inductive invariant (`WalkTypeOK`, `ClimbTypeOK`),
they are theorems (`TypeCorrect`).

### Why the bounds are enough

Three generations are one to replace, one that replaces it while the first drains,
and one after that, which is the least in which leftovers of the first could
meet the third. Two versions are one to start from and one to replace it with; with
the first schema bad there is also a stream whose first event is fatal. Two edits
leave the file good, then broken, then good again, and may change the transport twice. Two
listeners are what the program has at most (the endpoint and a health port). One
operation that comes and goes and two clients make every order of a waiting writer, a
reader before it and a reader behind it in the fair queue. In that run no operation is
rejected by the generator, since a second one multiplies the states beyond use; the
theorems about ToolCatalog hold for any set of rejected operations. Two fetches are what
a second flight needs; two keys separate a key set that has the caller's key from
one that has only the other's.

Two endpoints are one that lags and one that does not; two chunks, one that arrives and
one that fails; three versions with the second unlisted, a change, a variant without a
manifest, and a change after it. A directory and a file that share a name, with a third
content, are what overlap, barrier and a change of one path need. Two operations with
limit one have a set under, at and over the limit. Two servers are what an issuer of the
other server, a key of the other server, and a failure before the right one need; the
tokens are good ones with every set of scopes and ones with a single flaw. Values two deep
have an array in a closure, a closure in an array, and a closure in a closure, and two edits
make a script bad and good again, or change it twice under a hook that holds the first; the
proof is for any depth and number. Of schemas there are all in a family
with cycles through objects, unions, interfaces, input types and the root type; a depth
of three is one more than two references, on which the ways differ. The documents combine
two selections of every kind on an object, an interface and a union; some spread a fragment
in two places.

## Fairness

No specification assumes fairness of the outside world where the code does not
depend on it.

- *ServerLifecycle*: main, the event loop, the start sequence and the serving tasks
  are polled; `select_all` polls every ready stream, so each kind of event has
  its own weak fairness. Sources need not publish, the stdio client need not leave.
- *ToolCatalog*: tasks are polled, and the lock is fair because tokio's is; the three
  kinds of event have strong fairness since `select_all` goes round. That the
  upstream answers (`UpstreamFairness`) is an assumption about the endpoint:
  `graphql.rs` sets no timeout, and without an answer `OperationsApply` fails: see below.
- *ToolNotifications*: the server's tasks are fair; only clients in `Fast` read.
- *HealthCheck*: timers fire and the ticker is polled.
- *CallExecution*: the event loop goes on when it can, and takes a notification of the
  scripts' watcher if it is free for one again and again (strong fairness, since `select_all`
  polls its streams in turn).
  Nothing is assumed of what runs scripts or waits for the endpoint: hooks, requests and top
  levels may go on for ever. A hook that spins holds a worker thread and not the loop, which
  main polls on its own thread (`#[tokio::main]`, `main.rs:38`).
- *KeyResolver*: strong fairness of the callers and of the fetch, because they
  compete for a mutex and a lock that are held for moments. `discovery_timeout`
  ends every request. Callers may be cancelled at any time and need not be.
- *SchemaSources*: tasks and the state machine are polled; requests may fail any number
  of times, but one that is repeated for ever is answered at last (strong fairness
  of the answers, of each chunk, of the document and of the hash).
- *OperationSources*: strong fairness of each watch, since `select_all` goes round;
  for the collection, requests end by their timeouts, and strong fairness of a poll that
  finds a difference and of a fetch that succeeds says that GraphOS does not
  fail every time.
- *RequestPath* and *SchemaTools* have safety properties only and no fairness.

## Proofs

The theorems hold for every value of the constants, from the named assumption of each module,
which TLC evaluates on its runs. Most only say that constants are of their kinds and that the
names for "nobody" and "nothing" are not also names of something (`LifecycleAssumption`,
`CatalogAssumption`, `NotificationAssumption`, `ResolverAssumption`,
`ScriptAssumption`, `UplinkAssumption`, `CollectionAssumption`). `PathAssumption` says what a
configuration and a request are made of. `FilesAssumption` says that finitely many paths are
configured and that a path which is not a directory is one file. `IndexAssumption` says that a
schema is valid, as apollo-compiler has checked it to be (it has a query type, and members of a
type are types), and that a search may have at least one match and one path. `SearchAssumption`
says of the schemas what the shaker relies on: a type is output or input and not both, a
field's type is an output type (or a leaf), its arguments are finitely many input types, input
types lead to input types, and depths are numbers. `DocumentAssumption` says that selection
sets are sequences and that `Places` gives the places of a document as GraphQLDocument defines
them. `DescriptionAssumption` says the same of `Chosen`, that the schema keeps input and output
types apart, and that the operations are valid for it: they select from output types, and
fields that these have, and their variables are of input types. An operation that is not makes
a tool too, but the endpoint answers none of its calls, so nothing is claimed of it.

Every safety property of the passing runs is a theorem, except ResponsesFitSchema (see below).
The table says what had to be added to a property to make it inductive; that is where the
reasons why the code works are written down. Each invariant has been checked with TLC as well,
on the instance of the component's run or, those of the two lookups, on one with fewer schemas,
and those of OperationCalls, which speak of every set of places, on documents of at most 8
places; those of ToolDescription, which speak of every set of selections, on tools of documents
of at most 8 selections.

| module | theorem: property | inductive invariant |
|---|---|---|
| ServerLifecycle_proofs | `TypeCorrect` | TypeOK, and an instance exists outside of Build and Exited |
| | `SocketSafety`: SocketsHaveServers; `OldServersStop`: OneLiveGeneration; `ListenersServeTogether`: AllListenersServe | SocketInv: the three together (each needs the others), and *generations to come have neither tasks nor a cancelled token* |
| | `StartSafety`: StartsFromLatest | the streams are not ahead of their sources, a half-configured state holds what its name says, the schema held is never bad |
| ToolCatalog_proofs | `TypeCorrect` | TypeOK |
| | `CallsAreStable`: CallsKeepTheirOperation | a writer excludes readers; every reader's tool is there |
| | `ChangesAreAnnounced`: EveryChangeAnnounced | inductive alone: only the commit changes what can be seen, and the publication is the next step of the loop |
| | `SessionsSeeOneHistory`: SchemaNeverGoesBack | the schema of the event in progress is newer than the one in force until it is written, equal to it otherwise; every tool that can be listed or will be is of the schema in force, and no client has seen a newer one |
| | `CatalogIsAtomic`: AtomicSpec | the same, and for each action the atomic step or stutter it maps to |
| ToolNotifications_proofs | `TypeCorrect`; `NothingIsLost`: NoLostInvalidation | with it, a legacy client that has not initialized has no list |
| KeyResolver_proofs | `TypeCorrect` | TypeOK |
| | `StartsAreLimited` (a part of SingleFlight) | inductive with TypeOK |
| | `OneFetchAtATime`: SingleFlight; `KeysAreAtomic`: AtomicKeysSpec | SlotInv: a fetch is active exactly if it is in the slot, callers await the slot's, and whoever holds the mutex is deciding what to do about it; for the refinement, the atomic step or stutter of each action |
| | `StaleKeysAnswer`: CachedKeysAccepted | a covered key is in the cache and its caller not rejected |
| RequestPath_proofs | `TypeCorrect`; `PermittedRuns`: OnlyPermittedRuns; `VouchedTokens`: TokensAreVouched; `GoodTokensAreLetIn`: GoodTokensPass | PathInv, in four parts: ServeInv (what is served is what the body asks for, and was let in), GrantInv (for each way of being let in, what the middleware looked at is what will be served), KeyInv (a verified token was verified by the server it names), DeniedInv (who is refused, and after which servers) |
| ToolCalls_proofs | `TypeCorrect` (of CallExecution); `HooksKeepTheirScripts`: HooksAreIsolated; `OnlyWholeEngines`: EnginesAreWhole | ScriptInv: no cell of an engine that is still shared can be written to (`detach` follows every way but a promise's, `WaysAreDetached`), so what closures captured is as the load left it; the scripts of an engine stay, but for a module not imported yet; a hook's copy of the variable has what it wrote; a reload has compiled what it is about to install |
| | `TypesAreFound`: EveryTypeIsFound; `ClimbsAreFinite`: ClimbsEnd | WalkInv and ClimbInv: see below |
| | `LookupsKeepTheIndex` | every step of SchemaSearch is a step of SchemaIndex or a stutter, so that the two theorems above hold of the tools |
| | `IntrospectionShowsAll`: IntrospectionIsExact; `SearchesAreUsable`: ResultsAreUsable | LookupTypeOK, PathsInv, IntrospectInv and UsableInv: see below |
| | `PrivateFieldsStayPrivate`: PrivateFieldsAreFiltered | CollectInv and ResultInv: see below |
| | `ToolIsDescribed`: ToolDescribesOperation | RetainInv and DefineInv: see below |
| SchemaSources_proofs | `TypeCorrect`; `OnlyWholeManifests`: ManifestsAreWhole | WholeInv: what waits for room in the channel is whole too |
| | `VersionsOnlyGrow`: OnlyNewerVersions | OrderInv: while no endpoint has lagged, the versions in use, in the channel, waiting and being transformed increase in this order, up to the last id |
| OperationSources_proofs | `TypeCorrect`; `OnlyCompleteSets`: SetsAreComplete | FilesInv: only configured paths are read, so that as many paths as were configured are all of them, which is what the barrier counts; a set that was sent is kept up to date |
| | `PollerKnowsWhatItSent`: PreviousIsDelivered | PollerInv: an operation is in a set once; what the poller remembers between two requests of a poll is at most what it has delivered; before the first answer there is nothing |

Each proof has a lemma that every step preserves the invariant, with one step per
action of the next-state relation, and ends by combining it with the initial states. The
few facts about sequences that several proofs need (`LastAndFront`, `Joined`,
`QueueGrows`, ...) are lemmas of the module that uses them.

**The schema index** has the longest argument. The loop of `SchemaIndex::search` has no
test that stops a climb from going round: its set of visited types is compared with texts of
the form `Type#field` (`Followed`), so a type may be climbed to again and again. That a climb
ends rests on how the walk collected the references, and that it finds a root rests on the
climb:

- *WalkInv.* The paths on the stack are those of a depth-first walk: each goes through types
  that are known, each once, and the ones above it go through them as well
  (`ThroughKnown`). Hence whatever refers to a type on the way of the path on top is on
  that way too, and a path that does not repeat a type adds a reference from the way to a type
  that is not on it. So references have no cycle: in any set of types there is one that no
  other of them refers to (`Acyclic`). What a known type leads to is known or pending
  (`NothingForgotten`), what is known or pending is in every closed set with the roots
  (`NothingElse`), and only root types have no reference (`OnlyRootsAreFree`). When the
  stack is empty these give the least closed set.
- *ClimbInv.* The paths of a climb follow references (`PathsClimb`); a repeated type on one would
  be a set in which each is referred to by another, which `Acyclic` rules out. As long as no
  way is found, whatever refers to a visited type is visited or in the queue and something
  does refer to it (`StillClimbing`). If the queue ran empty then, the visited types would be
  such a set as well.

`Acyclic` says by sets what is usually said by paths: a statement about all paths would
need induction over their length.

**The lookups** are proved along the stack of calls of `retain_type`; *ahead* are the types
that the calls on it will retain, each to its depth.

- *To a depth* (`LimitedInv`): what is kept or ahead is near enough to the type that was
  asked for; and what is near enough is kept, or near enough to a type ahead with the depth
  it is ahead with. The second part is the one a shaker could break, by not walking a type
  again that it had met with less depth left: the code returns early only for a type that was
  walked without a limit.
- *Without a limit* (`UnlimitedInv`): what a kept type refers to is kept or ahead, and what is
  kept or ahead is in every closed set with the type. With nothing ahead, this is the least
  closed set.
- *A search* (`UsableInv`): output types of a path are retained one by one and input types
  without a limit, so what a kept input type refers to is kept or ahead; and each node of each
  root path is kept with its field or called for. It needs `PathsInv`, that walk and climb
  handle paths of output types with input types as arguments, from a root. The theorem is for
  `leaf_depth = 1`, the default: to a larger depth the walk of a leaf may retain an input
  type to a limit, and the property is false then (see below).

**Private fields** are proved along the selections that are still to be visited. *CollectInv*
says that some set of places has been visited: what these lead to has been visited or is
pending, their private fields are marked, and every fragment that is not visited again was
spread at one of them. When nothing is pending, the set has the top selections and what is
inside each of its members, so it is all places of the document. A private field is not
visited further, and need not be: nothing is inside it, since all of its value is left out.
The turn that meets a fragment for the second time is where `SpreadOnce` is needed: what the
fragment selects was visited where it was met first, and that is here. *ResultInv* adds that
`Filtered` keeps no place at or below a marked one, and that what was filtered is also given
to the host as it came. The theorem is about OperationCalls, for any responses of the server;
the run checks it of OperationTools, whose steps are steps of OperationCalls or leave its
variables alone.

**The description of a tool** is proved along the calls of `retain_type` that are still to be
made. *RetainInv* says in one direction that nothing is retained but what is selected: every
call is for selections of the document, on the type that it is for (`CallOK`), so every name
that a node gets is selected on that type (`NodesOK`); only input types are kept whole. In the
other direction some set of selections has been retained: their nodes show them, and what is
under them has been retained or is what a pending call is for (`RetainedSoFar`). When no call
is left the set is closed and has the top selections, so it is all of them. Most of the proof
is that each kind of call hands on all that it does not retain itself: a fragment by the type
it is on and not the one it is spread in, a field by its type. A union retains nothing of what
is selected on it but through the fragments, which is all there is, as a valid document selects
no field from a union. *DefineInv* is the same for the input schema: each definition is there
with its fields or has them still to come, what it refers to is defined or pending, and all of
that is in every closed set with the types of the variables. A placeholder counts as a
definition, which ends the walk of cyclic input types, and none is left when nothing is
pending.

Only model-checked:

- liveness, all of it: the prover has neither fairness nor ENABLED;
- `ResponsesFitSchema`: output schemas and responses are trees that OperationTools builds and
  compares by recursion over the document, and the prover cannot use RECURSIVE operators;
- HealthCheck, of which one violation run is all there is.

## Where code and documents disagree

Each of the three violation runs checks the sentence quoted in `PROJECT.json`.

- *ServerLifecycle_config_error*: `ConfigErrorsKeepServing` fails. A configuration
  that parses passes the validator, stops the running server, and ends the
  process when `build_server` finds what the validator did not look at.
- *HealthCheck_overload*: `OverloadReported` fails. The first clone dropped, which is
  the one in `Starting::start`, aborts the ticker all clones share.
- *SchemaTools_repeated_key*: `ResponsesFitSchema` fails. Two selections of one response
  key on an interface or union give two schemas that contradict each other.

More is in the models without a run of its own, as exceptions stated in the
properties, outside the instances, or as behaviour nobody promises otherwise.

*Process.* An edit of the configuration between `build_server`'s read (`main.rs:89`) and
the watcher's first scan raises no event (`watched # loaded` in ConfigConverges;
`docs/source/config-file.mdx:10` promises a restart for every edit). An edit that turns
HTTP into stdio leaves a process without watchers (`main.rs:54`, `Unwatched`). Over stdio
no schema or operations event is processed while the client is connected, so
`OperationUpdatesApply` is a property of HTTP only (`starting.rs:248`). The state
machine's SIGHUP stream yields one signal per instance (`states.rs:310`), so after one
rejected reload over HTTP a second SIGHUP does nothing.

*Calls.* Without `UpstreamFairness`, one call that is never answered holds the read lock of
the operations, and the event loop waits behind it (`graphql.rs:101` sets no timeout;
`docs/source/define-tools.mdx:93` promises reloading); so does a hook that never returns, and
scripts are not reloaded then either (the second exception of ScriptsConverge). A
promise that the top level of a script makes is not detached: the first call whose hook waits
for it has the answer, and the hook of every other throws (`types/promise.rs:46`), where
`engine.rs:107` says that detaching keeps calls apart. A module that a hook is the first to
import is read then, and may be newer than the script that imports it. The counter of rejections is not
reset at the end of a sampling interval (`health.rs:157`), where
`docs/source/config-file.mdx:152` counts those "in a sampling interval". A GraphQL request
that fails is a normal result and is not counted, where
`docs/source/health-checks.mdx:61` says "failed requests".

*Sources.* A poll of a collection applies removals to its memory before the fetch that
fails, and never sends them (`collection_poller.rs:110`, `forgotten`); after a transient
failure of the first request an empty collection shows no difference and is never sent
(`collection_poller.rs:105`; `src/CHANGELOG.md:361`). A path that is configured twice is
counted once and keeps the barrier closed (`operation_source.rs:150` and `:82`). The id of
an "unchanged" answer of a lagging endpoint replaces a newer one (`uplink.rs:278`,
`rewound`).

*Requests.* In an app, `tools/list` includes the operations, of which a call answers "tool
not found" (`running.rs:284`). Discovery takes the first document that can be read; one
of another issuer ends the fetch without trying the next URL.

*Tools.* A fragment that is spread twice is walked once for private fields
(`private_fields.rs:77`), so they are not filtered in the second place: without `SpreadOnce`
PrivateFieldsAreFiltered fails. With a `leaf_depth` of two or more
ResultsAreUsable fails: an input type that a limited walk retained first is not walked
again without limit (comment at `search.rs:143`). A type that lies on another path is
cut to the field of that path (`search.rs:73` promises complete definitions). Climbing
compares `Type#field` texts (`lib.rs:477` of the index), so the shortest way may
be lost. An inline fragment without a type condition is dropped from a tool's description.
A tool of an app carries the output schema of its operation although its result is
nested (`apps/manifest.rs:136`). Fragments that spread each other in a cycle would
not terminate in the shaker.

## What is left out

- *Process, files*: the watcher's own thread and channel, of which the effect is modelled
  as one pending notification per watch; the parsing of the configuration and the
  expansion of environment variables.
- *Sources*: the texts of manifests and of collection entries; a manifest by URL;
  static schema texts, which yield once.
- *Scripts*: the functions a script may call; more than one module; a value that contains
  itself, which `detach` would follow without end.
- *Requests*: cryptography, the protected-resource metadata, TLS, the wording of
  challenges, host validation; issuers are compared as identities, where the code
  compares URLs in one place and texts in another. A head that cannot be read is always
  answered 400; of the encoded names that the middleware does not read (`auth.rs:682`), rmcp
  could accept one. A configuration may skip authentication for any method, more than
  `deserialize_skip_methods` lets it (`auth.rs:207`).
- *Notifications*: a send that fails and can be repeated, after which the code goes on with
  the next change (`tool_list_changes.rs:115`; a comment at `running.rs:816` says that rmcp
  has no such error).
- *Tools*: descriptions, default values, custom scalars, lists, directives other than
  `@private`, the minified format, search scores, the extra inputs of an app's tool, the
  `validate` tool, which only reads the schema. Implementers of an interface appear only as
  its members.
- *Prompts and resources*: loading them at start, resources/list and prompts/list,
  templates, metadata and cache hints; which argument of a prompt is missing.
- The explorer; telemetry.

## Plan

The components are modelled as far as the inventory and the list above say, and the safety
properties are proved but for the output schema. What remains:

1. The walk for the output schema as a loop over the selections that are still to be visited,
   as those of OperationCalls and ToolDescription are, with schemas and responses as sets of
   places, so that it can be reasoned about.
2. Abstract specifications of what the sources promise (a consumer that receives whole
   versions in order; a poller that is either up to date or knows what it lacks), with
   SchemaSources and OperationSources shown to implement them, step by step.

## How to run

```
tlc -workers 2 -config ServerLifecycle.cfg MCServerLifecycle.tla
tlapm ServerLifecycle_proofs.tla
```

The longest run takes two to three minutes on two cores. Each property of a passing
run has a mutant in `PROJECT.json`: a changed definition, kept in the module beside
the original under a comment "Mutant of", with which TLC finds the property violated.

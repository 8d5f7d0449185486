------------------------------ MODULE ToolCatalog ------------------------------
(***************************************************************************)
(* The tool catalog of a running server (server/states/running.rs): the    *)
(* schema and the operations behind their two locks, the event loop that   *)
(* rebuilds them and the requests that read them.                          *)
(*                                                                         *)
(* The lock of the operations is tokio's fair read-write lock: requests    *)
(* are granted in the order they were made, readers together.  A tool call *)
(* holds it while the upstream GraphQL endpoint answers.  The schema's     *)
(* lock is never held over an await, so reading or writing it is one step. *)
(***************************************************************************)
EXTENDS Naturals, Sequences

CONSTANTS
  Clients,    \* concurrent requests, one at a time per client
  EventLoop,  \* the task that runs StateMachine::start
  Ops,        \* operation documents
  Rejected,   \* those that generate no tool: invalid, subscriptions, mutations
  AppTools,   \* the tools of MCP apps, fixed when the server starts
  MaxSchema   \* bound: versions of the schema

ASSUME CatalogAssumption ==
  /\ Rejected \subseteq Ops
  /\ AppTools \cap Ops = {}
  /\ {"none", "list"} \cap (Ops \cup AppTools) = {}
  /\ EventLoop \notin Clients
  /\ MaxSchema \in Nat \ {0}

Schemas  == 1..MaxSchema
Tools    == [op : Ops, schema : Schemas]
Names    == Ops \cup AppTools
Requests == {"none", "list"} \cup Names

VARIABLES
  offer,        \* what the two sources have to offer
  taken,        \* the contents of the last events taken from their streams
  step, event,  \* where the event loop stands, and with which event
  compiled,     \* the operations it has rebuilt and not yet committed
  schema,       \* Running.schema
  operations,   \* Running.operations
  announced,    \* the operations when tool_list_changes last published
  queue,        \* who waits for the operations lock, in order
  readers,      \* the calls that hold it for reading
  request,      \* per client: "none", "list", or the tool it calls
  listed, introspected,  \* per client, its last answers
  stop          \* Shutdown or ConfigChanged: "none", "pending" or "taken"

sourceVars == <<offer, stop>>
loopVars   == <<taken, step, event, compiled, announced>>
stateVars  == <<schema, operations>>
answerVars == <<listed, introspected>>
lockVars   == <<queue, readers>>
vars == <<sourceVars, loopVars, stateVars, answerVars, request, lockVars>>

Generate(ops, v) == [op : ops \ Rejected, schema : {v}]
OpsOf(tools) == {t.op : t \in tools}

\* The event loop holds the write lock while it rebuilds and until it has committed.
Writing == step \in {"rebuilding", "committing"}

TypeOK ==
  /\ offer \in [schema : Schemas, ops : SUBSET Ops]
  /\ taken \in [schema : Schemas, ops : SUBSET Ops]
  /\ step \in {"idle", "waiting", "rebuilding", "committing", "publishing", "stopped"}
  /\ event \in {"none", "schema", "operations"}
  /\ schema \in Schemas
  /\ compiled \subseteq Tools /\ operations \subseteq Tools /\ announced \subseteq Tools
  /\ queue \in Seq(Clients \cup {EventLoop})
  /\ readers \subseteq Clients
  /\ request \in [Clients -> Requests]
  /\ listed \in [Clients -> SUBSET Tools]
  /\ introspected \in [Clients -> 0..MaxSchema]
  /\ stop \in {"none", "pending", "taken"}

\* Starting has built the first catalog from the first schema and operations.
Init ==
  /\ offer \in [schema : {1}, ops : SUBSET Ops] /\ taken = offer
  /\ step = "idle" /\ event = "none" /\ compiled = {}
  /\ schema = 1
  /\ operations = Generate(offer.ops, 1)
  /\ announced = operations
  /\ queue = <<>> /\ readers = {}
  /\ request = [c \in Clients |-> "none"]
  /\ listed = [c \in Clients |-> {}]
  /\ introspected = [c \in Clients |-> 0]
  /\ stop = "none"

-----------------------------------------------------------------------------
(* The operations lock *)

\* Mutant of Granted: a writer does not wait for the readers.
GrantedAmongReaders(p) ==
  /\ queue # <<>> /\ Head(queue) = p
  /\ ~Writing

\* The request at the head is granted when no one it excludes holds the lock.
Granted(p) ==
  /\ queue # <<>> /\ Head(queue) = p
  /\ ~Writing
  /\ p = EventLoop => readers = {}

-----------------------------------------------------------------------------
(* The event loop: update_schema and update_operations *)

TakeSchema ==
  /\ step = "idle"
  /\ offer.schema # taken.schema
  /\ taken' = [taken EXCEPT !.schema = offer.schema]
  /\ step' = "waiting" /\ event' = "schema"
  /\ queue' = Append(queue, EventLoop)
  /\ UNCHANGED <<sourceVars, compiled, announced, stateVars, answerVars, request, readers>>

TakeOperations ==
  /\ step = "idle"
  /\ offer.ops # taken.ops
  /\ taken' = [taken EXCEPT !.ops = offer.ops]
  /\ step' = "waiting" /\ event' = "operations"
  /\ queue' = Append(queue, EventLoop)
  /\ UNCHANGED <<sourceVars, compiled, announced, stateVars, answerVars, request, readers>>

\* Shutdown or ConfigChanged: taken like any event, when the loop is idle.
TakeStop ==
  /\ step = "idle"
  /\ stop = "pending"
  /\ stop' = "taken" /\ step' = "stopped"
  /\ UNCHANGED <<offer, taken, event, compiled, announced, stateVars, answerVars,
                 request, lockVars>>

AcquireWrite ==
  /\ step = "waiting" /\ Granted(EventLoop)
  /\ queue' = Tail(queue)
  /\ step' = "rebuilding"
  /\ UNCHANGED <<sourceVars, taken, event, compiled, announced, stateVars, answerVars,
                 request, readers>>

\* Mutant of RebuildForSchema: the tools stay those of the old schema.
KeepTools ==
  /\ step = "rebuilding" /\ event = "schema"
  /\ compiled' = operations
  /\ schema' = taken.schema
  /\ step' = "committing"
  /\ UNCHANGED <<sourceVars, taken, event, announced, operations, answerVars, request,
                 lockVars>>

\* Mutant of RebuildForSchema: the tools are rebuilt and the schema is not written.
RebuildToolsOnly ==
  /\ step = "rebuilding" /\ event = "schema"
  /\ compiled' = Generate(OpsOf(operations), taken.schema)
  /\ step' = "committing"
  /\ UNCHANGED <<sourceVars, taken, event, announced, stateVars, answerVars, request,
                 lockVars>>

\* update_schema: rebuild the operations that are there, then write the schema.
RebuildForSchema ==
  /\ step = "rebuilding" /\ event = "schema"
  /\ compiled' = Generate(OpsOf(operations), taken.schema)
  /\ schema' = taken.schema
  /\ step' = "committing"
  /\ UNCHANGED <<sourceVars, taken, event, announced, operations, answerVars, request,
                 lockVars>>

\* Mutant of RebuildOperations: the new operations are added to the old ones.
AddOperations ==
  /\ step = "rebuilding" /\ event = "operations"
  /\ compiled' = Generate(OpsOf(operations) \cup taken.ops, schema)
  /\ step' = "committing"
  /\ UNCHANGED <<sourceVars, taken, event, announced, stateVars, answerVars, request,
                 lockVars>>

\* update_operations: build the new operations against the schema as it is.
RebuildOperations ==
  /\ step = "rebuilding" /\ event = "operations"
  /\ compiled' = Generate(taken.ops, schema)
  /\ step' = "committing"
  /\ UNCHANGED <<sourceVars, taken, event, announced, stateVars, answerVars, request,
                 lockVars>>

\* Mutant of Commit: nothing is published.
CommitSilently ==
  /\ step = "committing"
  /\ operations' = compiled
  /\ compiled' = {}
  /\ step' = "idle" /\ event' = "none"
  /\ UNCHANGED <<sourceVars, taken, announced, schema, answerVars, request, lockVars>>

\* The operations are replaced and the lock is dropped.
Commit ==
  /\ step = "committing"
  /\ operations' = compiled
  /\ compiled' = {}
  /\ step' = "publishing"
  /\ UNCHANGED <<sourceVars, taken, event, announced, schema, answerVars, request, lockVars>>

Publish ==
  /\ step = "publishing"
  /\ announced' = operations
  /\ step' = "idle" /\ event' = "none"
  /\ UNCHANGED <<sourceVars, taken, compiled, stateVars, answerVars, request, lockVars>>

-----------------------------------------------------------------------------
(* Requests *)

Ask(c, what) ==
  /\ request[c] = "none"
  /\ request' = [request EXCEPT ![c] = what]
  /\ queue' = Append(queue, c)
  /\ UNCHANGED <<sourceVars, loopVars, stateVars, answerVars, readers>>

\* list_tools: the operations are copied under the lock.
ListTools(c) ==
  /\ request[c] = "list" /\ Granted(c)
  /\ queue' = Tail(queue)
  /\ listed' = [listed EXCEPT ![c] = operations]
  /\ request' = [request EXCEPT ![c] = "none"]
  /\ UNCHANGED <<sourceVars, loopVars, stateVars, introspected, readers>>

\* call_tool: the lock is kept while the operation executes.
Found(name) == name \in AppTools \cup OpsOf(operations)

CallTool(c) ==
  /\ request[c] \in Names /\ Granted(c)
  /\ Found(request[c])
  /\ queue' = Tail(queue)
  /\ readers' = readers \cup {c}
  /\ UNCHANGED <<sourceVars, loopVars, stateVars, answerVars, request>>

CallNotFound(c) ==
  /\ request[c] \in Names /\ Granted(c)
  /\ ~Found(request[c])
  /\ queue' = Tail(queue)
  /\ request' = [request EXCEPT ![c] = "none"]
  /\ UNCHANGED <<sourceVars, loopVars, stateVars, answerVars, readers>>

\* Mutant of UpstreamReturns: the call is answered and its guard is not dropped.
ReturnAndKeepGuard(c) ==
  /\ c \in readers
  /\ request' = [request EXCEPT ![c] = "none"]
  /\ UNCHANGED <<sourceVars, loopVars, stateVars, answerVars, lockVars>>

\* The upstream endpoint answers or fails, and the guard is dropped.
UpstreamReturns(c) ==
  /\ c \in readers
  /\ readers' = readers \ {c}
  /\ request' = [request EXCEPT ![c] = "none"]
  /\ UNCHANGED <<sourceVars, loopVars, stateVars, answerVars, queue>>

\* The introspect, search and validate tools read the schema under its own lock.
Introspect(c) ==
  /\ request[c] = "none"
  /\ introspected' = [introspected EXCEPT ![c] = schema]
  /\ UNCHANGED <<sourceVars, loopVars, stateVars, listed, request, lockVars>>

-----------------------------------------------------------------------------
(* The sources *)

OfferSchema ==
  /\ offer.schema < MaxSchema
  /\ offer' = [offer EXCEPT !.schema = @ + 1]
  /\ UNCHANGED <<stop, loopVars, stateVars, answerVars, request, lockVars>>

OfferOperations ==
  /\ \E ops \in SUBSET Ops : offer' = [offer EXCEPT !.ops = ops]
  /\ UNCHANGED <<stop, loopVars, stateVars, answerVars, request, lockVars>>

RequestStop ==
  /\ stop = "none" /\ stop' = "pending"
  /\ UNCHANGED <<offer, loopVars, stateVars, answerVars, request, lockVars>>

-----------------------------------------------------------------------------
Update == \/ TakeSchema \/ TakeOperations \/ TakeStop
          \/ AcquireWrite \/ RebuildForSchema \/ RebuildOperations \/ Commit \/ Publish
Answer(c) == ListTools(c) \/ CallTool(c) \/ CallNotFound(c)
Asks(c) == (\E what \in {"list"} \cup Names : Ask(c, what)) \/ Introspect(c)
Sources == OfferSchema \/ OfferOperations \/ RequestStop

Next == \/ Update \/ Sources
        \/ \E c \in Clients : Asks(c) \/ Answer(c) \/ UpstreamReturns(c)

Spec == Init /\ [][Next]_vars

\* The runtime polls a task that can go on.  select_all polls the streams in
\* turn, so none of the three kinds of event is passed over for ever.
TaskFairness ==
  /\ WF_vars(AcquireWrite \/ RebuildForSchema \/ RebuildOperations \/ Commit \/ Publish)
  /\ SF_vars(TakeSchema) /\ SF_vars(TakeOperations) /\ SF_vars(TakeStop)
  /\ \A c \in Clients : WF_vars(Answer(c))

\* An assumption about the endpoint, which the code does not enforce: execute
\* (graphql.rs) sets no timeout on the request.
UpstreamFairness == \A c \in Clients : WF_vars(UpstreamReturns(c))

FairSpec     == Spec /\ TaskFairness /\ UpstreamFairness
NoAnswerSpec == Spec /\ TaskFairness

-----------------------------------------------------------------------------
(* Safety *)

\* A tool call runs with the operation it found: the catalog is not replaced under
\* it, whatever updates arrive while the endpoint takes its time.
CallsKeepTheirOperation ==
  \A c \in readers : Found(request[c]) /\ ~Writing

\* Clients are told of a change only once they can see it, and of every change:
\* between two updates, what was visible at the last notification is what is
\* visible now ("Publish only after the updated catalog is visible to readers").
EveryChangeAnnounced == step # "publishing" => announced = operations

\* A client that has seen a schema, through its tools or through introspection,
\* never again sees an older one, although the two have locks of their own.
SchemaNeverGoesBack ==
  [][\A c \in Clients :
       /\ introspected'[c] # introspected[c] =>
            /\ introspected'[c] >= introspected[c]
            /\ \A t \in listed[c] : introspected'[c] >= t.schema
       /\ listed'[c] # listed[c] =>
            \A t \in listed'[c] : t.schema >= introspected[c]]_vars

\* Implements AtomicCatalog: an update takes effect when it writes the schema or,
\* if it has none to write, when the operations are rebuilt; until they are
\* committed, what it will commit stands for the catalog, which nobody can read.
Atomic == INSTANCE AtomicCatalog WITH
  tools <- IF step = "committing" THEN compiled ELSE operations

AtomicSpec == Atomic!Spec

-----------------------------------------------------------------------------
(* Liveness *)

\* The operations a source offers reach the catalog, unless it offers others or the
\* instance is stopped first (define-tools.mdx: "MCP Server supports hot reloading").
OperationsApply ==
  \A ops \in SUBSET Ops :
    offer.ops = ops ~> (OpsOf(operations) = ops \ Rejected \/ offer.ops # ops
                        \/ step = "stopped")

\* Every tools/list and every call is answered, however many updates queue with it.
RequestsAnswered == \A c \in Clients : request[c] # "none" ~> request[c] = "none"
================================================================================

---------------------------- MODULE CallExecution ----------------------------
(***************************************************************************)
(* Tool calls of a running HTTP server with their hooks, beside the event    *)
(* loop (call_tool_impl, update_schema, update_operations and                *)
(* reload_rhai_scripts, running.rs; operations/execution.rs).                *)
(*                                                                         *)
(* A call of a predefined operation or of an app's tool holds the lock of    *)
(* the operations for reading while its hook and its GraphQL request run; a  *)
(* call of the execute tool does not.  The event loop handles one event      *)
(* after the other: a reload of the scripts, or an update, for which it      *)
(* waits for that lock.  Composes the lock with RhaiScripts; what an update  *)
(* does to the catalog is ToolCatalog's.                                    *)
(***************************************************************************)
EXTENDS Naturals, Sequences

CONSTANTS
  Requests,     \* the GraphQL requests of calls, one at a time each
  Depth,        \* how deep the values of a script are nested
  MaxEdits      \* bound: edits of the scripts

ASSUME ScriptAssumption ==
  /\ "loaded" \notin Requests
  /\ Depth \in Nat /\ MaxEdits \in Nat

VARIABLES
  disk, edits, changed, loading, engines, hook,   \* see RhaiScripts
  loop,     \* "free", or "waiting" for the operations lock to update the catalog
  guards    \* the calls that hold it for reading

Rhai == INSTANCE RhaiScripts WITH Calls <- Requests

scripts  == <<disk, edits, changed, loading, engines, hook>>
lockVars == <<loop, guards>>
callVars == <<scripts, lockVars>>

CallTypeOK == Rhai!RhaiTypeOK /\ loop \in {"free", "waiting"} /\ guards \subseteq Requests

CallInit == Rhai!RhaiInit /\ loop = "free" /\ guards = {}

-----------------------------------------------------------------------------
(* The event loop *)

\* process_event takes RhaiScriptsChanged; the reload is one call without an await.
TakeReload == loop = "free" /\ Rhai!StartReload /\ UNCHANGED lockVars

LoadScripts == (Rhai!CompileMain \/ Rhai!Swap) /\ UNCHANGED lockVars

TopLevel == Rhai!RunTopLevel /\ UNCHANGED lockVars

\* It takes an update of the schema or the operations and asks for the write lock.
TakeUpdate ==
  /\ loop = "free" /\ loading = Rhai!Idle
  /\ loop' = "waiting"
  /\ UNCHANGED <<scripts, guards>>

\* It has the lock, rebuilds, commits and drops it.
ApplyUpdate ==
  /\ loop = "waiting" /\ guards = {}
  /\ loop' = "free"
  /\ UNCHANGED <<scripts, guards>>

-----------------------------------------------------------------------------
(* Calls *)

\* A predefined operation or an app's tool: the lock is fair, so that the call queues
\* behind a waiting update. There is no await from the lock to the hook.
CallOperation(r) ==
  /\ loop = "free"
  /\ Rhai!BeginHook(r)
  /\ guards' = guards \cup {r}
  /\ UNCHANGED loop

CallExecute(r) == Rhai!BeginHook(r) /\ UNCHANGED lockVars

Hook(r) == (Rhai!RunHook(r) \/ Rhai!HookReturns(r)) /\ UNCHANGED lockVars

\* The call is answered, by the endpoint or with the error of the hook; its guard goes out
\* of scope.
EndCall(r) ==
  /\ Rhai!AfterHook(r) \/ Rhai!HookThrows(r)
  /\ guards' = guards \ {r}
  /\ UNCHANGED loop

-----------------------------------------------------------------------------
EventLoop      == TakeReload \/ LoadScripts \/ TopLevel \/ TakeUpdate \/ ApplyUpdate
RequestStep(r) == CallOperation(r) \/ CallExecute(r) \/ Hook(r) \/ EndCall(r)

CallNext ==
  \/ EventLoop
  \/ Rhai!Edit /\ UNCHANGED lockVars
  \/ \E r \in Requests : RequestStep(r)

CallSpec == CallInit /\ [][CallNext]_callVars

\* The event loop goes on when it can, and select_all polls its streams in turn. Nothing
\* is assumed of what runs scripts: a hook, a GraphQL request (graphql.rs sets no timeout)
\* and the top level of a script may go on for ever.
FairCallSpec ==
  /\ CallSpec
  /\ WF_callVars(LoadScripts) /\ WF_callVars(ApplyUpdate)
  /\ SF_callVars(TakeReload)

-----------------------------------------------------------------------------
\* A hook runs to its end on the scripts it started with and sees no other call, while
\* calls come and go and scripts are reloaded (SharedRhaiEngine::current,
\* RhaiEngine::detach_shared_values).
HooksAreIsolated == Rhai!HooksAreIsolated

\* A reload that fails leaves the scripts that calls run as they are
\* (SharedRhaiEngine::reload).
EnginesAreWhole  == Rhai!EnginesAreWhole

\* Calls end up running the scripts on disk if these are good and no longer edited. Two
\* things alone can keep them from it: the top level of a script that never ends, which
\* runs in the event loop, and a call of an operation that never ends, if the event loop
\* has an update and waits for the lock that the call holds. A hook that never returns does
\* not by itself (shared_engine.rs: "no lock is held while a script runs").
UpToDate ==
  LET now == engines[Rhai!Current] IN
  Rhai!Usable(disk) => now.main = disk.main /\ now.lib \in {disk.lib, Rhai!Later}

ScriptsConverge ==
  \/ <>[]UpToDate
  \/ <>[](loading.at = "lib")
  \/ \E r \in Requests : <>[](loop = "waiting" /\ r \in guards)
===============================================================================

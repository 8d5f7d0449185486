----------------------------- MODULE RhaiScripts -----------------------------
(***************************************************************************)
(* The Rhai engine that all calls share, its reload, and the hook            *)
(* on_execute_graphql_operation that runs before every GraphQL request       *)
(* (apollo-mcp-rhai: shared_engine.rs, engine.rs, checkpoints).              *)
(*                                                                         *)
(* The state machine reloads the scripts after a notification of the watcher *)
(* on the script directory while calls run hooks on other threads.  A script *)
(* is main.rhai and a module, which its top level or a hook imports; a       *)
(* reload reads one after the other and the files may be edited meanwhile.   *)
(*                                                                         *)
(* A closure that captures a top-level variable makes it a cell that the     *)
(* variable and the closure point to.  Every hook runs on a clone of the     *)
(* engine's scope, and the clone of a pointer points to the same cell.       *)
(***************************************************************************)
EXTENDS Naturals, Sequences

CONSTANTS
  Calls,       \* GraphQL requests of tool calls, each with a hook
  Depth,       \* how deep the values of a scope are nested
  MaxEdits     \* bound

Absent   == 0                 \* no main script when the server starts
Broken   == 1                 \* is missing, does not compile, or its top level throws
Later    == 2                 \* a module that no one has imported yet
Written(n) == n + 3           \* what the n-th edit may write
OnDisk   == {Absent, Broken} \cup {Written(n) : n \in 0..MaxEdits}
Scripts  == [main : OnDisk, lib : OnDisk]
Loaded   == [main : OnDisk, lib : OnDisk \cup {Later}]

Usable(s) == s.main > Broken /\ s.lib > Broken

-----------------------------------------------------------------------------
(* The values of a scope *)

\* How a hook gets from a top-level variable to a value: into an array or a map, into
\* what a closure captured, into the answer that a promise still waits for.
Ways == {w \in UNION {[1..n -> {"item", "curry", "receiver"}] : n \in 0..Depth} :
           \A i \in DOMAIN w : w[i] = "receiver" => i = Len(w)}
Variable == <<>>

\* It ends at the variable that closures have captured, or at the receiver of the promise.
ToReceiver(w) == \E i \in DOMAIN w : w[i] = "receiver"

\* A variable has the value of the load, or the one a call has written.
Values == {"loaded"} \cup Calls

\* Mutant of Followed: closures are left as they are.
FollowedItems == {"item"}

\* Where detach goes on from a value: arrays and maps, and what a function pointer has
\* captured.  A promise is returned as it is, and its clones share the receiver.
Followed == {"item", "curry"}

\* The ways that detach_shared_values leaves as pointers, of those that were.
Detached(ways) == {w \in ways : \E i \in DOMAIN w : w[i] \notin Followed}

\* An engine whose top level has run, if it captured all it could.
Engine(s) ==
  [main |-> s.main, lib |-> s.lib, shared |-> Detached(Ways),
   captured |-> "loaded", receiver |-> "full"]

-----------------------------------------------------------------------------
VARIABLES
  disk,      \* the script directory
  edits,     \* bound on edits
  changed,   \* "yes" when the watcher has a notification for the state machine
  loading,   \* the reload in progress: what it does next and what it has compiled
  engines,   \* the engines made so far; the last one is shared
  hook       \* per call: where it stands, the engine it holds and what the scripts of that
             \* were, its copy of the variable, and what it wrote last to it

rhaiVars == <<disk, edits, changed, loading, engines, hook>>

Idle   == [at |-> "idle", main |-> Absent, lib |-> Absent]
NoHook == [at |-> "none", engine |-> 0, began |-> [main |-> Absent, lib |-> Absent],
           top |-> "loaded", mine |-> "loaded"]
Current == Len(engines)

EngineType == [main : OnDisk, lib : OnDisk \cup {Later}, shared : SUBSET Ways,
               captured : Values, receiver : {"full", "taken"}]
HookType == [at : {"none", "running", "returned"}, engine : Nat, began : Loaded,
             top : Values, mine : Values]

RhaiTypeOK ==
  /\ disk \in Scripts /\ edits \in 0..MaxEdits /\ changed \in {"yes", "no"}
  /\ loading \in [at : {"idle", "main", "lib", "swap"}, main : OnDisk, lib : OnDisk \cup {Later}]
  /\ engines \in Seq(EngineType) /\ Current > 0
  /\ hook \in [Calls -> HookType] /\ \A c \in Calls : hook[c].engine \in 0..Current

\* SharedRhaiEngine::load: a missing main script is an engine without hooks; scripts
\* that fail keep the server from starting.
RhaiInit ==
  /\ disk \in [main : {Absent, Written(0)}, lib : {Broken, Written(0)}]
  /\ \E lib \in {disk.lib, Later} :
       /\ (disk.main = Absent /\ lib = Later) \/ Usable([main |-> disk.main, lib |-> lib])
       /\ engines = <<Engine([main |-> disk.main, lib |-> lib])>>
  /\ edits = 0 /\ changed = "no" /\ loading = Idle
  /\ hook = [c \in Calls |-> NoHook]

-----------------------------------------------------------------------------
(* The directory and the reload *)

Edit ==
  /\ edits < MaxEdits
  /\ \E f \in {"main", "lib"}, c \in {Broken, Written(edits + 1)} :
       disk' = [disk EXCEPT ![f] = c]
  /\ edits' = edits + 1 /\ changed' = "yes"
  /\ UNCHANGED <<loading, engines, hook>>

\* RhaiScriptsChanged in the running state.
StartReload ==
  /\ changed = "yes" /\ loading = Idle
  /\ changed' = "no"
  /\ loading' = [Idle EXCEPT !.at = "main"]
  /\ UNCHANGED <<disk, edits, engines, hook>>

\* compile_file: a missing main script is a failure here, unlike at the start.
CompileMain ==
  /\ loading.at = "main"
  /\ loading' = IF disk.main > Broken
                THEN [loading EXCEPT !.at = "lib", !.main = disk.main] ELSE Idle
  /\ UNCHANGED <<disk, edits, changed, engines, hook>>

\* Mutant of RunTopLevel: the new engine is installed whether its top level ran or not.
RunTopLevelUnchecked ==
  /\ loading.at = "lib"
  /\ \E lib \in {disk.lib, Later} : loading' = [loading EXCEPT !.at = "swap", !.lib = lib]
  /\ UNCHANGED <<disk, edits, changed, engines, hook>>

\* run_ast_with_scope, which resolves the imports of the top level.
RunTopLevel ==
  /\ loading.at = "lib"
  /\ \E lib \in {disk.lib, Later} :
       loading' = IF lib > Broken THEN [loading EXCEPT !.at = "swap", !.lib = lib] ELSE Idle
  /\ UNCHANGED <<disk, edits, changed, engines, hook>>

\* Mutant of Swap: the lock is held while a hook runs.
SwapWaits ==
  /\ loading.at = "swap"
  /\ \A c \in Calls : hook[c].at # "running"
  /\ engines' = Append(engines, Engine(loading))
  /\ loading' = Idle
  /\ UNCHANGED <<disk, edits, changed, hook>>

\* The values are detached and the engine is shared. The write lock is free but for the
\* moment a hook takes its snapshot.
Swap ==
  /\ loading.at = "swap"
  /\ engines' = Append(engines, Engine(loading))
  /\ loading' = Idle
  /\ UNCHANGED <<disk, edits, changed, hook>>

-----------------------------------------------------------------------------
(* The hook of a call *)

\* current(), the check for the function and the clone of the scope; without the function
\* the call goes on at once.
BeginHook(c) ==
  /\ hook[c].at = "none"
  /\ hook' = [hook EXCEPT ![c] =
       IF engines[Current].main = Absent THEN [NoHook EXCEPT !.at = "returned"]
       ELSE [NoHook EXCEPT !.at = "running", !.engine = Current,
                           !.began = [main |-> engines[Current].main, lib |-> engines[Current].lib]]]
  /\ UNCHANGED <<disk, edits, changed, loading, engines>>

Held(c) == engines[hook[c].engine]

\* What a hook finds at the end of a way: what the cell holds, or a copy. A closure's copy
\* is of the load, and each call of the closure has a copy of that.
Reads(c, w) ==
  CASE w \in Held(c).shared -> Held(c).captured
    [] w \notin Held(c).shared /\ w = Variable -> hook[c].top
    [] w \notin Held(c).shared /\ w # Variable -> "loaded"

\* A hook writes the variable, by name or through a closure that shares it. What it writes
\* to a closure's own copy is lost.
Write(c) ==
  /\ hook[c].at = "running"
  /\ \E w \in {Variable} \cup {w \in Held(c).shared : ~ToReceiver(w)} :
       /\ hook' = IF w = Variable THEN [hook EXCEPT ![c].top = c, ![c].mine = c] ELSE hook
       /\ engines' = IF w \in Held(c).shared
                     THEN [engines EXCEPT ![hook[c].engine].captured = c] ELSE engines
  /\ UNCHANGED <<disk, edits, changed, loading>>

\* A hook waits for a request of the top level. The first to do so has the answer, and
\* any other throws.
TakeAnswer(c) ==
  /\ hook[c].at = "running"
  /\ \E w \in Held(c).shared : ToReceiver(w)
  /\ Held(c).receiver = "full"
  /\ engines' = [engines EXCEPT ![hook[c].engine].receiver = "taken"]
  /\ UNCHANGED <<disk, edits, changed, loading, hook>>

\* A hook imports the module that the top level has not: the engine keeps it for all.
Import(c) ==
  /\ hook[c].at = "running"
  /\ Held(c).lib = Later /\ disk.lib > Broken
  /\ engines' = [engines EXCEPT ![hook[c].engine].lib = disk.lib]
  /\ UNCHANGED <<disk, edits, changed, loading, hook>>

RunHook(c) == Write(c) \/ TakeAnswer(c) \/ Import(c)

\* The hook has changed the endpoint and the headers, and the endpoint parses. The engine
\* and the scope are dropped.
HookReturns(c) ==
  /\ hook[c].at = "running"
  /\ hook' = [hook EXCEPT ![c] = [NoHook EXCEPT !.at = "returned"]]
  /\ UNCHANGED <<disk, edits, changed, loading, engines>>

\* The top level, which call_fn runs again, or the hook throws, or it leaves an endpoint
\* that is not a URL: the call is an error.
HookThrows(c) ==
  /\ hook[c].at = "running"
  /\ hook' = [hook EXCEPT ![c] = NoHook]
  /\ UNCHANGED <<disk, edits, changed, loading, engines>>

\* The GraphQL request is answered, or fails.
AfterHook(c) ==
  /\ hook[c].at = "returned"
  /\ hook' = [hook EXCEPT ![c] = NoHook]
  /\ UNCHANGED <<disk, edits, changed, loading, engines>>

-----------------------------------------------------------------------------
\* A hook runs to its end on the scripts it started with (shared_engine.rs:39), but for a
\* module that it is the first to import, and no other call shows through: under its name
\* a variable has what this hook wrote to it, through a closure what the load did
\* (concurrent_hooks.rs), however deep in arrays, maps and closures the closure is.
\* The answer of a promise is the exception: it is not detached, one call has it.
HooksAreIsolated ==
  \A c \in Calls : hook[c].at = "running" =>
    /\ Held(c).main = hook[c].began.main
    /\ hook[c].began.lib \in {Held(c).lib, Later}
    /\ \A w \in Ways : ~ToReceiver(w) =>
         Reads(c, w) = IF w = Variable THEN hook[c].mine ELSE "loaded"

\* A failed reload leaves the scripts as they are: of every engine that was ever shared
\* each file that was read has compiled and run, but for one started without scripts.
EnginesAreWhole ==
  \A i \in 1..Current : Usable(engines[i]) \/ (i = 1 /\ engines[i].main = Absent)
===============================================================================

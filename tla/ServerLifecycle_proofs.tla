------------------------ MODULE ServerLifecycle_proofs ------------------------
(***************************************************************************)
(* What ServerLifecycle guarantees for every number of generations,        *)
(* versions, edits and listeners.                                          *)
(***************************************************************************)
EXTENDS ServerLifecycle, TLAPS

\* A process past its first build has a generation.
TypeInv == TypeOK /\ (phase \notin {"Build", "Exited"} => gen \in Gens)

\* Generations to come have neither tasks nor a cancelled token.
FutureIsFresh == \A g \in Gens : g > gen => tasks[g] = {} /\ g \notin cancelled

SocketInv ==
  /\ TypeInv
  /\ FutureIsFresh
  /\ SocketsHaveServers
  /\ OneLiveGeneration
  /\ AllListenersServe
  /\ phase = "Serving" => loaded.transport = "stdio"

\* The streams never run ahead of their sources, and a half-configured state holds
\* the half it is named for.
ConfiguredInv ==
  /\ TypeInv
  /\ StartsFromLatest
  /\ schemaSeen <= schemaSrc
  /\ opsSeen <= opsSrc
  /\ schema \notin BadSchemas
  /\ phase = "SchemaConfigured" => schema # 0
  /\ phase = "OperationsConfigured" => operations # 0

-----------------------------------------------------------------------------
USE LifecycleAssumption DEF Gens, Versions, Kinds, LoopPhases, StartPhases, Phases,
    loopVars, sourceVars, configVars, socketVars, signalVars, vars

\* When the process ends every invariant is left in its trivial form.
LEMMA ExitKeepsType ==
  ASSUME TypeInv, ExitOnly
  PROVE  TypeInv'
BY DEF TypeInv, TypeOK, Exit, ExitOnly

\* Every action keeps the types.
LEMMA TypeStep ==
  ASSUME TypeInv, [Next]_vars
  PROVE  TypeInv'
<1> USE DEF TypeInv, TypeOK
<1>1. CASE ProcessSchema
  BY <1>1, ExitKeepsType DEF ProcessSchema
<1>2. CASE ProcessOperations
  BY <1>2 DEF ProcessOperations
<1>3. CASE ProcessNoMoreSchema
  <2>1. CASE ExitOnly
    BY <2>1, ExitKeepsType
  <2>2. CASE ~ExitOnly
    BY <1>3, <2>2 DEF ProcessNoMoreSchema
  <2> QED BY <2>1, <2>2
<1>4. CASE ProcessOperationError
  BY <1>4, ExitKeepsType DEF ProcessOperationError
<1>5. CASE ProcessSourceError
  <2>1. CASE ExitOnly
    BY <2>1, ExitKeepsType
  <2>2. CASE UNCHANGED vars
    BY <2>2
  <2> QED BY <1>5, <2>1, <2>2 DEF ProcessSourceError
<1>6. CASE ProcessConfigChanged
  BY <1>6 DEF ProcessConfigChanged, CancelIfRunning
<1>7. CASE ProcessShutdown
  BY <1>7 DEF ProcessShutdown, CancelIfRunning, Exit, ExitOnly
<1>8. CASE Build
  BY <1>8 DEF Build
<1>9. CASE BuildFails
  BY <1>9, ExitKeepsType DEF BuildFails
<1>10. CASE OpenStreams
  BY <1>10 DEF OpenStreams
<1>11. CASE Wake
  BY <1>11 DEF Wake
<1>12. CASE StdioWatcherExits
  BY <1>12, ExitKeepsType DEF StdioWatcherExits
<1>13. CASE StdioWatcherRejects
  BY <1>13 DEF StdioWatcherRejects
<1>14. CASE StartHttp
  BY <1>14 DEF StartHttp
<1>15. CASE StartStdio
  BY <1>15 DEF StartStdio
<1>16. CASE StartFails
  BY <1>16, ExitKeepsType DEF StartFails
<1>17. ASSUME NEW a \in Addrs, Bind(a) PROVE TypeInv'
  BY <1>17 DEF Bind
<1>18. ASSUME NEW a \in Addrs, BindFails(a) PROVE TypeInv'
  BY <1>18, ExitKeepsType DEF BindFails
<1>19. CASE SpawnServers
  BY <1>19 DEF SpawnServers
<1>20. CASE StdioClosed
  BY <1>20 DEF StdioClosed
<1>21. CASE TaskSignalled
  BY <1>21 DEF TaskSignalled
<1>22. ASSUME NEW g \in Gens, NEW a \in Addrs, Drain(g, a) PROVE TypeInv'
  BY <1>22 DEF Drain
<1>23. CASE EditConfig
  <2>1. config' \in [kind : Kinds, ver : 0..MaxEdits, transport : Transports]
    <3>1. PICK k \in Kinds, t \in Transports :
            config' = [kind |-> k, ver |-> config.ver + 1, transport |-> t]
      BY <1>23 DEF EditConfig
    <3>2. config.ver + 1 \in 0..MaxEdits
      BY <1>23 DEF EditConfig
    <3> QED BY <3>1, <3>2
  <2>2. waiting' \subseteq {"config", "task", "main"}
    BY <1>23 DEF EditConfig, Watching
  <2> QED BY <1>23, <2>1, <2>2 DEF EditConfig
<1>24. CASE PublishSchema
  BY <1>24 DEF PublishSchema
<1>25. CASE PublishOperations
  BY <1>25 DEF PublishOperations
<1>26. CASE Sighup
  BY <1>26 DEF Sighup, Watching
<1>27. CASE Sigterm
  BY <1>27, ExitKeepsType DEF Sigterm, Watching
<1>28. CASE UNCHANGED vars
  BY <1>28
<1> QED BY <1>1, <1>2, <1>3, <1>4, <1>5, <1>6, <1>7, <1>8, <1>9, <1>10,
   <1>11, <1>12, <1>13, <1>14, <1>15, <1>16, <1>17, <1>18, <1>19, <1>20,
   <1>21, <1>22, <1>23, <1>24, <1>25, <1>26, <1>27, <1>28 DEF Next,
     EventLoop, Main, StdioWatchers, Start, Tasks, Environment

\* Every variable keeps its type (Init, the event loop, main and the transport).
THEOREM TypeCorrect == Spec => []TypeOK
<1>1. Init => TypeInv
  BY DEF Init, TypeInv, TypeOK
<1>2. TypeInv /\ [Next]_vars => TypeInv'
  BY TypeStep
<1>3. TypeInv => TypeOK
  BY DEF TypeInv
<1> QED BY <1>1, <1>2, <1>3, PTL DEF Spec

-----------------------------------------------------------------------------
\* The end of the process leaves no socket and no task behind.
LEMMA ExitKeepsSockets ==
  ASSUME SocketInv, ExitOnly
  PROVE  SocketInv'
<1>1. TypeInv'
  BY ExitKeepsType DEF SocketInv
<1> QED BY <1>1 DEF SocketInv, TypeInv, TypeOK, FutureIsFresh, SocketsHaveServers,
     OneLiveGeneration, AllListenersServe, Exit, ExitOnly

\* What touches neither the phase nor the sockets keeps them in step.
LEMMA SocketsStay ==
  ASSUME SocketInv, [Next]_vars, UNCHANGED <<phase, gen, configVars, socketVars>>
  PROVE  SocketInv'
<1>1. TypeInv'
  BY TypeStep DEF SocketInv
<1>2. FutureIsFresh' /\ SocketsHaveServers'
  BY DEF SocketInv, FutureIsFresh, SocketsHaveServers
<1>3. OneLiveGeneration' /\ AllListenersServe'
  BY DEF SocketInv, OneLiveGeneration, AllListenersServe
<1> QED BY <1>1, <1>2, <1>3 DEF SocketInv

\* Every action keeps sockets, tasks and tokens in step.
LEMMA SocketStep ==
  ASSUME SocketInv, [Next]_vars
  PROVE  SocketInv'
<1> USE DEF SocketInv
<1>0. TypeInv'
  BY TypeStep
<1> USE <1>0 DEF TypeInv, TypeOK, FutureIsFresh, SocketsHaveServers, OneLiveGeneration,
     AllListenersServe
<1>1. CASE ProcessSchema
  <2>1. CASE ExitOnly
    BY <2>1, ExitKeepsSockets
  <2>2. CASE ~ExitOnly
    BY <1>1, <2>2 DEF ProcessSchema
  <2> QED BY <2>1, <2>2
<1>2. CASE ProcessOperations
  BY <1>2 DEF ProcessOperations
<1>3. CASE ProcessNoMoreSchema
  <2>1. CASE ExitOnly
    BY <2>1, ExitKeepsSockets
  <2>2. CASE ~ExitOnly
    <3>1. UNCHANGED <<phase, gen, configVars, socketVars>>
      BY <1>3, <2>2 DEF ProcessNoMoreSchema
    <3> QED BY <3>1, SocketsStay
  <2> QED BY <2>1, <2>2
<1>4. CASE ProcessOperationError
  BY <1>4, ExitKeepsSockets DEF ProcessOperationError
<1>5. CASE ProcessSourceError
  <2>1. CASE ExitOnly
    BY <2>1, ExitKeepsSockets
  <2>2. CASE ~ExitOnly
    <3>1. UNCHANGED <<phase, gen, configVars, socketVars>>
      BY <1>5, <2>2 DEF ProcessSourceError
    <3> QED BY <3>1, SocketsStay
  <2> QED BY <2>1, <2>2
<1>6. CASE ProcessConfigChanged
  BY <1>6 DEF ProcessConfigChanged, CancelIfRunning
<1>7. CASE ProcessShutdown
  BY <1>7 DEF ProcessShutdown, CancelIfRunning, Exit, ExitOnly
<1>8. CASE Build
  BY <1>8 DEF Build
<1>9. CASE BuildFails
  BY <1>9, ExitKeepsSockets DEF BuildFails
<1>10. CASE OpenStreams
  BY <1>10 DEF OpenStreams
<1>11. CASE Wake
  BY <1>11 DEF Wake
<1>12. CASE StdioWatcherExits
  BY <1>12, ExitKeepsSockets DEF StdioWatcherExits
<1>13. CASE StdioWatcherRejects
  BY <1>13 DEF StdioWatcherRejects
<1>14. CASE StartHttp
  BY <1>14 DEF StartHttp
<1>15. CASE StartStdio
  BY <1>15 DEF StartStdio
<1>16. CASE StartFails
  BY <1>16, ExitKeepsSockets DEF StartFails
<1>17. ASSUME NEW a \in Addrs, Bind(a) PROVE SocketInv'
  BY <1>17 DEF Bind
<1>18. ASSUME NEW a \in Addrs, BindFails(a) PROVE SocketInv'
  BY <1>18, ExitKeepsSockets DEF BindFails
<1>19. CASE SpawnServers
  BY <1>19 DEF SpawnServers
<1>20. CASE StdioClosed
  BY <1>20 DEF StdioClosed
<1>21. CASE TaskSignalled
  BY <1>21 DEF TaskSignalled
<1>22. ASSUME NEW g \in Gens, NEW a \in Addrs, Drain(g, a) PROVE SocketInv'
  BY <1>22 DEF Drain
<1>23. CASE EditConfig
  BY <1>23 DEF EditConfig, Watching
<1>24. CASE PublishSchema
  BY <1>24 DEF PublishSchema
<1>25. CASE PublishOperations
  BY <1>25 DEF PublishOperations
<1>26. CASE Sighup
  BY <1>26 DEF Sighup, Watching
<1>27. CASE Sigterm
  <2>1. CASE ExitOnly
    BY <2>1, ExitKeepsSockets
  <2>2. CASE ~ExitOnly
    <3>1. UNCHANGED <<phase, gen, configVars, socketVars>>
      BY <1>27, <2>2 DEF Sigterm, Watching
    <3> QED BY <3>1, SocketsStay
  <2> QED BY <2>1, <2>2
<1>28. CASE UNCHANGED vars
  BY <1>28
<1> QED BY <1>1, <1>2, <1>3, <1>4, <1>5, <1>6, <1>7, <1>8, <1>9, <1>10,
   <1>11, <1>12, <1>13, <1>14, <1>15, <1>16, <1>17, <1>18, <1>19, <1>20,
   <1>21, <1>22, <1>23, <1>24, <1>25, <1>26, <1>27, <1>28 DEF Next,
     EventLoop, Main, StdioWatchers, Start, Tasks, Environment

\* The three properties of the sockets hold together: each is part of what keeps the
\* others when a generation binds, serves, is cancelled and drains.
LEMMA SocketInvariant == Spec => []SocketInv
<1>1. Init => SocketInv
  BY DEF Init, SocketInv, TypeInv, TypeOK, FutureIsFresh, SocketsHaveServers,
     OneLiveGeneration, AllListenersServe
<1>2. SocketInv /\ [Next]_vars => SocketInv'
  BY SocketStep
<1> QED BY <1>1, <1>2, PTL DEF Spec

\* No socket listens without a server that accepts on it, but for the instance that
\* binds right now: whatever fails while binding releases what was bound.
THEOREM SocketSafety == Spec => []SocketsHaveServers
<1>1. SocketInv => SocketsHaveServers
  BY DEF SocketInv
<1> QED BY <1>1, SocketInvariant, PTL

\* No server of a replaced generation goes on accepting without having been told to
\* stop, over any number of restarts.
THEOREM OldServersStop == Spec => []OneLiveGeneration
<1>1. SocketInv => OneLiveGeneration
  BY DEF SocketInv
<1> QED BY <1>1, SocketInvariant, PTL

\* A live instance serves on all of its listeners: bind all, then spawn all.
THEOREM ListenersServeTogether == Spec => []AllListenersServe
<1>1. SocketInv => AllListenersServe
  BY DEF SocketInv
<1> QED BY <1>1, SocketInvariant, PTL

-----------------------------------------------------------------------------
\* The end of the process leaves no instance whose inputs could be old.
LEMMA ExitKeepsConfigured ==
  ASSUME ConfiguredInv, ExitOnly
  PROVE  ConfiguredInv'
<1>1. TypeInv'
  BY ExitKeepsType DEF ConfiguredInv
<1> QED BY <1>1 DEF ConfiguredInv, StartsFromLatest, Exit, ExitOnly

\* Every action keeps the configured half, or both halves, the latest.
LEMMA ConfiguredStep ==
  ASSUME ConfiguredInv, [Next]_vars
  PROVE  ConfiguredInv'
<1> USE DEF ConfiguredInv
<1>0. TypeInv'
  BY TypeStep
<1> USE <1>0 DEF TypeInv, TypeOK, StartsFromLatest
<1>1. CASE ProcessSchema
  <2>1. CASE schemaSrc \in BadSchemas
    BY <1>1, <2>1, ExitKeepsConfigured DEF ProcessSchema
  <2>2. CASE schemaSrc \notin BadSchemas
    <3>1. schemaSrc # 0 /\ phase' \in {phase, "SchemaConfigured", "Starting"}
      BY <1>1, <2>2 DEF ProcessSchema
    <3> QED BY <1>1, <2>2, <3>1 DEF ProcessSchema
  <2> QED BY <2>1, <2>2
<1>2. CASE ProcessOperations
  BY <1>2 DEF ProcessOperations
<1>3. CASE ProcessNoMoreSchema
  BY <1>3, ExitKeepsConfigured DEF ProcessNoMoreSchema
<1>4. CASE ProcessOperationError
  BY <1>4, ExitKeepsConfigured DEF ProcessOperationError
<1>5. CASE ProcessSourceError
  BY <1>5, ExitKeepsConfigured DEF ProcessSourceError
<1>6. CASE ProcessConfigChanged
  BY <1>6 DEF ProcessConfigChanged, CancelIfRunning
<1>7. CASE ProcessShutdown
  BY <1>7 DEF ProcessShutdown, CancelIfRunning, Exit, ExitOnly
<1>8. CASE Build
  BY <1>8 DEF Build
<1>9. CASE BuildFails
  BY <1>9, ExitKeepsConfigured DEF BuildFails
<1>10. CASE OpenStreams
  BY <1>10 DEF OpenStreams
<1>11. CASE Wake
  BY <1>11 DEF Wake
<1>12. CASE StdioWatcherExits
  BY <1>12, ExitKeepsConfigured DEF StdioWatcherExits
<1>13. CASE StdioWatcherRejects
  BY <1>13 DEF StdioWatcherRejects
<1>14. CASE StartHttp
  BY <1>14 DEF StartHttp
<1>15. CASE StartStdio
  BY <1>15 DEF StartStdio
<1>16. CASE StartFails
  BY <1>16, ExitKeepsConfigured DEF StartFails
<1>17. ASSUME NEW a \in Addrs, Bind(a) PROVE ConfiguredInv'
  BY <1>17 DEF Bind
<1>18. ASSUME NEW a \in Addrs, BindFails(a) PROVE ConfiguredInv'
  BY <1>18, ExitKeepsConfigured DEF BindFails
<1>19. CASE SpawnServers
  BY <1>19 DEF SpawnServers
<1>20. CASE StdioClosed
  BY <1>20 DEF StdioClosed
<1>21. CASE TaskSignalled
  BY <1>21 DEF TaskSignalled
<1>22. ASSUME NEW g \in Gens, NEW a \in Addrs, Drain(g, a) PROVE ConfiguredInv'
  BY <1>22 DEF Drain
<1>23. CASE EditConfig
  BY <1>23 DEF EditConfig, Watching
<1>24. CASE PublishSchema
  BY <1>24 DEF PublishSchema
<1>25. CASE PublishOperations
  BY <1>25 DEF PublishOperations
<1>26. CASE Sighup
  BY <1>26 DEF Sighup, Watching
<1>27. CASE Sigterm
  BY <1>27, ExitKeepsConfigured DEF Sigterm, Watching
<1>28. CASE UNCHANGED vars
  BY <1>28
<1> QED BY <1>1, <1>2, <1>3, <1>4, <1>5, <1>6, <1>7, <1>8, <1>9, <1>10,
   <1>11, <1>12, <1>13, <1>14, <1>15, <1>16, <1>17, <1>18, <1>19, <1>20,
   <1>21, <1>22, <1>23, <1>24, <1>25, <1>26, <1>27, <1>28 DEF Next,
     EventLoop, Main, StdioWatchers, Start, Tasks, Environment

\* The server starts and runs with the last schema and operations it was given,
\* in whichever order they came, and never with an invalid schema.
THEOREM StartSafety == Spec => []StartsFromLatest
<1>1. Init => ConfiguredInv
  BY DEF Init, ConfiguredInv, TypeInv, TypeOK, StartsFromLatest
<1>2. ConfiguredInv /\ [Next]_vars => ConfiguredInv'
  BY ConfiguredStep
<1>3. ConfiguredInv => StartsFromLatest
  BY DEF ConfiguredInv
<1> QED BY <1>1, <1>2, <1>3, PTL DEF Spec
===============================================================================

-------------------------- MODULE ToolCatalog_proofs --------------------------
(***************************************************************************)
(* What ToolCatalog guarantees for every set of clients and operations and *)
(* every number of schemas.                                                *)
(***************************************************************************)
EXTENDS ToolCatalog, TLAPS

\* The lock: the event loop writes alone, and a call that holds the lock is a call
\* of a tool that is there.
LockInv ==
  /\ TypeOK
  /\ Writing => readers = {}
  /\ \A c \in readers : request[c] \in Names /\ Found(request[c])

\* The schema of the event in progress is newer than the one in force until it
\* has been written; at all other times the two are the same.
Ahead == step \in {"waiting", "rebuilding"} /\ event = "schema"

SchemaInv ==
  /\ TypeOK
  /\ offer.schema >= taken.schema
  /\ IF Ahead THEN taken.schema > schema ELSE taken.schema = schema

\* Every tool that can be listed, or is about to be, is generated from the schema
\* in force, and no client has seen a newer one.
HistoryInv ==
  /\ SchemaInv
  /\ \A t \in (IF step = "committing" THEN compiled ELSE operations) : t.schema = schema
  /\ \A c \in Clients : introspected[c] <= schema /\ \A t \in listed[c] : t.schema <= schema

-----------------------------------------------------------------------------
USE CatalogAssumption DEF Schemas, Tools, Names, Requests, sourceVars, loopVars,
    stateVars, answerVars, lockVars, vars

\* Generating yields tools.
LEMMA GenerateType ==
  ASSUME NEW ops \in SUBSET Ops, NEW v \in Schemas
  PROVE  Generate(ops, v) \in SUBSET Tools /\ \A t \in Generate(ops, v) : t.schema = v
BY DEF Generate

\* The first catalog, built when the server starts, is of its type.
LEMMA TypeInit == Init => TypeOK
<1> SUFFICES ASSUME Init PROVE TypeOK
  OBVIOUS
<1>1. offer.ops \in SUBSET Ops /\ 1 \in Schemas
  BY DEF Init
<1>2. operations \in SUBSET Tools
  BY <1>1, GenerateType DEF Init
<1>3. QED
  BY <1>1, <1>2 DEF Init, TypeOK

\* Every step of the event loop, a client or a source keeps the types.
LEMMA TypeStep ==
  ASSUME TypeOK, [Next]_vars
  PROVE  TypeOK'
<1>0. Generate(OpsOf(operations), taken.schema) \in SUBSET Tools
      /\ Generate(taken.ops, schema) \in SUBSET Tools
  <2>1. OpsOf(operations) \in SUBSET Ops
    BY DEF OpsOf, TypeOK
  <2>2. QED
    BY <2>1, GenerateType DEF TypeOK
<1>q. /\ \A p \in Clients \cup {EventLoop} : Append(queue, p) \in Seq(Clients \cup {EventLoop})
      /\ queue # <<>> => Tail(queue) \in Seq(Clients \cup {EventLoop})
  BY DEF TypeOK
<1> USE DEF TypeOK, Granted
<1>1. CASE TakeSchema
  BY <1>1, <1>q DEF TakeSchema
<1>2. CASE TakeOperations
  BY <1>2, <1>q DEF TakeOperations
<1>3. CASE TakeStop
  BY <1>3 DEF TakeStop
<1>4. CASE AcquireWrite
  BY <1>4, <1>q DEF AcquireWrite
<1>5. CASE RebuildForSchema
  BY <1>5, <1>0 DEF RebuildForSchema
<1>6. CASE RebuildOperations
  BY <1>6, <1>0 DEF RebuildOperations
<1>7. CASE Commit
  BY <1>7 DEF Commit
<1>8. CASE Publish
  BY <1>8 DEF Publish
<1>9. CASE OfferSchema
  <2>1. offer.schema + 1 \in Schemas
    BY <1>9 DEF OfferSchema
  <2>2. offer' \in [schema : Schemas, ops : SUBSET Ops]
    BY <1>9, <2>1 DEF OfferSchema
  <2>3. QED
    BY <1>9, <2>2 DEF OfferSchema
<1>10. CASE OfferOperations
  BY <1>10 DEF OfferOperations
<1>11. CASE RequestStop
  BY <1>11 DEF RequestStop
<1>12. ASSUME NEW c \in Clients, NEW what \in {"list"} \cup Names, Ask(c, what) PROVE TypeOK'
  BY <1>12, <1>q DEF Ask
<1>13. ASSUME NEW c \in Clients, ListTools(c) PROVE TypeOK'
  BY <1>13, <1>q DEF ListTools
<1>14. ASSUME NEW c \in Clients, CallTool(c) PROVE TypeOK'
  BY <1>14, <1>q DEF CallTool
<1>15. ASSUME NEW c \in Clients, CallNotFound(c) PROVE TypeOK'
  BY <1>15, <1>q DEF CallNotFound
<1>16. ASSUME NEW c \in Clients, UpstreamReturns(c) PROVE TypeOK'
  BY <1>16 DEF UpstreamReturns
<1>17. ASSUME NEW c \in Clients, Introspect(c) PROVE TypeOK'
  BY <1>17 DEF Introspect
<1>18. CASE UNCHANGED vars
  BY <1>18
<1>19. QED
  BY <1>1, <1>2, <1>3, <1>4, <1>5, <1>6, <1>7, <1>8, <1>9, <1>10, <1>11,
     <1>12, <1>13, <1>14, <1>15, <1>16, <1>17, <1>18
     DEF Next, Update, Sources, Asks, Answer

\* Every step keeps the discipline of the lock.
LEMMA LockStep ==
  ASSUME LockInv, [Next]_vars
  PROVE  LockInv'
<1>0. TypeOK'
  BY TypeStep DEF LockInv
<1> DEFINE Kept == (Writing => readers = {})'
                   /\ (\A c \in readers : request[c] \in Names /\ Found(request[c]))'
<1> SUFFICES Kept
  BY <1>0 DEF LockInv
<1> USE DEF LockInv, TypeOK, Writing, Granted, Found
<1>1. CASE TakeSchema
  BY <1>1 DEF TakeSchema
<1>2. CASE TakeOperations
  BY <1>2 DEF TakeOperations
<1>3. CASE TakeStop
  BY <1>3 DEF TakeStop
<1>4. CASE AcquireWrite
  BY <1>4 DEF AcquireWrite
<1>5. CASE RebuildForSchema
  BY <1>5 DEF RebuildForSchema
<1>6. CASE RebuildOperations
  BY <1>6 DEF RebuildOperations
<1>7. CASE Commit
  BY <1>7 DEF Commit
<1>8. CASE Publish
  BY <1>8 DEF Publish
<1>9. CASE OfferSchema
  BY <1>9 DEF OfferSchema
<1>10. CASE OfferOperations
  BY <1>10 DEF OfferOperations
<1>11. CASE RequestStop
  BY <1>11 DEF RequestStop
<1>12. ASSUME NEW c \in Clients, NEW what \in {"list"} \cup Names, Ask(c, what) PROVE Kept
  BY <1>12 DEF Ask
<1>13. ASSUME NEW c \in Clients, ListTools(c) PROVE Kept
  BY <1>13 DEF ListTools
<1>14. ASSUME NEW c \in Clients, CallTool(c) PROVE Kept
  BY <1>14 DEF CallTool
<1>15. ASSUME NEW c \in Clients, CallNotFound(c) PROVE Kept
  BY <1>15 DEF CallNotFound
<1>16. ASSUME NEW c \in Clients, UpstreamReturns(c) PROVE Kept
  BY <1>16 DEF UpstreamReturns
<1>17. ASSUME NEW c \in Clients, Introspect(c) PROVE Kept
  BY <1>17 DEF Introspect
<1>18. CASE UNCHANGED vars
  BY <1>18
<1>19. QED
  BY <1>1, <1>2, <1>3, <1>4, <1>5, <1>6, <1>7, <1>8, <1>9, <1>10, <1>11,
     <1>12, <1>13, <1>14, <1>15, <1>16, <1>17, <1>18
     DEF Next, Update, Sources, Asks, Answer

\* Every step keeps the order of the schemas.
LEMMA SchemaStep ==
  ASSUME SchemaInv, [Next]_vars
  PROVE  SchemaInv'
<1>0. TypeOK'
  BY TypeStep DEF SchemaInv
<1> DEFINE Kept == (offer.schema >= taken.schema)'
                   /\ (IF Ahead THEN taken.schema > schema ELSE taken.schema = schema)'
<1> SUFFICES Kept
  BY <1>0 DEF SchemaInv
<1> USE DEF SchemaInv, TypeOK, Ahead
<1>1. CASE TakeSchema
  BY <1>1 DEF TakeSchema
<1>2. CASE TakeOperations
  BY <1>2 DEF TakeOperations
<1>3. CASE TakeStop
  BY <1>3 DEF TakeStop
<1>4. CASE AcquireWrite
  BY <1>4 DEF AcquireWrite
<1>5. CASE RebuildForSchema
  BY <1>5 DEF RebuildForSchema
<1>6. CASE RebuildOperations
  BY <1>6 DEF RebuildOperations
<1>7. CASE Commit
  BY <1>7 DEF Commit
<1>8. CASE Publish
  BY <1>8 DEF Publish
<1>9. CASE OfferSchema
  BY <1>9 DEF OfferSchema
<1>10. CASE OfferOperations
  BY <1>10 DEF OfferOperations
<1>11. CASE RequestStop
  BY <1>11 DEF RequestStop
<1>12. ASSUME NEW c \in Clients, NEW what \in {"list"} \cup Names, Ask(c, what) PROVE Kept
  BY <1>12 DEF Ask
<1>13. ASSUME NEW c \in Clients, ListTools(c) PROVE Kept
  BY <1>13 DEF ListTools
<1>14. ASSUME NEW c \in Clients, CallTool(c) PROVE Kept
  BY <1>14 DEF CallTool
<1>15. ASSUME NEW c \in Clients, CallNotFound(c) PROVE Kept
  BY <1>15 DEF CallNotFound
<1>16. ASSUME NEW c \in Clients, UpstreamReturns(c) PROVE Kept
  BY <1>16 DEF UpstreamReturns
<1>17. ASSUME NEW c \in Clients, Introspect(c) PROVE Kept
  BY <1>17 DEF Introspect
<1>18. CASE UNCHANGED vars
  BY <1>18
<1>19. QED
  BY <1>1, <1>2, <1>3, <1>4, <1>5, <1>6, <1>7, <1>8, <1>9, <1>10, <1>11,
     <1>12, <1>13, <1>14, <1>15, <1>16, <1>17, <1>18
     DEF Next, Update, Sources, Asks, Answer

\* Every step keeps what has been seen behind what is in force.
LEMMA HistoryStep ==
  ASSUME HistoryInv, [Next]_vars
  PROVE  HistoryInv'
<1>0. SchemaInv' /\ TypeOK'
  BY SchemaStep DEF HistoryInv, SchemaInv
<1>g. /\ \A t \in Generate(OpsOf(operations), taken.schema) : t.schema = taken.schema
      /\ \A t \in Generate(taken.ops, schema) : t.schema = schema
  BY DEF Generate
<1>t. schema \in Nat /\ taken.schema \in Nat
      /\ \A c \in Clients : introspected[c] \in Nat /\ \A t \in listed[c] : t.schema \in Nat
  BY DEF HistoryInv, SchemaInv, TypeOK
<1> DEFINE Kept == /\ (\A t \in (IF step = "committing" THEN compiled ELSE operations) : t.schema = schema)'
                   /\ (\A c \in Clients : introspected[c] <= schema /\ \A t \in listed[c] : t.schema <= schema)'
<1> SUFFICES Kept
  BY <1>0 DEF HistoryInv
<1> USE DEF HistoryInv, SchemaInv, TypeOK, Ahead
<1>1. CASE TakeSchema
  BY <1>1 DEF TakeSchema
<1>2. CASE TakeOperations
  BY <1>2 DEF TakeOperations
<1>3. CASE TakeStop
  BY <1>3 DEF TakeStop
<1>4. CASE AcquireWrite
  BY <1>4 DEF AcquireWrite
<1>5. CASE RebuildForSchema
  BY <1>5, <1>g, <1>t DEF RebuildForSchema
<1>6. CASE RebuildOperations
  BY <1>6, <1>g, <1>t DEF RebuildOperations
<1>7. CASE Commit
  BY <1>7 DEF Commit
<1>8. CASE Publish
  BY <1>8 DEF Publish
<1>9. CASE OfferSchema
  BY <1>9 DEF OfferSchema
<1>10. CASE OfferOperations
  BY <1>10 DEF OfferOperations
<1>11. CASE RequestStop
  BY <1>11 DEF RequestStop
<1>12. ASSUME NEW c \in Clients, NEW what \in {"list"} \cup Names, Ask(c, what) PROVE Kept
  BY <1>12 DEF Ask
<1>13. ASSUME NEW c \in Clients, ListTools(c) PROVE Kept
  BY <1>13, <1>t DEF ListTools, Granted, Writing
<1>14. ASSUME NEW c \in Clients, CallTool(c) PROVE Kept
  BY <1>14 DEF CallTool
<1>15. ASSUME NEW c \in Clients, CallNotFound(c) PROVE Kept
  BY <1>15 DEF CallNotFound
<1>16. ASSUME NEW c \in Clients, UpstreamReturns(c) PROVE Kept
  BY <1>16 DEF UpstreamReturns
<1>17. ASSUME NEW c \in Clients, Introspect(c) PROVE Kept
  BY <1>17, <1>t DEF Introspect
<1>18. CASE UNCHANGED vars
  BY <1>18
<1>19. QED
  BY <1>1, <1>2, <1>3, <1>4, <1>5, <1>6, <1>7, <1>8, <1>9, <1>10, <1>11,
     <1>12, <1>13, <1>14, <1>15, <1>16, <1>17, <1>18
     DEF Next, Update, Sources, Asks, Answer

-----------------------------------------------------------------------------
\* Every variable keeps its type.
THEOREM TypeCorrect == Spec => []TypeOK
<1>1. TypeOK /\ [Next]_vars => TypeOK'
  BY TypeStep
<1>2. QED
  BY TypeInit, <1>1, PTL DEF Spec

\* A tool call runs to its end with the operation it found, however many updates
\* arrive meanwhile (call_tool keeps the read guard of the operations).
THEOREM CallsAreStable == Spec => []CallsKeepTheirOperation
<1>1. Init => LockInv
  BY TypeInit DEF Init, LockInv, Writing
<1>2. LockInv /\ [Next]_vars => LockInv'
  BY LockStep
<1>3. LockInv => CallsKeepTheirOperation
  BY DEF LockInv, CallsKeepTheirOperation
<1>4. QED
  BY <1>1, <1>2, <1>3, PTL DEF Spec

\* Whenever no update is on its way out, what the clients were last told of is what they
\* can see: only the commit changes it, and the publication follows the commit at
\* once (update_schema and update_operations, running.rs).
THEOREM ChangesAreAnnounced == Spec => []EveryChangeAnnounced
<1> USE DEF EveryChangeAnnounced
<1>1. Init => EveryChangeAnnounced
  BY DEF Init
<1>2. ASSUME EveryChangeAnnounced, [Next]_vars
      PROVE  EveryChangeAnnounced'
  <2>1. CASE Update
    BY <1>2, <2>1 DEF Update, TakeSchema, TakeOperations, TakeStop, AcquireWrite,
       RebuildForSchema, RebuildOperations, Commit, Publish
  <2>2. CASE Sources
    BY <1>2, <2>2 DEF Sources, OfferSchema, OfferOperations, RequestStop
  <2>3. ASSUME NEW c \in Clients, Asks(c) \/ Answer(c) \/ UpstreamReturns(c)
        PROVE  EveryChangeAnnounced'
    BY <1>2, <2>3 DEF Asks, Answer, Ask, Introspect, ListTools, CallTool, CallNotFound,
       UpstreamReturns
  <2>4. CASE UNCHANGED vars
    BY <1>2, <2>4
  <2>5. QED
    BY <1>2, <2>1, <2>2, <2>3, <2>4 DEF Next
<1>3. QED
  BY <1>1, <1>2, PTL DEF Spec

\* A client never sees an older schema than it has seen, through either lock.
THEOREM SessionsSeeOneHistory == Spec => SchemaNeverGoesBack
<1> DEFINE Step == \A c \in Clients :
       /\ introspected'[c] # introspected[c] =>
            /\ introspected'[c] >= introspected[c]
            /\ \A t \in listed[c] : introspected'[c] >= t.schema
       /\ listed'[c] # listed[c] =>
            \A t \in listed'[c] : t.schema >= introspected[c]
<1>1. Init => HistoryInv
  BY TypeInit DEF Init, HistoryInv, SchemaInv, Ahead, Generate
<1>2. HistoryInv /\ [Next]_vars => HistoryInv'
  BY HistoryStep
<1>3. HistoryInv /\ [Next]_vars => [Step]_vars
  <2> SUFFICES ASSUME HistoryInv, Next, NEW c \in Clients
               PROVE  /\ introspected'[c] # introspected[c] =>
                           /\ introspected'[c] >= introspected[c]
                           /\ \A t \in listed[c] : introspected'[c] >= t.schema
                      /\ listed'[c] # listed[c] =>
                           \A t \in listed'[c] : t.schema >= introspected[c]
    OBVIOUS
  <2>t. schema \in Nat /\ introspected[c] \in Nat /\ \A t \in listed[c] : t.schema \in Nat
    BY DEF HistoryInv, SchemaInv, TypeOK
  <2>1. ASSUME NEW d \in Clients, Introspect(d)
        PROVE  listed' = listed /\ introspected' = [introspected EXCEPT ![d] = schema]
    BY <2>1 DEF Introspect
  <2>2. ASSUME NEW d \in Clients, ListTools(d)
        PROVE  /\ introspected' = introspected
               /\ listed' = [listed EXCEPT ![d] = operations]
               /\ \A t \in operations : t.schema = schema
    BY <2>2 DEF ListTools, Granted, Writing, HistoryInv
  <2>3. \/ listed' = listed /\ introspected' = introspected
        \/ \E d \in Clients : Introspect(d) \/ ListTools(d)
    BY DEF Next, Update, Sources, Asks, Answer, TakeSchema, TakeOperations, TakeStop,
       AcquireWrite, RebuildForSchema, RebuildOperations, Commit, Publish, Ask, CallTool,
       CallNotFound, UpstreamReturns, OfferSchema, OfferOperations, RequestStop
  <2>4. listed \in [Clients -> SUBSET Tools] /\ introspected \in [Clients -> 0..MaxSchema]
    BY DEF HistoryInv, SchemaInv, TypeOK
  <2>5. QED
    BY <2>t, <2>1, <2>2, <2>3, <2>4 DEF HistoryInv
<1>4. QED
  BY <1>1, <1>2, <1>3, PTL DEF Spec, SchemaNeverGoesBack

\* Two locks, a rebuild in several steps and calls that hold one of the locks amount
\* to one atomic catalog: no answer shows a half-applied update.
THEOREM CatalogIsAtomic == Spec => AtomicSpec
<1> USE DEF Generate, OpsOf, Atomic!Generate
<1>1. Init => Atomic!Init
  BY DEF Init, Atomic!Init
<1>2. SchemaInv /\ [Next]_vars => [Atomic!Next]_(Atomic!vars)
  <2> SUFFICES ASSUME SchemaInv, [Next]_vars
               PROVE  [Atomic!Next]_(Atomic!vars)
    OBVIOUS
  <2> USE DEF Atomic!vars
  <2>1. CASE RebuildForSchema
    <3>1. schema' \in 1..MaxSchema /\ schema' > schema
      BY <2>1 DEF RebuildForSchema, SchemaInv, TypeOK, Ahead
    <3>2. Atomic!ChangeSchema
      BY <2>1, <3>1 DEF RebuildForSchema, Atomic!ChangeSchema
    <3>3. QED
      BY <3>2 DEF Atomic!Next
  <2>2. CASE RebuildOperations
    <3>1. taken.ops \in SUBSET Ops
      BY DEF SchemaInv, TypeOK
    <3>2. Atomic!ChangeOperations
      BY <2>2, <3>1 DEF RebuildOperations, Atomic!ChangeOperations
    <3>3. QED
      BY <3>2 DEF Atomic!Next
  <2>3. ASSUME NEW c \in Clients, ListTools(c) PROVE [Atomic!Next]_(Atomic!vars)
    <3>1. Atomic!List(c)
      BY <2>3 DEF ListTools, Granted, Writing, Atomic!List
    <3>2. QED
      BY <3>1 DEF Atomic!Next
  <2>4. ASSUME NEW c \in Clients, Introspect(c) PROVE [Atomic!Next]_(Atomic!vars)
    <3>1. Atomic!Introspect(c)
      BY <2>4 DEF Introspect, Atomic!Introspect
    <3>2. QED
      BY <3>1 DEF Atomic!Next
  <2>5. CASE Commit
    BY <2>5 DEF Commit
  <2>6. CASE TakeSchema \/ TakeOperations \/ TakeStop \/ AcquireWrite \/ Publish
    BY <2>6 DEF TakeSchema, TakeOperations, TakeStop, AcquireWrite, Publish
  <2>7. CASE Sources
    BY <2>7 DEF Sources, OfferSchema, OfferOperations, RequestStop
  <2>8. ASSUME NEW c \in Clients, (\E what \in {"list"} \cup Names : Ask(c, what))
                 \/ CallTool(c) \/ CallNotFound(c) \/ UpstreamReturns(c)
        PROVE  [Atomic!Next]_(Atomic!vars)
    BY <2>8 DEF Ask, CallTool, CallNotFound, UpstreamReturns
  <2>9. CASE UNCHANGED vars
    BY <2>9
  <2>10. QED
    BY <2>1, <2>2, <2>3, <2>4, <2>5, <2>6, <2>7, <2>8, <2>9 DEF Next, Update, Asks, Answer
<1>3. Init => SchemaInv
  BY TypeInit DEF Init, SchemaInv, Ahead
<1>4. SchemaInv /\ [Next]_vars => SchemaInv'
  BY SchemaStep
<1>5. QED
  BY <1>1, <1>2, <1>3, <1>4, PTL DEF Spec, AtomicSpec, Atomic!Spec
================================================================================

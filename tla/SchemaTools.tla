----------------------------- MODULE SchemaTools -----------------------------
(***************************************************************************)
(* The three users of the tree shaker: the schema lookups (introspect and    *)
(* search) and the tools of predefined operations. Each call has a shaker of *)
(* its own and only reads the schema (running.rs keeps it behind a lock that *)
(* the lookups take for reading), so one call of either kind is followed at  *)
(* a time.                                                                   *)
(***************************************************************************)
EXTENDS SchemaSearch, OperationTools

VARIABLE called      \* the kind of tool that is called

schemaToolsVars == <<called, searchVars, toolVars>>

\* A state for the kind of tool that is not called.
NoLookup ==
  /\ schema = CHOOSE s \in Schemas : TRUE
  /\ mutations = FALSE
  /\ SearchInit
NoOperation ==
  /\ document = CHOOSE d \in Documents : TRUE
  /\ via = "tool"
  /\ ToolInit

SchemaToolsInit ==
  \/ called = "lookup" /\ SearchInit /\ NoOperation
  \/ called = "operation" /\ ToolInit /\ NoLookup

Lookup    == called = "lookup" /\ SearchNext /\ UNCHANGED <<called, toolVars>>
Operation == called = "operation" /\ ToolNext /\ UNCHANGED <<called, searchVars>>

SchemaToolsNext == Lookup \/ Operation
SchemaToolsSpec == SchemaToolsInit /\ [][SchemaToolsNext]_schemaToolsVars
=============================================================================

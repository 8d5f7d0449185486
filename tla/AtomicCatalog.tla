----------------------------- MODULE AtomicCatalog -----------------------------
(***************************************************************************)
(* What the tool catalog promises its clients: there is one schema and one *)
(* set of tools, every tool is generated from that schema, an update        *)
(* replaces them in one step, and an answer is what they were at a moment  *)
(* between the request and the answer.                                     *)
(***************************************************************************)
EXTENDS Naturals

CONSTANTS Clients, Ops, Rejected, MaxSchema

VARIABLES
  schema,        \* the version of the schema
  tools,         \* the tools, each with the version it was generated from
  listed,        \* per client, the last answer of tools/list
  introspected   \* per client, the schema its last introspection saw

vars == <<schema, tools, listed, introspected>>

Generate(ops, v) == [op : ops \ Rejected, schema : {v}]

Init ==
  /\ schema = 1
  /\ \E ops \in SUBSET Ops : tools = Generate(ops, 1)
  /\ listed = [c \in Clients |-> {}]
  /\ introspected = [c \in Clients |-> 0]

ChangeSchema ==
  /\ schema' \in 1..MaxSchema /\ schema' > schema
  /\ tools' = Generate({t.op : t \in tools}, schema')
  /\ UNCHANGED <<listed, introspected>>

ChangeOperations ==
  /\ \E ops \in SUBSET Ops : tools' = Generate(ops, schema)
  /\ UNCHANGED <<schema, listed, introspected>>

List(c) ==
  /\ listed' = [listed EXCEPT ![c] = tools]
  /\ UNCHANGED <<schema, tools, introspected>>

Introspect(c) ==
  /\ introspected' = [introspected EXCEPT ![c] = schema]
  /\ UNCHANGED <<schema, tools, listed>>

Next == \/ ChangeSchema \/ ChangeOperations
        \/ \E c \in Clients : List(c) \/ Introspect(c)

Spec == Init /\ [][Next]_vars
================================================================================

--------------------------- MODULE ToolDescription ---------------------------
(***************************************************************************)
(* What a predefined operation tells about itself (Operation::from_raw in    *)
(* operation.rs): its description shows the part of the schema it selects    *)
(* (schema_tree_shake.rs), its input schema defines the types of its         *)
(* variables (schema_walker/name.rs). Both are made when the operation is    *)
(* loaded, before its @private fields are collected.                         *)
(*                                                                         *)
(* retain_type and the walk of name.rs are recursive. Here they are loops    *)
(* over the calls that are still to be made, in the order of the recursion.  *)
(* Operations are retained without a depth limit.                            *)
(***************************************************************************)
EXTENDS OperationCalls, TypeGraph

CONSTANTS
  Api,          \* the served schema
  Chosen(_)     \* the selections of a document, each with the type it is on

Root(d) == IF d.type = "mutation" THEN "Mutation" ELSE "Query"

(***************************************************************************)
(* For reference: the selections of a document, each with the type it        *)
(* selects from. An inline fragment without a condition is not looked into:  *)
(* the shaker drops it.                                                      *)
(***************************************************************************)
On(t, e) == [on |-> t, e |-> e]
AllOn(t, of) == {On(t, s) : s \in ToSet(of)}

Under(d, x) ==
  CASE x.e.kind = "field" /\ HasField(Api, x.on, x.e.name) ->
         AllOn(FieldOf(Api, x.on, x.e.name).type, x.e.of)
    [] x.e.kind = "spread" -> AllOn(d.frags[x.e.name].on, d.frags[x.e.name].of)
    [] x.e.kind = "inline" /\ x.e.name # Anything -> AllOn(x.e.name, x.e.of)
    [] OTHER -> {}

\* C are the selections of document d: the least set with those on the root type and
\* what is under them.
AreChosen(d, C) ==
  LET All(S) == AllOn(Root(d), d.of) \subseteq S /\ \A x \in S : Under(d, x) \subseteq S
  IN All(C) /\ \A S \in SUBSET C : All(S) => S = C

\* Selections are on output types, and of fields that these have.
ValidSelection(x) ==
  /\ x.e.kind \in {"field", "spread", "inline"}
  /\ x.on \in DOMAIN Api.kind /\ ~IsInput(Api, x.on)
  /\ x.e.kind = "field" =>
       IF x.e.name = Typename THEN x.e.of = <<>> /\ ~HasField(Api, x.on, Typename)
       ELSE HasField(Api, x.on, x.e.name) /\ Api.kind[x.on] # "union"

\* The schema is valid, and so are the operations for it: the endpoint answers no others.
ASSUME DescriptionAssumption ==
  /\ InputsApart(Api)
  /\ \A t \in DOMAIN Api.kind : IsSequence(Api.fields[t]) /\ IsSequence(Api.members[t])
  /\ \A d \in Documents :
       /\ AreChosen(d, Chosen(d))
       /\ \A x \in Chosen(d) :
            /\ ValidSelection(x)
            /\ IsSequence(x.e.of) /\ (x.e.kind = "spread" => IsSequence(d.frags[x.e.name].of))
       /\ IsFiniteSet(Inputs(d))
       /\ \A n \in Inputs(d) : d.vars[n] \in DOMAIN Api.kind => IsInput(Api, d.vars[n])

VARIABLES
  retaining,    \* the calls of retain_type and retain_fragments still to be made
  nodes,        \* nodes of the tree shaker
  defining,     \* the types still to be defined, and those whose fields are
  definitions   \* the definitions of the input schema

shakeVars    == <<retaining, nodes>>
defineVars   == <<defining, definitions>>
describeVars == <<operationVars, shakeVars, defineVars>>

(***************************************************************************)
(* retain_type and retain_fragments. A call is for a type with a selection   *)
(* of it ("type"; "member" if the type is a member of the union that the     *)
(* selection is of), for the whole of a type ("whole"), for the fragments of *)
(* a selection ("fragments"), or for a type whose fragments are retained     *)
(* ("node"); the types of arguments follow when the type is done.            *)
(***************************************************************************)
Retain(do, type, of, args) == [do |-> do, type |-> type, of |-> of, args |-> args]
NoFragment == Retain("fragments", "", <<>>, {})

\* A fragment retains the type it is on, not the type it is spread in.
FragmentOf(e) ==
  CASE e.kind = "spread" ->
         Retain("type", document.frags[e.name].on, document.frags[e.name].of, {})
    [] e.kind = "inline" /\ e.name # Anything -> Retain("type", e.name, e.of, {})
    [] e.kind = "field" -> Retain("fragments", "", e.of, {})
    [] OTHER -> NoFragment

\* What a union hands to a member: fields, and the fragments on that very member.
ForMember(e, member) ==
  \/ e.kind = "field"
  \/ e.kind = "spread" /\ document.frags[e.name].on = member
  \/ e.kind = "inline" /\ e.name \in {member, Anything}

FragmentsOf(c) ==
  [i \in DOMAIN c.of |->
     IF c.do = "member" => ForMember(c.of[i], c.type) THEN FragmentOf(c.of[i]) ELSE NoFragment]

FieldsOf(of) == {e.name : e \in {x \in ToSet(of) : x.kind = "field" /\ x.name # Typename}}

\* Mutant of Retained: a later selection replaces the fields of an earlier one.
RetainedLast(c) ==
  IF c.do = "whole" THEN KeepWhole(nodes, c.type)
  ELSE KeepFields([nodes EXCEPT !.names = {n \in @ : n[1] # c.type}], c.type, FieldsOf(c.of))

Retained(c) ==
  IF c.do = "whole" THEN KeepWhole(nodes, c.type)
  ELSE KeepFields(nodes, c.type, FieldsOf(c.of))

InSchema(c) == c.type \in DOMAIN Api.kind
ReturnsEarly(c) == ~InSchema(c) \/ Walked(nodes, c.type, c.do = "whole", Unlimited)

\* The members of a union; one that the selection leaves nothing of is not retained.
Members(c) ==
  LET members == Api.members[c.type]
  IN [i \in DOMAIN members |->
        IF c.do = "whole" THEN Retain("whole", members[i], <<>>, {})
        ELSE IF \E e \in ToSet(c.of) : ForMember(e, members[i])
             THEN Retain("member", members[i], c.of, {})
             ELSE NoFragment]

EveryField(c) ==
  LET fields == Api.fields[c.type]
  IN [i \in DOMAIN fields |-> Retain("whole", fields[i].type, <<>>, fields[i].args)]

SelectedFields(c) ==
  [i \in DOMAIN c.of |->
     LET e == c.of[i]
         f == FieldOf(Api, c.type, e.name)
     IN IF e.kind = "field" /\ e.name # Typename /\ HasField(Api, c.type, e.name)
        THEN Retain("type", f.type, e.of, f.args)
        ELSE NoFragment]

\* What a type leads to.
Deeper(c) ==
  IF ReturnsEarly(c) THEN <<>>
  ELSE IF Api.kind[c.type] = "union" THEN Members(c)
  ELSE IF Api.kind[c.type] = "input" \/ c.do = "whole" THEN EveryField(c)
  ELSE SelectedFields(c)

ArgumentTypes(c) ==
  LET args == SetToSeq(c.args) IN [i \in DOMAIN args |-> Retain("whole", args[i], <<>>, {})]

\* One call.
RetainNext ==
  /\ phase = "collecting" /\ retaining # <<>>
  /\ LET c       == Head(retaining)
         Then(s) == retaining' = s \o Tail(retaining)
     IN \/ c.do = "fragments" /\ Then(FragmentsOf(c)) /\ UNCHANGED nodes
        \/ /\ c.do \in {"type", "member"}
           /\ Then((IF InSchema(c) THEN FragmentsOf(c) ELSE <<>>)
                   \o <<Retain("node", c.type, c.of, c.args)>>)
           /\ UNCHANGED nodes
        \/ /\ c.do \in {"node", "whole"}
           /\ nodes' = IF ReturnsEarly(c) THEN nodes ELSE Retained(c)
           /\ Then(Deeper(c) \o ArgumentTypes(c))
  /\ UNCHANGED <<operationVars, defineVars>>

\* tool_description prints the shaken schema but for its root types and input types.
Described ==
  LET types == {t \in nodes.kept \ {Root(document), "Query"} : Api.kind[t] # "input"}
  IN UNION {{<<t, f>> : f \in {n \in FieldNames(Api, t) : Shows(nodes, t, n)}} : t \in types}

(***************************************************************************)
(* schema_walker/name.rs: the definitions of an input schema. A definition   *)
(* is a placeholder while the types of its fields are defined, so that a     *)
(* type that contains itself refers to it.                                   *)
(***************************************************************************)
Placeholder == {"placeholder"}

Define(t)    == [type |-> t, fields |-> FALSE]
HasFields(t) == [type |-> t, fields |-> TRUE]

Defined(t, as) ==
  [u \in DOMAIN definitions \cup {t} |-> IF u = t THEN as ELSE definitions[u]]

DefineNext ==
  /\ phase = "collecting" /\ retaining = <<>> /\ defining # <<>>
  /\ LET c      == Head(defining)
         fields == Api.fields[c.type]
     IN \/ /\ c.fields
           /\ definitions' = Defined(c.type, FieldNames(Api, c.type))
           /\ defining' = Tail(defining)
        \/ /\ ~c.fields /\ (InSchema(c) => c.type \in DOMAIN definitions)
           /\ defining' = Tail(defining)
           /\ UNCHANGED definitions
        \/ /\ ~c.fields /\ InSchema(c) /\ c.type \notin DOMAIN definitions
           /\ definitions' = Defined(c.type, Placeholder)
           /\ defining' = [i \in DOMAIN fields |-> Define(fields[i].type)]
                          \o <<HasFields(c.type)>> \o Tail(defining)
  /\ UNCHANGED <<operationVars, shakeVars>>

(***************************************************************************)
(* Operation::from_raw, and the calls of the tool.                           *)
(***************************************************************************)
DescribeInit ==
  /\ OperationInit
  /\ retaining = <<>> /\ nodes = Untouched
  /\ defining = <<>> /\ definitions = << >>

\* retain_operation and get_json_schema.
LoadTool ==
  /\ Load
  /\ IF phase' = "collecting"
     THEN /\ retaining' = <<Retain("type", Root(document), document.of, {})>>
          /\ defining' = LET inputs == SetToSeq(Inputs(document))
                         IN [i \in DOMAIN inputs |-> Define(document.vars[inputs[i]])]
     ELSE UNCHANGED <<retaining, defining>>
  /\ UNCHANGED <<nodes, definitions>>

\* The rest of an operation's life.
Operate ==
  /\ retaining = <<>> /\ defining = <<>>
  /\ Execute \/ CollectNext \/ Collected \/ Call \/ CallFails \/ Answer \/ PrefetchAnswer \/ Nest
  /\ UNCHANGED <<shakeVars, defineVars>>

DescribeNext == LoadTool \/ RetainNext \/ DefineNext \/ Operate
DescribeSpec == DescribeInit /\ [][DescribeNext]_describeVars

(***************************************************************************)
(* Properties                                                                *)
(***************************************************************************)
\* The fields an operation selects, with the type it selects them on.
Selects(d) ==
  {<<x.on, x.e.name>> : x \in {y \in Chosen(d) : y.e.kind = "field" /\ y.e.name # Typename}}

\* The description shows exactly the fields the operation selects, below its root type;
\* the input schema defines exactly the types its variables lead to, down to the last.
ToolDescribesOperation ==
  phase = "ready" =>
    /\ Described = {a \in Selects(document) : a[1] \notin {Root(document), "Query"}}
    /\ LeadTo(Api, {document.vars[n] : n \in Inputs(document)} \cap DOMAIN Api.kind,
              DOMAIN definitions)
    /\ \A t \in DOMAIN definitions : definitions[t] = FieldNames(Api, t)
=============================================================================

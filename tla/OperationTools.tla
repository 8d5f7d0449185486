--------------------------- MODULE OperationTools ---------------------------
(***************************************************************************)
(* A predefined operation as a tool: besides its description and its input   *)
(* schema (ToolDescription), Operation::from_raw builds the output schema,    *)
(* from the operation's document (schema_walker/output.rs) and its @private  *)
(* fields (OperationCalls). The execute tool has no schemas.                 *)
(*                                                                         *)
(* Four readers of one document have to agree, each with its own walk over   *)
(* fields and fragments. They are checked against what the GraphQL server    *)
(* may answer. Descriptions, default values and lists are not modelled.      *)
(***************************************************************************)
EXTENDS ToolDescription

VARIABLE output       \* the output schema of the tool

toolVars == <<describeVars, output>>

\* The private fields in the value of a key; the value itself is if <<>> is one.
Child(tree, key) == {Tail(p) : p \in {q \in tree : q # <<>> /\ Head(q) = key}}
IsPrivate(tree, key) == <<>> \in Child(tree, key)

(***************************************************************************)
(* schema_walker/output.rs                                                   *)
(***************************************************************************)
\* The members of a selection's type, by which its fragments are told apart.
Concrete(t) ==
  IF Api.kind[t] = "object" \/ Api.members[t] = <<>> THEN {t} ELSE ToSet(Api.members[t])

\* matching_members
Matching(members, condition) ==
  {m \in members : m = condition \/ m \in ToSet(Api.members[condition])}

RECURSIVE Selected(_, _, _, _, _)
\* collect_selected_fields: the fields, the type that declares each and the members it
\* applies to.
Selected(frags, acc, of, on, members) ==
  FoldLeft(LAMBDA a, e :
    LET type == IF e.kind = "spread" THEN frags[e.name].on
                ELSE IF e.name = Anything THEN on ELSE e.name
        here == Matching(members, type)
    IN CASE e.kind = "field" ->
              [a EXCEPT !.fields = Append(@, [entry |-> e, on |-> on, members |-> members])]
         [] e.kind = "inline" /\ here # {} -> Selected(frags, a, e.of, type, here)
         [] e.kind = "spread" /\ here # {} /\ <<e.name, here>> \notin a.seen ->
              Selected(frags, [a EXCEPT !.seen = @ \cup {<<e.name, here>>}],
                       frags[e.name].of, type, here)
         [] OTHER -> a,
    acc, of)

NoFields == [required |-> {}, props |-> << >>]
NoObject == [common |-> NoFields, branches |-> {}, conditional |-> {}]

\* Mutant of Required: private fields are required as well.
RequiredAnyway(fields, tree) ==
  {f.entry.key : f \in {g \in fields : g.entry.name # Typename
                                       /\ HasField(Api, g.on, g.entry.name)
                                       /\ FieldOf(Api, g.on, g.entry.name).required}}

\* The keys every response has: those of fields that are not null, if they are not private.
Required(fields, tree) ==
  {f.entry.key : f \in {g \in fields : g.entry.name # Typename
                                       /\ HasField(Api, g.on, g.entry.name)
                                       /\ ~IsPrivate(tree, g.entry.key)
                                       /\ FieldOf(Api, g.on, g.entry.name).required}}

RECURSIVE SelectionSchema(_, _, _, _), FieldsSchema(_, _, _)

\* type_to_output_schema of one field
FieldSchema(frags, f, tree) ==
  IF f.entry.name = Typename
  THEN [kind |-> "String", nullable |-> FALSE, of |-> NoObject]
  ELSE LET def == FieldOf(Api, f.on, f.entry.name)
           composite == def.type \in DOMAIN Api.kind
       IN [kind     |-> IF composite THEN "object" ELSE def.type,
           nullable |-> ~def.required,
           of       |-> IF composite
                        THEN SelectionSchema(frags, f.entry.of, def.type,
                                             Child(tree, f.entry.key))
                        ELSE NoObject]

\* build_fields_schema: all the schemas of a response key apply.
FieldsSchema(frags, fields, tree) ==
  LET shown == {f \in fields : /\ ~IsPrivate(tree, f.entry.key)
                               /\ \/ f.entry.name = Typename
                                  \/ HasField(Api, f.on, f.entry.name)}
  IN [required |-> Required(fields, tree),
      props    |-> [k \in {f.entry.key : f \in shown} |->
                      {FieldSchema(frags, f, tree) : f \in {g \in shown : g.entry.key = k}}]]

\* build_selection_set_schema: the fields common to all members, and one branch for each
\* set of fields that some members have besides.
SelectionSchema(frags, of, t, tree) ==
  LET fields  == ToSet(Selected(frags, [fields |-> <<>>, seen |-> {}], of, t, Concrete(t)).fields)
      common  == {f \in fields : f.members = Concrete(t)}
      groups  == {{f \in fields \ common : m \in f.members} : m \in Concrete(t)}
      KeysOf(S) == {f.entry.key : f \in S}
      closed  == {k \in KeysOf(fields \ common) \ KeysOf(common) : ~IsPrivate(tree, k)}
  IN [common      |-> FieldsSchema(frags, common, tree),
      branches    |-> IF fields = common THEN {}
                      ELSE {[fields |-> FieldsSchema(frags, g, tree),
                             keys   |-> KeysOf(g) \cap closed] : g \in groups},
      conditional |-> closed]

(* JSON objects: their keys, the value of one, and one made of the values of its keys. *)
Keys(v) == {p[1] : p \in {q \in DOMAIN v : Len(q) = 1}}
At(v, k) == [p \in {Tail(q) : q \in {r \in DOMAIN v : r # <<>> /\ Head(r) = k}} |-> v[<<k>> \o p]]
Object(f) ==
  [p \in {<<>>} \cup UNION {{<<k>> \o q : q \in DOMAIN f[k]} : k \in DOMAIN f} |->
     IF p = <<>> THEN "object" ELSE f[Head(p)][Tail(p)]]

\* What the JSON Schema accepts.
RECURSIVE Accepts(_, _)
AcceptsFields(fields, v) ==
  /\ fields.required \subseteq Keys(v)
  /\ \A k \in DOMAIN fields.props \cap Keys(v) :
       \A s \in fields.props[k] : (s.nullable /\ At(v, k) = Null) \/ Accepts(s, At(v, k))
Accepts(schema, v) ==
  /\ v[<<>>] = schema.kind
  /\ schema.kind = "object" =>
       /\ AcceptsFields(schema.of.common, v)
       /\ \/ schema.of.branches = {}
          \/ \E b \in schema.of.branches :
               /\ AcceptsFields(b.fields, v)
               /\ Keys(v) \cap schema.of.conditional \subseteq b.keys

(***************************************************************************)
(* Operation::from_raw                                                       *)
(***************************************************************************)
NoOutput == [kind |-> "object", nullable |-> FALSE, of |-> NoObject]
OutputSchema(d, tree) == [NoOutput EXCEPT !.of = SelectionSchema(d.frags, d.of, Root(d), tree)]

ToolInit == DescribeInit /\ output = NoOutput

\* The output schema is made when the private fields are collected.
ToolNext ==
  /\ DescribeNext
  /\ output' = IF phase = "collecting" /\ phase' = "ready"
               THEN OutputSchema(document, private["result"]) ELSE output

(***************************************************************************)
(* What a GraphQL server may answer (external).                              *)
(***************************************************************************)
RECURSIVE Applicable(_, _, _), Objects(_, _, _)
Applicable(frags, of, t) ==
  FlattenSeq([i \in DOMAIN of |->
    LET e == of[i]
    IN CASE e.kind = "field" -> <<e>>
         [] e.kind = "spread" /\ t \in Concrete(frags[e.name].on) ->
              Applicable(frags, frags[e.name].of, t)
         [] e.kind = "inline" /\ (e.name = Anything \/ t \in Concrete(e.name)) ->
              Applicable(frags, e.of, t)
         [] OTHER -> <<>>])

Objects(frags, of, t) ==
  LET fields == Applicable(frags, of, t)
      keys   == {fields[i].key : i \in DOMAIN fields}
      ValuesOf(k) ==
        LET these == SelectSeq(fields, LAMBDA e : e.key = k)
            def   == FieldOf(Api, t, these[1].name)
            inner == FlattenSeq([i \in DOMAIN these |-> these[i].of])
        IN IF these[1].name = Typename THEN {Value("String")}
           ELSE (IF def.required THEN {} ELSE {Null})
                \cup (IF def.type \in DOMAIN Api.kind
                      THEN UNION {Objects(frags, inner, c) : c \in Concrete(def.type)}
                      ELSE {Value(def.type)})
  IN {Object(f) : f \in FoldLeft(LAMBDA fs, k : {(k :> v) @@ f : v \in ValuesOf(k), f \in fs},
                                 {<< >>}, SetToSeq(keys))}

Answers(d) == {Null} \cup Objects(d.frags, d.of, Root(d))

(***************************************************************************)
(* Properties                                                                *)
(***************************************************************************)
\* A tool's output schema accepts every response of the operation with its private fields
\* left out, whatever members its interfaces and unions turn out to be.
ResponsesFitSchema ==
  phase = "done" /\ via # "execute" /\ raw # Null => Accepts(output, view["result"])
=============================================================================

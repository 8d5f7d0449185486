------------------------------ MODULE TypeGraph ------------------------------
(***************************************************************************)
(* A GraphQL schema as a graph of types, and the nodes of the tree shaker    *)
(* (schema_tree_shake.rs) that cuts a schema down to the part a tool shows:  *)
(* what the nodes retain is what shaken prints. What retain_type walks is in *)
(* ToolDescription for the selections of an operation, and in SchemaSearch   *)
(* for the types the lookups retain.                                         *)
(*                                                                         *)
(* A schema is a record: kind[t] is the kind of type t, fields[t] the        *)
(* sequence of its fields (of an object, interface or input type), members[t]*)
(* the members of a union or the implementers of an interface. A type that   *)
(* is not in DOMAIN kind is a scalar. Applied directives and descriptions    *)
(* are left out.                                                             *)
(***************************************************************************)
EXTENDS Integers, SequencesExt

\* A type is an input type: of an argument or of a field of an input type.
IsInput(s, t) == t \in DOMAIN s.kind /\ s.kind[t] = "input"

\* A schema that was validated does not mix input and output types: arguments and the
\* fields of input types are input types, everything else leads to output types.
InputsApart(s) ==
  \A t \in DOMAIN s.kind :
    /\ \A i \in DOMAIN s.members[t] : ~IsInput(s, s.members[t][i])
    /\ \A i \in DOMAIN s.fields[t] :
         LET f == s.fields[t][i]
         IN /\ f.type \in DOMAIN s.kind => (IsInput(s, t) <=> IsInput(s, f.type))
            /\ IsInput(s, t) => f.args = {}
            /\ IsFiniteSet(f.args)
            /\ \A a \in f.args \cap DOMAIN s.kind : IsInput(s, a)

\* A field: its name, the type it returns, the input types of its arguments and
\* whether the type is non-null.
Field(name, type, args, required) ==
  [name |-> name, type |-> type, args |-> args, required |-> required]

HasField(s, t, f) == \E i \in DOMAIN s.fields[t] : s.fields[t][i].name = f
FieldOf(s, t, f) == s.fields[t][CHOOSE i \in DOMAIN s.fields[t] : s.fields[t][i].name = f]
FieldNames(s, t) == {s.fields[t][i].name : i \in DOMAIN s.fields[t]}

(* DepthLimit: a number of levels, or Unlimited. *)
Unlimited == -1
Reached(depth) == depth = 0
Decrement(depth) == IF depth = Unlimited THEN depth ELSE depth - 1

(* The nodes of the shaker: the types it retains, those whose fields a selection *)
(* has cut (filtered_field is Some), and the names left of them.                  *)
Untouched == [kept |-> {}, cut |-> {}, names |-> {}]

\* The node of type t is retained; its fields are cut to F, besides those it has kept.
KeepWhole(st, t) == [st EXCEPT !.kept = @ \cup {t}]
KeepFields(st, t, F) ==
  [st EXCEPT !.kept = @ \cup {t}, !.cut = @ \cup {t},
             !.names = @ \cup {<<t, f>> : f \in F}]

\* Mutant of Walked: any retained type, whatever depth is left this time.
WalkedOnce(st, t, whole, depth) == t \in st.kept /\ whole

\* A type that is retained whole and without a limit is not walked again: that ends
\* the recursion of cyclic schemas.
Walked(st, t, whole, depth) == t \in st.kept /\ whole /\ depth = Unlimited

\* shaken: the fields it prints of the types it retained.
Shows(st, t, f) == t \in st.kept /\ (t \in st.cut => <<t, f>> \in st.names)

(***************************************************************************)
(* Reference definitions, independent of the shaker.                         *)
(***************************************************************************)
\* The types that type t refers to: a union its members, any other type by the types of
\* its fields and of their arguments.
Refers(s, t) ==
  {u \in DOMAIN s.kind :
     IF s.kind[t] = "union"
     THEN \E i \in DOMAIN s.members[t] : s.members[t][i] = u
     ELSE \E i \in DOMAIN s.fields[t] : u \in {s.fields[t][i].type} \cup s.fields[t][i].args}

\* T has all that its types refer to.
Closed(s, T) == \A t \in T : Refers(s, t) \subseteq T

\* T is all that type t leads to, and no more.
AllFrom(s, t, T) ==
  /\ t \in T /\ Closed(s, T)
  /\ \A U \in SUBSET T : t \in U /\ Closed(s, U) => U = T

\* T is all that the types S lead to, and no more.
LeadTo(s, S, T) ==
  /\ S \subseteq T /\ Closed(s, T)
  /\ \A U \in SUBSET T : S \subseteq U /\ Closed(s, U) => U = T

\* The walks of j references from type t, and the types at most n references away.
Walks(s, t, j) ==
  {w \in [0..j -> DOMAIN s.kind] : w[0] = t /\ \A i \in 1..j : w[i] \in Refers(s, w[i - 1])}
Within(s, t, n) == UNION {{w[j] : w \in Walks(s, t, j)} : j \in 0..n}
=============================================================================

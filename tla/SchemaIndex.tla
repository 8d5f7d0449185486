---------------------------- MODULE SchemaIndex ----------------------------
(***************************************************************************)
(* The schema index that the search tool climbs (apollo-schema-index).       *)
(*                                                                         *)
(* The index is built once, by a depth first walk from the root types: every *)
(* path the walk visits tells which type refers to the path's last type. A   *)
(* search starts at the types that match and climbs from referring type to   *)
(* referring type until it meets one that nothing refers to. The served      *)
(* schema may be replaced at any time; the index is not rebuilt. Scores are  *)
(* not modelled: types match in any order.                                   *)
(*                                                                         *)
(* A schema is a record: kind[t] is the kind of type t, fields[t] the        *)
(* sequence of its fields (of an object, interface or input type), members[t]*)
(* the members of a union or the implementers of an interface. A type that   *)
(* is not in DOMAIN kind is a scalar.                                        *)
(***************************************************************************)
EXTENDS Naturals, SequencesExt

CONSTANTS
  Schemas,      \* schemas the server may start with
  Updates,      \* schemas that may replace it
  MaxMatches,   \* Options::max_type_matches
  MaxPaths      \* Options::max_paths_per_type

Query == "Query"
Mutation == "Mutation"

Fields == [name : STRING, type : STRING, args : SUBSET STRING, required : BOOLEAN]

\* A valid schema has a query type, and its members are types.
ValidSchema(s) ==
  /\ Query \in DOMAIN s.kind /\ DOMAIN s.kind \subseteq STRING
  /\ \A t \in DOMAIN s.kind : s.fields[t] \in Seq(Fields) /\ s.members[t] \in Seq(DOMAIN s.kind)

ASSUME IndexAssumption ==
  /\ \A s \in Schemas : ValidSchema(s)
  /\ MaxMatches \in Nat \ {0} /\ MaxPaths \in Nat \ {0}

VARIABLES
  schema,       \* the served schema
  mutations,    \* allow_mutations
  indexed,      \* the schema the index was built from
  step,         \* what the tools are doing
  stack,        \* the walk: paths still to visit
  references,   \* references[t]: the references to the indexed type t, in order
  matches,      \* matching types still to climb from
  queue,        \* the climb: paths from the match upwards
  visited,      \* types the climb has visited
  found,        \* root paths found
  count,        \* root paths found from the current match
  asked         \* what the call asked for

walkVars  == <<indexed, stack, references>>
climbVars == <<matches, queue, visited, found, count>>
indexVars == <<schema, mutations, step, walkVars, climbVars, asked>>

(***************************************************************************)
(* Paths. A path is a sequence of nodes; a node has the field that leads to  *)
(* the next one, or NoField when the next one is a member of its type.       *)
(***************************************************************************)
NoField == "none"
Node(t, f, args) == [type |-> t, field |-> f, args |-> args]
End(t) == Node(t, NoField, {})

EndOf(path) == Last(path).type
\* add_child
Extend(path, f, args, t) == Append(Append(Front(path), Node(EndOf(path), f, args)), End(t))
\* has_cycle
Repeats(path) == \E i, j \in DOMAIN path : i # j /\ path[i].type = path[j].type

\* Mutant of Children: the implementers of an interface are not walked.
ChildrenByField(path) ==
  LET t == EndOf(path)
      ByField == IF schema.kind[t] \in {"object", "interface"} THEN schema.fields[t] ELSE <<>>
      Members == IF schema.kind[t] = "union" THEN schema.members[t] ELSE <<>>
  IN [i \in DOMAIN ByField |->
        Extend(path, ByField[i].name, ByField[i].args, ByField[i].type)]
     \o [i \in DOMAIN Members |-> Extend(path, NoField, {}, Members[i])]

\* The paths to the children of a path's last type, in the order of the schema.
Children(path) ==
  LET t == EndOf(path)
      ByField == IF schema.kind[t] \in {"object", "interface"} THEN schema.fields[t] ELSE <<>>
      Members == schema.members[t]
  IN [i \in DOMAIN ByField |->
        Extend(path, ByField[i].name, ByField[i].args, ByField[i].type)]
     \o [i \in DOMAIN Members |-> Extend(path, NoField, {}, Members[i])]

\* The index keeps the root types of the schema it was built from.
Roots == {Query} \cup (IF mutations /\ Mutation \in DOMAIN indexed.kind THEN {Mutation} ELSE {})

(***************************************************************************)
(* Search::new and SchemaIndex::new: one step per path of the walk.          *)
(***************************************************************************)
IndexInit ==
  /\ schema \in Schemas /\ indexed = schema
  /\ mutations \in BOOLEAN
  /\ step = "indexing"
  /\ stack = (IF Mutation \in Roots THEN <<<<End(Mutation)>>>> ELSE <<>>)
             \o <<<<End(Query)>>>>
  /\ references = << >>
  /\ matches = <<>> /\ queue = <<>> /\ visited = {} /\ found = {} /\ count = 0
  /\ asked = [type |-> NoField, depth |-> 0]

Referred(t) == IF t \in DOMAIN references THEN references[t] ELSE <<>>

\* Mutant of Skipped: paths that come back are visited.
SkippedUnknown(path) == EndOf(path) \notin DOMAIN schema.kind

\* A path is left out if it repeats a type: then the walk came back to where it was.
Skipped(path) == Repeats(path) \/ EndOf(path) \notin DOMAIN schema.kind

\* One path from the stack. The children of a type are walked the first time only,
\* every visited path is a reference.
Visit ==
  LET path == Last(stack)
      t    == EndOf(path)
      from == IF Len(path) > 1 THEN <<path[Len(path) - 1]>> ELSE <<>>
      new  == IF t \in DOMAIN references THEN <<>> ELSE Children(path)
  IN /\ step = "indexing" /\ stack # <<>>
     /\ IF Skipped(path)
        THEN stack' = Front(stack) /\ UNCHANGED references
        ELSE /\ stack' = Front(stack) \o new
             /\ references' = [u \in DOMAIN references \cup {t} |->
                                 IF u = t THEN Referred(t) \o from ELSE references[u]]
     /\ UNCHANGED <<schema, mutations, indexed, step, climbVars, asked>>

Indexed ==
  /\ step = "indexing" /\ stack = <<>>
  /\ step' = "ready"
  /\ UNCHANGED <<schema, mutations, walkVars, climbVars, asked>>

\* update_schema replaces the served schema, never the index.
Republish ==
  /\ step # "indexing"
  /\ \E s \in Updates \ {schema} : schema' = s
  /\ UNCHANGED <<mutations, step, walkVars, climbVars, asked>>

(***************************************************************************)
(* SchemaIndex::search                                                       *)
(***************************************************************************)
\* The best matches of the index, best first.
Search ==
  /\ step = "ready"
  /\ \E n \in 1..MaxMatches : \E m \in [1..n -> DOMAIN references] :
       /\ IsInjective(m)
       /\ matches' = m
       /\ queue' = <<<<End(m[1])>>>>
       /\ asked' = [type |-> m[1], depth |-> 0]
  /\ visited' = {} /\ found' = {} /\ count' = 0
  /\ step' = "climbing"
  /\ UNCHANGED <<schema, mutations, walkVars>>

\* The visited types are compared with the whole text of a reference, Type#field: only
\* references of members ever match.
Followed(seen, node) == ~(node.field = NoField /\ node.type \in seen)

\* The numbers of the set I in their order.
InOrder(I) ==
  {f \in [1..Cardinality(I) -> I] : \A i, j \in DOMAIN f : i < j => f[i] < f[j]}

\* One path of the queue.
Climb ==
  LET path == Head(queue)
      t    == Head(path).type
      refs == Referred(t)
      seen == visited \cup {t}
  IN /\ step = "climbing" /\ queue # <<>> /\ count < MaxPaths
     /\ visited' = seen
     /\ IF refs = <<>>
        THEN /\ found' = found \cup {path} /\ count' = count + 1
             /\ queue' = Tail(queue)
        ELSE /\ \E next \in InOrder({i \in DOMAIN refs : Followed(seen, refs[i])}) :
                  queue' = Tail(queue) \o [i \in DOMAIN next |-> <<refs[next[i]]>> \o path]
             /\ UNCHANGED <<found, count>>
     /\ UNCHANGED <<schema, mutations, step, walkVars, matches, asked>>

\* The climb from one match is over: the next match, or the answer.
Climbed ==
  LET rest == Tail(matches)
  IN /\ step = "climbing" /\ (queue = <<>> \/ count >= MaxPaths)
     /\ matches' = rest
     /\ IF rest = <<>>
        THEN step' = "showing" /\ queue' = <<>>
        ELSE step' = step /\ queue' = <<<<End(rest[1])>>>>
     /\ visited' = {} /\ count' = 0
     /\ UNCHANGED <<schema, mutations, walkVars, found, asked>>

\* The root paths are shown (SchemaSearch).
Shown ==
  /\ step = "showing" /\ step' = "searched"
  /\ UNCHANGED <<schema, mutations, walkVars, climbVars, asked>>

\* The introspect tool is called (SchemaSearch), which does without the index.
Introspected ==
  /\ step = "ready" /\ step' = "introspected"
  /\ asked' \in [type : DOMAIN schema.kind, depth : Nat]
  /\ UNCHANGED <<schema, mutations, walkVars, climbVars>>

IndexNext ==
  \/ Visit \/ Indexed \/ Republish
  \/ Search \/ Climb \/ Climbed \/ Shown
  \/ Introspected

IndexSpec == IndexInit /\ [][IndexNext]_indexVars

(***************************************************************************)
(* Properties                                                                *)
(***************************************************************************)
\* No path of a climb meets a type twice, so a climb is over after finitely many paths:
\* the loop of SchemaIndex::search has no other end when no root type is met.
ClimbsEnd == \A i \in DOMAIN queue : ~Repeats(queue[i])

\* The types that an operation leads to from type t of the indexed schema: through
\* fields, members and the implementers of an interface.
LeadsTo(t) ==
  {u \in DOMAIN indexed.kind :
     \/ indexed.kind[t] \in {"object", "interface"} /\ \E f \in ToSet(indexed.fields[t]) : f.type = u
     \/ u \in ToSet(indexed.members[t])}

\* T is closed under what operations lead to, and holds the root types.
ReachesOut(T) == Roots \subseteq T /\ \A t \in T : LeadsTo(t) \subseteq T

\* The index knows exactly the types an operation can reach, the least set with the
\* root types that is closed; and a search gives at least one way from a root type to
\* its best match before it cuts the list.
EveryTypeIsFound ==
  /\ step = "ready" =>
       /\ ReachesOut(DOMAIN references)
       /\ \A T \in SUBSET DOMAIN references : ReachesOut(T) => T = DOMAIN references
  /\ step \in {"showing", "searched"} =>
       \E p \in found : Head(p).type \in Roots /\ EndOf(p) = asked.type
=============================================================================

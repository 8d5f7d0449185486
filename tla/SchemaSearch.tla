---------------------------- MODULE SchemaSearch ----------------------------
(***************************************************************************)
(* The introspect and search tools (introspection/tools/introspect.rs and    *)
(* search.rs): what a search of the schema index finds (SchemaIndex) is cut  *)
(* to the best root paths, and those are retained by the tree shaker; the    *)
(* introspect tool retains a type to a depth. Root paths rank in any order.  *)
(*                                                                         *)
(* retain_type is recursive. Here it is a loop over the stack of the calls   *)
(* that are still to be made, one call a step, in the order of the           *)
(* recursion; so there is an invariant while it runs. The whole of it is     *)
(* done under the schema's read lock.                                        *)
(***************************************************************************)
EXTENDS SchemaIndex, TypeGraph

CONSTANTS
  LeafDepth,    \* leaf_depth
  MaxDepth,     \* largest depth asked of introspect
  MaxResults    \* MAX_SEARCH_RESULTS

WellTyped(s) == InputsApart(s) /\ ~IsInput(s, Query) /\ ~IsInput(s, Mutation)

ASSUME SearchAssumption ==
  /\ \A s \in Schemas \cup Updates : ValidSchema(s) /\ WellTyped(s)
  /\ LeafDepth \in Nat /\ MaxDepth \in Nat /\ MaxResults \in Nat

VARIABLES
  used,         \* root paths that are shown
  todo,         \* those that are still to be retained
  calls,        \* the calls of retain_type that are still to be made
  shaker,       \* nodes of the tree shaker
  shown         \* the schema that is read

lookupVars == <<used, todo, calls, shaker, shown>>
searchVars == <<indexVars, lookupVars>>

SearchInit ==
  /\ IndexInit
  /\ used = {} /\ todo = <<>> /\ calls = <<>> /\ shaker = Untouched
  /\ shown = schema

\* The read lock is held, and the schema not replaced, until everything is retained.
Released == todo = <<>> /\ calls = <<>>

\* The index is built and climbed.
Indexing ==
  /\ Visit \/ Indexed \/ (Released /\ Republish) \/ Search \/ Climb \/ Climbed
  /\ UNCHANGED lookupVars

(***************************************************************************)
(* retain_type. A call is for a type, whole (NoField) or cut to one field,   *)
(* and for the types of arguments, which follow when the type is done.       *)
(***************************************************************************)
ToRetain(t, f, depth, args, argDepth) ==
  [type |-> t, field |-> f, depth |-> depth, args |-> args, argDepth |-> argDepth]

WholeType(t, depth) == ToRetain(t, NoField, depth, {}, depth)
FieldType(f, depth) == ToRetain(f.type, NoField, depth, f.args, depth)

\* The early returns: no level is left, the schema has no such type, it is walked already.
Returns(c) ==
  \/ Reached(c.depth) \/ c.type \notin DOMAIN shown.kind
  \/ Walked(shaker, c.type, c.field = NoField, c.depth)

KeepNode(c) ==
  IF c.field = NoField THEN KeepWhole(shaker, c.type) ELSE KeepFields(shaker, c.type, {c.field})

\* What the type leads to; with no level left below it those calls return at once. (A type
\* that is cut to a field is the only level of its call.)
Below(c) ==
  LET depth   == Decrement(c.depth)
      fields  == shown.fields[c.type]
      members == shown.members[c.type]
  IN IF Returns(c) \/ Reached(depth) THEN <<>>
     ELSE IF shown.kind[c.type] = "union"
          THEN [i \in DOMAIN members |-> WholeType(members[i], depth)]
          ELSE [i \in DOMAIN fields |-> FieldType(fields[i], depth)]

Arguments(c) ==
  LET args == SetToSeq(c.args) IN [i \in DOMAIN args |-> WholeType(args[i], c.argDepth)]

\* One call.
RetainCall ==
  /\ calls # <<>>
  /\ LET c == Head(calls)
     IN /\ calls' = Below(c) \o Arguments(c) \o Tail(calls)
        /\ shaker' = IF Returns(c) THEN shaker ELSE KeepNode(c)
  /\ UNCHANGED <<indexVars, used, todo, shown>>

(***************************************************************************)
(* Search::execute                                                           *)
(***************************************************************************)
\* Mutant of RetainNode: the argument types to the depth of the path.
RetainNodeOnce(path, i) ==
  LET n == path[i]
  IN IF i = Len(path) THEN ToRetain(n.type, NoField, LeafDepth, n.args, 1)
     ELSE ToRetain(n.type, n.field, 1, n.args, 1)

\* What is retained of a node: its field, of the last one everything to the leaf depth;
\* input types without a limit because all input must be given.
RetainNode(path, i) ==
  LET n == path[i]
  IN IF i = Len(path) THEN ToRetain(n.type, NoField, LeafDepth, n.args, Unlimited)
     ELSE ToRetain(n.type, n.field, 1, n.args, Unlimited)

\* The next root path.
RetainPath ==
  /\ calls = <<>> /\ todo # <<>>
  /\ calls' = LET path == Head(todo) IN [i \in DOMAIN path |-> RetainNode(path, i)]
  /\ todo' = Tail(todo)
  /\ UNCHANGED <<indexVars, used, shaker, shown>>

\* The schema is read when the root paths are known; they are retained in the order of
\* their scores.
Show ==
  LET most == IF Cardinality(found) < MaxResults THEN Cardinality(found) ELSE MaxResults
  IN /\ Shown
     /\ \E best \in [1..most -> found] :
          /\ IsInjective(best)
          /\ todo' = best /\ used' = {best[i] : i \in 1..most}
     /\ shown' = schema
     /\ UNCHANGED <<calls, shaker>>

(***************************************************************************)
(* Introspect::execute. A depth of 0 asks for everything.                    *)
(***************************************************************************)
Introspect ==
  /\ step = "ready"
  /\ \E t \in DOMAIN schema.kind, d \in 0..MaxDepth :
       /\ asked' = [type |-> t, depth |-> d]
       /\ calls' = <<WholeType(t, IF d > 0 THEN d ELSE Unlimited)>>
  /\ shown' = schema
  /\ Introspected
  /\ UNCHANGED <<used, todo, shaker>>

SearchNext == Indexing \/ Show \/ Introspect \/ RetainPath \/ RetainCall
SearchSpec == SearchInit /\ [][SearchNext]_searchVars

\* The types in the answer: the mutation type is shown if mutations are allowed, by
\* introspect also if it was asked for.
InAnswer(t) ==
  /\ t \in shaker.kept
  /\ (t = Mutation => mutations \/ (step = "introspected" /\ asked.type = Mutation))

(***************************************************************************)
(* Properties                                                                *)
(***************************************************************************)
\* An operation can be written from a search result: each path starts at a root type, its
\* types are there (but for the mutation type on the way to others, if mutations are not
\* allowed) with the field or member that leads to the next one and, for its arguments,
\* every input type down to the last.
ResultsAreUsable ==
  step = "searched" /\ Released /\ shown = indexed =>
    \A p \in used :
      /\ Head(p).type \in Roots
      /\ \A i \in DOMAIN p :
           /\ InAnswer(p[i].type) \/ (p[i].type = Mutation /\ ~mutations)
           /\ p[i].field # NoField => Shows(shaker, p[i].type, p[i].field)
           /\ \E T \in SUBSET shaker.kept :
                p[i].args \cap DOMAIN shown.kind \subseteq T /\ Closed(shown, T)

\* Introspection to depth d shows, with all their fields, exactly the types at most
\* d - 1 references away: no type is lost because it was met before with less depth left.
IntrospectionIsExact ==
  step = "introspected" /\ Released =>
    /\ IF asked.depth = 0 THEN AllFrom(shown, asked.type, shaker.kept)
       ELSE shaker.kept = Within(shown, asked.type, asked.depth - 1)
    /\ shaker.cut = {}
=============================================================================

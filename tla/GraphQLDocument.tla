--------------------------- MODULE GraphQLDocument ---------------------------
(***************************************************************************)
(* Documents of GraphQL operations, as the tools of operations read them.    *)
(* Selection sets are sequences of fields, spreads of named fragments and    *)
(* inline fragments; the fragments of a document are records [on, of].       *)
(***************************************************************************)
EXTENDS SequencesExt

\* A field with its response key (the alias or the name) and whether it is @private.
Select(f, key, private, of) ==
  [kind |-> "field", name |-> f, key |-> key, private |-> private, of |-> of]
Spread(fragment) ==
  [kind |-> "spread", name |-> fragment, key |-> fragment, private |-> FALSE, of |-> <<>>]
Inline(type, of) ==
  [kind |-> "inline", name |-> type, key |-> type, private |-> FALSE, of |-> of]

Anything == "*"     \* the condition of an inline fragment that has none
Typename == "__typename"

\* A document with one operation. vars maps its variables to their types, given are the
\* variables that come with the operation (RawOperation::variables).
Document(type, named, of, frags, vars, given) ==
  [type |-> type, named |-> named, of |-> of, frags |-> frags, vars |-> vars, given |-> given]

(***************************************************************************)
(* Places, for reference: a selection, and where in a response the object is *)
(* that it selects from.                                                     *)
(***************************************************************************)
Place(at, e) == [at |-> at, e |-> e]

\* Where the value of a field is.
Spot(x) == Append(x.at, x.e.key)

\* The places that a place leads to. What is in a private field is part of it.
Inside(d, x) ==
  CASE x.e.kind = "field"  -> IF x.e.private THEN {} ELSE {Place(Spot(x), s) : s \in ToSet(x.e.of)}
    [] x.e.kind = "spread" -> {Place(x.at, s) : s \in ToSet(d.frags[x.e.name].of)}
    [] OTHER               -> {Place(x.at, s) : s \in ToSet(x.e.of)}

Tops(d) == {Place(<<>>, s) : s \in ToSet(d.of)}

\* P are the places of document d: the least set with its top selections and what they
\* lead to.
ArePlaces(d, P) ==
  LET All(S) == Tops(d) \subseteq S /\ \A x \in S : Inside(d, x) \subseteq S
  IN All(P) /\ \A S \in SUBSET P : All(S) => S = P
=============================================================================

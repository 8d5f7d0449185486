--------------------------- MODULE MCSchemaTools ---------------------------
(* Instance of SchemaTools for TLC. *)
EXTENDS SchemaTools

(***************************************************************************)
(* For the lookups: graphs of two objects A and B, a union or interface N of *)
(* them and two input types, reached from the root types; some are cyclic.   *)
(***************************************************************************)
Types == {"Query", "Mutation", "A", "B", "N", "I", "J"}
\* The field to A takes an input object.
To(t) == Field(t, t, IF t = "A" THEN {"I"} ELSE {}, FALSE)
Ordered(S) == SelectSeq(<<"Query", "N", "A", "B", "I", "J">>, LAMBDA t : t \in S)
FieldsTo(S) == LET o == Ordered(S) IN [i \in DOMAIN o |-> To(o[i])]

Graph(q, m, a, b, n, k, i, j) ==
  [kind |-> [t \in Types |-> CASE t \in {"I", "J"} -> "input" [] t = "N" -> k
                               [] OTHER -> "object"],
   fields |-> [t \in Types |->
                 CASE t = "Query" -> FieldsTo(q) [] t = "Mutation" -> FieldsTo(m)
                   [] t = "A" -> FieldsTo(a) [] t = "B" -> FieldsTo(b)
                   [] t = "I" -> FieldsTo(i) [] t = "J" -> FieldsTo(j)
                   [] t = "N" -> IF k = "union" THEN <<>> ELSE FieldsTo({"B"} \ n)],
   members |-> [t \in Types |-> IF t = "N" THEN Ordered(n) ELSE <<>>]]

MCSchemas ==
  {Graph(q, m, a, b, n, k, i, j) :
     q \in {{"A"}, {"N"}, {"A", "N"}}, m \in {{"A"}, {"Query"}},
     a \in {{}, {"B"}, {"N"}, {"Query", "B"}}, b \in {{}, {"A"}, {"A", "N"}},
     n \in {{"A"}, {"A", "B"}}, k \in {"union", "interface"},
     i \in {{"J"}}, j \in {{}, {"I"}}}
MCUpdates == {Graph({"A"}, {}, {"B"}, {}, {"B"}, "union", {"J"}, {})}

(***************************************************************************)
(* For the operations: one schema and the documents over it.                 *)
(***************************************************************************)
\* Query and Mutation lead to an object A, an interface N and a union U of A and B.
MCApi ==
  [kind |-> "Query" :> "object" @@ "Mutation" :> "object" @@ "A" :> "object" @@ "B" :> "object"
            @@ "N" :> "interface" @@ "U" :> "union" @@ "I" :> "input" @@ "J" :> "input",
   fields |-> "Query" :> <<Field("a", "A", {"I"}, FALSE), Field("n", "N", {}, TRUE),
                           Field("u", "U", {}, FALSE)>>
              @@ "Mutation" :> <<Field("a", "A", {"J"}, FALSE)>>
              @@ "A" :> <<Field("x", "Int", {}, FALSE), Field("z", "Int", {}, TRUE),
                          Field("n", "N", {}, FALSE)>>
              @@ "B" :> <<Field("x", "Int", {}, FALSE), Field("y", "String", {}, TRUE),
                       Field("z", "Int", {}, TRUE)>>
              @@ "N" :> <<Field("z", "Int", {}, TRUE)>>
              @@ "U" :> <<>>
              @@ "I" :> <<Field("j", "J", {}, TRUE)>>
              @@ "J" :> <<Field("i", "I", {}, FALSE), Field("k", "Int", {}, TRUE)>>,
   members |-> [t \in {"Query", "Mutation", "A", "B", "I", "J"} |-> <<>>]
               @@ [t \in {"N", "U"} |-> <<"A", "B">>]]

Leaf(f)   == Select(f, f, FALSE, <<>>)
Hidden(f) == Select(f, f, TRUE, <<>>)
Into(f, of) == Select(f, f, FALSE, of)

Fragments ==
  "FA" :> [on |-> "A", of |-> <<Hidden("x"), Leaf("z")>>]
  @@ "FN" :> [on |-> "N", of |-> <<Hidden("z"), Inline("B", <<Leaf("x"), Leaf("y")>>)>>]

\* Selections on A, on N and on U.
OnA == {Leaf("x"), Spread("FA"), Select("x", "z2", TRUE, <<>>),
        Into("n", <<Leaf("z")>>), Into("n", <<Spread("FA"), Leaf(Typename)>>),
        Into("n", <<Spread("FN")>>)}
OnN == {Leaf("z"), Hidden("z"), Inline("A", <<Leaf("x")>>),
        Inline("B", <<Hidden("x"), Leaf("y")>>),
        Inline("A", <<Into("n", <<Hidden("z"), Leaf(Typename)>>)>>),
        Inline(Anything, <<Leaf(Typename)>>), Spread("FA"), Spread("FN")}
OnU == {Leaf(Typename), Inline("N", <<Leaf("z")>>), Spread("FA"), Inline("B", <<Leaf("x")>>)}

Selections ==
  {<<Into("n", <<p, q>>)>> : p, q \in OnN}
  \cup {<<Into("n", <<p>>), Into("n", <<q>>)>> : p, q \in OnN}
  \cup {<<Into("u", <<p, q>>)>> : p, q \in OnU}
  \cup {<<Into("a", <<p>>), Into("a", <<q>>)>> : p, q \in OnA}
  \cup {<<Into("a", <<p>>), Into("n", <<q>>)>> : p \in OnA, q \in OnN}

RECURSIVE Flat(_), Repeated(_)
\* The fields of a selection set, out of their fragments.
Flat(of) ==
  FlattenSeq([i \in DOMAIN of |-> CASE of[i].kind = "field" -> <<of[i]>>
                                   [] of[i].kind = "spread" -> Flat(Fragments[of[i].name].of)
                                   [] OTHER -> Flat(of[i].of)])
\* Is a field of an interface or union selected twice under one response key?
Repeated(of) ==
  LET all == Flat(of)
      Same(k) == SelectSeq(all, LAMBDA e : e.key = k)
  IN \E k \in {e.key : e \in ToSet(all)} :
       \/ Same(k)[1].name \in {"n", "u"} /\ Len(Same(k)) > 1
       \/ Repeated(FlattenSeq([i \in DOMAIN Same(k) |-> Same(k)[i].of]))

\* The places of a document.
RECURSIVE PlacesFrom(_, _)
PlacesFrom(d, P) ==
  LET new == UNION {Inside(d, x) : x \in P} \ P
  IN IF new = {} THEN P ELSE PlacesFrom(d, P \cup new)
MCPlaces(d) == PlacesFrom(d, Tops(d))

\* The selections of a document, with their types.
RECURSIVE ChosenFrom(_, _)
ChosenFrom(d, C) ==
  LET new == UNION {Under(d, x) : x \in C} \ C
  IN IF new = {} THEN C ELSE ChosenFrom(d, C \cup new)
MCChosen(d) == ChosenFrom(d, AllOn(Root(d), d.of))

Variables1 == "v" :> "I" @@ "w" :> "Int"
MCNames == {"v", "w"}
Queries(of) == Document("query", TRUE, of, Fragments, Variables1, {})

MCDocuments ==
  {Queries(of) : of \in {t \in Selections : ~Repeated(t)}}
  \cup {Document(type, named, <<Into("a", <<p>>)>>, Fragments, "v" :> "J" @@ "w" :> "Int", {"w"}) :
          type \in {"query", "mutation", "subscription"}, named \in BOOLEAN, p \in OnA}
MCPrefetches == {Queries(<<Into("u", <<Spread("FA"), Leaf(Typename)>>)>>),
                 Queries(<<Into("n", <<Leaf("z")>>)>>)}
\* Documents that select a field of an interface or union twice.
MCRepeated == {Queries(of) : of \in {t \in Selections : Repeated(t)}}
=============================================================================

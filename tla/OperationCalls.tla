--------------------------- MODULE OperationCalls ---------------------------
(***************************************************************************)
(* A call of an operation: as a predefined tool, as the tool of an app that  *)
(* runs with a prefetch and nests both results (apps/tool.rs), or as the     *)
(* document a client brings to the execute tool                              *)
(* (introspection/tools/execute.rs). The document is loaded                  *)
(* (Operation::from_raw), its @private fields are collected                  *)
(* (private_fields.rs), and execute sends it and splits the response         *)
(* (graphql.rs): the model sees what is left of it, the host all.            *)
(*                                                                         *)
(* collect_from_selections is recursive. Here it is a loop over the          *)
(* selections that are still to be visited, in the order of the recursion.   *)
(***************************************************************************)
EXTENDS GraphQLDocument

CONSTANTS
  Documents,    \* documents of operations
  Prefetches,   \* the documents an app may prefetch
  Names,        \* names of arguments a client may send
  Places(_),    \* the places of a document
  Responses(_)  \* what a GraphQL server may answer to a document

IsSequence(s) == s \in Seq(ToSet(s))

\* Selection sets are sequences, and Places gives the places of a document.
ASSUME DocumentAssumption ==
  \A d \in Documents \cup Prefetches :
    /\ ArePlaces(d, Places(d))
    /\ IsSequence(d.of)
    /\ \A x \in Places(d) :
         IsSequence(x.e.of) /\ (x.e.kind = "spread" => IsSequence(d.frags[x.e.name].of))

MutationModes == {"none", "explicit", "all"}

VARIABLES
  document,     \* the operation of the tool
  prefetch,     \* the operation the app prefetches
  via,          \* "tool": a tool of its own, "app": a tool of an app, "execute"
  phase,        \* where loading and the call are
  pending,      \* the selections still to be visited, of each result
  spreads,      \* the fragments visited so far, of each result
  private,      \* of each result, where its private fields are (PrivateFieldTree)
  sent,         \* the variables of the request, and who gave each
  raw,          \* the response to the operation
  rawOther,     \* the response to the prefetch
  view,         \* structuredContent: what the model sees
  host          \* _meta: what the host sees besides

collectVars  == <<pending, spreads, private>>
documentVars == <<document, prefetch, via>>
resultVars   == <<raw, rawOther, view, host>>
operationVars == <<documentVars, phase, collectVars, sent, resultVars>>

(***************************************************************************)
(* JSON values, by the kind of what is at each place in them; the place of   *)
(* the value itself is <<>>. The kind of a leaf is its scalar type.          *)
(***************************************************************************)
Value(kind) == [p \in {<<>>} |-> kind]
Nothing == Value("nothing")
Null    == Value("null")

(***************************************************************************)
(* private_fields.rs. A tree is the set of the places of its private nodes:  *)
(* an entry without any is not kept.                                         *)
(***************************************************************************)
HasPrivate(tree) == tree # {}

\* Mutant of Marked: a field that is selected again starts a new entry.
MarkedAnew(tree, at, places) == {p \in tree : ~IsPrefix(at, p)} \cup places

\* The entry of a field: what earlier selections of its key marked in it stays.
Marked(tree, at, places) == tree \cup places

\* filter_object: a private key is left out with all that is in it.
Filtered(v, tree) ==
  [p \in {p \in DOMAIN v : \A i \in 1..Len(p) : SubSeq(p, 1, i) \notin tree} |-> v[p]]

\* The results of a call are those of its operation and of the prefetch.
Results == {"result", "prefetch"}
Of(r) == IF r = "result" THEN document ELSE prefetch

ToVisit(r, at, of) == [i \in DOMAIN of |-> [result |-> r, at |-> at, e |-> of[i]]]

\* The next selection: the private field is marked, and nothing in it visited; a fragment
\* is visited where it is first spread in the document.
CollectNext ==
  /\ phase = "collecting" /\ pending # <<>>
  /\ LET r    == Head(pending).result
         at   == Head(pending).at
         e    == Head(pending).e
         key  == Append(at, e.key)
         Visit(where, of) == pending' = ToVisit(r, where, of) \o Tail(pending)
         Marks(places)    == private' = [private EXCEPT ![r] = Marked(@, key, places)]
     IN \/ /\ e.kind = "field" /\ e.private
           /\ Marks({key}) /\ pending' = Tail(pending)
           /\ UNCHANGED spreads
        \/ /\ e.kind = "field" /\ ~e.private
           /\ IF e.of = <<>> THEN UNCHANGED private ELSE Marks({})
           /\ Visit(key, e.of)
           /\ UNCHANGED spreads
        \/ /\ e.kind = "spread" /\ <<r, e.name>> \notin spreads
           /\ spreads' = spreads \cup {<<r, e.name>>}
           /\ Visit(at, Of(r).frags[e.name].of)
           /\ UNCHANGED private
        \/ /\ e.kind = "spread" /\ <<r, e.name>> \in spreads
           /\ pending' = Tail(pending)
           /\ UNCHANGED <<spreads, private>>
        \/ /\ e.kind = "inline"
           /\ Visit(at, e.of)
           /\ UNCHANGED <<spreads, private>>
  /\ UNCHANGED <<documentVars, phase, sent, resultVars>>

(***************************************************************************)
(* Loading                                                                   *)
(***************************************************************************)
\* get_json_schema: variables the operation brings are not asked for.
Inputs(d) == DOMAIN d.vars \ d.given

\* operation_defs: no subscriptions, and mutations if they are allowed.
Permitted(d, mutations) ==
  d.type # "subscription" /\ (d.type = "mutation" => mutations)

\* An operation without a name makes no tool.
Loads(d, mode) == Permitted(d, mode # "none") /\ d.named

OperationInit ==
  /\ document \in Documents
  /\ \/ via = "tool" /\ prefetch = document
     \/ via = "app" /\ prefetch \in Prefetches \cup {document} /\ document.given = {}
     \/ via = "execute" /\ prefetch = document /\ document.given = {}
  /\ phase = "loading" /\ sent = << >>
  /\ pending = <<>> /\ spreads = {} /\ private = [r \in Results |-> {}]
  /\ raw = Nothing /\ rawOther = Nothing /\ view = << >> /\ host = << >>

\* An app whose prefetch is its own operation has one document.
Collecting ==
  pending' = ToVisit("result", <<>>, document.of)
             \o (IF prefetch = document THEN <<>> ELSE ToVisit("prefetch", <<>>, prefetch.of))

\* One document of an app that makes no tool fails the app.
Load ==
  /\ phase = "loading" /\ via # "execute"
  /\ \E mode \in MutationModes :
       IF Loads(document, mode) /\ Loads(prefetch, mode)
       THEN phase' = "collecting" /\ Collecting
       ELSE phase' = "skipped" /\ UNCHANGED pending
  /\ UNCHANGED <<documentVars, spreads, private, sent, resultVars>>

\* The variables of the request: the arguments, and those the operation brings.
Variables(arguments, given) ==
  [n \in arguments \cup given |-> IF n \in given THEN "operation" ELSE "client"]

\* The execute tool reads the operation when it is called. It runs mutations in mode
\* "all" only, and passes the client's variables on.
Execute ==
  /\ phase = "loading" /\ via = "execute"
  /\ \E mode \in MutationModes, given \in SUBSET Names :
       IF Permitted(document, mode = "all")
       THEN phase' = "collecting" /\ Collecting /\ sent' = Variables(given, {})
       ELSE phase' = "failed" /\ UNCHANGED <<pending, sent>>
  /\ UNCHANGED <<documentVars, spreads, private, resultVars>>

\* All private fields are known.
Collected ==
  /\ phase = "collecting" /\ pending = <<>>
  /\ phase' = IF via = "execute" THEN "called" ELSE "ready"
  /\ UNCHANGED <<documentVars, collectVars, sent, resultVars>>

(***************************************************************************)
(* Executable::execute and execute_app_tool                                  *)
(***************************************************************************)
\* A client may not set a variable of the operation; an app hands an operation the
\* arguments it declares.
Call ==
  /\ phase = "ready"
  /\ \E given \in SUBSET Names :
       LET passed == IF via = "app" THEN given \cap Inputs(document) ELSE given
       IN IF passed \cap document.given # {}
          THEN phase' = "failed" /\ UNCHANGED sent
          ELSE phase' = "called" /\ sent' = Variables(passed, document.given)
  /\ UNCHANGED <<documentVars, collectVars, resultVars>>

\* The request fails, or its response cannot be read: an error result without content.
CallFails ==
  /\ phase = "called"
  /\ phase' = "failed"
  /\ UNCHANGED <<documentVars, collectVars, sent, resultVars>>

\* What execute returns for a response: the restricted one, and the whole one if fields
\* are private.
Restricted(tree, v) == IF HasPrivate(tree) THEN Filtered(v, tree) ELSE v

\* Content with the result of the operation, if it has one, and that of the prefetch.
Content(hasResult, result, hasPrefetch, other) ==
  [k \in {r \in Results : IF r = "result" THEN hasResult ELSE hasPrefetch} |->
     IF k = "result" THEN result ELSE other]

\* The response to the operation; an app then prefetches, unless the prefetch is the
\* operation itself.
Answer ==
  /\ phase = "called"
  /\ raw' \in Responses(document)
  /\ IF via = "app"
     THEN /\ phase' = (IF prefetch = document THEN "answered" ELSE "prefetching")
          /\ UNCHANGED <<view, host>>
     ELSE /\ view' = Content(TRUE, Restricted(private["result"], raw'), FALSE, Nothing)
          /\ host' = Content(HasPrivate(private["result"]), raw', FALSE, Nothing)
          /\ phase' = "done"
  /\ UNCHANGED <<documentVars, collectVars, sent, rawOther>>

\* A prefetch that fails leaves an error result, which has no content.
PrefetchAnswer ==
  /\ phase = "prefetching"
  /\ rawOther' \in Responses(prefetch) \cup {Nothing}
  /\ phase' = "answered"
  /\ UNCHANGED <<documentVars, collectVars, sent, raw, view, host>>

(* nest_app_tool_result: the host gets the whole of each result that has private fields. *)
HostContent(seen, seenOther) ==
  Content(seen # raw, raw, rawOther # Nothing /\ seenOther # rawOther, rawOther)

Nest ==
  LET seen      == Restricted(private["result"], raw)
      seenOther == Restricted(private["prefetch"], rawOther)
  IN /\ phase = "answered"
     /\ view' = Content(TRUE, seen, rawOther # Nothing, seenOther)
     /\ host' = HostContent(seen, seenOther)
     /\ phase' = "done"
     /\ UNCHANGED <<documentVars, collectVars, sent, raw, rawOther>>

OperationNext == \/ Load \/ Execute \/ CollectNext \/ Collected
                 \/ Call \/ CallFails \/ Answer \/ PrefetchAnswer \/ Nest
OperationSpec == OperationInit /\ [][OperationNext]_operationVars

(***************************************************************************)
(* Properties                                                                *)
(***************************************************************************)
\* No fragment is spread in two places. (Of one that is, the second place is not filtered.)
SpreadOnce(d) ==
  \A x, y \in Places(d) :
    x.e.kind = "spread" /\ y.e.kind = "spread" /\ x.e.name = y.e.name => x.at = y.at

\* Private fields are left out of structuredContent, wherever the operation (a tool's or
\* one the client brings) or the prefetch of an app selects them, and reach the host: it
\* can put every response together as it was received.
PrivateFieldsAreFiltered ==
  phase = "done" =>
    /\ \A r \in DOMAIN view : SpreadOnce(Of(r)) =>
         \A x \in Places(Of(r)) :
           x.e.kind = "field" /\ x.e.private => Spot(x) \notin DOMAIN view[r]
    /\ raw = (IF "result" \in DOMAIN host THEN host["result"] ELSE view["result"])
    /\ rawOther # Nothing =>
         rawOther = (IF "prefetch" \in DOMAIN host THEN host["prefetch"] ELSE view["prefetch"])
=============================================================================

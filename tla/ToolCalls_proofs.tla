--------------------------- MODULE ToolCalls_proofs ---------------------------
(***************************************************************************)
(* What runs in a tool call: the search of the schema index, for every     *)
(* schema and any number of matches and paths (SchemaIndex); what the      *)
(* lookups retain of a schema, for every schema, depth and number of       *)
(* results (SchemaSearch); which private fields the model gets to see, for *)
(* every document and response (OperationCalls); what the description and  *)
(* the input schema of a tool show of its operation, for every schema and  *)
(* document (ToolDescription); and the scripts, for any number of calls    *)
(* and edits and any nesting of values (CallExecution). Each has an        *)
(* invariant of its own.                                                   *)
(***************************************************************************)
EXTENDS CallExecution, SchemaSearch, ToolDescription, SequenceTheorems, FiniteSetTheorems, TLAPS

-----------------------------------------------------------------------------
(* SchemaIndex *)

\* The strings; the provers do not know that a literal is one.
Words == STRING \cup {NoField, Query, Mutation}

Nodes == [type : Words, field : Words, args : SUBSET Words]
Paths == Seq(Nodes) \ {<<>>}
Known == DOMAIN references

\* The types a path goes through, and the types that refer to type t.
Through(path) == {path[k].type : k \in 1..(Len(path) - 1)}
From(t) == {references[t][k].type : k \in DOMAIN references[t]}

\* The types at the ends of the paths still to visit.
Pending == {EndOf(stack[i]) : i \in DOMAIN stack}

WalkTypeOK ==
  /\ ValidSchema(indexed) /\ mutations \in BOOLEAN
  /\ step \in {"indexing", "ready", "climbing", "showing", "searched", "introspected"}
  /\ IF step = "indexing" THEN schema = indexed ELSE stack = <<>>
  /\ stack \in Seq(Paths)
  /\ references \in [Known -> Seq(Nodes)] /\ Known \subseteq DOMAIN indexed.kind
  /\ \A t \in Known : From(t) \subseteq Known

\* A path goes through types that are known, each once. Whatever refers to them is on
\* the way too, and the paths above in the stack go through them as well.
ThroughKnown ==
  \A i \in DOMAIN stack :
    /\ Through(stack[i]) \subseteq Known
    /\ \A k, l \in 1..(Len(stack[i]) - 1) : stack[i][k].type = stack[i][l].type => k = l
    /\ \A t \in Through(stack[i]) : From(t) \subseteq Through(stack[i])
    /\ \A j \in 1..i : Through(stack[j]) \subseteq Through(stack[i])

\* References have no cycle: in any set of types there is one that none of them refers to.
Acyclic == \A S \in SUBSET Known : S # {} => \E t \in S : From(t) \cap S = {}

\* Nothing is forgotten: what a known type leads to is known or pending.
NothingForgotten ==
  /\ Roots \subseteq Known \cup Pending
  /\ \A t \in Known : LeadsTo(t) \subseteq Known \cup Pending

\* Nothing else is known: only what has to be reached.
NothingElse ==
  \A T \in SUBSET DOMAIN indexed.kind :
    ReachesOut(T) => (Known \cup Pending) \cap DOMAIN indexed.kind \subseteq T

\* What nothing refers to is a root type.
OnlyRootsAreFree ==
  /\ \A t \in Known : references[t] = <<>> => t \in Roots
  /\ \A i \in DOMAIN stack : Len(stack[i]) = 1 => EndOf(stack[i]) \in Roots

WalkInv ==
  /\ WalkTypeOK /\ ThroughKnown /\ Acyclic
  /\ NothingForgotten /\ NothingElse /\ OnlyRootsAreFree

Heads == {Head(queue[i]).type : i \in DOMAIN queue}

\* A path of a climb goes along the references, from known type to known type, and ends
\* in the match it started from.
Climbs(p, end) ==
  /\ p \in Paths /\ EndOf(p) = end
  /\ \A k \in DOMAIN p : p[k].type \in Known
  /\ \A k \in 1..(Len(p) - 1) : p[k].type \in From(p[k + 1].type)

PathsClimb == \A i \in DOMAIN queue : Climbs(queue[i], Head(matches))

ClimbTypeOK ==
  /\ queue \in Seq(Paths) /\ matches \in Seq(Known)
  /\ visited \subseteq Known /\ count \in Nat
  /\ IF step = "climbing" THEN matches # <<>> ELSE queue = <<>>

\* A root path of the best match.
WayFound == \E p \in found : Head(p).type \in Roots /\ EndOf(p) = asked.type

\* While no way to the best match is found, whatever refers to a visited type is visited
\* or in the queue, and something does.
StillClimbing ==
  /\ asked.type = Head(matches) /\ asked.type \in visited \cup Heads /\ count = 0
  /\ \A t \in visited : references[t] # <<>> /\ From(t) \subseteq visited \cup Heads

ClimbInv ==
  /\ WalkInv /\ ClimbTypeOK /\ PathsClimb
  /\ step = "climbing" => WayFound \/ StillClimbing
  /\ step \in {"showing", "searched"} => WayFound

-----------------------------------------------------------------------------
\* What Last and Front are.
LEMMA LastAndFront ==
  ASSUME NEW S, NEW s \in Seq(S), s # <<>>
  PROVE  /\ Len(s) \in Nat \ {0} /\ DOMAIN s = 1..Len(s)
         /\ Last(s) = s[Len(s)] /\ Last(s) \in S
         /\ Front(s) \in Seq(S) /\ Len(Front(s)) = Len(s) - 1
         /\ \A k \in 1..(Len(s) - 1) : Front(s)[k] = s[k]
<1>1. Len(s) \in Nat \ {0} /\ DOMAIN s = 1..Len(s)
  BY EmptySeq, LenProperties
<1>2. Last(s) = s[Len(s)] /\ Len(s) \in 1..Len(s)
  BY <1>1 DEF Last
<1>3. \A k \in 1..(Len(s) - 1) : s[k] \in S
  BY <1>1
<1>4. Front(s) = SubSeq(s, 1, Len(s) - 1)
  BY DEF Front
<1>5. /\ SubSeq(s, 1, Len(s) - 1) \in Seq(S)
      /\ Len(SubSeq(s, 1, Len(s) - 1)) = IF 1 <= Len(s) - 1 THEN (Len(s) - 1) - 1 + 1 ELSE 0
      /\ \A k \in 1..((Len(s) - 1) - 1 + 1) : SubSeq(s, 1, Len(s) - 1)[k] = s[1 + k - 1]
  BY <1>1, <1>3, SubSeqProperties
<1>6. Len(Front(s)) = Len(s) - 1
  BY <1>1, <1>4, <1>5
<1>7. \A k \in 1..(Len(s) - 1) : Front(s)[k] = s[k]
  BY <1>1, <1>4, <1>5
<1> QED BY <1>1, <1>2, <1>4, <1>5, <1>6, <1>7

\* Two sequences, one after the other.
LEMMA Joined ==
  ASSUME NEW S, NEW a \in Seq(S), NEW b \in Seq(S)
  PROVE  /\ a \o b \in Seq(S) /\ Len(a \o b) = Len(a) + Len(b)
         /\ Len(a) \in Nat /\ Len(b) \in Nat /\ DOMAIN (a \o b) = 1..(Len(a) + Len(b))
         /\ \A i \in 1..Len(a) : (a \o b)[i] = a[i]
         /\ \A i \in 1..Len(b) : (a \o b)[Len(a) + i] = b[i]
         /\ \A i \in DOMAIN (a \o b) :
              \/ i \in 1..Len(a) /\ (a \o b)[i] = a[i]
              \/ i - Len(a) \in 1..Len(b) /\ (a \o b)[i] = b[i - Len(a)]
<1>1. Len(a) \in Nat /\ Len(b) \in Nat /\ a \o b \in Seq(S) /\ Len(a \o b) = Len(a) + Len(b)
  BY ConcatProperties
<1>2. DOMAIN (a \o b) = 1..(Len(a) + Len(b))
  BY <1>1, LenProperties
<1>3. \A i \in 1..(Len(a) + Len(b)) : (a \o b)[i] = IF i <= Len(a) THEN a[i] ELSE b[i - Len(a)]
  BY <1>1, ConcatProperties
<1>4. \A i \in 1..Len(b) : Len(a) + i \in 1..(Len(a) + Len(b)) /\ ~(Len(a) + i <= Len(a))
                           /\ (Len(a) + i) - Len(a) = i
  BY <1>1
<1>5. \A i \in 1..Len(b) : (a \o b)[Len(a) + i] = b[i]
  BY <1>3, <1>4
<1>6. \A i \in 1..Len(a) : (a \o b)[i] = a[i]
  BY <1>1, <1>3
<1>7. ASSUME NEW i \in DOMAIN (a \o b)
      PROVE  \/ i \in 1..Len(a) /\ (a \o b)[i] = a[i]
             \/ i - Len(a) \in 1..Len(b) /\ (a \o b)[i] = b[i - Len(a)]
  <2>1. i \in 1..(Len(a) + Len(b))
    BY <1>2
  <2>2. CASE i <= Len(a)
    BY <1>1, <1>6, <2>1, <2>2
  <2>3. CASE ~(i <= Len(a))
    BY <1>1, <1>3, <2>1, <2>3
  <2> QED BY <2>2, <2>3
<1> QED BY <1>1, <1>2, <1>5, <1>6, <1>7

\* Nodes and what they are made of.
LEMMA NodesMade ==
  /\ \A n \in Nodes : n.type \in Words
  /\ \A t, f \in Words, args \in SUBSET Words :
       Node(t, f, args) \in Nodes /\ Node(t, f, args).type = t
  /\ \A t \in Words : End(t) \in Nodes /\ End(t).type = t
<1>1. \A n \in Nodes : n.type \in Words
  BY DEF Nodes
<1>2. ASSUME NEW t \in Words, NEW f \in Words, NEW args \in SUBSET Words
      PROVE  Node(t, f, args) \in Nodes /\ Node(t, f, args).type = t
  BY DEF Nodes, Node
<1>3. NoField \in Words /\ {} \in SUBSET Words
  BY DEF Words
<1> QED BY <1>1, <1>2, <1>3 DEF End

\* A path has an end.
LEMMA EndOfPath ==
  ASSUME NEW path \in Paths
  PROVE  /\ Len(path) \in Nat \ {0} /\ path \in Seq(Nodes) /\ DOMAIN path = 1..Len(path)
         /\ EndOf(path) = path[Len(path)].type /\ EndOf(path) \in Words
         /\ \A k \in 1..Len(path) : path[k] \in Nodes
<1>1. path \in Seq(Nodes) /\ path # <<>>
  BY DEF Paths
<1>2. Last(path) \in Nodes /\ Last(path) = path[Len(path)]
  BY <1>1, LastAndFront
<1>3. Len(path) \in Nat \ {0} /\ DOMAIN path = 1..Len(path)
  BY <1>1, LastAndFront
<1>4. \A k \in 1..Len(path) : path[k] \in Nodes
  BY <1>1
<1> QED BY <1>1, <1>2, <1>3, <1>4, NodesMade DEF EndOf

\* add_child leads from the end of a path to the child.
LEMMA OneFurther ==
  ASSUME NEW path \in Paths, NEW f \in Words, NEW args \in SUBSET Words, NEW u \in Words
  PROVE  LET child == Extend(path, f, args, u) IN
         /\ child \in Paths /\ Len(child) = Len(path) + 1 /\ EndOf(child) = u
         /\ \A k \in 1..Len(path) : child[k].type = path[k].type
<1> DEFINE node == Node(EndOf(path), f, args)
           last == End(u)
           most == Append(Front(path), node)
           child == Append(most, last)
<1>1. Len(path) \in Nat \ {0} /\ EndOf(path) = path[Len(path)].type
  BY EndOfPath
<1>2. node \in Nodes /\ node.type = EndOf(path) /\ last \in Nodes /\ last.type = u
  BY EndOfPath, NodesMade
<1>c. child = Extend(path, f, args, u)
  BY DEF Extend
<1>3. /\ Front(path) \in Seq(Nodes) /\ Len(Front(path)) = Len(path) - 1
      /\ \A k \in 1..(Len(path) - 1) : Front(path)[k] = path[k]
  BY LastAndFront DEF Paths
<1> HIDE DEF node, last
<1>4. /\ most \in Seq(Nodes) /\ Len(most) = Len(path)
      /\ most[Len(path)] = node
      /\ \A k \in 1..(Len(path) - 1) : most[k] = path[k]
  <2>1. /\ most \in Seq(Nodes) /\ Len(most) = (Len(path) - 1) + 1
        /\ most[(Len(path) - 1) + 1] = node
        /\ \A k \in 1..(Len(path) - 1) : most[k] = Front(path)[k]
    BY <1>2, <1>3, AppendProperties
  <2> QED BY <1>1, <1>3, <2>1
<1> HIDE DEF most
<1>5. /\ child \in Seq(Nodes) /\ Len(child) = Len(path) + 1 /\ child # <<>>
      /\ child[Len(path) + 1] = last
      /\ \A k \in 1..Len(path) : child[k] = most[k]
  BY <1>2, <1>4, AppendProperties
<1> HIDE DEF child
<1>6. ASSUME NEW k \in 1..Len(path) PROVE child[k].type = path[k].type
  <2>1. CASE k = Len(path)
    BY <1>1, <1>2, <1>4, <1>5, <2>1
  <2>2. CASE k # Len(path)
    BY <1>1, <1>4, <1>5, <2>2
  <2> QED BY <2>1, <2>2
<1>7. child \in Paths
  BY <1>5 DEF Paths
<1>8. EndOf(child) = u
  BY <1>2, <1>5, <1>7, EndOfPath
<1> QED BY <1>c, <1>5, <1>6, <1>7, <1>8

\* The children of a path: each goes one type further, and together they lead to all that
\* the last type leads to.
LEMMA OneStepOn ==
  ASSUME ValidSchema(schema), schema = indexed,
         NEW path \in Paths, EndOf(path) \in DOMAIN schema.kind
  PROVE  /\ Children(path) \in Seq(Paths)
         /\ \A i \in DOMAIN Children(path) :
              /\ Len(Children(path)[i]) = Len(path) + 1
              /\ \A k \in 1..Len(path) : Children(path)[i][k].type = path[k].type
              /\ EndOf(Children(path)[i]) \in DOMAIN indexed.kind
                   => EndOf(Children(path)[i]) \in LeadsTo(EndOf(path))
         /\ \A u \in LeadsTo(EndOf(path)) :
              \E i \in DOMAIN Children(path) : EndOf(Children(path)[i]) = u
<1> DEFINE t == EndOf(path)
           fields == IF schema.kind[t] \in {"object", "interface"} THEN schema.fields[t] ELSE <<>>
           members == schema.members[t]
           child(i) == Extend(path, fields[i].name, fields[i].args, fields[i].type)
           member(i) == Extend(path, NoField, {}, members[i])
           a == [i \in DOMAIN fields |-> child(i)]
           b == [i \in DOMAIN members |-> member(i)]
<1>1. Children(path) = a \o b
  BY DEF Children
<1>2. fields \in Seq(Fields) /\ members \in Seq(DOMAIN schema.kind) /\ DOMAIN schema.kind \subseteq Words
  <2>1. schema.fields[t] \in Seq(Fields) /\ members \in Seq(DOMAIN schema.kind)
    BY DEF ValidSchema
  <2>2. <<>> \in Seq(Fields)
    BY EmptySeq
  <2> QED BY <2>1, <2>2 DEF ValidSchema, Words
<1>f. /\ Len(fields) \in Nat /\ DOMAIN fields = 1..Len(fields)
      /\ Len(members) \in Nat /\ DOMAIN members = 1..Len(members)
  BY <1>2, LenProperties
<1>3. ASSUME NEW i \in DOMAIN fields
      PROVE  /\ fields[i].name \in Words /\ fields[i].args \in SUBSET Words
             /\ fields[i].type \in Words
  <2>1. fields[i] \in Fields
    BY <1>2, <1>f
  <2> HIDE DEF fields
  <2> QED BY <2>1 DEF Fields, Words
<1>4. ASSUME NEW i \in DOMAIN members
      PROVE  members[i] \in DOMAIN schema.kind /\ members[i] \in Words
  <2>1. members[i] \in DOMAIN schema.kind
    BY <1>2, <1>f
  <2> QED BY <1>2, <2>1
<1>5. \A i \in DOMAIN fields :
        /\ child(i) \in Paths /\ Len(child(i)) = Len(path) + 1 /\ EndOf(child(i)) = fields[i].type
        /\ \A k \in 1..Len(path) : child(i)[k].type = path[k].type
  BY <1>3, OneFurther
<1>n. NoField \in Words /\ {} \in SUBSET Words
  BY DEF Words
<1>6. \A i \in DOMAIN members :
        /\ member(i) \in Paths /\ Len(member(i)) = Len(path) + 1 /\ EndOf(member(i)) = members[i]
        /\ \A k \in 1..Len(path) : member(i)[k].type = path[k].type
  BY <1>4, <1>n, OneFurther
<1> HIDE DEF child, member
<1>7. /\ a \in Seq(Paths) /\ Len(a) = Len(fields) /\ \A i \in 1..Len(fields) : a[i] = child(i)
      /\ b \in Seq(Paths) /\ Len(b) = Len(members) /\ \A i \in 1..Len(members) : b[i] = member(i)
  <2> HIDE DEF fields, members
  <2>1. a \in Seq(Paths) /\ Len(a) = Len(fields)
    BY <1>5, <1>f
  <2>2. b \in Seq(Paths) /\ Len(b) = Len(members)
    BY <1>6, <1>f
  <2> QED BY <1>f, <2>1, <2>2
<1> HIDE DEF a, b
<1>j. a \in Seq(Paths) /\ b \in Seq(Paths)
  BY <1>7
<1>8. /\ a \o b \in Seq(Paths) /\ DOMAIN (a \o b) = 1..(Len(a) + Len(b))
      /\ \A i \in 1..Len(a) : (a \o b)[i] = a[i]
      /\ \A i \in 1..Len(b) : (a \o b)[Len(a) + i] = b[i]
      /\ \A i \in DOMAIN (a \o b) :
           \/ i \in 1..Len(a) /\ (a \o b)[i] = a[i]
           \/ i - Len(a) \in 1..Len(b) /\ (a \o b)[i] = b[i - Len(a)]
  <2> HIDE DEF Paths
  <2>1. a \o b \in Seq(Paths) /\ DOMAIN (a \o b) = 1..(Len(a) + Len(b))
    BY <1>j, Joined
  <2>2. \A i \in 1..Len(a) : (a \o b)[i] = a[i]
    BY <1>j, Joined
  <2>3. \A i \in 1..Len(b) : (a \o b)[Len(a) + i] = b[i]
    BY <1>j, Joined
  <2>4. \A i \in DOMAIN (a \o b) :
           \/ i \in 1..Len(a) /\ (a \o b)[i] = a[i]
           \/ i - Len(a) \in 1..Len(b) /\ (a \o b)[i] = b[i - Len(a)]
    BY <1>j, Joined
  <2> QED BY <2>1, <2>2, <2>3, <2>4
<1>9. \A i \in DOMAIN fields : fields[i].type \in DOMAIN indexed.kind => fields[i].type \in LeadsTo(t)
  <2> SUFFICES ASSUME NEW i \in DOMAIN fields, fields[i].type \in DOMAIN indexed.kind
               PROVE  fields[i].type \in LeadsTo(t)
    OBVIOUS
  <2>1. CASE schema.kind[t] \in {"object", "interface"}
    <3>1. fields[i] \in ToSet(indexed.fields[t])
      BY <2>1 DEF ToSet
    <3> QED BY <2>1, <3>1 DEF LeadsTo
  <2>2. CASE schema.kind[t] \notin {"object", "interface"}
    <3>1. DOMAIN fields = {}
      BY <1>f, <2>2, EmptySeq
    <3> QED BY <3>1
  <2> QED BY <2>1, <2>2
<1>10. \A i \in DOMAIN members : members[i] \in LeadsTo(t)
  BY <1>4 DEF LeadsTo, ToSet
<1>11. ASSUME NEW u \in LeadsTo(t)
       PROVE  \/ \E i \in DOMAIN fields : fields[i].type = u
              \/ \E i \in DOMAIN members : members[i] = u
  BY DEF LeadsTo, ToSet
<1>12. ASSUME NEW i \in DOMAIN (a \o b)
       PROVE  /\ Len((a \o b)[i]) = Len(path) + 1
              /\ \A k \in 1..Len(path) : (a \o b)[i][k].type = path[k].type
              /\ EndOf((a \o b)[i]) \in DOMAIN indexed.kind => EndOf((a \o b)[i]) \in LeadsTo(t)
  <2>1. CASE i \in 1..Len(a) /\ (a \o b)[i] = a[i]
    <3>1. i \in DOMAIN fields /\ (a \o b)[i] = child(i)
      BY <1>f, <1>7, <2>1
    <3> HIDE DEF fields, t
    <3> QED BY <1>5, <1>9, <3>1
  <2>2. CASE i - Len(a) \in 1..Len(b) /\ (a \o b)[i] = b[i - Len(a)]
    <3>1. i - Len(a) \in DOMAIN members /\ (a \o b)[i] = member(i - Len(a))
      BY <1>f, <1>7, <2>2
    <3> HIDE DEF members, t
    <3> QED BY <1>6, <1>10, <3>1
  <2> QED BY <1>8, <2>1, <2>2
<1>13. ASSUME NEW u \in LeadsTo(t)
       PROVE  \E i \in DOMAIN (a \o b) : EndOf((a \o b)[i]) = u
  <2>1. CASE \E i \in DOMAIN fields : fields[i].type = u
    <3>1. PICK i \in DOMAIN fields : fields[i].type = u
      BY <2>1
    <3>2. i \in 1..Len(a) /\ i \in DOMAIN (a \o b)
      <4> HIDE DEF fields, members
      <4> QED BY <1>f, <1>7, <1>8
    <3>3. (a \o b)[i] = a[i] /\ a[i] = child(i)
      BY <1>f, <1>7, <1>8, <3>2
    <3>4. EndOf((a \o b)[i]) = u
      BY <1>5, <3>1, <3>3
    <3> QED BY <3>2, <3>4
  <2>2. CASE \E i \in DOMAIN members : members[i] = u
    <3>1. PICK i \in DOMAIN members : members[i] = u
      BY <2>2
    <3>2. i \in 1..Len(b) /\ Len(a) + i \in DOMAIN (a \o b)
      <4> HIDE DEF fields, members
      <4> QED BY <1>f, <1>7, <1>8
    <3>3. (a \o b)[Len(a) + i] = b[i] /\ b[i] = member(i)
      BY <1>f, <1>7, <1>8, <3>2
    <3>4. EndOf((a \o b)[Len(a) + i]) = u
      BY <1>6, <3>1, <3>3
    <3> QED BY <3>2, <3>4
  <2> QED BY <1>11, <2>1, <2>2
<1> HIDE DEF fields, members, Paths
<1>14. Children(path) \in Seq(Paths)
  BY <1>1, <1>8
<1>15. \A u \in LeadsTo(EndOf(path)) :
         \E i \in DOMAIN Children(path) : EndOf(Children(path)[i]) = u
  BY <1>1, <1>13
<1>16. \A i \in DOMAIN Children(path) :
         /\ Len(Children(path)[i]) = Len(path) + 1
         /\ \A k \in 1..Len(path) : Children(path)[i][k].type = path[k].type
         /\ EndOf(Children(path)[i]) \in DOMAIN indexed.kind
              => EndOf(Children(path)[i]) \in LeadsTo(EndOf(path))
  BY <1>1, <1>12
<1> QED BY <1>14, <1>15, <1>16

-----------------------------------------------------------------------------
(* The walk. *)

\* The path on top of the stack, and the paths below.
LEMMA TopOfStack ==
  ASSUME stack \in Seq(Paths), stack # <<>>
  PROVE  /\ Len(stack) \in Nat \ {0} /\ DOMAIN stack = 1..Len(stack)
         /\ \A i \in DOMAIN stack : stack[i] \in Paths
         /\ Last(stack) = stack[Len(stack)] /\ Last(stack) \in Paths
         /\ Front(stack) \in Seq(Paths) /\ Len(Front(stack)) = Len(stack) - 1
         /\ DOMAIN Front(stack) = 1..(Len(stack) - 1)
         /\ \A i \in 1..(Len(stack) - 1) : Front(stack)[i] = stack[i]
<1>1. Len(stack) \in Nat \ {0} /\ DOMAIN stack = 1..Len(stack)
  BY LastAndFront
<1>2. /\ Last(stack) = stack[Len(stack)] /\ Last(stack) \in Paths
      /\ Front(stack) \in Seq(Paths) /\ Len(Front(stack)) = Len(stack) - 1
      /\ \A i \in 1..(Len(stack) - 1) : Front(stack)[i] = stack[i]
  BY LastAndFront
<1>3. DOMAIN Front(stack) = 1..(Len(stack) - 1)
  BY <1>2, LenProperties
<1>4. \A i \in DOMAIN stack : stack[i] \in Paths
  BY <1>1, ElementOfSeq
<1> QED BY <1>1, <1>2, <1>3, <1>4

\* A path that comes back ends in a type that is known.
LEMMA SkippedIsKnown ==
  ASSUME WalkTypeOK, ThroughKnown, stack # <<>>, Skipped(Last(stack)), schema = indexed
  PROVE  EndOf(Last(stack)) \in Known \/ EndOf(Last(stack)) \notin DOMAIN indexed.kind
<1> DEFINE path == Last(stack)
           n == Len(stack)
<1>1. stack \in Seq(Paths)
  BY DEF WalkTypeOK
<1>2. n \in DOMAIN stack /\ path = stack[n] /\ path \in Paths
  BY <1>1, TopOfStack
<1>3. /\ Through(path) \subseteq Known
      /\ \A k, l \in 1..(Len(path) - 1) : path[k].type = path[l].type => k = l
  BY <1>2 DEF ThroughKnown
<1> HIDE DEF path, n
<1>4. Len(path) \in Nat \ {0} /\ DOMAIN path = 1..Len(path) /\ EndOf(path) = path[Len(path)].type
  BY <1>2, EndOfPath
<1>5. CASE Repeats(path)
  <2>1. PICK i, j \in DOMAIN path : i # j /\ path[i].type = path[j].type
    BY <1>5 DEF Repeats
  <2>2. i \in 1..(Len(path) - 1) \/ j \in 1..(Len(path) - 1)
    BY <1>4, <2>1
  <2>3. i = Len(path) \/ j = Len(path)
    BY <1>3, <1>4, <2>1
  <2>4. EndOf(path) \in Through(path)
    BY <1>4, <2>1, <2>2, <2>3 DEF Through
  <2> QED BY <1>3, <2>4 DEF path
<1>6. CASE EndOf(path) \notin DOMAIN schema.kind
  BY <1>6 DEF path
<1> QED BY <1>5, <1>6 DEF Skipped, path

\* A path that is visited adds a reference from the type before its last one, and its
\* children if that type is new.
LEMMA VisitedPath ==
  ASSUME WalkTypeOK, ThroughKnown, Visit, NEW path, NEW t,
         path = Last(stack), t = EndOf(path), ~Skipped(path)
  PROVE  /\ t \in DOMAIN indexed.kind /\ t \notin Through(path) /\ path \in Paths
         /\ Known' = Known \cup {t}
         /\ \A u \in Known \ {t} : references'[u] = references[u]
         /\ references'[t] = Referred(t) \o (IF Len(path) > 1 THEN <<path[Len(path) - 1]>> ELSE <<>>)
         /\ references' = [u \in Known' |-> references'[u]]
         /\ stack' = Front(stack) \o (IF t \in Known THEN <<>> ELSE Children(path))
<1>1. stack \in Seq(Paths) /\ stack # <<>>
  BY DEF WalkTypeOK, Visit
<1>2. path \in Paths /\ schema = indexed
  BY <1>1, TopOfStack DEF WalkTypeOK, Visit
<1>3. /\ Len(path) \in Nat \ {0} /\ DOMAIN path = 1..Len(path) /\ EndOf(path) = path[Len(path)].type
  BY <1>2, EndOfPath
<1>4. t \in DOMAIN indexed.kind /\ ~Repeats(path)
  BY <1>2 DEF Skipped
<1>5. t \notin Through(path)
  <2> SUFFICES ASSUME t \in Through(path) PROVE FALSE
    OBVIOUS
  <2>1. PICK k \in 1..(Len(path) - 1) : path[k].type = t
    BY DEF Through
  <2>n. Len(path) \in Nat /\ Len(path) > 0
    BY <1>3
  <2>k. k \in 1..Len(path) /\ Len(path) \in 1..Len(path) /\ k # Len(path)
    BY <2>n
  <2>2. k \in DOMAIN path /\ Len(path) \in DOMAIN path /\ k # Len(path)
    BY <1>3, <2>k
  <2> QED BY <1>3, <1>4, <2>1, <2>2 DEF Repeats
<1>6. /\ stack' = Front(stack) \o (IF t \in Known THEN <<>> ELSE Children(path))
      /\ references' = [u \in Known \cup {t} |->
           IF u = t THEN Referred(t) \o (IF Len(path) > 1 THEN <<path[Len(path) - 1]>> ELSE <<>>)
           ELSE references[u]]
  BY DEF Visit, Known
<1> QED BY <1>2, <1>4, <1>5, <1>6 DEF Known

\* c is a path to a child of the type t at the end of the path.
Child(c, path, t) ==
  /\ c \in Paths /\ Len(c) = Len(path) + 1
  /\ \A k \in 1..Len(path) : c[k].type = path[k].type
  /\ EndOf(c) \in DOMAIN indexed.kind => EndOf(c) \in LeadsTo(t)

\* The stack after a path that is visited: the paths below, then those to the children.
LEMMA StackAfter ==
  ASSUME WalkTypeOK, ThroughKnown, Visit, NEW path, NEW t,
         path = Last(stack), t = EndOf(path), ~Skipped(path)
  PROVE  /\ stack' \in Seq(Paths)
         /\ \A i \in DOMAIN stack' :
              \/ i \in 1..(Len(stack) - 1) /\ stack'[i] = stack[i]
              \/ i \in Nat /\ i >= Len(stack) /\ t \notin Known /\ Child(stack'[i], path, t)
         /\ \A i \in 1..(Len(stack) - 1) : i \in DOMAIN stack' /\ stack'[i] = stack[i]
         /\ t \notin Known => \A u \in LeadsTo(t) : \E i \in DOMAIN stack' : EndOf(stack'[i]) = u
<1> DEFINE rest == Front(stack)
           new == IF t \in Known THEN <<>> ELSE Children(path)
<1>1. stack \in Seq(Paths) /\ stack # <<>> /\ schema = indexed /\ ValidSchema(schema)
  BY DEF WalkTypeOK, Visit
<1>2. t \in DOMAIN indexed.kind /\ path \in Paths /\ stack' = rest \o new
  BY VisitedPath
<1>3. /\ Len(stack) \in Nat \ {0} /\ rest \in Seq(Paths) /\ Len(rest) = Len(stack) - 1
      /\ \A i \in 1..(Len(stack) - 1) : rest[i] = stack[i]
  BY <1>1, TopOfStack
<1>4. /\ Children(path) \in Seq(Paths)
      /\ \A i \in DOMAIN Children(path) :
           /\ Len(Children(path)[i]) = Len(path) + 1
           /\ \A k \in 1..Len(path) : Children(path)[i][k].type = path[k].type
           /\ EndOf(Children(path)[i]) \in DOMAIN indexed.kind
                => EndOf(Children(path)[i]) \in LeadsTo(t)
      /\ \A u \in LeadsTo(t) : \E i \in DOMAIN Children(path) : EndOf(Children(path)[i]) = u
  BY <1>1, <1>2, OneStepOn
<1>5. \A i \in DOMAIN Children(path) : Child(Children(path)[i], path, t)
  <2>1. \A i \in DOMAIN Children(path) : Children(path)[i] \in Paths
    BY <1>4, LenProperties, ElementOfSeq
  <2> QED BY <1>4, <2>1 DEF Child
<1>6. /\ new \in Seq(Paths)
      /\ \A i \in DOMAIN new : t \notin Known /\ Child(new[i], path, t)
      /\ t \notin Known => \A u \in LeadsTo(t) : \E i \in DOMAIN new : EndOf(new[i]) = u
  <2>1. CASE t \in Known
    <3>1. new = <<>> /\ <<>> \in Seq(Paths) /\ DOMAIN new = {}
      BY <2>1, EmptySeq, LenProperties
    <3> QED BY <2>1, <3>1
  <2>2. CASE t \notin Known
    BY <1>4, <1>5, <2>2
  <2> QED BY <2>1, <2>2
<1> HIDE DEF rest, new, Paths, Child
<1>7. /\ rest \o new \in Seq(Paths) /\ DOMAIN (rest \o new) = 1..(Len(rest) + Len(new))
      /\ Len(rest) \in Nat /\ Len(new) \in Nat
  BY <1>3, <1>6, Joined
<1>8. \A i \in 1..Len(rest) : (rest \o new)[i] = rest[i]
  BY <1>3, <1>6, Joined
<1>9. \A i \in 1..Len(new) : (rest \o new)[Len(rest) + i] = new[i]
  BY <1>3, <1>6, Joined
<1>10. \A i \in DOMAIN (rest \o new) :
         \/ i \in 1..Len(rest) /\ (rest \o new)[i] = rest[i]
         \/ i - Len(rest) \in 1..Len(new) /\ (rest \o new)[i] = new[i - Len(rest)]
  BY <1>3, <1>6, Joined
<1>11. DOMAIN new = 1..Len(new)
  BY <1>6, LenProperties
<1>12. ASSUME NEW i \in DOMAIN stack'
       PROVE  \/ i \in 1..(Len(stack) - 1) /\ stack'[i] = stack[i]
              \/ i \in Nat /\ i >= Len(stack) /\ t \notin Known /\ Child(stack'[i], path, t)
  <2>1. i \in 1..(Len(rest) + Len(new)) /\ i \in DOMAIN (rest \o new)
    BY <1>2, <1>7
  <2>2. CASE i \in 1..Len(rest) /\ (rest \o new)[i] = rest[i]
    BY <1>2, <1>3, <2>2
  <2>3. CASE i - Len(rest) \in 1..Len(new) /\ (rest \o new)[i] = new[i - Len(rest)]
    <3>1. t \notin Known /\ Child(stack'[i], path, t)
      BY <1>2, <1>6, <1>11, <2>3
    <3>2. i \in Nat /\ i >= Len(stack)
      BY <1>3, <1>7, <2>1, <2>3
    <3> QED BY <3>1, <3>2
  <2> QED BY <1>10, <2>1, <2>2, <2>3
<1>13. ASSUME NEW i \in 1..(Len(stack) - 1)
       PROVE  i \in DOMAIN stack' /\ stack'[i] = stack[i]
  <2>1. i \in 1..Len(rest) /\ i \in 1..(Len(rest) + Len(new))
    BY <1>3, <1>7
  <2> QED BY <1>2, <1>3, <1>7, <1>8, <2>1
<1>14. ASSUME t \notin Known, NEW u \in LeadsTo(t)
       PROVE  \E i \in DOMAIN stack' : EndOf(stack'[i]) = u
  <2>1. PICK i \in DOMAIN new : EndOf(new[i]) = u
    BY <1>6, <1>14
  <2>2. i \in 1..Len(new) /\ Len(rest) + i \in 1..(Len(rest) + Len(new))
    BY <1>7, <1>11
  <2>3. Len(rest) + i \in DOMAIN stack' /\ stack'[Len(rest) + i] = new[i]
    BY <1>2, <1>7, <1>9, <2>2
  <2> QED BY <2>1, <2>3
<1> QED BY <1>2, <1>7, <1>12, <1>13, <1>14

\* Who refers to what after a path that is visited.
LEMMA ReferencesAfter ==
  ASSUME WalkTypeOK, ThroughKnown, Visit, NEW path, NEW t,
         path = Last(stack), t = EndOf(path), ~Skipped(path)
  PROVE  /\ references'[t] \in Seq(Nodes) /\ (references'[t] = <<>> => Len(path) = 1)
         /\ From(t)' \subseteq (IF t \in Known THEN From(t) ELSE {}) \cup Through(path)
         /\ \A u \in Known \ {t} : From(u)' = From(u)
<1> DEFINE old == Referred(t)
           from == IF Len(path) > 1 THEN <<path[Len(path) - 1]>> ELSE <<>>
<1>1. path \in Paths /\ references'[t] = old \o from
      /\ \A u \in Known \ {t} : references'[u] = references[u]
  BY VisitedPath
<1>2. Len(path) \in Nat \ {0} /\ \A k \in 1..Len(path) : path[k] \in Nodes
  BY <1>1, EndOfPath
<1>3. old \in Seq(Nodes)
  BY EmptySeq DEF Referred, Known, WalkTypeOK
<1>4. /\ from \in Seq(Nodes) /\ DOMAIN from = 1..Len(from)
      /\ \A k \in DOMAIN from : from[k].type \in Through(path)
      /\ from = <<>> => Len(path) = 1
  <2>1. CASE Len(path) > 1
    <3>1. Len(path) - 1 \in 1..Len(path) /\ Len(path) - 1 \in 1..(Len(path) - 1)
      BY <1>2, <2>1
    <3> DEFINE node == path[Len(path) - 1]
    <3>2. node \in Nodes /\ node.type \in Through(path) /\ from = <<node>>
      BY <1>2, <2>1, <3>1 DEF Through
    <3> HIDE DEF node, from
    <3>3. <<node>> \in Seq(Nodes) /\ DOMAIN <<node>> = {1} /\ <<node>>[1] = node /\ Len(<<node>>) = 1
      BY <3>2
    <3>4. <<node>> # <<>> /\ 1..1 = {1}
      OBVIOUS
    <3> QED BY <3>2, <3>3, <3>4
  <2>2. CASE ~(Len(path) > 1)
    <3>1. from = <<>> /\ Len(path) = 1
      BY <1>2, <2>2
    <3>2. <<>> \in Seq(Nodes) /\ DOMAIN <<>> = {} /\ Len(<<>>) = 0 /\ 1..0 = {}
      BY EmptySeq
    <3> QED BY <3>1, <3>2
  <2> QED BY <2>1, <2>2
<1> HIDE DEF old, from
<1>5. /\ old \o from \in Seq(Nodes)
      /\ \A i \in DOMAIN (old \o from) :
           \/ i \in 1..Len(old) /\ (old \o from)[i] = old[i]
           \/ i - Len(old) \in 1..Len(from) /\ (old \o from)[i] = from[i - Len(old)]
  BY <1>3, <1>4, Joined
<1>6. old \o from = <<>> => from = <<>>
  BY <1>3, <1>4, ConcatEqualIffEmpty, Joined, EmptySeq
<1>7. ASSUME NEW i \in DOMAIN (old \o from)
      PROVE  \/ t \in Known /\ (old \o from)[i].type \in From(t)
             \/ (old \o from)[i].type \in Through(path)
  <2>1. CASE i \in 1..Len(old) /\ (old \o from)[i] = old[i]
    <3>1. t \in Known /\ old = references[t]
      <4>1. CASE t \in Known
        BY <4>1 DEF old, Referred, Known
      <4>2. CASE t \notin Known
        <5>1. Len(old) = 0
          BY <4>2, EmptySeq DEF old, Referred, Known
        <5> QED BY <2>1, <5>1
      <4> QED BY <4>1, <4>2
    <3>2. i \in DOMAIN references[t]
      BY <1>3, <2>1, <3>1, LenProperties
    <3> QED BY <2>1, <3>1, <3>2 DEF From
  <2>2. CASE i - Len(old) \in 1..Len(from) /\ (old \o from)[i] = from[i - Len(old)]
    BY <1>4, <2>2
  <2> QED BY <1>5, <2>1, <2>2
<1>8. From(t)' \subseteq (IF t \in Known THEN From(t) ELSE {}) \cup Through(path)
  BY <1>1, <1>7 DEF From
<1>9. \A u \in Known \ {t} : From(u)' = From(u)
  BY <1>1 DEF From
<1> QED BY <1>1, <1>4, <1>5, <1>6, <1>8, <1>9

\* What has to be reached does not depend on the walk.
LEMMA GoalStays ==
  ASSUME UNCHANGED <<mutations, indexed>>
  PROVE  /\ Roots' = Roots /\ \A t : LeadsTo(t)' = LeadsTo(t)
         /\ \A T : ReachesOut(T)' = ReachesOut(T)
BY DEF Roots, LeadsTo, ReachesOut

\* The invariant speaks of the walk and of what has to be reached.
LEMMA WalkStays ==
  ASSUME WalkInv, UNCHANGED <<mutations, walkVars>>,
         step' \in {"ready", "climbing", "showing", "searched", "introspected"},
         stack = <<>>
  PROVE  WalkInv'
<1>1. WalkTypeOK'
  BY DEF WalkInv, WalkTypeOK, Known, From, walkVars, ValidSchema
<1>2. ThroughKnown' /\ Acyclic'
  <2>1. Known' = Known /\ (\A u : From(u)' = From(u)) /\ stack' = stack
    BY DEF Known, From, walkVars
  <2>2. DOMAIN stack = {}
    BY EmptySeq
  <2>3. ThroughKnown'
    BY <2>1, <2>2 DEF ThroughKnown
  <2> QED BY <2>1, <2>3 DEF WalkInv, Acyclic
<1>3. NothingForgotten' /\ NothingElse' /\ OnlyRootsAreFree'
  BY GoalStays DEF WalkInv, NothingForgotten, NothingElse, OnlyRootsAreFree, Known, Pending, EndOf, walkVars
<1> QED BY <1>1, <1>2, <1>3 DEF WalkInv

\* Leaving out a path that comes back keeps the invariant of the walk.
LEMMA SkipStep ==
  ASSUME WalkInv, Visit, Skipped(Last(stack))
  PROVE  WalkInv'
<1> DEFINE path == Last(stack)
           t == EndOf(path)
<1>1. stack \in Seq(Paths) /\ stack # <<>> /\ schema = indexed
  BY DEF WalkInv, WalkTypeOK, Visit
<1>2. /\ stack' = Front(stack)
      /\ UNCHANGED <<schema, mutations, indexed, step, climbVars, asked, references>>
  BY DEF Visit
<1>3. /\ Len(stack) \in Nat \ {0} /\ DOMAIN stack = 1..Len(stack) /\ path = stack[Len(stack)]
      /\ stack' \in Seq(Paths) /\ DOMAIN stack' = 1..(Len(stack) - 1)
      /\ \A i \in 1..(Len(stack) - 1) : stack'[i] = stack[i]
  BY <1>1, <1>2, TopOfStack
<1>4. \A i \in DOMAIN stack' : i \in DOMAIN stack /\ stack'[i] = stack[i]
  BY <1>3
<1>5. t \in Known \/ t \notin DOMAIN indexed.kind
  BY <1>1, SkippedIsKnown DEF WalkInv
<1> HIDE DEF path, t
<1>6. Known' = Known /\ \A u : From(u)' = From(u)
  BY <1>2 DEF Known, From
<1>7. Pending' \subseteq Pending /\ Pending \subseteq Pending' \cup {t}
  <2>1. Pending' \subseteq Pending
    BY <1>4 DEF Pending, EndOf
  <2>2. ASSUME NEW i \in DOMAIN stack PROVE EndOf(stack[i]) \in Pending' \cup {t}
    <3>1. CASE i = Len(stack)
      BY <1>3, <3>1 DEF t
    <3>2. CASE i # Len(stack)
      <4>1. i \in 1..(Len(stack) - 1)
        BY <1>3, <3>2
      <4>2. i \in DOMAIN stack' /\ stack'[i] = stack[i]
        BY <1>3, <4>1
      <4> QED BY <4>2 DEF Pending, EndOf
    <3> QED BY <3>1, <3>2
  <2> QED BY <2>1, <2>2 DEF Pending
<1>8. WalkTypeOK'
  <2>1. step = "indexing"
    BY DEF Visit
  <2> QED BY <1>2, <1>3, <1>6, <2>1 DEF WalkInv, WalkTypeOK, ValidSchema
<1>9. ThroughKnown'
  <2> SUFFICES ASSUME NEW i \in DOMAIN stack'
               PROVE  /\ Through(stack'[i]) \subseteq Known'
                      /\ \A k, l \in 1..(Len(stack'[i]) - 1) :
                           stack'[i][k].type = stack'[i][l].type => k = l
                      /\ \A u \in Through(stack'[i]) : From(u)' \subseteq Through(stack'[i])
                      /\ \A j \in 1..i : Through(stack'[j]) \subseteq Through(stack'[i])
    BY DEF ThroughKnown, Through
  <2>1. i \in DOMAIN stack /\ stack'[i] = stack[i]
    BY <1>4
  <2>2. \A j \in 1..i : j \in DOMAIN stack' /\ stack'[j] = stack[j]
    BY <1>3
  <2> QED BY <1>6, <2>1, <2>2 DEF WalkInv, ThroughKnown
<1>10. Acyclic'
  BY <1>6 DEF WalkInv, Acyclic
<1>11. NothingForgotten'
  <2>1. \A u \in Known \cup Pending : u \in DOMAIN indexed.kind => u \in Known \cup Pending'
    BY <1>5, <1>7
  <2>2. Roots \subseteq DOMAIN indexed.kind /\ \A u : LeadsTo(u) \subseteq DOMAIN indexed.kind
    BY DEF Roots, LeadsTo, WalkInv, WalkTypeOK, ValidSchema
  <2> QED BY <1>2, <1>6, <2>1, <2>2, GoalStays DEF WalkInv, NothingForgotten
<1>12. NothingElse'
  BY <1>2, <1>6, <1>7, GoalStays DEF WalkInv, NothingElse
<1>13. OnlyRootsAreFree'
  <2>1. \A i \in DOMAIN stack' : Len(stack'[i]) = 1 => EndOf(stack'[i]) \in Roots
    BY <1>4 DEF WalkInv, OnlyRootsAreFree
  <2> QED BY <1>2, <1>6, <2>1, GoalStays DEF WalkInv, OnlyRootsAreFree, EndOf
<1> QED BY <1>8, <1>9, <1>10, <1>11, <1>12, <1>13 DEF WalkInv

\* A step that leaves the index alone keeps the invariant of the walk.
LEMMA WalkUnchanged ==
  ASSUME WalkInv, UNCHANGED <<schema, step, mutations, walkVars>>
  PROVE  WalkInv'
<1>1. UNCHANGED <<indexed, stack, references>>
  BY DEF walkVars
<1>2. Known' = Known /\ Pending' = Pending /\ \A u : From(u)' = From(u)
  BY <1>1 DEF Known, Pending, From, EndOf
<1>3. WalkTypeOK' /\ ThroughKnown'
  <2>1. WalkTypeOK'
    BY <1>1, <1>2 DEF WalkInv, WalkTypeOK, ValidSchema
  <2>2. ThroughKnown'
    BY <1>1, <1>2 DEF WalkInv, ThroughKnown
  <2> QED BY <2>1, <2>2
<1>4. Acyclic' /\ NothingForgotten' /\ NothingElse' /\ OnlyRootsAreFree'
  BY <1>1, <1>2, GoalStays DEF WalkInv, Acyclic, NothingForgotten, NothingElse, OnlyRootsAreFree, EndOf
<1> QED BY <1>3, <1>4 DEF WalkInv

\* A path that is visited adds no cycle: nothing on the path's way is reached from its end.
LEMMA NoCycleAdded ==
  ASSUME WalkInv, Visit, NEW path, NEW t,
         path = Last(stack), t = EndOf(path), ~Skipped(path)
  PROVE  Acyclic'
<1>1. /\ Known' = Known \cup {t} /\ t \notin Through(path)
      /\ From(t)' \subseteq (IF t \in Known THEN From(t) ELSE {}) \cup Through(path)
      /\ \A u \in Known \ {t} : From(u)' = From(u)
  BY VisitedPath, ReferencesAfter DEF WalkInv
<1>2. /\ Through(path) \subseteq Known
      /\ \A u \in Through(path) : From(u) \subseteq Through(path)
  <2>1. stack \in Seq(Paths) /\ stack # <<>>
    BY DEF WalkInv, WalkTypeOK, Visit
  <2>2. Len(stack) \in DOMAIN stack /\ path = stack[Len(stack)]
    BY <2>1, TopOfStack
  <2> QED BY <2>2 DEF WalkInv, ThroughKnown
<1>3. \A u \in Known : From(u) \subseteq Known
  BY DEF WalkInv, WalkTypeOK
<1> SUFFICES ASSUME NEW S, S \subseteq Known', S # {}
             PROVE  \E u \in S : From(u)' \cap S = {}
  BY DEF Acyclic
<1>4. CASE S \cap Through(path) # {}
  <2>1. PICK u \in S \cap Through(path) : From(u) \cap (S \cap Through(path)) = {}
    BY <1>2, <1>4 DEF WalkInv, Acyclic
  <2>2. From(u)' = From(u) /\ From(u) \subseteq Through(path)
    BY <1>1, <1>2
  <2> QED BY <2>1, <2>2
<1>5. CASE S \cap Through(path) = {} /\ S \cap Known # {}
  <2>1. PICK u \in S \cap Known : From(u) \cap (S \cap Known) = {}
    BY <1>5 DEF WalkInv, Acyclic
  <2>2. From(u) \cap S = {}
    BY <1>3, <2>1
  <2>3. From(u)' \subseteq From(u) \cup Through(path)
    BY <1>1, <2>1
  <2> QED BY <1>5, <2>1, <2>2, <2>3
<1>6. CASE S \cap Through(path) = {} /\ S \cap Known = {}
  <2>1. S = {t} /\ t \notin Known
    BY <1>1, <1>6
  <2> QED BY <1>1, <1>6, <2>1
<1> QED BY <1>4, <1>5, <1>6

\* The children of the path go through what it goes through, and through its end.
LEMMA ThroughChild ==
  ASSUME NEW path \in Paths, NEW t, t = EndOf(path), NEW c, Child(c, path, t)
  PROVE  /\ Through(c) = Through(path) \cup {t} /\ Len(c) - 1 = Len(path)
         /\ Len(path) \in Nat \ {0} /\ path[Len(path)].type = t
         /\ \A k \in 1..Len(path) : c[k].type = path[k].type
<1>1. Len(path) \in Nat \ {0} /\ path[Len(path)].type = t
  BY EndOfPath
<1>2. Len(c) - 1 = Len(path) /\ \A k \in 1..Len(path) : c[k].type = path[k].type
  BY <1>1 DEF Child
<1>3. Through(c) = {path[k].type : k \in 1..Len(path)}
  BY <1>2 DEF Through
<1>4. \A k : k \in 1..Len(path) <=> (k \in 1..(Len(path) - 1) \/ k = Len(path))
  BY <1>1
<1>5. {path[k].type : k \in 1..Len(path)} = Through(path) \cup {t}
  BY <1>1, <1>4 DEF Through
<1> QED BY <1>1, <1>2, <1>3, <1>5

\* The paths in the stack still go through known types only, and what refers to these
\* is on the way.
LEMMA ThroughStep ==
  ASSUME WalkInv, Visit, NEW path, NEW t,
         path = Last(stack), t = EndOf(path), ~Skipped(path)
  PROVE  ThroughKnown'
<1> DEFINE n == Len(stack)
<1>0. stack \in Seq(Paths) /\ stack # <<>>
  BY DEF WalkInv, WalkTypeOK, Visit
<1>1. /\ n \in Nat \ {0} /\ DOMAIN stack = 1..n /\ path = stack[n] /\ path \in Paths
  BY <1>0, TopOfStack
<1>2. /\ Known' = Known \cup {t} /\ t \notin Through(path)
      /\ From(t)' \subseteq (IF t \in Known THEN From(t) ELSE {}) \cup Through(path)
      /\ \A u \in Known \ {t} : From(u)' = From(u)
  BY VisitedPath, ReferencesAfter DEF WalkInv
<1>3. /\ stack' \in Seq(Paths)
      /\ \A i \in DOMAIN stack' :
           \/ i \in 1..(n - 1) /\ stack'[i] = stack[i]
           \/ i \in Nat /\ i >= n /\ t \notin Known /\ Child(stack'[i], path, t)
  BY StackAfter DEF WalkInv
<1> HIDE DEF n
<1>4. /\ Through(path) \subseteq Known
      /\ \A k, l \in 1..(Len(path) - 1) : path[k].type = path[l].type => k = l
      /\ \A u \in Through(path) : From(u) \subseteq Through(path)
      /\ \A j \in 1..n : Through(stack[j]) \subseteq Through(path)
  <2>1. n \in DOMAIN stack
    BY <1>1
  <2> QED BY <1>1, <2>1 DEF WalkInv, ThroughKnown
<1>5. DOMAIN stack' = 1..Len(stack') /\ Len(stack') \in Nat
  BY <1>3, LenProperties
<1> SUFFICES ASSUME NEW i \in DOMAIN stack'
             PROVE  /\ Through(stack'[i]) \subseteq Known'
                    /\ \A k, l \in 1..(Len(stack'[i]) - 1) :
                         stack'[i][k].type = stack'[i][l].type => k = l
                    /\ \A u \in Through(stack'[i]) : From(u)' \subseteq Through(stack'[i])
                    /\ \A j \in 1..i : Through(stack'[j]) \subseteq Through(stack'[i])
  BY DEF ThroughKnown, Through
<1>6. CASE i \in 1..(n - 1) /\ stack'[i] = stack[i]
  <2>1. i \in DOMAIN stack /\ i \in 1..n
    BY <1>1, <1>6
  <2>2. /\ Through(stack[i]) \subseteq Known
        /\ \A k, l \in 1..(Len(stack[i]) - 1) : stack[i][k].type = stack[i][l].type => k = l
        /\ \A u \in Through(stack[i]) : From(u) \subseteq Through(stack[i])
        /\ \A j \in 1..i : Through(stack[j]) \subseteq Through(stack[i])
    BY <2>1 DEF WalkInv, ThroughKnown
  <2>3. t \notin Through(stack[i])
    BY <1>2, <1>4, <2>1
  <2>4. \A u \in Through(stack[i]) : From(u)' = From(u)
    BY <1>2, <2>2, <2>3
  <2>5. ASSUME NEW j \in 1..i PROVE stack'[j] = stack[j]
    <3>1. j \in DOMAIN stack' /\ j < n
      BY <1>1, <1>5, <1>6
    <3> QED BY <1>1, <1>3, <3>1
  <2> QED BY <1>2, <1>6, <2>2, <2>4, <2>5
<1>7. CASE i \in Nat /\ i >= n /\ t \notin Known /\ Child(stack'[i], path, t)
  <2>1. /\ Through(stack'[i]) = Through(path) \cup {t} /\ Len(stack'[i]) - 1 = Len(path)
        /\ Len(path) \in Nat \ {0} /\ path[Len(path)].type = t
        /\ \A k \in 1..Len(path) : stack'[i][k].type = path[k].type
    BY <1>1, <1>7, ThroughChild
  <2>2. ASSUME NEW k \in 1..Len(path), NEW l \in 1..Len(path), path[k].type = path[l].type
        PROVE  k = l
    <3>1. \A m \in 1..(Len(path) - 1) : path[m].type # t
      BY <1>2 DEF Through
    <3>2. CASE k = Len(path)
      BY <2>1, <2>2, <3>1, <3>2
    <3>3. CASE l = Len(path)
      BY <2>1, <2>2, <3>1, <3>3
    <3>4. CASE k # Len(path) /\ l # Len(path)
      <4>1. k \in 1..(Len(path) - 1) /\ l \in 1..(Len(path) - 1)
        BY <2>1, <3>4
      <4> QED BY <1>4, <2>2, <4>1
    <3> QED BY <3>2, <3>3, <3>4
  <2>3. \A k, l \in 1..(Len(stack'[i]) - 1) : stack'[i][k].type = stack'[i][l].type => k = l
    BY <2>1, <2>2
  <2>4. ASSUME NEW u \in Through(stack'[i]) PROVE From(u)' \subseteq Through(stack'[i])
    <3>1. CASE u = t
      BY <1>2, <1>7, <2>1, <3>1
    <3>2. CASE u # t
      <4>1. u \in Through(path) /\ u \in Known \ {t}
        BY <1>4, <2>1, <3>2
      <4> QED BY <1>2, <1>4, <2>1, <4>1
    <3> QED BY <3>1, <3>2
  <2>5. ASSUME NEW j \in 1..i PROVE Through(stack'[j]) \subseteq Through(stack'[i])
    <3>1. j \in DOMAIN stack'
      BY <1>5, <1>7
    <3>2. CASE j \in 1..(n - 1) /\ stack'[j] = stack[j]
      <4>1. j \in 1..n
        BY <1>1, <3>2
      <4> QED BY <1>4, <2>1, <3>2, <4>1
    <3>3. CASE Child(stack'[j], path, t)
      <4>1. Through(stack'[j]) = Through(path) \cup {t}
        BY <1>1, <3>3, ThroughChild
      <4> QED BY <2>1, <4>1
    <3> QED BY <1>3, <3>1, <3>2, <3>3
  <2>6. Through(stack'[i]) \subseteq Known'
    BY <1>2, <1>4, <2>1
  <2> QED BY <2>3, <2>4, <2>5, <2>6
<1> QED BY <1>3, <1>6, <1>7

\* A path that is visited keeps the invariant of the walk.
LEMMA VisitStep ==
  ASSUME WalkInv, Visit, NEW path, NEW t,
         path = Last(stack), t = EndOf(path), ~Skipped(path)
  PROVE  WalkInv'
<1> DEFINE n == Len(stack)
<1>0. stack \in Seq(Paths) /\ stack # <<>> /\ step = "indexing" /\ schema = indexed
  BY DEF WalkInv, WalkTypeOK, Visit
<1>1. UNCHANGED <<schema, mutations, indexed, step, climbVars, asked>>
  BY DEF Visit
<1>2. /\ n \in Nat \ {0} /\ DOMAIN stack = 1..n /\ path = stack[n] /\ path \in Paths
  BY <1>0, TopOfStack
<1>3. /\ Known' = Known \cup {t} /\ t \notin Through(path) /\ t \in DOMAIN indexed.kind
      /\ From(t)' \subseteq (IF t \in Known THEN From(t) ELSE {}) \cup Through(path)
      /\ \A u \in Known \ {t} : From(u)' = From(u) /\ references'[u] = references[u]
      /\ references'[t] \in Seq(Nodes) /\ (references'[t] = <<>> => Len(path) = 1)
      /\ references' = [u \in Known' |-> references'[u]]
  BY VisitedPath, ReferencesAfter DEF WalkInv
<1>4. /\ stack' \in Seq(Paths)
      /\ \A i \in DOMAIN stack' :
           \/ i \in 1..(n - 1) /\ stack'[i] = stack[i]
           \/ i \in Nat /\ i >= n /\ t \notin Known /\ Child(stack'[i], path, t)
      /\ \A i \in 1..(n - 1) : i \in DOMAIN stack' /\ stack'[i] = stack[i]
      /\ t \notin Known => \A u \in LeadsTo(t) : \E i \in DOMAIN stack' : EndOf(stack'[i]) = u
  BY StackAfter DEF WalkInv
<1> HIDE DEF n
<1>5. Through(path) \subseteq Known
  BY <1>2 DEF WalkInv, ThroughKnown
<1>6. WalkTypeOK'
  <2>1. \A u \in Known' : references'[u] \in Seq(Nodes)
    BY <1>3 DEF WalkInv, WalkTypeOK
  <2>2. references' \in [Known' -> Seq(Nodes)] /\ Known' \subseteq DOMAIN indexed.kind
    BY <1>3, <2>1 DEF WalkInv, WalkTypeOK
  <2>3. \A u \in Known' : From(u)' \subseteq Known'
    BY <1>3, <1>5 DEF WalkInv, WalkTypeOK
  <2> QED BY <1>0, <1>1, <1>4, <2>2, <2>3 DEF WalkInv, WalkTypeOK, ValidSchema
<1>7. ThroughKnown' /\ Acyclic'
  BY ThroughStep, NoCycleAdded
<1>8. Known \cup Pending \subseteq Known' \cup Pending'
  <2>1. ASSUME NEW i \in DOMAIN stack PROVE EndOf(stack[i]) \in Known' \cup Pending'
    <3>1. CASE i = n
      BY <1>2, <1>3, <3>1
    <3>2. CASE i # n
      <4>1. i \in 1..(n - 1)
        BY <1>2, <3>2
      <4> QED BY <1>4, <4>1 DEF Pending, EndOf
    <3> QED BY <3>1, <3>2
  <2> QED BY <1>3, <2>1 DEF Pending
<1>9. NothingForgotten'
  <2>1. \A u \in Known : LeadsTo(u) \subseteq Known' \cup Pending'
    BY <1>8 DEF WalkInv, NothingForgotten
  <2>2. LeadsTo(t) \subseteq Known' \cup Pending'
    <3>1. CASE t \in Known
      BY <2>1, <3>1
    <3>2. CASE t \notin Known
      BY <1>4, <3>2 DEF Pending, EndOf
    <3> QED BY <3>1, <3>2
  <2>3. Roots \subseteq Known' \cup Pending'
    BY <1>8 DEF WalkInv, NothingForgotten
  <2> QED BY <1>1, <1>3, <2>1, <2>2, <2>3, GoalStays DEF NothingForgotten
<1>10. NothingElse'
  <2> SUFFICES ASSUME NEW T, T \subseteq DOMAIN indexed.kind, ReachesOut(T)
               PROVE  (Known' \cup Pending') \cap DOMAIN indexed.kind \subseteq T
    BY <1>1, GoalStays DEF NothingElse
  <2>1. (Known \cup Pending) \cap DOMAIN indexed.kind \subseteq T
    BY DEF WalkInv, NothingElse
  <2>2. t \in T
    BY <1>2, <1>3, <2>1 DEF Pending
  <2>3. ASSUME NEW i \in DOMAIN stack', EndOf(stack'[i]) \in DOMAIN indexed.kind
        PROVE  EndOf(stack'[i]) \in T
    <3>1. CASE i \in 1..(n - 1) /\ stack'[i] = stack[i]
      <4>1. i \in DOMAIN stack
        BY <1>2, <3>1
      <4> QED BY <2>1, <2>3, <3>1, <4>1 DEF Pending
    <3>2. CASE Child(stack'[i], path, t)
      BY <2>2, <2>3, <3>2 DEF Child, ReachesOut
    <3> QED BY <1>4, <3>1, <3>2
  <2>4. Pending' = {EndOf(stack'[i]) : i \in DOMAIN stack'}
    BY DEF Pending, EndOf
  <2> QED BY <1>3, <2>1, <2>2, <2>3, <2>4
<1>11. OnlyRootsAreFree'
  <2>0. /\ \A u \in Known : references[u] = <<>> => u \in Roots
        /\ \A i \in DOMAIN stack : Len(stack[i]) = 1 => EndOf(stack[i]) \in Roots
        /\ n \in DOMAIN stack
    BY <1>2 DEF WalkInv, OnlyRootsAreFree
  <2>1. ASSUME NEW u \in Known', references'[u] = <<>> PROVE u \in Roots
    <3>1. CASE u = t
      <4>1. Len(path) = 1
        BY <1>3, <2>1, <3>1
      <4> QED BY <1>2, <2>0, <3>1, <4>1
    <3>2. CASE u # t
      BY <1>3, <2>0, <2>1, <3>2
    <3> QED BY <3>1, <3>2
  <2>2. ASSUME NEW i \in DOMAIN stack', Len(stack'[i]) = 1 PROVE EndOf(stack'[i]) \in Roots
    <3>1. CASE i \in 1..(n - 1) /\ stack'[i] = stack[i]
      <4>1. i \in DOMAIN stack /\ Len(stack[i]) = 1
        BY <1>2, <2>2, <3>1
      <4>2. EndOf(stack[i]) \in Roots
        BY <2>0, <4>1
      <4> QED BY <3>1, <4>2 DEF EndOf
    <3>2. CASE Child(stack'[i], path, t)
      <4>1. Len(path) \in Nat \ {0} /\ Len(stack'[i]) = Len(path) + 1
        BY <1>2, <3>2, EndOfPath DEF Child
      <4>2. Len(path) + 1 = 1
        BY <2>2, <4>1
      <4>3. Len(path) \in Nat \ {0}
        BY <4>1
      <4> QED BY <4>2, <4>3
    <3> QED BY <1>4, <3>1, <3>2
  <2> QED BY <1>1, <2>1, <2>2, GoalStays DEF OnlyRootsAreFree, EndOf
<1> QED BY <1>6, <1>7, <1>9, <1>10, <1>11 DEF WalkInv

\* The walk starts at the root types.
LEMMA WalkStarts ==
  ASSUME IndexInit
  PROVE  WalkInv
<1> DEFINE below == IF Mutation \in Roots THEN <<<<End(Mutation)>>>> ELSE <<>>
           top == <<<<End(Query)>>>>
<1>1. /\ indexed = schema /\ indexed \in Schemas /\ ValidSchema(indexed) /\ mutations \in BOOLEAN
      /\ step = "indexing" /\ stack = below \o top /\ references = << >>
  BY IndexAssumption DEF IndexInit
<1>2. ASSUME NEW t \in Words
      PROVE  /\ <<End(t)>> \in Paths /\ Len(<<End(t)>>) = 1 /\ EndOf(<<End(t)>>) = t
  <2>1. End(t) \in Nodes /\ End(t).type = t
    BY NodesMade
  <2> HIDE DEF End
  <2>2. <<End(t)>> \in Seq(Nodes) /\ Len(<<End(t)>>) = 1 /\ <<End(t)>>[1] = End(t) /\ <<End(t)>> # <<>>
    BY <2>1
  <2> QED BY <2>1, <2>2 DEF Paths, EndOf, Last
<1>3. /\ Query \in Words /\ Mutation \in Words /\ Query \in Roots
      /\ Roots \subseteq {Query, Mutation} /\ Roots \subseteq DOMAIN indexed.kind
  BY <1>1 DEF Words, Roots, ValidSchema
<1> DEFINE q == <<End(Query)>>
           m == <<End(Mutation)>>
<1>4. q \in Paths /\ Len(q) = 1 /\ EndOf(q) = Query /\ m \in Paths /\ Len(m) = 1 /\ EndOf(m) = Mutation
  BY <1>2, <1>3
<1> HIDE DEF q, m, Paths
<1>5. /\ top \in Seq(Paths) /\ Len(top) = 1 /\ top[1] = q
      /\ below \in Seq(Paths)
      /\ IF Mutation \in Roots THEN Len(below) = 1 /\ below[1] = m ELSE Len(below) = 0
  <2>1. <<q>> \in Seq(Paths) /\ Len(<<q>>) = 1 /\ <<q>>[1] = q
    BY <1>4
  <2>2. <<m>> \in Seq(Paths) /\ Len(<<m>>) = 1 /\ <<m>>[1] = m
    BY <1>4
  <2>3. <<>> \in Seq(Paths) /\ Len(<<>>) = 0
    BY EmptySeq
  <2>4. top = <<q>> /\ below = IF Mutation \in Roots THEN <<m>> ELSE <<>>
    BY DEF q, m
  <2> HIDE DEF top, below
  <2> QED BY <2>1, <2>2, <2>3, <2>4
<1> HIDE DEF top, below
<1>6. /\ stack \in Seq(Paths) /\ DOMAIN stack = 1..(Len(below) + 1)
      /\ \A i \in DOMAIN stack : (Mutation \in Roots /\ stack[i] = m) \/ stack[i] = q
      /\ \E i \in DOMAIN stack : stack[i] = q
      /\ Mutation \in Roots => \E i \in DOMAIN stack : stack[i] = m
  <2>1. /\ below \o top \in Seq(Paths) /\ DOMAIN (below \o top) = 1..(Len(below) + Len(top))
        /\ Len(below) \in Nat
    BY <1>5, Joined
  <2>2. \A i \in 1..Len(below) : (below \o top)[i] = below[i]
    BY <1>5, Joined
  <2>3. \A i \in 1..Len(top) : (below \o top)[Len(below) + i] = top[i]
    BY <1>5, Joined
  <2>4. Len(below) + 1 \in DOMAIN stack /\ stack[Len(below) + 1] = q
    BY <1>1, <1>5, <2>1, <2>3
  <2>5. ASSUME NEW i \in DOMAIN stack, i # Len(below) + 1
        PROVE  Mutation \in Roots /\ stack[i] = m
    <3>1. i \in 1..Len(below)
      BY <1>1, <1>5, <2>1, <2>5
    <3>2. Mutation \in Roots /\ i = 1
      <4>1. CASE Mutation \in Roots
        <5>1. Len(below) = 1
          BY <1>5, <4>1
        <5>2. i \in 1..1
          BY <3>1, <5>1
        <5> QED BY <4>1, <5>2
      <4>2. CASE Mutation \notin Roots
        <5>1. Len(below) = 0
          BY <1>5, <4>2
        <5> QED BY <3>1, <5>1
      <4> QED BY <4>1, <4>2
    <3> QED BY <1>1, <1>5, <2>2, <3>1, <3>2
  <2>6. Mutation \in Roots => 1 \in DOMAIN stack /\ stack[1] = m
    BY <1>1, <1>5, <2>1, <2>2
  <2> QED BY <1>1, <1>5, <2>1, <2>4, <2>5, <2>6
<1>7. Known = {}
  BY <1>1 DEF Known
<1>8. \A p \in {q, m} : Through(p) = {} /\ \A k, l \in 1..(Len(p) - 1) : k = l
  BY <1>4 DEF Through
<1>9. WalkTypeOK
  <2>1. references \in [Known -> Seq(Nodes)]
    BY <1>1, <1>7
  <2> QED BY <1>1, <1>6, <1>7, <2>1 DEF WalkTypeOK
<1>10. ThroughKnown
  <2>1. \A i \in DOMAIN stack : \A j \in 1..i : j \in DOMAIN stack
    BY <1>6
  <2>2. \A i \in DOMAIN stack : stack[i] \in {q, m}
    BY <1>6
  <2> QED BY <1>8, <2>1, <2>2 DEF ThroughKnown
<1>11. Pending = Roots
  <2>1. Pending \subseteq Roots
    BY <1>3, <1>4, <1>6 DEF Pending
  <2>2. Query \in Pending /\ (Mutation \in Roots => Mutation \in Pending)
    BY <1>4, <1>6 DEF Pending
  <2> QED BY <1>3, <2>1, <2>2
<1>12. Acyclic /\ NothingForgotten /\ NothingElse
  BY <1>7, <1>11 DEF Acyclic, NothingForgotten, NothingElse, ReachesOut
<1>13. OnlyRootsAreFree
  BY <1>7, <1>11 DEF OnlyRootsAreFree, Pending
<1> QED BY <1>9, <1>10, <1>12, <1>13 DEF WalkInv

-----------------------------------------------------------------------------
(* The climb. *)

\* A climb starts at a known type.
LEMMA StartOfClimb ==
  ASSUME WalkTypeOK, NEW t \in Known
  PROVE  LET start == <<<<End(t)>>>> IN
         /\ start \in Seq(Paths) /\ DOMAIN start = {1} /\ Len(start[1]) = 1
         /\ EndOf(start[1]) = t /\ Head(start[1]).type = t /\ start[1][1].type = t
         /\ DOMAIN start[1] = {1}
<1>1. End(t) \in Nodes /\ End(t).type = t
  BY NodesMade DEF WalkTypeOK, ValidSchema, Words
<1> HIDE DEF End
<1> DEFINE p == <<End(t)>>
<1>2. /\ p \in Seq(Nodes) /\ Len(p) = 1 /\ p[1] = End(t) /\ p # <<>> /\ DOMAIN p = {1}
      /\ Head(p) = End(t)
  BY <1>1
<1>3. p \in Paths /\ EndOf(p) = t /\ Head(p).type = t /\ p[1].type = t
  BY <1>1, <1>2 DEF Paths, EndOf, Last
<1> HIDE DEF p, Paths
<1>4. <<p>> \in Seq(Paths) /\ DOMAIN <<p>> = {1} /\ <<p>>[1] = p
  BY <1>3
<1> QED BY <1>2, <1>3, <1>4 DEF p

\* An increasing sequence of as many members as the set has enumerates it.
LEMMA OrderIsFull ==
  ASSUME NEW n \in Nat, NEW I \in SUBSET (1..n), NEW f \in InOrder(I)
  PROVE  /\ f \in Seq(I) /\ \A j \in DOMAIN f : f[j] \in I
         /\ \A k \in I : \E j \in DOMAIN f : f[j] = k
<1> DEFINE c == Cardinality(I)
<1>0. \A x \in I : x \in Nat
  OBVIOUS
<1>1. IsFiniteSet(I)
  <2>1. IsFiniteSet(1..n)
    BY FS_Interval
  <2> QED BY <2>1, FS_Subset
<1>2. c \in Nat
  BY <1>1, FS_CardinalityType
<1>3. f \in [1..c -> I] /\ DOMAIN f = 1..c /\ \A i, j \in DOMAIN f : i < j => f[i] < f[j]
  BY DEF InOrder
<1> HIDE DEF c
<1>4. ASSUME NEW i \in 1..c, NEW j \in 1..c, f[i] = f[j] PROVE i = j
  <2>0. i \in DOMAIN f /\ j \in DOMAIN f /\ f[i] \in I
    BY <1>3
  <2>1. f[i] \in Nat
    BY <1>0, <2>0
  <2>2. ~(f[i] < f[i])
    BY <2>1
  <2>3. ~(i < j) /\ ~(j < i)
    BY <1>3, <1>4, <2>0, <2>2
  <2> QED BY <1>2, <2>3
<1>5. f \in Injection(1..c, I)
  BY <1>3, <1>4 DEF Injection, IsInjective
<1>6. IsFiniteSet(1..c) /\ Cardinality(1..c) = c
  BY <1>2, FS_Interval
<1>7. f \in Surjection(1..c, I)
  BY <1>1, <1>5, <1>6, FS_Injection DEF c
<1>8. f \in Seq(I)
  BY <1>2, <1>3
<1> QED BY <1>3, <1>7, <1>8 DEF Surjection

\* The path at the head of the queue, and those behind it.
LEMMA HeadOfQueue ==
  ASSUME ClimbTypeOK, queue # <<>>
  PROVE  /\ Head(queue) \in Paths /\ Head(queue) = queue[1] /\ 1 \in DOMAIN queue
         /\ Tail(queue) \in Seq(Paths) /\ DOMAIN Tail(queue) = 1..(Len(queue) - 1)
         /\ Len(queue) \in Nat \ {0} /\ DOMAIN queue = 1..Len(queue)
         /\ \A i \in DOMAIN Tail(queue) : i + 1 \in DOMAIN queue /\ Tail(queue)[i] = queue[i + 1]
         /\ \A i \in DOMAIN queue : i = 1 \/ (i - 1 \in DOMAIN Tail(queue) /\ Tail(queue)[i - 1] = queue[i])
<1> HIDE DEF Paths
<1>1. queue \in Seq(Paths)
  BY DEF ClimbTypeOK
<1>2. Len(queue) \in Nat \ {0} /\ DOMAIN queue = 1..Len(queue)
  BY <1>1, LastAndFront
<1>3. /\ Head(queue) \in Paths /\ Tail(queue) \in Seq(Paths) /\ Len(Tail(queue)) = Len(queue) - 1
      /\ \A i \in 1..Len(Tail(queue)) : Tail(queue)[i] = queue[i + 1]
  BY <1>1, HeadTailProperties
<1>4. DOMAIN Tail(queue) = 1..(Len(queue) - 1)
  BY <1>3, LenProperties
<1>5. Head(queue) = queue[1] /\ 1 \in DOMAIN queue
  BY <1>1, <1>2
<1>6. \A i \in DOMAIN Tail(queue) : i + 1 \in DOMAIN queue /\ Tail(queue)[i] = queue[i + 1]
  BY <1>2, <1>3, <1>4
<1>7. ASSUME NEW i \in DOMAIN queue, i # 1
      PROVE  i - 1 \in DOMAIN Tail(queue) /\ Tail(queue)[i - 1] = queue[i]
  <2>1. i - 1 \in 1..(Len(queue) - 1) /\ (i - 1) + 1 = i
    BY <1>2, <1>7
  <2> QED BY <1>4, <1>6, <2>1
<1> QED BY <1>2, <1>3, <1>4, <1>5, <1>6, <1>7

\* One reference further up the path still does.
LEMMA OneUp ==
  ASSUME NEW p, NEW end, Climbs(p, end), WalkTypeOK,
         NEW k \in DOMAIN references[Head(p).type]
  PROVE  LET up == <<references[Head(p).type][k]>> \o p IN
         Climbs(up, end) /\ Head(up).type = references[Head(p).type][k].type
<1> DEFINE t == Head(p).type
           node == references[t][k]
           up == <<node>> \o p
<1>1. p \in Seq(Nodes) /\ p \in Paths /\ Len(p) \in Nat \ {0} /\ DOMAIN p = 1..Len(p) /\ EndOf(p) = p[Len(p)].type
  BY EndOfPath DEF Climbs
<1>2. Head(p) = p[1] /\ 1 \in DOMAIN p /\ t \in Known
  BY <1>1 DEF Climbs
<1>3. references[t] \in Seq(Nodes) /\ node \in Nodes /\ node.type \in From(t) /\ node.type \in Known
  <2>1. references[t] \in Seq(Nodes)
    BY <1>2 DEF WalkTypeOK
  <2>2. node \in Nodes
    BY <2>1, LenProperties, ElementOfSeq
  <2>3. node.type \in From(t)
    BY DEF From
  <2> QED BY <1>2, <2>1, <2>2, <2>3 DEF WalkTypeOK
<1> HIDE DEF node
<1>4. <<node>> \in Seq(Nodes) /\ Len(<<node>>) = 1 /\ <<node>>[1] = node
  BY <1>3
<1>5. /\ up \in Seq(Nodes) /\ DOMAIN up = 1..(1 + Len(p)) /\ Len(up) = 1 + Len(p)
  BY <1>1, <1>4, Joined
<1>6. up[1] = node
  <2>1. \A i \in 1..Len(<<node>>) : up[i] = <<node>>[i]
    BY <1>1, <1>4, Joined
  <2> QED BY <1>4, <2>1
<1>7. \A i \in 1..Len(p) : up[1 + i] = p[i]
  <2>1. \A i \in 1..Len(p) : up[Len(<<node>>) + i] = p[i]
    BY <1>1, <1>4, Joined
  <2> QED BY <1>4, <2>1
<1> HIDE DEF up, t
<1>8. up \in Paths /\ up # <<>> /\ Head(up) = node
  <2>1. up # <<>>
    BY <1>1, <1>5, EmptySeq
  <2> QED BY <1>5, <1>6, <2>1 DEF Paths
<1>9. EndOf(up) = end
  <2>1. up[1 + Len(p)] = p[Len(p)]
    BY <1>1, <1>7
  <2> QED BY <1>1, <1>5, <1>8, <2>1, EndOfPath DEF Climbs
<1>10. ASSUME NEW i \in DOMAIN up PROVE up[i].type \in Known
  <2>1. CASE i = 1
    BY <1>3, <1>6, <2>1
  <2>2. CASE i # 1
    <3>1. i - 1 \in 1..Len(p) /\ 1 + (i - 1) = i
      BY <1>1, <1>5, <2>2
    <3>2. up[i] = p[i - 1]
      BY <1>7, <3>1
    <3> QED BY <1>1, <3>1, <3>2 DEF Climbs
  <2> QED BY <2>1, <2>2
<1>11. ASSUME NEW i \in 1..(Len(up) - 1) PROVE up[i].type \in From(up[i + 1].type)
  <2>1. CASE i = 1
    <3>1. up[i + 1] = p[1]
      BY <1>1, <1>7, <2>1
    <3> QED BY <1>2, <1>3, <1>6, <2>1, <3>1 DEF t
  <2>2. CASE i # 1
    <3>1. i - 1 \in 1..(Len(p) - 1) /\ i - 1 \in 1..Len(p) /\ i \in 1..Len(p) /\ 1 + (i - 1) = i /\ 1 + i = i + 1
      BY <1>1, <1>5, <2>2
    <3>2. up[i] = p[i - 1] /\ up[i + 1] = p[i] /\ (i - 1) + 1 = i
      BY <1>7, <3>1
    <3>3. p[i - 1].type \in From(p[(i - 1) + 1].type)
      BY <3>1 DEF Climbs
    <3> QED BY <3>2, <3>3
  <2> QED BY <2>1, <2>2
<1> QED BY <1>8, <1>9, <1>10, <1>11 DEF Climbs, up, node, t

\* What the climb relies on stays as long as the index does.
LEMMA IndexStays ==
  ASSUME UNCHANGED <<mutations, walkVars>>
  PROVE  /\ Known' = Known /\ references' = references /\ Roots' = Roots
         /\ \A u : From(u)' = From(u)
         /\ \A p, e : Climbs(p, e)' = Climbs(p, e)
BY DEF Known, From, Climbs, Roots, walkVars, EndOf

\* No climb goes on while another tool is called, or none.
LEMMA ClimbStays ==
  ASSUME ClimbInv, UNCHANGED <<mutations, walkVars, climbVars>>,
         \/ step' \in {"ready", "introspected"} /\ step \in {"indexing", "ready"}
         \/ step' = "searched" /\ step = "showing" /\ asked' = asked
         \/ step' = step /\ asked' = asked
  PROVE  ClimbTypeOK' /\ PathsClimb' /\ (step' = "climbing" => WayFound' \/ StillClimbing')
         /\ (step' \in {"showing", "searched"} => WayFound')
<1>1. UNCHANGED <<matches, queue, visited, found, count>>
  BY DEF climbVars
<1>2. /\ Known' = Known /\ references' = references /\ Roots' = Roots
      /\ \A u : From(u)' = From(u)
  BY IndexStays
<1>3. \A p, e : Climbs(p, e)' = Climbs(p, e)
  BY IndexStays
<1>4. ClimbTypeOK'
  BY <1>1, <1>2 DEF ClimbInv, ClimbTypeOK
<1>5. PathsClimb'
  BY <1>1, <1>3 DEF ClimbInv, PathsClimb
<1>6. asked' = asked => (WayFound => WayFound') /\ (StillClimbing => StillClimbing')
  BY <1>1, <1>2 DEF WayFound, StillClimbing, Heads, EndOf
<1> QED BY <1>4, <1>5, <1>6 DEF ClimbInv

\* The walk is over before a climb starts.
LEMMA VisitLeavesClimb ==
  ASSUME ClimbInv, Visit
  PROVE  ClimbInv'
<1>1. WalkInv'
  <2>1. PICK path : path = Last(stack)
    OBVIOUS
  <2>2. PICK t : t = EndOf(path)
    OBVIOUS
  <2>3. CASE Skipped(Last(stack))
    BY <2>3, SkipStep DEF ClimbInv
  <2>4. CASE ~Skipped(Last(stack))
    BY <2>1, <2>2, <2>4, VisitStep DEF ClimbInv
  <2> QED BY <2>3, <2>4
<1>2. /\ step = "indexing" /\ step' = step /\ queue = <<>>
      /\ UNCHANGED <<matches, queue, visited, found, count>>
  BY DEF Visit, climbVars, ClimbInv, ClimbTypeOK
<1>3. Known \subseteq Known'
  BY DEF Visit, Known
<1>4. matches' \in Seq(Known')
  <2>1. matches \in Seq(Known)
    BY DEF ClimbInv, ClimbTypeOK
  <2> QED BY <1>2, <1>3, <2>1, SeqMonotonic
<1>5. ClimbTypeOK'
  BY <1>2, <1>3, <1>4 DEF ClimbInv, ClimbTypeOK
<1>6. PathsClimb'
  <2>1. DOMAIN queue' = {}
    BY <1>2, EmptySeq
  <2> QED BY <2>1 DEF PathsClimb
<1> QED BY <1>1, <1>2, <1>5, <1>6 DEF ClimbInv

\* A search starts at its matches.
LEMMA SearchStep ==
  ASSUME ClimbInv, Search
  PROVE  ClimbInv'
<1>0. PICK n \in 1..MaxMatches : \E m \in [1..n -> Known] :
        matches' = m /\ queue' = <<<<End(m[1])>>>> /\ asked' = [type |-> m[1], depth |-> 0]
  BY DEF Search, Known
<1>1. PICK m \in [1..n -> Known] :
        matches' = m /\ queue' = <<<<End(m[1])>>>> /\ asked' = [type |-> m[1], depth |-> 0]
  BY <1>0
<1>2. /\ step = "ready" /\ step' = "climbing" /\ visited' = {} /\ count' = 0
      /\ UNCHANGED <<mutations, walkVars>>
  BY DEF Search
<1>3. WalkInv /\ WalkTypeOK /\ stack = <<>>
  BY <1>2 DEF ClimbInv, WalkInv, WalkTypeOK
<1>4. WalkInv'
  BY <1>2, <1>3, WalkStays
<1>n. n \in Nat \ {0}
  BY IndexAssumption
<1>5. m \in Seq(Known) /\ m # <<>> /\ Head(m) = m[1] /\ m[1] \in Known
  BY <1>n
<1>6. PICK t \in Known : t = m[1]
  BY <1>5
<1>7. /\ queue' \in Seq(Paths) /\ DOMAIN queue' = {1} /\ Len(queue'[1]) = 1
      /\ EndOf(queue'[1]) = t /\ Head(queue'[1]).type = t /\ queue'[1][1].type = t
      /\ DOMAIN queue'[1] = {1}
  BY <1>1, <1>3, <1>6, StartOfClimb
<1>8. queue'[1] \in Paths
  BY <1>7, ElementOfSeq, LenProperties
<1>9. Known' = Known
  BY <1>2, IndexStays
<1>10. ClimbTypeOK'
  BY <1>1, <1>2, <1>5, <1>7, <1>9 DEF ClimbTypeOK
<1>11. PathsClimb'
  <2>1. PICK p : p = queue'[1]
    OBVIOUS
  <2>2. Climbs(p, t)
    BY <1>7, <1>8, <2>1 DEF Climbs
  <2>3. Climbs(p, t)'
    BY <1>2, <2>2, IndexStays
  <2> QED BY <1>1, <1>5, <1>6, <1>7, <2>1, <2>3 DEF PathsClimb
<1>12. StillClimbing'
  <2>1. Heads' = {t}
    BY <1>7 DEF Heads
  <2> QED BY <1>1, <1>2, <1>5, <1>6, <2>1 DEF StillClimbing
<1> QED BY <1>2, <1>4, <1>10, <1>11, <1>12 DEF ClimbInv

\* The climb meets a type that nothing refers to: a root type.
LEMMA RootStep ==
  ASSUME ClimbInv, Climb, NEW path, NEW t, path = Head(queue), t = Head(path).type,
         Referred(t) = <<>>
  PROVE  ClimbInv'
<1>1. /\ step = "climbing" /\ step' = step /\ queue # <<>> /\ visited' = visited \cup {t}
      /\ found' = found \cup {path} /\ count' = count + 1 /\ queue' = Tail(queue)
      /\ UNCHANGED <<mutations, matches, asked, walkVars>>
  BY DEF Climb
<1>2. WalkInv /\ WalkTypeOK /\ ClimbTypeOK /\ PathsClimb /\ stack = <<>>
  BY <1>1 DEF ClimbInv, WalkInv, WalkTypeOK
<1>3. WalkInv'
  BY <1>1, <1>2, WalkStays
<1>4. /\ path = queue[1] /\ 1 \in DOMAIN queue /\ Tail(queue) \in Seq(Paths)
      /\ \A i \in DOMAIN Tail(queue) : i + 1 \in DOMAIN queue /\ Tail(queue)[i] = queue[i + 1]
  BY <1>1, <1>2, HeadOfQueue
<1>5. Climbs(path, Head(matches))
  BY <1>2, <1>4 DEF PathsClimb
<1>6. t \in Known /\ EndOf(path) = Head(matches)
  <2>1. 1 \in DOMAIN path /\ Head(path) = path[1]
    BY <1>5, EndOfPath DEF Climbs
  <2> QED BY <1>5, <2>1 DEF Climbs
<1>7. /\ Known' = Known /\ Roots' = Roots /\ \A p, e : Climbs(p, e)' = Climbs(p, e)
  BY <1>1, IndexStays
<1>8. ClimbTypeOK'
  BY <1>1, <1>2, <1>4, <1>6, <1>7 DEF ClimbTypeOK
<1>9. PathsClimb'
  <2>1. \A i \in DOMAIN queue' : Climbs(queue'[i], Head(matches))
    BY <1>1, <1>2, <1>4 DEF PathsClimb
  <2> QED BY <1>1, <1>7, <2>1 DEF PathsClimb
<1>10. WayFound'
  <2>1. CASE WayFound
    BY <1>1, <1>7, <2>1 DEF WayFound, EndOf
  <2>2. CASE StillClimbing
    <3>1. references[t] = <<>> /\ asked.type = Head(matches)
      BY <1>6, <2>2 DEF Referred, Known, StillClimbing
    <3>2. t \in Roots
      BY <1>2, <1>6, <3>1 DEF WalkInv, OnlyRootsAreFree
    <3> QED BY <1>1, <1>6, <1>7, <3>1, <3>2 DEF WayFound, EndOf
  <2> QED BY <1>1, <2>1, <2>2 DEF ClimbInv
<1> QED BY <1>1, <1>3, <1>8, <1>9, <1>10 DEF ClimbInv

\* The climb goes on to whatever refers to a type and is not visited.
LEMMA UpStep ==
  ASSUME ClimbInv, Climb, NEW path, NEW t, path = Head(queue), t = Head(path).type,
         Referred(t) # <<>>
  PROVE  ClimbInv'
<1> DEFINE refs == Referred(t)
           seen == visited \cup {t}
           I == {i \in DOMAIN refs : Followed(seen, refs[i])}
<1>0. PICK next \in InOrder(I) : queue' = Tail(queue) \o [i \in DOMAIN next |-> <<refs[next[i]]>> \o path]
  BY DEF Climb
<1> DEFINE new == [i \in DOMAIN next |-> <<refs[next[i]]>> \o path]
<1>1. /\ step = "climbing" /\ step' = step /\ queue # <<>> /\ visited' = visited \cup {t}
      /\ UNCHANGED <<mutations, matches, asked, walkVars, found, count>>
  BY DEF Climb
<1>2. WalkInv /\ WalkTypeOK /\ ClimbTypeOK /\ PathsClimb /\ stack = <<>>
  BY <1>1 DEF ClimbInv, WalkInv, WalkTypeOK
<1>3. WalkInv'
  BY <1>1, <1>2, WalkStays
<1>4. /\ path = queue[1] /\ 1 \in DOMAIN queue /\ Tail(queue) \in Seq(Paths)
      /\ \A i \in DOMAIN Tail(queue) : i + 1 \in DOMAIN queue /\ Tail(queue)[i] = queue[i + 1]
      /\ \A i \in DOMAIN queue : i = 1 \/ (i - 1 \in DOMAIN Tail(queue) /\ Tail(queue)[i - 1] = queue[i])
  BY <1>1, <1>2, HeadOfQueue
<1>5. Climbs(path, Head(matches))
  BY <1>2, <1>4 DEF PathsClimb
<1>6. t \in Known
  <2>1. 1 \in DOMAIN path /\ Head(path) = path[1]
    BY <1>5, EndOfPath DEF Climbs
  <2> QED BY <1>5, <2>1 DEF Climbs
<1>7. /\ Known' = Known /\ Roots' = Roots /\ references' = references
      /\ \A u : From(u)' = From(u)
      /\ \A p, e : Climbs(p, e)' = Climbs(p, e)
  BY <1>1, IndexStays
<1>8. refs = references[t] /\ refs \in Seq(Nodes) /\ Len(refs) \in Nat /\ DOMAIN refs = 1..Len(refs)
  <2>1. refs = references[t]
    BY <1>6 DEF Referred, Known
  <2>2. references[t] \in Seq(Nodes)
    BY <1>2, <1>6 DEF WalkTypeOK
  <2> QED BY <2>1, <2>2, LenProperties
<1> HIDE DEF refs, seen
<1>9. /\ next \in Seq(I) /\ (\A j \in DOMAIN next : next[j] \in I)
      /\ \A k \in I : \E j \in DOMAIN next : next[j] = k
  <2>1. PICK n \in Nat : n = Len(refs)
    BY <1>8
  <2>2. I \in SUBSET (1..n)
    BY <1>8, <2>1
  <2> HIDE DEF I
  <2>3. next \in Seq(I) /\ \A j \in DOMAIN next : next[j] \in I
    BY <2>2, OrderIsFull
  <2>4. \A k \in I : \E j \in DOMAIN next : next[j] = k
    BY <2>2, OrderIsFull
  <2> QED BY <2>3, <2>4
<1>10. \A j \in DOMAIN next : /\ Climbs(new[j], Head(matches)) /\ new[j] \in Paths
                              /\ Head(new[j]).type = refs[next[j]].type
  <2> SUFFICES ASSUME NEW j \in DOMAIN next
               PROVE  /\ Climbs(new[j], Head(matches)) /\ new[j] \in Paths
                      /\ Head(new[j]).type = refs[next[j]].type
    OBVIOUS
  <2>1. PICK k \in DOMAIN references[t] : k = next[j]
    BY <1>8, <1>9
  <2>2. new[j] = <<references[t][k]>> \o path
    BY <1>8, <2>1
  <2>3. PICK e : e = Head(matches)
    OBVIOUS
  <2>4. LET up == <<references[Head(path).type][k]>> \o path IN
        Climbs(up, e) /\ Head(up).type = references[Head(path).type][k].type
    BY <1>2, <1>5, <2>3, OneUp
  <2>5. Climbs(new[j], Head(matches)) /\ Head(new[j]).type = references[t][k].type
    BY <2>2, <2>3, <2>4
  <2> QED BY <1>8, <2>1, <2>5 DEF Climbs
<1>11. new \in Seq(Paths) /\ DOMAIN new = DOMAIN next
  <2>1. PICK n \in Nat : DOMAIN next = 1..n
    BY <1>9, LenProperties
  <2>2. DOMAIN new = 1..n /\ \A j \in 1..n : new[j] \in Paths
    BY <1>10, <2>1
  <2>3. new = [j \in 1..n |-> new[j]]
    BY <2>1
  <2> HIDE DEF new
  <2> QED BY <2>1, <2>2, <2>3
<1>n. queue' = Tail(queue) \o new
  BY <1>0
<1> HIDE DEF new, Paths
<1>12. /\ queue' \in Seq(Paths)
       /\ DOMAIN queue' = 1..(Len(Tail(queue)) + Len(new))
       /\ Len(Tail(queue)) \in Nat /\ Len(new) \in Nat
       /\ \A i \in 1..Len(Tail(queue)) : queue'[i] = Tail(queue)[i]
       /\ \A i \in 1..Len(new) : queue'[Len(Tail(queue)) + i] = new[i]
       /\ \A i \in DOMAIN queue' :
              \/ i \in 1..Len(Tail(queue)) /\ queue'[i] = Tail(queue)[i]
              \/ i - Len(Tail(queue)) \in 1..Len(new) /\ queue'[i] = new[i - Len(Tail(queue))]
  BY <1>4, <1>11, <1>n, Joined
<1>13. DOMAIN Tail(queue) = 1..Len(Tail(queue)) /\ DOMAIN new = 1..Len(new)
  BY <1>4, <1>11, LenProperties
<1>14. ClimbTypeOK'
  BY <1>1, <1>2, <1>6, <1>7, <1>12, EmptySeq DEF ClimbTypeOK
<1>15. PathsClimb'
  <2>1. ASSUME NEW i \in DOMAIN queue' PROVE Climbs(queue'[i], Head(matches))
    <3>1. CASE i \in 1..Len(Tail(queue)) /\ queue'[i] = Tail(queue)[i]
      BY <1>2, <1>4, <1>13, <3>1 DEF PathsClimb
    <3>2. CASE i - Len(Tail(queue)) \in 1..Len(new) /\ queue'[i] = new[i - Len(Tail(queue))]
      BY <1>10, <1>11, <1>13, <3>2
    <3> QED BY <1>12, <3>1, <3>2
  <2> QED BY <1>1, <1>7, <2>1 DEF PathsClimb
<1>16. Heads \subseteq Heads' \cup {t}
  <2> SUFFICES ASSUME NEW i \in DOMAIN queue PROVE Head(queue[i]).type \in Heads' \cup {t}
    BY DEF Heads
  <2>1. CASE i = 1
    BY <1>4, <2>1
  <2>2. CASE i # 1
    <3>1. i - 1 \in DOMAIN Tail(queue) /\ Tail(queue)[i - 1] = queue[i]
      BY <1>4, <2>2
    <3>2. i - 1 \in 1..Len(Tail(queue)) /\ queue'[i - 1] = queue[i]
      BY <1>12, <1>13, <3>1
    <3>3. i - 1 \in DOMAIN queue'
      BY <1>12, <3>2
    <3> QED BY <3>2, <3>3 DEF Heads
  <2> QED BY <2>1, <2>2
<1>17. \A j \in DOMAIN next : refs[next[j]].type \in Heads'
  <2> SUFFICES ASSUME NEW j \in DOMAIN next PROVE refs[next[j]].type \in Heads'
    OBVIOUS
  <2>1. j \in 1..Len(new) /\ queue'[Len(Tail(queue)) + j] = new[j]
    BY <1>11, <1>12, <1>13
  <2>2. Len(Tail(queue)) + j \in DOMAIN queue'
    BY <1>12, <2>1
  <2> QED BY <1>10, <2>1, <2>2 DEF Heads
<1>18. From(t) \subseteq visited' \cup Heads'
  <2> SUFFICES ASSUME NEW k \in DOMAIN refs PROVE refs[k].type \in visited' \cup Heads'
    BY <1>8 DEF From
  <2>1. CASE Followed(seen, refs[k])
    <3>1. PICK j \in DOMAIN next : next[j] = k
      BY <1>9, <2>1
    <3> QED BY <1>17, <3>1
  <2>2. CASE ~Followed(seen, refs[k])
    BY <1>1, <2>2 DEF Followed, seen
  <2> QED BY <2>1, <2>2
<1>19. WayFound' \/ StillClimbing'
  <2>1. CASE WayFound
    BY <1>1, <1>7, <2>1 DEF WayFound, EndOf
  <2>2. CASE StillClimbing
    <3>1. visited \cup Heads \subseteq visited' \cup Heads'
      BY <1>1, <1>16
    <3>2. \A u \in visited' : references[u] # <<>> /\ From(u) \subseteq visited' \cup Heads'
      BY <1>1, <1>8, <1>18, <2>2, <3>1 DEF StillClimbing, refs
    <3>3. asked.type \in visited' \cup Heads'
      BY <2>2, <3>1 DEF StillClimbing
    <3> QED BY <1>1, <1>7, <2>2, <3>2, <3>3 DEF StillClimbing
  <2> QED BY <1>1, <2>1, <2>2 DEF ClimbInv
<1> QED BY <1>1, <1>3, <1>14, <1>15, <1>19 DEF ClimbInv

\* The climb from the best match does not end before a way is found: whatever it has
\* visited would otherwise refer to itself in a circle.
LEMMA BestMatchIsFound ==
  ASSUME ClimbInv, Climbed
  PROVE  WayFound
<1> SUFFICES ASSUME ~WayFound PROVE FALSE
  OBVIOUS
<1>1. StillClimbing /\ visited \subseteq Known /\ Acyclic
  BY DEF Climbed, ClimbInv, ClimbTypeOK, WalkInv
<1>2. queue = <<>>
  <2>1. MaxPaths \in Nat /\ MaxPaths > 0 /\ count = 0
    BY <1>1, IndexAssumption DEF StillClimbing
  <2>2. ~(count >= MaxPaths)
    BY <2>1
  <2> QED BY <2>2 DEF Climbed
<1>3. Heads = {}
  BY <1>2, EmptySeq DEF Heads
<1>4. visited # {} /\ \A t \in visited : references[t] # <<>> /\ From(t) \subseteq visited
  BY <1>1, <1>3 DEF StillClimbing
<1>5. PICK t \in visited : From(t) \cap visited = {}
  BY <1>1, <1>4 DEF Acyclic
<1>6. references[t] \in Seq(Nodes) /\ references[t] # <<>>
  BY <1>1, <1>4 DEF ClimbInv, WalkInv, WalkTypeOK
<1>7. 1 \in DOMAIN references[t]
  BY <1>6, LastAndFront
<1>8. references[t][1].type \in From(t)
  BY <1>7 DEF From
<1> QED BY <1>4, <1>5, <1>8

\* The next match is climbed from, or the search is over.
LEMMA ClimbedStep ==
  ASSUME ClimbInv, Climbed
  PROVE  ClimbInv'
<1>1. /\ step = "climbing" /\ matches' = Tail(matches) /\ visited' = {} /\ count' = 0
      /\ IF matches' = <<>> THEN step' = "showing" /\ queue' = <<>>
         ELSE step' = step /\ queue' = <<<<End(matches'[1])>>>>
      /\ UNCHANGED <<mutations, found, asked, walkVars>>
  BY DEF Climbed
<1>2. WalkInv /\ WalkTypeOK /\ ClimbTypeOK /\ stack = <<>>
  BY <1>1 DEF ClimbInv, WalkInv, WalkTypeOK
<1>3. WalkInv'
  BY <1>1, <1>2, WalkStays
<1>4. Known' = Known /\ Roots' = Roots
  BY <1>1, IndexStays
<1>5. WayFound'
  BY <1>1, <1>4, BestMatchIsFound DEF WayFound, EndOf
<1>6. matches' \in Seq(Known)
  <2>1. matches \in Seq(Known) /\ matches # <<>>
    BY <1>1, <1>2 DEF ClimbTypeOK
  <2> QED BY <1>1, <2>1, HeadTailProperties
<1>7. CASE matches' = <<>>
  <2>1. step' = "showing" /\ queue' = <<>> /\ queue' \in Seq(Paths)
    BY <1>1, <1>7, EmptySeq
  <2>2. ClimbTypeOK'
    BY <1>1, <1>4, <1>6, <2>1 DEF ClimbTypeOK
  <2>3. PathsClimb'
    BY <2>1, EmptySeq DEF PathsClimb
  <2> QED BY <1>3, <1>5, <2>1, <2>2, <2>3 DEF ClimbInv
<1>8. CASE matches' # <<>>
  <2>1. Head(matches') = matches'[1] /\ matches'[1] \in Known
    <3>1. Len(matches') \in Nat \ {0} /\ DOMAIN matches' = 1..Len(matches')
      BY <1>6, <1>8, LastAndFront
    <3>2. 1 \in 1..Len(matches')
      BY <3>1
    <3>3. matches'[1] \in Known
      BY <1>6, <3>2, ElementOfSeq
    <3> QED BY <1>6, <1>8, <3>3
  <2>2. PICK t \in Known : t = matches'[1]
    BY <2>1
  <2>3. step' = "climbing" /\ queue' = <<<<End(t)>>>>
    BY <1>1, <1>8, <2>2
  <2>4. /\ queue' \in Seq(Paths) /\ DOMAIN queue' = {1} /\ Len(queue'[1]) = 1
        /\ EndOf(queue'[1]) = t /\ Head(queue'[1]).type = t /\ queue'[1][1].type = t
        /\ DOMAIN queue'[1] = {1}
    BY <1>2, <2>3, StartOfClimb
  <2>5. ClimbTypeOK'
    BY <1>1, <1>4, <1>6, <1>8, <2>3, <2>4 DEF ClimbTypeOK
  <2>6. PathsClimb'
    <3>1. PICK p : p = queue'[1]
      OBVIOUS
    <3>2. p \in Paths
      BY <2>4, <3>1, ElementOfSeq, LenProperties
    <3>3. Climbs(p, t)
      BY <2>4, <3>1, <3>2 DEF Climbs
    <3>4. Climbs(p, t)'
      BY <1>1, <3>3, IndexStays
    <3> QED BY <2>1, <2>2, <2>4, <3>1, <3>4 DEF PathsClimb
  <2> QED BY <1>3, <1>5, <2>3, <2>5, <2>6 DEF ClimbInv
<1> QED BY <1>7, <1>8

-----------------------------------------------------------------------------
\* The invariant of the index and its searches.
LEMMA ClimbInvariant == IndexSpec => []ClimbInv
<1>1. IndexInit => ClimbInv
  <2> SUFFICES ASSUME IndexInit PROVE ClimbInv
    OBVIOUS
  <2>1. step = "indexing" /\ matches = <<>> /\ queue = <<>> /\ visited = {} /\ count = 0
    BY DEF IndexInit
  <2>2. ClimbTypeOK
    BY <2>1 DEF ClimbTypeOK
  <2>3. PathsClimb
    BY <2>1, EmptySeq DEF PathsClimb
  <2> QED BY <2>1, <2>2, <2>3, WalkStarts DEF ClimbInv
<1>2. ClimbInv /\ [IndexNext]_indexVars => ClimbInv'
  <2> SUFFICES ASSUME ClimbInv, [IndexNext]_indexVars PROVE ClimbInv'
    OBVIOUS
  <2>1. CASE Visit
    BY <2>1, VisitLeavesClimb
  <2>2. CASE Indexed
    <3>1. /\ step = "indexing" /\ stack = <<>> /\ step' = "ready"
          /\ UNCHANGED <<mutations, walkVars, climbVars>>
      BY <2>2 DEF Indexed
    <3>2. WalkInv'
      BY <3>1, WalkStays DEF ClimbInv
    <3> QED BY <3>1, <3>2, ClimbStays DEF ClimbInv
  <2>3. CASE Republish
    <3>1. /\ step # "indexing" /\ step' = step
          /\ UNCHANGED <<mutations, walkVars, climbVars, asked>>
      BY <2>3 DEF Republish
    <3>2. /\ stack = <<>>
          /\ step' \in {"ready", "climbing", "showing", "searched", "introspected"}
      BY <3>1 DEF ClimbInv, WalkInv, WalkTypeOK
    <3>3. WalkInv'
      BY <3>1, <3>2, WalkStays DEF ClimbInv
    <3> QED BY <3>1, <3>3, ClimbStays DEF ClimbInv
  <2>4. CASE Search
    BY <2>4, SearchStep
  <2>5. CASE Climb
    <3>1. PICK path : path = Head(queue)
      OBVIOUS
    <3>2. PICK t : t = Head(path).type
      OBVIOUS
    <3>3. CASE Referred(t) = <<>>
      BY <2>5, <3>1, <3>2, <3>3, RootStep
    <3>4. CASE Referred(t) # <<>>
      BY <2>5, <3>1, <3>2, <3>4, UpStep
    <3> QED BY <3>3, <3>4
  <2>6. CASE Climbed
    BY <2>6, ClimbedStep
  <2>7. CASE Shown
    <3>1. /\ step = "showing" /\ step' = "searched"
          /\ UNCHANGED <<mutations, walkVars, climbVars, asked>>
      BY <2>7 DEF Shown
    <3>2. stack = <<>>
      BY <3>1 DEF ClimbInv, WalkInv, WalkTypeOK
    <3>3. WalkInv'
      BY <3>1, <3>2, WalkStays DEF ClimbInv
    <3> QED BY <3>1, <3>3, ClimbStays DEF ClimbInv
  <2>8. CASE Introspected
    <3>1. /\ step = "ready" /\ step' = "introspected"
          /\ UNCHANGED <<mutations, walkVars, climbVars>>
      BY <2>8 DEF Introspected
    <3>2. stack = <<>>
      BY <3>1 DEF ClimbInv, WalkInv, WalkTypeOK
    <3>3. WalkInv'
      BY <3>1, <3>2, WalkStays DEF ClimbInv
    <3> QED BY <3>1, <3>3, ClimbStays DEF ClimbInv
  <2>9. CASE UNCHANGED indexVars
    <3>1. /\ step' = step /\ schema' = schema
          /\ UNCHANGED <<mutations, walkVars, climbVars, asked>>
      BY <2>9 DEF indexVars
    <3>2. WalkInv'
      BY <3>1, WalkUnchanged DEF ClimbInv
    <3> QED BY <3>1, <3>2, ClimbStays DEF ClimbInv
  <2> QED BY <2>1, <2>2, <2>3, <2>4, <2>5, <2>6, <2>7, <2>8, <2>9 DEF IndexNext
<1> QED BY <1>1, <1>2, PTL DEF IndexSpec

\* No path of a climb meets a type twice, whatever the schema: the loop of
\* SchemaIndex::search ends, because references have no cycle.
THEOREM ClimbsAreFinite == IndexSpec => []ClimbsEnd
<1>1. ClimbInv => ClimbsEnd
  <2> SUFFICES ASSUME ClimbInv, NEW q \in DOMAIN queue, NEW i \in DOMAIN queue[q],
                      NEW j \in DOMAIN queue[q], i # j, queue[q][i].type = queue[q][j].type
               PROVE  FALSE
    BY DEF ClimbsEnd, Repeats
  <2> DEFINE p == queue[q]
  <2>1. Climbs(p, Head(matches)) /\ Acyclic
    BY DEF ClimbInv, PathsClimb, WalkInv
  <2> HIDE DEF p
  <2>2. Len(p) \in Nat /\ DOMAIN p = 1..Len(p)
    BY <2>1, EndOfPath DEF Climbs
  <2>3. PICK a \in 1..Len(p), b \in 1..Len(p) : a < b /\ p[a].type = p[b].type
    <3>1. i < j \/ j < i
      BY <2>2 DEF p
    <3> QED BY <2>2, <3>1 DEF p
  <2> DEFINE S == {p[k].type : k \in (a + 1)..b}
  <2>4. ASSUME NEW k \in (a + 1)..b PROVE p[k].type \in Known /\ p[k - 1].type \in From(p[k].type) \cap S
    <3>1. k \in DOMAIN p /\ k - 1 \in 1..(Len(p) - 1) /\ (k - 1) + 1 = k
      BY <2>2, <2>3
    <3>2. p[k].type \in Known /\ p[k - 1].type \in From(p[k].type)
      BY <2>1, <3>1 DEF Climbs
    <3>3. CASE k = a + 1
      <4>1. p[k - 1].type = p[b].type /\ b \in (a + 1)..b
        BY <2>3, <3>3
      <4> QED BY <3>2, <4>1
    <3>4. CASE k # a + 1
      <4>1. k - 1 \in (a + 1)..b
        BY <2>3, <3>4
      <4> QED BY <3>2, <4>1
    <3> QED BY <3>3, <3>4
  <2>5. S \in SUBSET Known /\ S # {}
    <3>1. b \in (a + 1)..b
      BY <2>3
    <3> QED BY <2>4, <3>1
  <2>6. PICK t \in S : From(t) \cap S = {}
    BY <2>1, <2>5 DEF Acyclic
  <2> QED BY <2>4, <2>6
<1> QED BY <1>1, ClimbInvariant, PTL

\* Once built, the index knows exactly the types an operation can reach, whatever the
\* schema, and a search finds a way from a root type to its best match.
THEOREM TypesAreFound == IndexSpec => []EveryTypeIsFound
<1>1. ClimbInv => EveryTypeIsFound
  <2> SUFFICES ASSUME ClimbInv PROVE EveryTypeIsFound
    OBVIOUS
  <2>1. ASSUME step = "ready"
        PROVE  /\ ReachesOut(Known)
               /\ \A T \in SUBSET Known : ReachesOut(T) => T = Known
    <3>1. /\ stack = <<>> /\ Known \subseteq DOMAIN indexed.kind
          /\ NothingForgotten /\ NothingElse
      BY <2>1 DEF ClimbInv, WalkInv, WalkTypeOK
    <3>2. Pending = {}
      BY <3>1, EmptySeq DEF Pending
    <3>3. ReachesOut(Known)
      BY <3>1, <3>2 DEF NothingForgotten, ReachesOut
    <3>4. ASSUME NEW T \in SUBSET Known, ReachesOut(T) PROVE T = Known
      <4>1. T \in SUBSET DOMAIN indexed.kind
        BY <3>1
      <4>2. (Known \cup Pending) \cap DOMAIN indexed.kind \subseteq T
        BY <3>1, <3>4, <4>1 DEF NothingElse
      <4> QED BY <3>1, <4>2
    <3> QED BY <3>3, <3>4
  <2>2. step \in {"showing", "searched"} => WayFound
    BY DEF ClimbInv
  <2> QED BY <2>1, <2>2 DEF EveryTypeIsFound, Known, WayFound
<1> QED BY <1>1, ClimbInvariant, PTL

-----------------------------------------------------------------------------
(* SchemaSearch *)

\* A node that an operation can be written from: of an output type, with input types for
\* its arguments.
GoodNode(s, n) ==
  /\ ~IsInput(s, n.type)
  /\ IsFiniteSet(n.args) /\ \A a \in n.args \cap DOMAIN s.kind : IsInput(s, a)
GoodPath(s, p) == (\A k \in DOMAIN p : GoodNode(s, p[k])) /\ p[Len(p)].field = NoField

\* The walk and the climb handle good nodes only, and a root path begins at a root type.
PathsInv ==
  /\ indexed \in Schemas /\ schema \in Schemas \cup Updates
  /\ \A i \in DOMAIN stack : GoodPath(indexed, stack[i])
  /\ \A t \in Known :
       ~IsInput(indexed, t) /\ \A k \in DOMAIN references[t] : GoodNode(indexed, references[t][k])
  /\ \A i \in DOMAIN queue : GoodPath(indexed, queue[i])
  /\ IsFiniteSet(found)
  /\ \A p \in found :
       /\ p \in Paths /\ GoodPath(indexed, p) /\ Head(p).type \in Roots
       /\ \A k \in DOMAIN p : p[k].type \in Known

Depths == Nat \cup {Unlimited}
Calls == [type : Words, field : Words, depth : Depths, args : SUBSET Words, argDepth : Depths]

\* The types that the calls ahead retain, each to a depth.
Asks(c) == {<<c.type, c.depth>>} \cup {<<a, c.argDepth>> : a \in c.args}
Ahead == UNION {Asks(c) : c \in ToSet(calls)}
AheadTypes == {x[1] : x \in Ahead}

LookupTypeOK ==
  /\ shown \in Schemas \cup Updates
  /\ used \subseteq found /\ todo \in Seq(used)
  /\ calls \in Seq(Calls) /\ \A c \in ToSet(calls) : IsFiniteSet(c.args)
  /\ shaker \in [kept : SUBSET DOMAIN shown.kind, cut : SUBSET Words, names : SUBSET (Words \X Words)]
  /\ step \notin {"searched", "introspected"} =>
       used = {} /\ todo = <<>> /\ calls = <<>> /\ shaker = Untouched

\* To a depth: what is retained, and what the calls ahead will retain, is near enough, and
\* what is near enough is retained or near enough to a type that is called for.
LimitedInv ==
  LET near(n) == Within(shown, asked.type, n)
  IN /\ \A x \in Ahead : x[2] \in 1..asked.depth
     /\ \A x \in Ahead : x[1] \in DOMAIN shown.kind => x[1] \in near(asked.depth - x[2])
     /\ shaker.kept \subseteq near(asked.depth - 1)
     /\ \A u \in near(asked.depth - 1) :
          u \in shaker.kept \/ \E x \in Ahead : u \in Within(shown, x[1], x[2] - 1)

\* Without a limit: whatever a retained type refers to is retained or called for, and
\* nothing is that is not in every closed set with the type.
UnlimitedInv ==
  /\ \A x \in Ahead : x[2] = Unlimited
  /\ asked.type \in shaker.kept \cup AheadTypes
  /\ \A t \in shaker.kept : Refers(shown, t) \subseteq shaker.kept \cup AheadTypes
  /\ \A T \in SUBSET DOMAIN shown.kind :
       asked.type \in T /\ Closed(shown, T) =>
         (shaker.kept \cup AheadTypes) \cap DOMAIN shown.kind \subseteq T

IntrospectInv ==
  step = "introspected" =>
    /\ asked.type \in DOMAIN shown.kind /\ asked.depth \in Nat
    /\ todo = <<>> /\ shaker.cut = {}
    /\ \A c \in ToSet(calls) : c.field = NoField
    /\ IF asked.depth = 0 THEN UnlimitedInv ELSE LimitedInv

\* The input types that are still to be retained without a limit.
InputsAhead == {u \in DOMAIN shown.kind : <<u, Unlimited>> \in Ahead}

\* A node of a root path is retained or called for, and so are its arguments.
NodeServed(n) ==
  /\ \/ n.type \in shaker.kept /\ (n.field # NoField => <<n.type, n.field>> \in shaker.names)
     \/ \E c \in ToSet(calls) : c.type = n.type /\ c.field = n.field
  /\ n.args \cap DOMAIN shown.kind \subseteq shaker.kept \cup InputsAhead

\* Output types are retained one by one and input types without a limit; so what a retained
\* input type refers to is retained or called for.
UsableInv ==
  step = "searched" /\ shown = indexed =>
    /\ \A c \in ToSet(calls) :
         /\ c.argDepth = Unlimited
         /\ c.depth = 1 \/ (c.depth = Unlimited /\ c.field = NoField)
    /\ \A x \in Ahead : x[1] \in DOMAIN shown.kind => (x[2] = Unlimited <=> IsInput(shown, x[1]))
    /\ \A t \in shaker.kept : IsInput(shown, t) => Refers(shown, t) \subseteq shaker.kept \cup InputsAhead
    /\ \A p \in used : p \in ToSet(todo) \/ \A k \in DOMAIN p : NodeServed(p[k])

-----------------------------------------------------------------------------
\* The nodes of a path that add_child made: those of the path, the last one with the field.
LEMMA FurtherNodes ==
  ASSUME NEW path \in Paths, NEW f \in Words, NEW args \in SUBSET Words, NEW u \in Words
  PROVE  LET child == Extend(path, f, args, u) IN
         /\ Len(child) = Len(path) + 1 /\ DOMAIN child = 1..(Len(path) + 1)
         /\ \A k \in 1..(Len(path) - 1) : child[k] = path[k]
         /\ child[Len(path)] = Node(EndOf(path), f, args) /\ child[Len(path) + 1] = End(u)
<1> DEFINE node == Node(EndOf(path), f, args)
           last == End(u)
           most == Append(Front(path), node)
           child == Append(most, last)
<1>1. Len(path) \in Nat \ {0}
  BY EndOfPath
<1>2. node \in Nodes /\ last \in Nodes
  BY EndOfPath, NodesMade
<1>c. child = Extend(path, f, args, u)
  BY DEF Extend
<1>3. /\ Front(path) \in Seq(Nodes) /\ Len(Front(path)) = Len(path) - 1
      /\ \A k \in 1..(Len(path) - 1) : Front(path)[k] = path[k]
  BY LastAndFront DEF Paths
<1> HIDE DEF node, last
<1>4. /\ most \in Seq(Nodes) /\ Len(most) = Len(path)
      /\ most[Len(path)] = node
      /\ \A k \in 1..(Len(path) - 1) : most[k] = path[k]
  <2>1. /\ most \in Seq(Nodes) /\ Len(most) = (Len(path) - 1) + 1
        /\ most[(Len(path) - 1) + 1] = node
        /\ \A k \in 1..(Len(path) - 1) : most[k] = Front(path)[k]
    BY <1>2, <1>3, AppendProperties
  <2> QED BY <1>1, <1>3, <2>1
<1> HIDE DEF most
<1>5. /\ child \in Seq(Nodes) /\ Len(child) = Len(path) + 1
      /\ child[Len(path) + 1] = last
      /\ \A k \in 1..Len(path) : child[k] = most[k]
  BY <1>2, <1>4, AppendProperties
<1>6. DOMAIN child = 1..(Len(path) + 1)
  BY <1>5, LenProperties
<1> HIDE DEF child
<1>7. child[Len(path)] = node /\ \A k \in 1..(Len(path) - 1) : child[k] = path[k]
  BY <1>1, <1>4, <1>5
<1> QED BY <1>c, <1>5, <1>6, <1>7 DEF node, last

\* What a schema that was validated is like, one type at a time.
LEMMA TypesAreValid ==
  ASSUME NEW s \in Schemas \cup Updates, NEW t \in DOMAIN s.kind
  PROVE  /\ s.fields[t] \in Seq(Fields) /\ s.members[t] \in Seq(DOMAIN s.kind)
         /\ t \in Words
         /\ \A i \in DOMAIN s.members[t] :
              s.members[t][i] \in DOMAIN s.kind /\ ~IsInput(s, s.members[t][i])
         /\ \A i \in DOMAIN s.fields[t] :
              /\ s.fields[t][i].name \in Words /\ s.fields[t][i].type \in Words
              /\ s.fields[t][i].args \in SUBSET Words /\ IsFiniteSet(s.fields[t][i].args)
              /\ s.fields[t][i].type \in DOMAIN s.kind
                   => (IsInput(s, t) <=> IsInput(s, s.fields[t][i].type))
              /\ IsInput(s, t) => s.fields[t][i].args = {}
              /\ \A a \in s.fields[t][i].args \cap DOMAIN s.kind : IsInput(s, a)
<1>1. ValidSchema(s) /\ WellTyped(s)
  BY SearchAssumption
<1>2. s.fields[t] \in Seq(Fields) /\ s.members[t] \in Seq(DOMAIN s.kind) /\ t \in Words
  BY <1>1 DEF ValidSchema, Words
<1>3. ASSUME NEW i \in DOMAIN s.members[t]
      PROVE  s.members[t][i] \in DOMAIN s.kind /\ ~IsInput(s, s.members[t][i])
  <2>1. s.members[t][i] \in DOMAIN s.kind
    BY <1>2, LenProperties, ElementOfSeq
  <2> QED BY <1>1, <2>1 DEF WellTyped, InputsApart
<1>4. ASSUME NEW i \in DOMAIN s.fields[t]
      PROVE  /\ s.fields[t][i].name \in Words /\ s.fields[t][i].type \in Words
             /\ s.fields[t][i].args \in SUBSET Words
  <2>1. s.fields[t][i] \in Fields
    BY <1>2, LenProperties, ElementOfSeq
  <2> QED BY <2>1 DEF Fields, Words
<1>5. ASSUME NEW i \in DOMAIN s.fields[t]
      PROVE  /\ IsFiniteSet(s.fields[t][i].args)
             /\ s.fields[t][i].type \in DOMAIN s.kind
                  => (IsInput(s, t) <=> IsInput(s, s.fields[t][i].type))
             /\ IsInput(s, t) => s.fields[t][i].args = {}
             /\ \A a \in s.fields[t][i].args \cap DOMAIN s.kind : IsInput(s, a)
  BY <1>1 DEF WellTyped, InputsApart
<1> QED BY <1>2, <1>3, <1>4, <1>5

\* The children of a good path are good.
LEMMA ChildrenAreGood ==
  ASSUME schema = indexed, indexed \in Schemas,
         NEW path \in Paths, GoodPath(indexed, path), EndOf(path) \in DOMAIN schema.kind,
         NEW i \in DOMAIN Children(path)
  PROVE  GoodPath(indexed, Children(path)[i])
<1> DEFINE t == EndOf(path)
           fields == IF schema.kind[t] \in {"object", "interface"} THEN schema.fields[t] ELSE <<>>
           members == schema.members[t]
           child(k) == Extend(path, fields[k].name, fields[k].args, fields[k].type)
           member(k) == Extend(path, NoField, {}, members[k])
           a == [k \in DOMAIN fields |-> child(k)]
           b == [k \in DOMAIN members |-> member(k)]
<1>0. Children(path) = a \o b
  BY DEF Children
<1>1. /\ Len(path) \in Nat \ {0} /\ DOMAIN path = 1..Len(path) /\ t = path[Len(path)].type
      /\ ~IsInput(indexed, t)
  <2>1. Len(path) \in Nat \ {0} /\ DOMAIN path = 1..Len(path) /\ t = path[Len(path)].type
    BY EndOfPath
  <2>2. Len(path) \in DOMAIN path
    BY <2>1
  <2> QED BY <2>1, <2>2 DEF GoodPath, GoodNode
<1>n. NoField \in Words /\ {} \in SUBSET Words
  BY DEF Words
\* a path further is good
<1>2. ASSUME NEW f \in Words, NEW args \in SUBSET Words, NEW u \in Words,
             IsFiniteSet(args), \A x \in args \cap DOMAIN indexed.kind : IsInput(indexed, x),
             ~IsInput(indexed, u)
      PROVE  GoodPath(indexed, Extend(path, f, args, u))
  <2> DEFINE c == Extend(path, f, args, u)
  <2>1. /\ Len(c) = Len(path) + 1 /\ DOMAIN c = 1..(Len(path) + 1)
        /\ \A k \in 1..(Len(path) - 1) : c[k] = path[k]
        /\ c[Len(path)] = Node(EndOf(path), f, args) /\ c[Len(path) + 1] = End(u)
    BY FurtherNodes
  <2>2. GoodNode(indexed, Node(EndOf(path), f, args))
    BY <1>1, <1>2 DEF GoodNode, Node
  <2>3. GoodNode(indexed, End(u)) /\ End(u).field = NoField
    BY <1>2, FS_EmptySet DEF GoodNode, Node, End
  <2> HIDE DEF c
  <2>4. ASSUME NEW k \in DOMAIN c PROVE GoodNode(indexed, c[k])
    <3>1. CASE k \in 1..(Len(path) - 1)
      <4>1. k \in DOMAIN path /\ c[k] = path[k]
        BY <1>1, <2>1, <3>1
      <4> QED BY <4>1 DEF GoodPath
    <3>2. CASE k = Len(path)
      BY <2>1, <2>2, <3>2
    <3>3. CASE k = Len(path) + 1
      BY <2>1, <2>3, <3>3
    <3>4. k \in 1..(Len(path) - 1) \/ k = Len(path) \/ k = Len(path) + 1
      BY <1>1, <2>1
    <3> QED BY <3>1, <3>2, <3>3, <3>4
  <2>5. GoodPath(indexed, c)
    BY <2>1, <2>3, <2>4 DEF GoodPath
  <2> QED BY <2>5 DEF c
<1>3. fields \in Seq(Fields) /\ members \in Seq(DOMAIN schema.kind)
  <2>1. schema.fields[t] \in Seq(Fields) /\ members \in Seq(DOMAIN schema.kind)
    BY TypesAreValid
  <2>2. <<>> \in Seq(Fields)
    BY EmptySeq
  <2> QED BY <2>1, <2>2
<1>f. /\ Len(fields) \in Nat /\ DOMAIN fields = 1..Len(fields)
      /\ Len(members) \in Nat /\ DOMAIN members = 1..Len(members)
  BY <1>3, LenProperties
<1>4. ASSUME NEW k \in DOMAIN fields
      PROVE  /\ fields[k].name \in Words /\ fields[k].args \in SUBSET Words /\ fields[k].type \in Words
             /\ IsFiniteSet(fields[k].args)
             /\ \A x \in fields[k].args \cap DOMAIN indexed.kind : IsInput(indexed, x)
             /\ ~IsInput(indexed, fields[k].type)
  <2>1. k \in DOMAIN schema.fields[t] /\ fields[k] = schema.fields[t][k]
    <3>1. CASE schema.kind[t] \in {"object", "interface"}
      BY <3>1
    <3>2. CASE schema.kind[t] \notin {"object", "interface"}
      BY <1>f, <3>2, EmptySeq
    <3> QED BY <3>1, <3>2
  <2>2. /\ schema.fields[t][k].type \in DOMAIN schema.kind
             => (IsInput(schema, t) <=> IsInput(schema, schema.fields[t][k].type))
    BY <2>1, TypesAreValid
  <2>3. /\ schema.fields[t][k].name \in Words /\ schema.fields[t][k].type \in Words
        /\ schema.fields[t][k].args \in SUBSET Words /\ IsFiniteSet(schema.fields[t][k].args)
        /\ \A x \in schema.fields[t][k].args \cap DOMAIN schema.kind : IsInput(schema, x)
    BY <2>1, TypesAreValid
  <2>4. ~IsInput(indexed, schema.fields[t][k].type)
    BY <1>1, <2>2 DEF IsInput
  <2> HIDE DEF fields
  <2> QED BY <2>1, <2>3, <2>4
<1>5. ASSUME NEW k \in DOMAIN members
      PROVE  members[k] \in Words /\ ~IsInput(indexed, members[k])
  <2>1. members[k] \in DOMAIN schema.kind /\ ~IsInput(schema, members[k])
    BY TypesAreValid
  <2>2. members[k] \in Words
    BY <2>1, TypesAreValid
  <2> QED BY <2>1, <2>2
<1>6. \A k \in DOMAIN fields : GoodPath(indexed, child(k)) /\ child(k) \in Paths
  BY <1>2, <1>4, OneFurther
<1>7. \A k \in DOMAIN members : GoodPath(indexed, member(k)) /\ member(k) \in Paths
  BY <1>2, <1>5, <1>n, FS_EmptySet, OneFurther
<1> HIDE DEF child, member
<1>8. /\ a \in Seq(Paths) /\ Len(a) = Len(fields) /\ \A k \in 1..Len(fields) : a[k] = child(k)
      /\ b \in Seq(Paths) /\ Len(b) = Len(members) /\ \A k \in 1..Len(members) : b[k] = member(k)
  <2> HIDE DEF fields, members, Paths
  <2>1. a \in Seq(Paths) /\ Len(a) = Len(fields)
    BY <1>6, <1>f
  <2>2. b \in Seq(Paths) /\ Len(b) = Len(members)
    BY <1>7, <1>f
  <2> QED BY <1>f, <2>1, <2>2
<1> HIDE DEF a, b, Paths
<1>9. \/ i \in 1..Len(a) /\ (a \o b)[i] = a[i]
      \/ i - Len(a) \in 1..Len(b) /\ (a \o b)[i] = b[i - Len(a)]
  <2>1. i \in DOMAIN (a \o b)
    BY <1>0
  <2> QED BY <1>8, <2>1, Joined
<1> HIDE DEF fields, members
<1>10. CASE i \in 1..Len(a) /\ (a \o b)[i] = a[i]
  BY <1>0, <1>6, <1>8, <1>10, <1>f
<1>11. CASE i - Len(a) \in 1..Len(b) /\ (a \o b)[i] = b[i - Len(a)]
  BY <1>0, <1>7, <1>8, <1>11, <1>f
<1> QED BY <1>9, <1>10, <1>11

\* The walk adds good paths to the stack and good nodes to the references.
LEMMA VisitKeepsPaths ==
  ASSUME ClimbInv, PathsInv, Visit
  PROVE  PathsInv'
<1> DEFINE path == Last(stack)
           t == EndOf(path)
           new == IF t \in Known THEN <<>> ELSE Children(path)
           from == IF Len(path) > 1 THEN <<path[Len(path) - 1]>> ELSE <<>>
<1>1. /\ stack # <<>> /\ schema' = schema /\ mutations' = mutations /\ indexed' = indexed
      /\ UNCHANGED climbVars /\ step = "indexing"
  BY DEF Visit
<1>2. WalkTypeOK /\ ThroughKnown /\ stack \in Seq(Paths) /\ schema = indexed
  BY <1>1 DEF ClimbInv, WalkInv, WalkTypeOK
<1>3. /\ Len(stack) \in Nat \ {0} /\ DOMAIN stack = 1..Len(stack) /\ path = stack[Len(stack)]
      /\ path \in Paths /\ Front(stack) \in Seq(Paths) /\ Len(Front(stack)) = Len(stack) - 1
      /\ DOMAIN Front(stack) = 1..(Len(stack) - 1)
      /\ \A i \in 1..(Len(stack) - 1) : Front(stack)[i] = stack[i]
  BY <1>1, <1>2, TopOfStack
<1>4. GoodPath(indexed, path) /\ \A i \in DOMAIN Front(stack) : GoodPath(indexed, Front(stack)[i])
  BY <1>3 DEF PathsInv
<1>5. /\ Len(path) \in Nat \ {0} /\ DOMAIN path = 1..Len(path) /\ t = path[Len(path)].type
      /\ ~IsInput(indexed, t)
  <2>1. Len(path) \in Nat \ {0} /\ DOMAIN path = 1..Len(path) /\ t = path[Len(path)].type
    BY <1>3, EndOfPath
  <2>2. Len(path) \in DOMAIN path
    BY <2>1
  <2> QED BY <1>4, <2>1, <2>2 DEF GoodPath, GoodNode
\* the stack
<1>7. \A i \in DOMAIN stack' : GoodPath(indexed, stack'[i])
  <2>1. CASE Skipped(path)
    <3>1. stack' = Front(stack)
      BY <2>1 DEF Visit
    <3> QED BY <1>4, <3>1
  <2>2. CASE ~Skipped(path)
    <3>1. stack' = Front(stack) \o new /\ t \in DOMAIN indexed.kind
      BY <1>2, <2>2, VisitedPath
    <3>2. new \in Seq(Paths) /\ \A i \in DOMAIN new : GoodPath(indexed, new[i])
      <4>1. CASE t \in Known
        BY <4>1, EmptySeq, LenProperties
      <4>2. CASE t \notin Known
        <5>1. Children(path) \in Seq(Paths)
          BY <1>2, <1>3, <3>1, OneStepOn DEF WalkTypeOK
        <5>2. \A i \in DOMAIN Children(path) : GoodPath(indexed, Children(path)[i])
          BY <1>2, <1>3, <1>4, <3>1, ChildrenAreGood DEF PathsInv
        <5> QED BY <4>2, <5>1, <5>2
      <4> QED BY <4>1, <4>2
    <3> HIDE DEF new, path, t, Paths
    <3>3. ASSUME NEW i \in DOMAIN (Front(stack) \o new) PROVE GoodPath(indexed, (Front(stack) \o new)[i])
      <4>1. \/ i \in 1..Len(Front(stack)) /\ (Front(stack) \o new)[i] = Front(stack)[i]
            \/ i - Len(Front(stack)) \in 1..Len(new)
               /\ (Front(stack) \o new)[i] = new[i - Len(Front(stack))]
        BY <1>3, <3>2, Joined
      <4>2. DOMAIN new = 1..Len(new) /\ DOMAIN Front(stack) = 1..Len(Front(stack))
        BY <1>3, <3>2, LenProperties
      <4> QED BY <1>4, <3>2, <4>1, <4>2
    <3> QED BY <3>1, <3>3
  <2> QED BY <2>1, <2>2
\* the references
<1>8. \A u \in Known' :
        ~IsInput(indexed, u) /\ \A k \in DOMAIN references'[u] : GoodNode(indexed, references'[u][k])
  <2>1. CASE Skipped(path)
    <3>1. references' = references
      BY <2>1 DEF Visit
    <3> QED BY <3>1 DEF PathsInv, Known
  <2>2. CASE ~Skipped(path)
    <3>1. /\ Known' = Known \cup {t} /\ \A u \in Known \ {t} : references'[u] = references[u]
          /\ references'[t] = Referred(t) \o from
      BY <1>2, <2>2, VisitedPath
    <3>2. ASSUME NEW u \in Known', u # t, NEW k \in DOMAIN references'[u]
          PROVE  GoodNode(indexed, references'[u][k])
      BY <3>1, <3>2 DEF PathsInv
    <3>3. Referred(t) \in Seq(Nodes) /\ \A k \in DOMAIN Referred(t) : GoodNode(indexed, Referred(t)[k])
      <4>1. CASE t \in Known
        <5>1. Referred(t) = references[t]
          BY <4>1 DEF Referred, Known
        <5> QED BY <1>2, <4>1, <5>1 DEF PathsInv, WalkTypeOK
      <4>2. CASE t \notin Known
        <5>1. Referred(t) = <<>>
          BY <4>2 DEF Referred, Known
        <5> QED BY <5>1, EmptySeq
      <4> QED BY <4>1, <4>2
    <3>4. from \in Seq(Nodes) /\ \A k \in DOMAIN from : GoodNode(indexed, from[k])
      <4>1. CASE Len(path) > 1
        <5>1. Len(path) - 1 \in DOMAIN path /\ Len(path) - 1 \in 1..Len(path)
          BY <1>5, <4>1
        <5> DEFINE node == path[Len(path) - 1]
        <5>2. node \in Nodes /\ GoodNode(indexed, node) /\ from = <<node>>
          BY <1>3, <1>4, <4>1, <5>1, EndOfPath DEF GoodPath
        <5> HIDE DEF node, from, GoodNode
        <5>3. <<node>> \in Seq(Nodes) /\ DOMAIN <<node>> = {1} /\ <<node>>[1] = node
          BY <5>2
        <5> QED BY <5>2, <5>3
      <4>2. CASE ~(Len(path) > 1)
        BY <4>2, EmptySeq
      <4> QED BY <4>1, <4>2
    <3>5. ASSUME NEW k \in DOMAIN references'[t] PROVE GoodNode(indexed, references'[t][k])
      <4> HIDE DEF from, t, path, GoodNode
      <4>1. k \in DOMAIN (Referred(t) \o from) /\ references'[t][k] = (Referred(t) \o from)[k]
        BY <3>1
      <4>2. \/ k \in 1..Len(Referred(t)) /\ (Referred(t) \o from)[k] = Referred(t)[k]
            \/ k - Len(Referred(t)) \in 1..Len(from)
               /\ (Referred(t) \o from)[k] = from[k - Len(Referred(t))]
        BY <3>3, <3>4, <4>1, Joined
      <4>3. DOMAIN Referred(t) = 1..Len(Referred(t)) /\ DOMAIN from = 1..Len(from)
        BY <3>3, <3>4, LenProperties
      <4> QED BY <3>3, <3>4, <4>1, <4>2, <4>3
    <3>6. \A u \in Known' : ~IsInput(indexed, u)
      BY <1>5, <3>1 DEF PathsInv
    <3> QED BY <3>2, <3>5, <3>6
  <2> QED BY <2>1, <2>2
<1>9. Known \subseteq Known' /\ Roots' = Roots
  <2>1. DOMAIN references \subseteq DOMAIN references'
    BY DEF Visit
  <2> QED BY <1>1, <2>1 DEF Known, Roots
<1> HIDE DEF path, t, new, from
<1>12. queue' = queue /\ found' = found
  BY <1>1 DEF climbVars
<1> HIDE DEF GoodPath, GoodNode, Known, Roots, Paths, Visit
<1>13. \A p \in found' :
         /\ p \in Paths /\ GoodPath(indexed', p) /\ Head(p).type \in Roots'
         /\ \A k \in DOMAIN p : p[k].type \in Known'
  BY <1>1, <1>9, <1>12 DEF PathsInv
<1> QED BY <1>1, <1>7, <1>8, <1>12, <1>13 DEF PathsInv

\* A climb goes up by good nodes.
LEMMA ClimbKeepsPaths ==
  ASSUME ClimbInv, PathsInv, Climb
  PROVE  PathsInv'
<1>0. PICK path : path = Head(queue)
  OBVIOUS
<1>00. PICK t : t = Head(path).type
  OBVIOUS
<1>1. /\ step = "climbing" /\ queue # <<>>
      /\ UNCHANGED <<schema, mutations, walkVars>>
      /\ IF Referred(t) = <<>> THEN found' = found \cup {path} /\ queue' = Tail(queue)
         ELSE found' = found
  BY <1>0, <1>00 DEF Climb
<1>2. WalkInv /\ WalkTypeOK /\ ClimbTypeOK /\ PathsClimb /\ stack = <<>>
  BY <1>1 DEF ClimbInv, WalkInv, WalkTypeOK
<1>3. /\ path = queue[1] /\ 1 \in DOMAIN queue /\ Tail(queue) \in Seq(Paths) /\ path \in Paths
      /\ \A i \in DOMAIN Tail(queue) : i + 1 \in DOMAIN queue /\ Tail(queue)[i] = queue[i + 1]
  BY <1>0, <1>1, <1>2, HeadOfQueue
<1>4. GoodPath(indexed, path) /\ \A i \in DOMAIN Tail(queue) : GoodPath(indexed, Tail(queue)[i])
  BY <1>3 DEF PathsInv
<1>5. Climbs(path, Head(matches)) /\ t \in Known
  <2>1. Climbs(path, Head(matches))
    BY <1>2, <1>3 DEF PathsClimb
  <2>2. 1 \in DOMAIN path /\ Head(path) = path[1]
    BY <1>3, EndOfPath
  <2> QED BY <1>00, <2>1, <2>2 DEF Climbs
<1>6. /\ indexed' = indexed /\ stack' = stack /\ references' = references /\ Known' = Known
      /\ Roots' = Roots
  BY <1>1 DEF walkVars, Known, Roots
<1>8. \A i \in DOMAIN queue' : GoodPath(indexed, queue'[i])
  <2>1. CASE Referred(t) = <<>>
    BY <1>1, <1>4, <2>1
  <2>2. CASE Referred(t) # <<>>
    <3> DEFINE refs == Referred(t)
               I == {i \in DOMAIN refs : Followed(visited \cup {t}, refs[i])}
    <3>1. PICK next \in InOrder(I) : queue' = Tail(queue) \o [i \in DOMAIN next |-> <<refs[next[i]]>> \o path]
      BY <1>0, <1>00, <2>2 DEF Climb
    <3> DEFINE up == [i \in DOMAIN next |-> <<refs[next[i]]>> \o path]
    <3>2. refs = references[t] /\ refs \in Seq(Nodes) /\ Len(refs) \in Nat /\ DOMAIN refs = 1..Len(refs)
      <4>1. refs = references[t]
        BY <1>5 DEF Referred, Known
      <4>2. references[t] \in Seq(Nodes)
        BY <1>2, <1>5 DEF WalkTypeOK
      <4> QED BY <4>1, <4>2, LenProperties
    <3>3. next \in Seq(I) /\ \A j \in DOMAIN next : next[j] \in I
      <4>1. PICK n \in Nat : n = Len(refs)
        BY <3>2
      <4>2. I \in SUBSET (1..n)
        BY <3>2, <4>1
      <4> HIDE DEF I
      <4> QED BY <4>2, OrderIsFull
    <3>4. \A k \in DOMAIN refs : refs[k] \in Nodes /\ GoodNode(indexed, refs[k])
      BY <1>5, <3>2 DEF PathsInv
    <3> HIDE DEF refs
    <3>5. ASSUME NEW j \in DOMAIN next PROVE up[j] \in Paths /\ GoodPath(indexed, up[j])
      <4> DEFINE node == refs[next[j]]
      <4>1. node \in Nodes /\ GoodNode(indexed, node)
        BY <3>3, <3>4
      <4> HIDE DEF node, GoodNode
      <4>2. <<node>> \in Seq(Nodes) /\ Len(<<node>>) = 1 /\ <<node>>[1] = node
        BY <4>1
      <4>3. path \in Seq(Nodes) /\ Len(path) \in Nat \ {0} /\ DOMAIN path = 1..Len(path)
        BY <1>3, EndOfPath
      <4> DEFINE q == <<node>> \o path
      <4>4. /\ q \in Seq(Nodes) /\ Len(q) = 1 + Len(path) /\ DOMAIN q = 1..(1 + Len(path))
            /\ \A k \in 1..Len(<<node>>) : q[k] = <<node>>[k]
            /\ \A k \in 1..Len(path) : q[Len(<<node>>) + k] = path[k]
        BY <4>2, <4>3, Joined
      <4>5. q[1] = node /\ \A k \in 1..Len(path) : q[1 + k] = path[k]
        BY <4>2, <4>4
      <4> HIDE DEF q
      <4>6. q # <<>> /\ q \in Paths
        <5>1. q # <<>>
          BY <4>3, <4>4, EmptySeq
        <5> QED BY <4>4, <5>1 DEF Paths
      <4>7. ASSUME NEW k \in DOMAIN q PROVE GoodNode(indexed, q[k])
        <5>1. CASE k = 1
          BY <4>1, <4>5, <5>1
        <5>2. CASE k # 1
          <6>1. k - 1 \in 1..Len(path) /\ 1 + (k - 1) = k
            BY <4>3, <4>4, <5>2
          <6>2. q[k] = path[k - 1] /\ k - 1 \in DOMAIN path
            BY <4>3, <4>5, <6>1
          <6> QED BY <1>4, <6>2 DEF GoodPath
        <5> QED BY <5>1, <5>2
      <4>8. q[Len(q)].field = NoField
        <5>1. q[1 + Len(path)] = path[Len(path)]
          BY <4>3, <4>5
        <5> QED BY <1>4, <4>4, <5>1 DEF GoodPath
      <4>9. GoodPath(indexed, q)
        BY <4>7, <4>8 DEF GoodPath
      <4>10. up[j] = q
        BY DEF q, node
      <4> QED BY <4>6, <4>9, <4>10
    <3>6. up \in Seq(Paths) /\ DOMAIN up = DOMAIN next
      <4>1. PICK n \in Nat : DOMAIN next = 1..n
        BY <3>3, LenProperties
      <4>2. DOMAIN up = 1..n /\ \A j \in 1..n : up[j] \in Paths
        BY <3>5, <4>1
      <4>3. up = [j \in 1..n |-> up[j]]
        BY <4>1
      <4> HIDE DEF up
      <4> QED BY <4>1, <4>2, <4>3
    <3>7. queue' = Tail(queue) \o up
      BY <3>1
    <3> HIDE DEF up, Paths, GoodPath
    <3>8. ASSUME NEW i \in DOMAIN (Tail(queue) \o up) PROVE GoodPath(indexed, (Tail(queue) \o up)[i])
      <4>1. \/ i \in 1..Len(Tail(queue)) /\ (Tail(queue) \o up)[i] = Tail(queue)[i]
            \/ i - Len(Tail(queue)) \in 1..Len(up)
               /\ (Tail(queue) \o up)[i] = up[i - Len(Tail(queue))]
        BY <1>3, <3>6, Joined
      <4>2. DOMAIN up = 1..Len(up) /\ DOMAIN Tail(queue) = 1..Len(Tail(queue))
        BY <1>3, <3>6, LenProperties
      <4> QED BY <1>4, <3>5, <3>6, <4>1, <4>2
    <3> QED BY <3>7, <3>8
  <2> QED BY <2>1, <2>2
<1>9. IsFiniteSet(found') /\ \A p \in found' :
         /\ p \in Paths /\ GoodPath(indexed, p) /\ Head(p).type \in Roots
         /\ \A k \in DOMAIN p : p[k].type \in Known
  <2>1. CASE Referred(t) = <<>>
    <3>1. found' = found \cup {path}
      BY <1>1, <2>1
    <3>2. IsFiniteSet(found \cup {path})
      BY FS_AddElement DEF PathsInv
    <3>3. t \in Roots
      <4>1. references[t] = <<>>
        BY <1>5, <2>1 DEF Referred, Known
      <4> QED BY <1>2, <1>5, <4>1 DEF WalkInv, OnlyRootsAreFree
    <3>4. /\ path \in Paths /\ GoodPath(indexed, path) /\ Head(path).type \in Roots
          /\ \A k \in DOMAIN path : path[k].type \in Known
      BY <1>00, <1>4, <1>5, <3>3 DEF Climbs
    <3> QED BY <3>1, <3>2, <3>4 DEF PathsInv
  <2>2. CASE Referred(t) # <<>>
    BY <1>1, <2>2 DEF PathsInv
  <2> QED BY <2>1, <2>2
<1> HIDE DEF GoodPath, GoodNode, Known, Roots, Paths, Climb
<1>10. /\ \A i \in DOMAIN stack' : GoodPath(indexed', stack'[i])
       /\ \A u \in Known' :
            ~IsInput(indexed', u) /\ \A k \in DOMAIN references'[u] : GoodNode(indexed', references'[u][k])
  BY <1>6 DEF PathsInv
<1> QED BY <1>1, <1>6, <1>8, <1>9, <1>10 DEF PathsInv

\* The path that starts a climb.
LEMMA GoodStart ==
  ASSUME NEW s, NEW t, ~IsInput(s, t)
  PROVE  GoodPath(s, <<End(t)>>)
<1>1. GoodNode(s, End(t)) /\ End(t).field = NoField
  BY FS_EmptySet DEF GoodNode, Node, End
<1> HIDE DEF End, GoodNode
<1>2. Len(<<End(t)>>) = 1 /\ DOMAIN <<End(t)>> = {1} /\ <<End(t)>>[1] = End(t)
  OBVIOUS
<1> QED BY <1>1, <1>2 DEF GoodPath

\* The walk starts with good paths.
LEMMA PathsStart ==
  ASSUME IndexInit
  PROVE  PathsInv
<1>1. /\ schema \in Schemas /\ indexed = schema /\ references = << >> /\ queue = <<>> /\ found = {}
      /\ stack = (IF Mutation \in Roots THEN <<<<End(Mutation)>>>> ELSE <<>>) \o <<<<End(Query)>>>>
  BY DEF IndexInit
<1>2. ~IsInput(indexed, Query) /\ ~IsInput(indexed, Mutation)
  BY <1>1, SearchAssumption DEF WellTyped, InputsApart
<1> DEFINE q == <<End(Query)>>
           m == <<End(Mutation)>>
<1>3. GoodPath(indexed, q) /\ GoodPath(indexed, m)
  BY <1>2, GoodStart
<1> DEFINE below == IF Mutation \in Roots THEN <<m>> ELSE <<>>
<1>d. stack = below \o <<q>>
  BY <1>1
<1> HIDE DEF q, m
<1>4. /\ <<q>> \in Seq({q, m}) /\ Len(<<q>>) = 1 /\ below \in Seq({q, m})
  <2>1. <<q>> \in Seq({q, m}) /\ Len(<<q>>) = 1 /\ <<m>> \in Seq({q, m})
    OBVIOUS
  <2>2. <<>> \in Seq({q, m})
    BY EmptySeq
  <2> QED BY <2>1, <2>2
<1> HIDE DEF below
<1>5. stack \in Seq({q, m})
  BY <1>d, <1>4, Joined
<1>6. \A i \in DOMAIN stack : GoodPath(indexed, stack[i])
  <2>1. ASSUME NEW i \in DOMAIN stack PROVE stack[i] \in {q, m}
    BY <1>5, LenProperties, ElementOfSeq
  <2> QED BY <1>3, <2>1
<1>7. Known = {} /\ DOMAIN queue = {} /\ IsFiniteSet(found)
  BY <1>1, EmptySeq, FS_EmptySet DEF Known
<1> QED BY <1>1, <1>6, <1>7 DEF PathsInv

\* Whatever the index does, its paths are good.
LEMMA PathsStep ==
  ASSUME ClimbInv, PathsInv, [IndexNext]_indexVars
  PROVE  PathsInv'
<1> HIDE DEF GoodPath, GoodNode, Paths
\* the walk and the queue stay
<1>1. ASSUME UNCHANGED <<mutations, walkVars>>, found' \in {found, {}},
             schema' \in Schemas \cup Updates,
             \A i \in DOMAIN queue' : GoodPath(indexed, queue'[i])
      PROVE  PathsInv'
  <2>1. /\ Known' = Known /\ references' = references /\ Roots' = Roots /\ indexed' = indexed
        /\ stack' = stack
    BY <1>1, IndexStays DEF walkVars
  <2> HIDE DEF Known, Roots
  <2>2. /\ \A i \in DOMAIN stack' : GoodPath(indexed', stack'[i])
        /\ \A t \in Known' :
             ~IsInput(indexed', t) /\ \A k \in DOMAIN references'[t] : GoodNode(indexed', references'[t][k])
        /\ \A i \in DOMAIN queue' : GoodPath(indexed', queue'[i])
    BY <1>1, <2>1 DEF PathsInv
  <2>3. /\ IsFiniteSet(found')
        /\ \A p \in found' :
             /\ p \in Paths /\ GoodPath(indexed', p) /\ Head(p).type \in Roots'
             /\ \A k \in DOMAIN p : p[k].type \in Known'
    BY <1>1, <2>1, FS_EmptySet DEF PathsInv
  <2>4. indexed' \in Schemas
    BY <2>1 DEF PathsInv
  <2> QED BY <1>1, <2>2, <2>3, <2>4 DEF PathsInv
<1>2. ASSUME NEW t \in Known, queue' = <<<<End(t)>>>>
      PROVE  \A i \in DOMAIN queue' : GoodPath(indexed, queue'[i])
  <2> DEFINE p == <<End(t)>>
  <2>1. GoodPath(indexed, p)
    BY <1>2, GoodStart DEF PathsInv
  <2> HIDE DEF p
  <2>2. DOMAIN <<p>> = {1} /\ <<p>>[1] = p
    OBVIOUS
  <2> QED BY <1>2, <2>1, <2>2 DEF p
<1>3. CASE Visit
  BY <1>3, VisitKeepsPaths
<1>4. CASE Climb
  BY <1>4, ClimbKeepsPaths
<1>5. CASE Search
  <2>1. PICK n \in 1..MaxMatches : \E m \in [1..n -> Known] : queue' = <<<<End(m[1])>>>>
    BY <1>5 DEF Search, Known
  <2>2. PICK m \in [1..n -> Known] : queue' = <<<<End(m[1])>>>>
    BY <2>1
  <2>3. 1 \in 1..n
    BY IndexAssumption
  <2>4. PICK t \in Known : t = m[1]
    BY <2>3
  <2>5. \A i \in DOMAIN queue' : GoodPath(indexed, queue'[i])
    BY <1>2, <2>2, <2>4
  <2>6. UNCHANGED <<mutations, walkVars>> /\ found' = {} /\ schema' = schema
    BY <1>5 DEF Search
  <2> QED BY <1>1, <2>5, <2>6 DEF PathsInv
<1>6. CASE Climbed
  <2>1. /\ step = "climbing" /\ matches' = Tail(matches) /\ schema' = schema /\ found' = found
        /\ IF matches' = <<>> THEN queue' = <<>> ELSE queue' = <<<<End(matches'[1])>>>>
        /\ UNCHANGED <<mutations, walkVars>>
    BY <1>6 DEF Climbed
  <2>2. matches' \in Seq(Known)
    <3>1. matches \in Seq(Known) /\ matches # <<>>
      BY <2>1 DEF ClimbInv, ClimbTypeOK
    <3> QED BY <2>1, <3>1, HeadTailProperties
  <2>3. \A i \in DOMAIN queue' : GoodPath(indexed, queue'[i])
    <3>1. CASE matches' = <<>>
      BY <2>1, <3>1, EmptySeq
    <3>2. CASE matches' # <<>>
      <4>1. Len(matches') \in Nat \ {0} /\ DOMAIN matches' = 1..Len(matches')
        BY <2>2, <3>2, LastAndFront
      <4>2. 1 \in 1..Len(matches')
        BY <4>1
      <4>3. matches'[1] \in Known
        BY <2>2, <4>2, ElementOfSeq
      <4>4. PICK t \in Known : t = matches'[1]
        BY <4>3
      <4> QED BY <1>2, <2>1, <3>2, <4>4
    <3> QED BY <3>1, <3>2
  <2> QED BY <1>1, <2>1, <2>3 DEF PathsInv
<1>7. ASSUME UNCHANGED <<mutations, walkVars, climbVars>>, schema' \in {schema} \cup Updates
      PROVE  PathsInv'
  <2>1. found' = found /\ queue' = queue
    BY <1>7 DEF climbVars
  <2> QED BY <1>1, <1>7, <2>1 DEF PathsInv
<1>8. CASE Indexed \/ Republish \/ Shown \/ Introspected \/ UNCHANGED indexVars
  <2>1. UNCHANGED <<mutations, walkVars, climbVars>> /\ schema' \in {schema} \cup Updates
    BY <1>8 DEF Indexed, Republish, Shown, Introspected, indexVars
  <2> QED BY <1>7, <2>1
<1> QED BY <1>3, <1>4, <1>5, <1>6, <1>8 DEF IndexNext

-----------------------------------------------------------------------------
(* The calls of retain_type. *)

\* The members of a finite set, one after the other.
LEMMA SetInSequence ==
  ASSUME NEW S, IsFiniteSet(S)
  PROVE  SetToSeq(S) \in Seq(S) /\ ToSet(SetToSeq(S)) = S
<1> DEFINE n == Cardinality(S)
           f == SetToSeq(S)
<1>1. n \in Nat /\ ExistsBijection(1..n, S)
  BY FS_CardinalityType
<1>2. \E g \in [1..n -> S] : IsInjective(g)
  BY <1>1 DEF ExistsBijection, Bijection, Injection
<1>3. f \in [1..n -> S] /\ IsInjective(f)
  BY <1>2 DEF SetToSeq
<1>4. f \in Injection(1..n, S)
  BY <1>3 DEF Injection
<1>5. Cardinality(1..n) = n
  BY <1>1, FS_Interval
<1> HIDE DEF f
<1>6. f \in Surjection(1..n, S)
  BY <1>1, <1>4, <1>5, FS_Injection
<1>7. f \in Seq(S)
  BY <1>1, <1>3
<1>8. ToSet(f) = S
  BY <1>3, <1>6 DEF ToSet, Surjection
<1> QED BY <1>7, <1>8 DEF f

\* What is in two sequences, one after the other.
LEMMA SetOfJoined ==
  ASSUME NEW S, NEW a \in Seq(S), NEW b \in Seq(S)
  PROVE  a \o b \in Seq(S) /\ ToSet(a \o b) = ToSet(a) \cup ToSet(b)
<1>1. a \o b \in Seq(S) /\ DOMAIN (a \o b) = 1..(Len(a) + Len(b)) /\ Len(a) \in Nat /\ Len(b) \in Nat
  BY Joined
<1>2. DOMAIN a = 1..Len(a) /\ DOMAIN b = 1..Len(b)
  BY LenProperties
<1>3. \A i \in DOMAIN a : i \in DOMAIN (a \o b) /\ (a \o b)[i] = a[i]
  BY <1>1, <1>2, Joined
<1>4. \A i \in DOMAIN b : Len(a) + i \in DOMAIN (a \o b) /\ (a \o b)[Len(a) + i] = b[i]
  BY <1>1, <1>2, Joined
<1>5. \A i \in DOMAIN (a \o b) :
        \/ i \in DOMAIN a /\ (a \o b)[i] = a[i]
        \/ i - Len(a) \in DOMAIN b /\ (a \o b)[i] = b[i - Len(a)]
  BY <1>2, Joined
<1>6. ToSet(a \o b) \subseteq ToSet(a) \cup ToSet(b)
  BY <1>5 DEF ToSet
<1>7. ToSet(a) \subseteq ToSet(a \o b) /\ ToSet(b) \subseteq ToSet(a \o b)
  BY <1>3, <1>4 DEF ToSet
<1> QED BY <1>1, <1>6, <1>7

\* What is in a sequence is its head or behind it.
LEMMA SetOfHeadAndTail ==
  ASSUME NEW S, NEW s \in Seq(S), s # <<>>
  PROVE  /\ Head(s) \in S /\ Tail(s) \in Seq(S)
         /\ Head(s) \in ToSet(s) /\ ToSet(s) = {Head(s)} \cup ToSet(Tail(s))
<1>1. Len(s) \in Nat \ {0} /\ DOMAIN s = 1..Len(s)
  BY LastAndFront
<1>2. /\ Head(s) \in S /\ Tail(s) \in Seq(S) /\ Len(Tail(s)) = Len(s) - 1
      /\ \A i \in 1..Len(Tail(s)) : Tail(s)[i] = s[i + 1]
  BY HeadTailProperties
<1>3. DOMAIN Tail(s) = 1..(Len(s) - 1)
  BY <1>2, LenProperties
<1>4. Head(s) = s[1] /\ 1 \in DOMAIN s
  BY <1>1
<1>5. \A i \in DOMAIN Tail(s) : i + 1 \in DOMAIN s /\ Tail(s)[i] = s[i + 1]
  BY <1>1, <1>2, <1>3
<1>6. ASSUME NEW i \in DOMAIN s, i # 1 PROVE i - 1 \in DOMAIN Tail(s) /\ Tail(s)[i - 1] = s[i]
  <2>1. i - 1 \in 1..(Len(s) - 1) /\ (i - 1) + 1 = i
    BY <1>1, <1>6
  <2> QED BY <1>3, <1>5, <2>1
<1>7. ToSet(s) \subseteq {Head(s)} \cup ToSet(Tail(s))
  BY <1>4, <1>6 DEF ToSet
<1>8. {Head(s)} \cup ToSet(Tail(s)) \subseteq ToSet(s)
  BY <1>4, <1>5 DEF ToSet
<1> QED BY <1>2, <1>7, <1>8

\* The calls that one call leads to: those for what the type leads to, and those for the
\* arguments.
CallsBelow(c) == ToSet(Below(c)) \cup {WholeType(a, c.argDepth) : a \in c.args}

\* A level less is a depth.
LEMMA DepthsDecrease ==
  /\ Unlimited \in Depths /\ Decrement(Unlimited) = Unlimited /\ ~Reached(Unlimited)
  /\ \A n \in Nat : n \in Depths /\ n # Unlimited /\ Decrement(n) = n - 1
  /\ \A d \in Depths : ~Reached(d) => Decrement(d) \in Depths
<1>1. /\ Unlimited \in Depths /\ Decrement(Unlimited) = Unlimited /\ ~Reached(Unlimited)
      /\ \A n \in Nat : n \in Depths /\ n # Unlimited /\ Decrement(n) = n - 1
  BY DEF Depths, Unlimited, Decrement, Reached
<1>2. ASSUME NEW d \in Depths, ~Reached(d) PROVE Decrement(d) \in Depths
  <2>1. CASE d = Unlimited
    BY <1>1, <2>1
  <2>2. CASE d # Unlimited
    <3>1. d \in Nat /\ d # 0 /\ Decrement(d) = d - 1
      BY <1>1, <1>2, <2>2 DEF Depths, Reached
    <3>2. d - 1 \in Nat
      BY <3>1
    <3> QED BY <3>1, <3>2 DEF Depths
  <2> QED BY <2>1, <2>2
<1> QED BY <1>1, <1>2

\* What a call is for.
LEMMA CallsMade ==
  /\ \A t \in Words, d \in Depths :
       /\ WholeType(t, d) \in Calls /\ WholeType(t, d).type = t /\ WholeType(t, d).field = NoField
       /\ WholeType(t, d).depth = d /\ WholeType(t, d).argDepth = d /\ WholeType(t, d).args = {}
       /\ Asks(WholeType(t, d)) = {<<t, d>>}
  /\ \A f, d : f.type \in Words /\ f.args \in SUBSET Words /\ d \in Depths =>
       /\ FieldType(f, d) \in Calls /\ FieldType(f, d).type = f.type /\ FieldType(f, d).field = NoField
       /\ FieldType(f, d).depth = d /\ FieldType(f, d).argDepth = d /\ FieldType(f, d).args = f.args
       /\ Asks(FieldType(f, d)) = {<<u, d>> : u \in {f.type} \cup f.args}
<1>1. NoField \in Words
  BY DEF Words
<1>2. ASSUME NEW t \in Words, NEW d \in Depths
      PROVE  /\ WholeType(t, d) \in Calls /\ WholeType(t, d).type = t /\ WholeType(t, d).field = NoField
             /\ WholeType(t, d).depth = d /\ WholeType(t, d).argDepth = d /\ WholeType(t, d).args = {}
             /\ Asks(WholeType(t, d)) = {<<t, d>>}
  <2>1. /\ WholeType(t, d) \in Calls /\ WholeType(t, d).type = t /\ WholeType(t, d).field = NoField
        /\ WholeType(t, d).depth = d /\ WholeType(t, d).argDepth = d /\ WholeType(t, d).args = {}
    BY <1>1 DEF WholeType, ToRetain, Calls
  <2> HIDE DEF WholeType
  <2> QED BY <2>1 DEF Asks
<1>3. ASSUME NEW f, NEW d, f.type \in Words, f.args \in SUBSET Words, d \in Depths
      PROVE  /\ FieldType(f, d) \in Calls /\ FieldType(f, d).type = f.type /\ FieldType(f, d).field = NoField
             /\ FieldType(f, d).depth = d /\ FieldType(f, d).argDepth = d /\ FieldType(f, d).args = f.args
             /\ Asks(FieldType(f, d)) = {<<u, d>> : u \in {f.type} \cup f.args}
  <2>1. /\ FieldType(f, d) \in Calls /\ FieldType(f, d).type = f.type /\ FieldType(f, d).field = NoField
        /\ FieldType(f, d).depth = d /\ FieldType(f, d).argDepth = d /\ FieldType(f, d).args = f.args
    BY <1>1, <1>3 DEF FieldType, ToRetain, Calls
  <2> HIDE DEF FieldType
  <2> QED BY <2>1 DEF Asks
<1> QED BY <1>2, <1>3

\* What the type of a call leads to is asked for a level further down.
LEMMA BelowIsAsked ==
  ASSUME shown \in Schemas \cup Updates, NEW c \in Calls
  PROVE  /\ Below(c) \in Seq(Calls) /\ \A b \in ToSet(Below(c)) : IsFiniteSet(b.args) /\ b.field = NoField
         /\ \A b \in ToSet(Below(c)) : b.depth = Decrement(c.depth) /\ b.argDepth = b.depth
         /\ Returns(c) \/ Reached(Decrement(c.depth)) => ToSet(Below(c)) = {}
         /\ \A b \in ToSet(Below(c)) : \A x \in Asks(b) :
              /\ x = <<x[1], Decrement(c.depth)>>
              /\ x[1] \in DOMAIN shown.kind => x[1] \in Refers(shown, c.type)
         /\ ~Returns(c) /\ ~Reached(Decrement(c.depth)) =>
              \A u \in Refers(shown, c.type) :
                \E b \in ToSet(Below(c)) : <<u, Decrement(c.depth)>> \in Asks(b)
<1> DEFINE d == Decrement(c.depth)
           fields == shown.fields[c.type]
           members == shown.members[c.type]
<1>1. CASE Returns(c) \/ Reached(d)
  <2>1. Below(c) = <<>>
    BY <1>1 DEF Below
  <2>2. <<>> \in Seq(Calls) /\ ToSet(<<>>) = {}
    BY EmptySeq DEF ToSet
  <2> QED BY <1>1, <2>1, <2>2
<1>2. CASE ~(Returns(c) \/ Reached(d))
  <2>1. c.type \in DOMAIN shown.kind /\ c.depth \in Depths /\ ~Reached(c.depth) /\ d \in Depths
    BY <1>2, DepthsDecrease DEF Returns, Calls
  <2>2. PICK t \in DOMAIN shown.kind : t = c.type
    BY <2>1
  <2>3. /\ fields \in Seq(Fields) /\ members \in Seq(DOMAIN shown.kind)
        /\ \A i \in DOMAIN members : members[i] \in DOMAIN shown.kind /\ members[i] \in Words
        /\ \A i \in DOMAIN fields :
             fields[i].type \in Words /\ fields[i].args \in SUBSET Words /\ IsFiniteSet(fields[i].args)
    BY <2>2, TypesAreValid
  <2>4. CASE shown.kind[c.type] = "union"
    <3> DEFINE b(i) == WholeType(members[i], d)
    <3>1. Below(c) = [i \in DOMAIN members |-> b(i)]
      BY <1>2, <2>4 DEF Below
    <3>2. \A u : u \in Refers(shown, c.type) <=> u \in DOMAIN shown.kind /\ \E i \in DOMAIN members : members[i] = u
      BY <2>4 DEF Refers
    <3>3. ASSUME NEW i \in DOMAIN members
          PROVE  /\ b(i) \in Calls /\ b(i).field = NoField /\ b(i).depth = d /\ b(i).argDepth = d
                 /\ IsFiniteSet(b(i).args) /\ Asks(b(i)) = {<<members[i], d>>}
      <4>1. PICK u \in Words : u = members[i]
        BY <2>3
      <4>2. /\ WholeType(u, d) \in Calls /\ WholeType(u, d).field = NoField
            /\ WholeType(u, d).depth = d /\ WholeType(u, d).argDepth = d /\ WholeType(u, d).args = {}
            /\ Asks(WholeType(u, d)) = {<<u, d>>}
        BY <2>1, CallsMade
      <4> QED BY <4>1, <4>2, FS_EmptySet
    <3> HIDE DEF b
    <3>4. Below(c) \in Seq(Calls)
      <4>1. PICK n \in Nat : DOMAIN members = 1..n
        BY <2>3, LenProperties
      <4> QED BY <3>1, <3>3, <4>1
    <3>5. ToSet(Below(c)) = {b(i) : i \in DOMAIN members}
      BY <3>1 DEF ToSet
    <3> HIDE DEF members, d, Calls
    <3>6. /\ \A x \in ToSet(Below(c)) : IsFiniteSet(x.args) /\ x.field = NoField
          /\ \A x \in ToSet(Below(c)) : x.depth = d /\ x.argDepth = x.depth
      BY <3>3, <3>5
    <3>7. ASSUME NEW i \in DOMAIN members, NEW x \in Asks(b(i))
          PROVE  x = <<x[1], d>> /\ (x[1] \in DOMAIN shown.kind => x[1] \in Refers(shown, c.type))
      <4>1. x = <<members[i], d>>
        BY <3>3
      <4>2. x[1] = members[i]
        BY <4>1
      <4> QED BY <3>2, <4>1, <4>2
    <3>8. ASSUME NEW u \in Refers(shown, c.type)
          PROVE  \E x \in ToSet(Below(c)) : <<u, d>> \in Asks(x)
      <4>1. PICK i \in DOMAIN members : members[i] = u
        BY <3>2
      <4>2. <<u, d>> \in Asks(b(i))
        BY <3>3, <4>1
      <4> QED BY <3>5, <4>2
    <3>9. \A y \in ToSet(Below(c)) : \A x \in Asks(y) :
            x = <<x[1], d>> /\ (x[1] \in DOMAIN shown.kind => x[1] \in Refers(shown, c.type))
      BY <3>5, <3>7
    <3> QED BY <1>2, <3>4, <3>6, <3>8, <3>9 DEF d
  <2>5. CASE shown.kind[c.type] # "union"
    <3> DEFINE b(i) == FieldType(fields[i], d)
    <3>1. Below(c) = [i \in DOMAIN fields |-> b(i)]
      BY <1>2, <2>5 DEF Below
    <3>2. \A u : u \in Refers(shown, c.type) <=>
            u \in DOMAIN shown.kind /\ \E i \in DOMAIN fields : u \in {fields[i].type} \cup fields[i].args
      BY <2>5 DEF Refers
    <3>3. ASSUME NEW i \in DOMAIN fields
          PROVE  /\ b(i) \in Calls /\ b(i).field = NoField /\ b(i).depth = d /\ b(i).argDepth = d
                 /\ IsFiniteSet(b(i).args)
                 /\ Asks(b(i)) = {<<u, d>> : u \in {fields[i].type} \cup fields[i].args}
      <4>1. fields[i].type \in Words /\ fields[i].args \in SUBSET Words /\ IsFiniteSet(fields[i].args)
        BY <2>3
      <4> DEFINE f == fields[i]
      <4>2. f.type \in Words /\ f.args \in SUBSET Words /\ IsFiniteSet(f.args)
        BY <4>1
      <4> HIDE DEF f
      <4>3. /\ FieldType(f, d) \in Calls /\ FieldType(f, d).field = NoField
            /\ FieldType(f, d).depth = d /\ FieldType(f, d).argDepth = d /\ FieldType(f, d).args = f.args
            /\ Asks(FieldType(f, d)) = {<<u, d>> : u \in {f.type} \cup f.args}
        BY <2>1, <4>2, CallsMade
      <4> QED BY <4>2, <4>3 DEF f
    <3> HIDE DEF b
    <3>4. Below(c) \in Seq(Calls)
      <4>1. PICK n \in Nat : DOMAIN fields = 1..n
        BY <2>3, LenProperties
      <4> QED BY <3>1, <3>3, <4>1
    <3>5. ToSet(Below(c)) = {b(i) : i \in DOMAIN fields}
      BY <3>1 DEF ToSet
    <3> HIDE DEF fields, d, Calls
    <3>6. /\ \A x \in ToSet(Below(c)) : IsFiniteSet(x.args) /\ x.field = NoField
          /\ \A x \in ToSet(Below(c)) : x.depth = d /\ x.argDepth = x.depth
      BY <3>3, <3>5
    <3>7. ASSUME NEW i \in DOMAIN fields, NEW x \in Asks(b(i))
          PROVE  x = <<x[1], d>> /\ (x[1] \in DOMAIN shown.kind => x[1] \in Refers(shown, c.type))
      <4>1. PICK u \in {fields[i].type} \cup fields[i].args : x = <<u, d>>
        BY <3>3
      <4>2. x[1] = u
        BY <4>1
      <4> QED BY <3>2, <4>1, <4>2
    <3>8. ASSUME NEW u \in Refers(shown, c.type)
          PROVE  \E x \in ToSet(Below(c)) : <<u, d>> \in Asks(x)
      <4>1. PICK i \in DOMAIN fields : u \in {fields[i].type} \cup fields[i].args
        BY <3>2
      <4>2. <<u, d>> \in Asks(b(i))
        BY <3>3, <4>1
      <4> QED BY <3>5, <4>2
    <3>9. \A y \in ToSet(Below(c)) : \A x \in Asks(y) :
            x = <<x[1], d>> /\ (x[1] \in DOMAIN shown.kind => x[1] \in Refers(shown, c.type))
      BY <3>5, <3>7
    <3> QED BY <1>2, <3>4, <3>6, <3>8, <3>9 DEF d
  <2> QED BY <2>4, <2>5
<1> QED BY <1>1, <1>2

\* One call: it is replaced by those that it leads to.
LEMMA CallReplaced ==
  ASSUME LookupTypeOK, RetainCall, NEW c, c = Head(calls)
  PROVE  /\ c \in Calls /\ c \in ToSet(calls) /\ IsFiniteSet(c.args)
         /\ \E R : ToSet(calls) = {c} \cup R /\ ToSet(calls') = CallsBelow(c) \cup R
         /\ calls' \in Seq(Calls) /\ \A x \in ToSet(calls') : IsFiniteSet(x.args)
<1> DEFINE args == SetToSeq(c.args)
<1>1. /\ calls # <<>> /\ shown \in Schemas \cup Updates /\ calls \in Seq(Calls)
      /\ \A x \in ToSet(calls) : IsFiniteSet(x.args)
      /\ calls' = Below(c) \o Arguments(c) \o Tail(calls)
  BY DEF RetainCall, LookupTypeOK
<1>2. /\ c \in Calls /\ Tail(calls) \in Seq(Calls)
      /\ c \in ToSet(calls) /\ ToSet(calls) = {c} \cup ToSet(Tail(calls))
  <2> HIDE DEF Calls
  <2> QED BY <1>1, SetOfHeadAndTail
<1>3. IsFiniteSet(c.args) /\ c.args \in SUBSET Words /\ c.argDepth \in Depths
  BY <1>1, <1>2 DEF Calls
<1>4. args \in Seq(c.args) /\ ToSet(args) = c.args
  BY <1>3, SetInSequence
<1> DEFINE b(i) == WholeType(args[i], c.argDepth)
<1>5. Arguments(c) = [i \in DOMAIN args |-> b(i)]
  BY DEF Arguments
<1> HIDE DEF args
<1>6. ASSUME NEW i \in DOMAIN args PROVE b(i) \in Calls /\ IsFiniteSet(b(i).args)
  <2>1. args[i] \in c.args
    BY <1>4, LenProperties, ElementOfSeq
  <2>2. PICK u \in Words : u = args[i]
    BY <1>3, <2>1
  <2>3. WholeType(u, c.argDepth) \in Calls /\ WholeType(u, c.argDepth).args = {}
    BY <1>3, CallsMade
  <2> QED BY <2>2, <2>3, FS_EmptySet
<1>7. ToSet(Arguments(c)) = {WholeType(a, c.argDepth) : a \in c.args}
  <2>1. ToSet(Arguments(c)) = {b(i) : i \in DOMAIN args}
    BY <1>5 DEF ToSet
  <2>2. c.args = {args[i] : i \in DOMAIN args}
    BY <1>4 DEF ToSet
  <2> QED BY <2>1, <2>2
<1>8. Arguments(c) \in Seq(Calls) /\ \A x \in ToSet(Arguments(c)) : IsFiniteSet(x.args)
  <2>1. PICK n \in Nat : DOMAIN args = 1..n
    BY <1>4, LenProperties
  <2>2. ToSet(Arguments(c)) = {b(i) : i \in DOMAIN args}
    BY <1>5 DEF ToSet
  <2> HIDE DEF b, Calls
  <2> QED BY <1>5, <1>6, <2>1, <2>2
<1>9. Below(c) \in Seq(Calls) /\ \A x \in ToSet(Below(c)) : IsFiniteSet(x.args)
  BY <1>1, <1>2, BelowIsAsked
<1> HIDE DEF Calls
<1>10. /\ calls' \in Seq(Calls)
       /\ ToSet(calls') = ToSet(Below(c)) \cup ToSet(Arguments(c)) \cup ToSet(Tail(calls))
  <2> DEFINE p == Below(c)
             q == Arguments(c)
             r == Tail(calls)
  <2>1. p \in Seq(Calls) /\ q \in Seq(Calls) /\ r \in Seq(Calls) /\ calls' = p \o q \o r
    BY <1>1, <1>2, <1>8, <1>9
  <2> HIDE DEF p, q, r
  <2>2. p \o q \in Seq(Calls) /\ ToSet(p \o q) = ToSet(p) \cup ToSet(q)
    BY <2>1, SetOfJoined
  <2>3. PICK pq \in Seq(Calls) : pq = p \o q /\ ToSet(pq) = ToSet(p) \cup ToSet(q)
    BY <2>2
  <2>4. pq \o r \in Seq(Calls) /\ ToSet(pq \o r) = ToSet(pq) \cup ToSet(r)
    BY <2>1, SetOfJoined
  <2>5. calls' = pq \o r
    BY <2>1, <2>3
  <2>6. calls' \in Seq(Calls) /\ ToSet(calls') = ToSet(p) \cup ToSet(q) \cup ToSet(r)
    BY <2>3, <2>4, <2>5
  <2> QED BY <2>6 DEF p, q, r
<1>11. ToSet(calls') = CallsBelow(c) \cup ToSet(Tail(calls))
  BY <1>7, <1>10 DEF CallsBelow
<1>12. \A x \in ToSet(calls') : IsFiniteSet(x.args)
  BY <1>1, <1>2, <1>8, <1>9, <1>10
<1> QED BY <1>2, <1>3, <1>10, <1>11, <1>12

\* What is ahead after a call.
LEMMA AheadAfter ==
  ASSUME LookupTypeOK, RetainCall, NEW c, c = Head(calls)
  PROVE  LET d == Decrement(c.depth) IN
         /\ <<c.type, c.depth>> \in Ahead
         /\ \A x \in Ahead : x \in Ahead' \/ x = <<c.type, c.depth>>
         /\ \A x \in Ahead' :
              \/ x \in Ahead
              \/ /\ ~Returns(c) /\ ~Reached(d) /\ x = <<x[1], d>>
                 /\ x[1] \in DOMAIN shown.kind => x[1] \in Refers(shown, c.type)
         /\ ~Returns(c) /\ ~Reached(d) => \A u \in Refers(shown, c.type) : <<u, d>> \in Ahead'
<1> DEFINE d == Decrement(c.depth)
<1>1. /\ c \in Calls /\ c \in ToSet(calls)
      /\ \E R : ToSet(calls) = {c} \cup R /\ ToSet(calls') = CallsBelow(c) \cup R
  BY CallReplaced
<1>2. PICK R : ToSet(calls) = {c} \cup R /\ ToSet(calls') = CallsBelow(c) \cup R
  BY <1>1
<1>3. /\ Returns(c) \/ Reached(d) => ToSet(Below(c)) = {}
      /\ \A b \in ToSet(Below(c)) : \A x \in Asks(b) :
              /\ x = <<x[1], d>>
              /\ x[1] \in DOMAIN shown.kind => x[1] \in Refers(shown, c.type)
      /\ ~Returns(c) /\ ~Reached(d) =>
              \A u \in Refers(shown, c.type) : \E b \in ToSet(Below(c)) : <<u, d>> \in Asks(b)
  BY <1>1, BelowIsAsked DEF LookupTypeOK
<1>4. \A a \in c.args : Asks(WholeType(a, c.argDepth)) = {<<a, c.argDepth>>}
  BY <1>1, CallsMade DEF Calls
<1>5. Asks(c) = {<<c.type, c.depth>>} \cup {<<a, c.argDepth>> : a \in c.args}
  BY DEF Asks
<1> HIDE DEF d, Asks, Calls, Returns, Reached, Below
<1>6. Ahead = UNION {Asks(x) : x \in ToSet(calls)} /\ Ahead' = UNION {Asks(x) : x \in ToSet(calls')}
  BY DEF Ahead, Asks
<1>7. <<c.type, c.depth>> \in Ahead
  BY <1>1, <1>5, <1>6
<1>8. ASSUME NEW x \in Ahead PROVE x \in Ahead' \/ x = <<c.type, c.depth>>
  <2>1. PICK y \in ToSet(calls) : x \in Asks(y)
    BY <1>6
  <2>2. CASE y \in R
    BY <1>2, <1>6, <2>1, <2>2
  <2>3. CASE y = c /\ x # <<c.type, c.depth>>
    <3>1. PICK a \in c.args : x = <<a, c.argDepth>>
      BY <1>5, <2>1, <2>3
    <3>2. WholeType(a, c.argDepth) \in ToSet(calls')
      BY <1>2 DEF CallsBelow
    <3> QED BY <1>4, <1>6, <3>1, <3>2
  <2> QED BY <1>2, <2>1, <2>2, <2>3
<1>9. ASSUME NEW x \in Ahead'
      PROVE  \/ x \in Ahead
             \/ /\ ~Returns(c) /\ ~Reached(d) /\ x = <<x[1], d>>
                /\ x[1] \in DOMAIN shown.kind => x[1] \in Refers(shown, c.type)
  <2>1. PICK y \in ToSet(calls') : x \in Asks(y)
    BY <1>6
  <2>2. CASE y \in R
    BY <1>2, <1>6, <2>1, <2>2
  <2>3. CASE y \in ToSet(Below(c))
    BY <1>3, <2>1, <2>3
  <2>4. ASSUME NEW a \in c.args, y = WholeType(a, c.argDepth) PROVE x \in Ahead
    BY <1>1, <1>4, <1>5, <1>6, <2>1, <2>4
  <2> QED BY <1>2, <2>1, <2>2, <2>3, <2>4 DEF CallsBelow
<1>10. ASSUME ~Returns(c), ~Reached(d), NEW u \in Refers(shown, c.type) PROVE <<u, d>> \in Ahead'
  <2>1. PICK b \in ToSet(Below(c)) : <<u, d>> \in Asks(b)
    BY <1>3, <1>10
  <2> QED BY <1>2, <1>6, <2>1 DEF CallsBelow
<1> QED BY <1>7, <1>8, <1>9, <1>10 DEF d

-----------------------------------------------------------------------------
(* The walks of a schema. *)

\* A walk of no reference stays.
LEMMA WalkOfNone ==
  ASSUME NEW s, NEW t \in DOMAIN s.kind, NEW n \in Nat
  PROVE  t \in Within(s, t, n)
<1> DEFINE w == [i \in 0..0 |-> t]
<1>1. w \in Walks(s, t, 0) /\ w[0] = t
  BY DEF Walks
<1>2. 0 \in 0..n
  OBVIOUS
<1> QED BY <1>1, <1>2 DEF Within

\* What a walk is.
LEMMA WalkOf ==
  ASSUME NEW s, NEW t, NEW n \in Nat, NEW u
  PROVE  u \in Within(s, t, n) <=> \E j \in 0..n : \E w \in Walks(s, t, j) : u = w[j]
BY DEF Within

\* Walks start, and end, at types.
LEMMA WalksAreOfTypes ==
  ASSUME NEW s, NEW t, NEW n \in Nat, NEW u \in Within(s, t, n)
  PROVE  t \in DOMAIN s.kind /\ u \in DOMAIN s.kind
<1>1. PICK j \in 0..n : \E w \in Walks(s, t, j) : u = w[j]
  BY WalkOf
<1>2. PICK w \in Walks(s, t, j) : u = w[j]
  BY <1>1
<1>3. w \in [0..j -> DOMAIN s.kind] /\ w[0] = t
  BY DEF Walks
<1>4. 0 \in 0..j /\ j \in 0..j
  OBVIOUS
<1> QED BY <1>2, <1>3, <1>4

\* More references lead at least as far.
LEMMA WalksAreMore ==
  ASSUME NEW s, NEW t, NEW m \in Nat, NEW n \in Nat, m <= n
  PROVE  Within(s, t, m) \subseteq Within(s, t, n)
<1>1. 0..m \subseteq 0..n
  OBVIOUS
<1> QED BY <1>1 DEF Within

\* No reference leads nowhere else.
LEMMA WalksOfNone ==
  ASSUME NEW s, NEW t, NEW u \in Within(s, t, 0)
  PROVE  u = t
<1>1. PICK j \in 0..0 : \E w \in Walks(s, t, j) : u = w[j]
  BY WalkOf
<1>2. PICK w \in Walks(s, t, j) : u = w[j]
  BY <1>1
<1>3. j = 0
  OBVIOUS
<1> QED BY <1>2, <1>3 DEF Walks

\* A walk goes on.
LEMMA WalkGoesOn ==
  ASSUME NEW s, NEW t, NEW n \in Nat, NEW u \in Within(s, t, n), NEW v \in Refers(s, u)
  PROVE  v \in Within(s, t, n + 1)
<1>1. PICK j \in 0..n : \E w \in Walks(s, t, j) : u = w[j]
  BY WalkOf
<1>2. PICK w \in Walks(s, t, j) : u = w[j]
  BY <1>1
<1>3. /\ w \in [0..j -> DOMAIN s.kind] /\ w[0] = t
      /\ \A i \in 1..j : w[i] \in Refers(s, w[i - 1])
  BY DEF Walks
<1>4. v \in DOMAIN s.kind
  BY DEF Refers
<1> DEFINE x == [i \in 0..(j + 1) |-> IF i = j + 1 THEN v ELSE w[i]]
<1>5. x \in [0..(j + 1) -> DOMAIN s.kind] /\ x[0] = t /\ x[j + 1] = v
  <2>1. ASSUME NEW i \in 0..(j + 1), i # j + 1 PROVE i \in 0..j
    BY <2>1
  <2> QED BY <1>3, <1>4, <2>1
<1>6. ASSUME NEW i \in 1..(j + 1) PROVE x[i] \in Refers(s, x[i - 1])
  <2>1. CASE i = j + 1
    <3>1. x[i] = v /\ x[i - 1] = w[j]
      BY <2>1
    <3> QED BY <1>2, <3>1
  <2>2. CASE i # j + 1
    <3>1. i \in 1..j /\ i \in 0..(j + 1) /\ i - 1 \in 0..(j + 1) /\ i - 1 # j + 1
      BY <2>2
    <3>2. x[i] = w[i] /\ x[i - 1] = w[i - 1]
      BY <2>2, <3>1
    <3> QED BY <1>3, <3>1, <3>2
  <2> QED BY <2>1, <2>2
<1> HIDE DEF x
<1>7. x \in Walks(s, t, j + 1)
  BY <1>5, <1>6 DEF Walks
<1>8. j + 1 \in 0..(n + 1) /\ n + 1 \in Nat
  OBVIOUS
<1> QED BY <1>5, <1>7, <1>8, WalkOf

\* The first reference of a walk.
LEMMA WalkStartsOff ==
  ASSUME NEW s, NEW t, NEW n \in Nat, NEW u \in Within(s, t, n + 1), u # t
  PROVE  \E v \in Refers(s, t) : u \in Within(s, v, n)
<1>1. PICK j \in 0..(n + 1) : \E w \in Walks(s, t, j) : u = w[j]
  BY WalkOf
<1>2. PICK w \in Walks(s, t, j) : u = w[j]
  BY <1>1
<1>3. /\ w \in [0..j -> DOMAIN s.kind] /\ w[0] = t
      /\ \A i \in 1..j : w[i] \in Refers(s, w[i - 1])
  BY DEF Walks
<1>4. j # 0
  BY <1>2, <1>3
<1>5. 1 \in 1..j /\ 1 - 1 = 0 /\ j - 1 \in 0..n /\ j - 1 \in Nat /\ (j - 1) + 1 = j
  BY <1>4
<1>6. w[1] \in Refers(s, t)
  BY <1>3, <1>5
<1> DEFINE x == [i \in 0..(j - 1) |-> w[i + 1]]
<1>7. x \in [0..(j - 1) -> DOMAIN s.kind] /\ x[0] = w[1] /\ x[j - 1] = w[j]
  <2>1. \A i \in 0..(j - 1) : i + 1 \in 0..j
    BY <1>5
  <2>2. 0 \in 0..(j - 1) /\ j - 1 \in 0..(j - 1) /\ 0 + 1 = 1
    BY <1>5
  <2> QED BY <1>3, <1>5, <2>1, <2>2
<1>8. ASSUME NEW i \in 1..(j - 1) PROVE x[i] \in Refers(s, x[i - 1])
  <2>1. i \in 0..(j - 1) /\ i - 1 \in 0..(j - 1) /\ i + 1 \in 1..j /\ (i + 1) - 1 = i /\ (i - 1) + 1 = i
    BY <1>5
  <2>2. x[i] = w[i + 1] /\ x[i - 1] = w[i]
    BY <2>1
  <2>3. w[i + 1] \in Refers(s, w[(i + 1) - 1])
    BY <1>3, <2>1
  <2> QED BY <2>1, <2>2, <2>3
<1> HIDE DEF x
<1>9. x \in Walks(s, w[1], j - 1)
  BY <1>7, <1>8 DEF Walks
<1>10. u \in Within(s, w[1], n)
  BY <1>2, <1>5, <1>7, <1>9, WalkOf
<1> QED BY <1>6, <1>10

-----------------------------------------------------------------------------
(* What the calls retain. *)

\* What one call does to the shaker, and leaves alone.
LEMMA NodeIsKept ==
  ASSUME LookupTypeOK, RetainCall, NEW c, c = Head(calls)
  PROVE  /\ UNCHANGED <<indexVars, used, todo, shown>> /\ calls # <<>>
         /\ Returns(c) => shaker' = shaker
         /\ ~Returns(c) =>
              /\ c.type \in DOMAIN shown.kind /\ ~Reached(c.depth)
              /\ shaker'.kept = shaker.kept \cup {c.type}
              /\ IF c.field = NoField
                 THEN shaker'.cut = shaker.cut /\ shaker'.names = shaker.names
                 ELSE shaker'.names = shaker.names \cup {<<c.type, c.field>>}
         /\ shaker' \in [kept : SUBSET DOMAIN shown.kind, cut : SUBSET Words,
                         names : SUBSET (Words \X Words)]
<1>1. /\ UNCHANGED <<indexVars, used, todo, shown>> /\ calls # <<>>
      /\ shaker' = IF Returns(c) THEN shaker ELSE KeepNode(c)
  BY DEF RetainCall
<1>2. /\ shaker \in [kept : SUBSET DOMAIN shown.kind, cut : SUBSET Words,
                     names : SUBSET (Words \X Words)]
      /\ c \in Calls
  BY CallReplaced DEF LookupTypeOK
<1>3. c.type \in Words /\ c.field \in Words
  BY <1>2 DEF Calls
<1>4. CASE Returns(c)
  BY <1>1, <1>2, <1>4
<1>5. CASE ~Returns(c)
  <2>1. c.type \in DOMAIN shown.kind /\ ~Reached(c.depth)
    BY <1>5 DEF Returns
  <2>2. CASE c.field = NoField
    <3>1. shaker' = [shaker EXCEPT !.kept = shaker.kept \cup {c.type}]
      BY <1>1, <1>5, <2>2 DEF KeepNode, KeepWhole
    <3> QED BY <1>1, <1>2, <1>5, <2>1, <2>2, <3>1
  <2>3. CASE c.field # NoField
    <3>1. {<<c.type, f>> : f \in {c.field}} = {<<c.type, c.field>>}
      OBVIOUS
    <3>2. shaker' = [shaker EXCEPT !.kept = shaker.kept \cup {c.type},
                                   !.cut = shaker.cut \cup {c.type},
                                   !.names = shaker.names \cup {<<c.type, c.field>>}]
      BY <1>1, <1>5, <2>3, <3>1 DEF KeepNode, KeepFields
    <3>3. <<c.type, c.field>> \in Words \X Words
      BY <1>3
    <3>4. /\ shaker'.kept = shaker.kept \cup {c.type}
          /\ shaker'.names = shaker.names \cup {<<c.type, c.field>>}
      BY <1>2, <3>2
    <3>5. shaker' \in [kept : SUBSET DOMAIN shown.kind, cut : SUBSET Words,
                       names : SUBSET (Words \X Words)]
      BY <1>2, <1>3, <2>1, <3>2, <3>3
    <3> QED BY <1>1, <1>5, <2>1, <2>3, <3>4, <3>5
  <2> QED BY <2>2, <2>3
<1> QED BY <1>4, <1>5

\* A call keeps the types.
LEMMA CallKeepsTypes ==
  ASSUME LookupTypeOK, RetainCall
  PROVE  LookupTypeOK'
<1>0. PICK c : c = Head(calls)
  OBVIOUS
<1>1. /\ UNCHANGED <<indexVars, used, todo, shown>> /\ calls # <<>>
      /\ shaker' \in [kept : SUBSET DOMAIN shown.kind, cut : SUBSET Words,
                      names : SUBSET (Words \X Words)]
  BY <1>0, NodeIsKept
<1>2. calls' \in Seq(Calls) /\ \A x \in ToSet(calls') : IsFiniteSet(x.args)
  BY <1>0, CallReplaced
<1>3. step \in {"searched", "introspected"}
  BY <1>1 DEF LookupTypeOK
<1>4. step' = step /\ found' = found
  BY <1>1 DEF indexVars, climbVars
<1> HIDE DEF Calls
<1> QED BY <1>1, <1>2, <1>3, <1>4 DEF LookupTypeOK

\* A type that is called for and not met before is retained by the call.
LEMMA CalledIsKept ==
  ASSUME LookupTypeOK, RetainCall, NEW c, c = Head(calls),
         c.type \in DOMAIN shown.kind, c.depth = Unlimited => c.field = NoField, ~Reached(c.depth)
  PROVE  c.type \in shaker'.kept
<1>1. CASE Returns(c)
  <2>1. c.type \in shaker.kept
    BY <1>1 DEF Returns, Walked
  <2> QED BY <1>1, <2>1, NodeIsKept
<1>2. CASE ~Returns(c)
  BY <1>2, NodeIsKept
<1> QED BY <1>1, <1>2

\* Without a limit, a call retains a type or finds it retained, and calls for what it
\* refers to.
LEMMA UnlimitedCall ==
  ASSUME LookupTypeOK, RetainCall, UnlimitedInv, asked.type \in DOMAIN shown.kind,
         \A x \in ToSet(calls) : x.field = NoField
  PROVE  UnlimitedInv'
<1>0. PICK c : c = Head(calls)
  OBVIOUS
<1> DEFINE d == Decrement(c.depth)
           K == shaker.kept \cup AheadTypes
           Goal(T) == T \in SUBSET DOMAIN shown.kind /\ asked.type \in T /\ Closed(shown, T)
<1>1. /\ shown' = shown /\ asked' = asked
      /\ Returns(c) => shaker' = shaker
      /\ ~Returns(c) => c.type \in DOMAIN shown.kind /\ shaker'.kept = shaker.kept \cup {c.type}
  BY <1>0, NodeIsKept DEF indexVars
<1>2. /\ <<c.type, c.depth>> \in Ahead
      /\ \A x \in Ahead : x \in Ahead' \/ x = <<c.type, c.depth>>
      /\ \A x \in Ahead' :
           \/ x \in Ahead
           \/ /\ ~Returns(c) /\ ~Reached(d) /\ x = <<x[1], d>>
              /\ x[1] \in DOMAIN shown.kind => x[1] \in Refers(shown, c.type)
      /\ ~Returns(c) /\ ~Reached(d) => \A u \in Refers(shown, c.type) : <<u, d>> \in Ahead'
  BY <1>0, AheadAfter
<1>3. c.depth = Unlimited /\ d = Unlimited /\ ~Reached(d) /\ ~Reached(c.depth) /\ c.field = NoField
  <2>1. <<c.type, c.depth>>[2] = Unlimited
    BY <1>2 DEF UnlimitedInv
  <2>2. c.depth = Unlimited
    BY <2>1
  <2>3. c.field = NoField
    BY <1>0, CallReplaced
  <2> QED BY <2>2, <2>3, DepthsDecrease
<1>4. c.type \in AheadTypes
  <2>1. <<c.type, c.depth>>[1] = c.type
    OBVIOUS
  <2> QED BY <1>2, <2>1 DEF AheadTypes
<1>5. c.type \in DOMAIN shown.kind => c.type \in shaker'.kept
  BY <1>0, <1>3, CalledIsKept
<1> HIDE DEF d, Ahead, Returns, Reached, Refers
<1>6. shaker.kept \subseteq shaker'.kept
  BY <1>1
\* nothing is forgotten
<1>7. ASSUME NEW u \in K, u \in DOMAIN shown.kind PROVE u \in shaker'.kept \cup AheadTypes'
  <2>1. CASE u \in shaker.kept
    BY <1>6, <2>1
  <2>2. CASE u \in AheadTypes
    <3>1. PICK x \in Ahead : u = x[1]
      BY <2>2 DEF AheadTypes
    <3>2. CASE x \in Ahead'
      BY <3>1, <3>2 DEF AheadTypes
    <3>3. CASE x = <<c.type, c.depth>>
      BY <1>5, <1>7, <3>1, <3>3
    <3> QED BY <1>2, <3>2, <3>3
  <2> QED BY <2>1, <2>2
<1>8. ~Returns(c) => Refers(shown, c.type) \subseteq AheadTypes'
  <2> SUFFICES ASSUME ~Returns(c), NEW u \in Refers(shown, c.type) PROVE u \in AheadTypes'
    OBVIOUS
  <2>1. <<u, d>> \in Ahead' /\ <<u, d>>[1] = u
    BY <1>2, <1>3
  <2> QED BY <2>1 DEF AheadTypes
\* nothing else is added
<1>9. ASSUME NEW u \in AheadTypes', u \in DOMAIN shown.kind
      PROVE  u \in AheadTypes \/ (~Returns(c) /\ u \in Refers(shown, c.type))
  <2>1. PICK x \in Ahead' : u = x[1]
    BY DEF AheadTypes
  <2>2. CASE x \in Ahead
    BY <2>1, <2>2 DEF AheadTypes
  <2>3. CASE x \notin Ahead
    BY <1>2, <1>9, <2>1, <2>3
  <2> QED BY <2>2, <2>3
<1>10. \A x \in Ahead' : x[2] = Unlimited
  <2> SUFFICES ASSUME NEW x \in Ahead' PROVE x[2] = Unlimited
    OBVIOUS
  <2>1. CASE x \in Ahead
    BY <2>1 DEF UnlimitedInv
  <2>2. CASE x \notin Ahead
    <3>1. x = <<x[1], d>>
      BY <1>2, <2>2
    <3> QED BY <1>3, <3>1
  <2> QED BY <2>1, <2>2
<1>11. asked'.type \in shaker'.kept \cup AheadTypes'
  BY <1>1, <1>7 DEF UnlimitedInv
<1>12. \A t \in shaker'.kept : Refers(shown', t) \subseteq shaker'.kept \cup AheadTypes'
  <2> SUFFICES ASSUME NEW t \in shaker'.kept, NEW u \in Refers(shown, t)
               PROVE  u \in shaker'.kept \cup AheadTypes'
    BY <1>1
  <2>1. u \in DOMAIN shown.kind
    BY DEF Refers
  <2>2. CASE t \in shaker.kept
    BY <1>7, <2>1, <2>2 DEF UnlimitedInv
  <2>3. CASE t \notin shaker.kept
    BY <1>1, <1>8, <2>3
  <2> QED BY <2>2, <2>3
<1>13. \A T \in SUBSET DOMAIN shown'.kind :
         asked'.type \in T /\ Closed(shown', T) =>
           (shaker'.kept \cup AheadTypes') \cap DOMAIN shown'.kind \subseteq T
  <2> SUFFICES ASSUME NEW T \in SUBSET DOMAIN shown.kind, asked.type \in T, Closed(shown, T),
                      NEW u \in DOMAIN shown.kind, u \in shaker'.kept \cup AheadTypes'
               PROVE  u \in T
    BY <1>1
  <2>1. K \cap DOMAIN shown.kind \subseteq T
    BY DEF UnlimitedInv
  <2>2. c.type \in DOMAIN shown.kind => c.type \in T /\ Refers(shown, c.type) \subseteq T
    BY <1>4, <2>1 DEF Closed
  <2>3. CASE u \in shaker'.kept
    BY <1>1, <2>1, <2>2, <2>3
  <2>4. CASE u \in AheadTypes'
    BY <1>1, <1>9, <2>1, <2>2, <2>4
  <2> QED BY <2>3, <2>4
<1> QED BY <1>10, <1>11, <1>12, <1>13 DEF UnlimitedInv

\* To a depth, a call retains a type and calls for what it refers to if a level is left.
LEMMA LimitedCall ==
  ASSUME LookupTypeOK, RetainCall, LimitedInv, asked.type \in DOMAIN shown.kind,
         asked.depth \in Nat, \A x \in ToSet(calls) : x.field = NoField
  PROVE  LimitedInv'
<1>0. PICK c : c = Head(calls)
  OBVIOUS
<1> DEFINE d == Decrement(c.depth)
           near(n) == Within(shown, asked.type, n)
<1>1. /\ shown' = shown /\ asked' = asked
      /\ Returns(c) => shaker' = shaker
      /\ ~Returns(c) => c.type \in DOMAIN shown.kind /\ shaker'.kept = shaker.kept \cup {c.type}
  BY <1>0, NodeIsKept DEF indexVars
<1>2. /\ <<c.type, c.depth>> \in Ahead
      /\ \A x \in Ahead : x \in Ahead' \/ x = <<c.type, c.depth>>
      /\ \A x \in Ahead' :
           \/ x \in Ahead
           \/ /\ ~Returns(c) /\ ~Reached(d) /\ x = <<x[1], d>>
              /\ x[1] \in DOMAIN shown.kind => x[1] \in Refers(shown, c.type)
      /\ ~Returns(c) /\ ~Reached(d) => \A u \in Refers(shown, c.type) : <<u, d>> \in Ahead'
  BY <1>0, AheadAfter
<1>l. /\ \A x \in Ahead : x[2] \in 1..asked.depth
      /\ \A x \in Ahead : x[1] \in DOMAIN shown.kind => x[1] \in near(asked.depth - x[2])
      /\ shaker.kept \subseteq near(asked.depth - 1)
      /\ \A u \in near(asked.depth - 1) :
           u \in shaker.kept \/ \E x \in Ahead : u \in Within(shown, x[1], x[2] - 1)
  BY DEF LimitedInv
<1>3. /\ c.depth \in 1..asked.depth /\ d = c.depth - 1 /\ ~Reached(c.depth) /\ c.field = NoField
      /\ c.depth # Unlimited /\ c.depth \in Nat /\ (Reached(d) <=> c.depth = 1)
  <2>1. <<c.type, c.depth>>[2] \in 1..asked.depth
    BY <1>2, <1>l
  <2>2. c.depth \in 1..asked.depth
    BY <2>1
  <2>3. c.depth \in Nat /\ c.depth # 0
    BY <2>2
  <2>4. d = c.depth - 1 /\ c.depth # Unlimited
    BY <2>3, DepthsDecrease
  <2>5. c.field = NoField
    BY <1>0, CallReplaced
  <2> QED BY <2>2, <2>3, <2>4, <2>5 DEF Reached
<1>4. c.type \in DOMAIN shown.kind =>
        /\ c.type \in near(asked.depth - c.depth) /\ c.type \in shaker'.kept /\ ~Returns(c)
  <2> SUFFICES ASSUME c.type \in DOMAIN shown.kind
               PROVE  c.type \in near(asked.depth - c.depth) /\ c.type \in shaker'.kept /\ ~Returns(c)
    OBVIOUS
  <2>1. <<c.type, c.depth>>[1] = c.type /\ <<c.type, c.depth>>[2] = c.depth
    OBVIOUS
  <2>2. c.type \in near(asked.depth - c.depth)
    BY <1>2, <1>l, <2>1
  <2>3. c.type \in shaker'.kept
    BY <1>0, <1>3, CalledIsKept
  <2>4. ~Returns(c)
    BY <1>3 DEF Returns, Walked
  <2> QED BY <2>2, <2>3, <2>4
<1>n. /\ asked.depth \in Nat /\ asked.depth - 1 \in Nat /\ asked.depth - c.depth \in Nat
      /\ asked.depth - c.depth <= asked.depth - 1
      /\ asked.depth - d = (asked.depth - c.depth) + 1
  BY <1>3
<1>r. ~Returns(c) => c.type \in DOMAIN shown.kind
  BY <1>1
<1> HIDE DEF d, Ahead, Returns, Reached, Refers, Within
<1>5. ASSUME NEW x \in Ahead'
      PROVE  /\ x[2] \in 1..asked.depth
             /\ x[1] \in DOMAIN shown.kind => x[1] \in near(asked.depth - x[2])
  <2>1. CASE x \in Ahead
    BY <1>l, <2>1
  <2>2. CASE x \notin Ahead
    <3>1. /\ ~Returns(c) /\ ~Reached(d) /\ x = <<x[1], d>>
          /\ x[1] \in DOMAIN shown.kind => x[1] \in Refers(shown, c.type)
      BY <1>2, <2>2
    <3>2. x[2] = d
      BY <3>1
    <3>3. d \in 1..asked.depth
      BY <1>3, <1>n, <3>1
    <3>4. ASSUME x[1] \in DOMAIN shown.kind PROVE x[1] \in near(asked.depth - x[2])
      <4>1. x[1] \in Refers(shown, c.type) /\ c.type \in near(asked.depth - c.depth)
        BY <1>4, <1>r, <3>1, <3>4
      <4>2. x[1] \in near((asked.depth - c.depth) + 1)
        BY <1>n, <4>1, WalkGoesOn
      <4> QED BY <1>n, <3>2, <4>2
    <3> QED BY <3>2, <3>3, <3>4
  <2> QED BY <2>1, <2>2
<1>6. shaker'.kept \subseteq near(asked.depth - 1)
  <2>1. CASE Returns(c)
    BY <1>1, <1>l, <2>1
  <2>2. CASE ~Returns(c)
    <3>1. near(asked.depth - c.depth) \subseteq near(asked.depth - 1)
      BY <1>n, WalksAreMore
    <3> QED BY <1>1, <1>4, <1>l, <2>2, <3>1
  <2> QED BY <2>1, <2>2
<1>7. ASSUME NEW u \in near(asked.depth - 1)
      PROVE  u \in shaker'.kept \/ \E x \in Ahead' : u \in Within(shown, x[1], x[2] - 1)
  <2>1. CASE u \in shaker.kept
    BY <1>1, <2>1
  <2>2. CASE u \notin shaker.kept
    <3>1. PICK x \in Ahead : u \in Within(shown, x[1], x[2] - 1)
      BY <1>l, <2>2
    <3>2. CASE x \in Ahead'
      BY <3>1, <3>2
    <3>3. CASE x \notin Ahead'
      <4>1. x = <<c.type, c.depth>>
        BY <1>2, <3>3
      <4>2. u \in Within(shown, c.type, c.depth - 1) /\ c.depth - 1 \in Nat
        BY <1>3, <3>1, <4>1
      <4>3. c.type \in DOMAIN shown.kind
        BY <4>2, WalksAreOfTypes
      <4>4. CASE u = c.type
        BY <1>4, <4>3, <4>4
      <4>5. CASE u # c.type
        <5>1. c.depth # 1
          <6> SUFFICES ASSUME c.depth = 1 PROVE FALSE
            OBVIOUS
          <6>1. u \in Within(shown, c.type, 0)
            BY <4>2
          <6> QED BY <4>5, <6>1, WalksOfNone
        <5>2. PICK n \in Nat : n = c.depth - 2
          BY <1>3, <5>1
        <5>3. u \in Within(shown, c.type, n + 1)
          <6>1. n + 1 = c.depth - 1
            BY <1>3, <5>2
          <6> QED BY <4>2, <6>1
        <5>4. PICK v \in Refers(shown, c.type) : u \in Within(shown, v, n)
          BY <4>5, <5>3, WalkStartsOff
        <5>5. <<v, d>> \in Ahead'
          BY <1>2, <1>3, <1>4, <4>3, <5>1
        <5>6. <<v, d>>[1] = v /\ <<v, d>>[2] - 1 = n
          BY <1>3, <5>2
        <5> QED BY <5>4, <5>5, <5>6
      <4> QED BY <4>4, <4>5
    <3> QED BY <3>2, <3>3
  <2> QED BY <2>1, <2>2
<1> QED BY <1>1, <1>5, <1>6, <1>7 DEF LimitedInv

\* A call keeps what is known of an introspection.
LEMMA CallKeepsIntrospection ==
  ASSUME LookupTypeOK, IntrospectInv, RetainCall
  PROVE  IntrospectInv'
<1> SUFFICES ASSUME step' = "introspected" PROVE IntrospectInv'
  BY DEF IntrospectInv
<1>0. PICK c : c = Head(calls)
  OBVIOUS
<1>1. /\ UNCHANGED <<indexVars, used, todo, shown>>
      /\ Returns(c) => shaker' = shaker
      /\ ~Returns(c) => (c.field = NoField => shaker'.cut = shaker.cut)
  BY <1>0, NodeIsKept
<1>2. step = "introspected" /\ asked' = asked /\ shown' = shown /\ todo' = todo
  BY <1>1 DEF indexVars
<1>3. /\ asked.type \in DOMAIN shown.kind /\ asked.depth \in Nat
      /\ todo = <<>> /\ shaker.cut = {}
      /\ \A x \in ToSet(calls) : x.field = NoField
      /\ IF asked.depth = 0 THEN UnlimitedInv ELSE LimitedInv
  BY <1>2 DEF IntrospectInv
<1>4. IF asked.depth = 0 THEN UnlimitedInv' ELSE LimitedInv'
  BY <1>3, UnlimitedCall, LimitedCall
<1>5. \A x \in ToSet(calls') : x.field = NoField
  <2>1. PICK R : ToSet(calls) = {c} \cup R /\ ToSet(calls') = CallsBelow(c) \cup R
    BY <1>0, CallReplaced
  <2>2. c \in Calls
    BY <1>0, CallReplaced
  <2>3. \A b \in ToSet(Below(c)) : b.field = NoField
    BY <2>2, BelowIsAsked DEF LookupTypeOK
  <2>4. \A a \in c.args : WholeType(a, c.argDepth).field = NoField
    BY <2>2, CallsMade DEF Calls
  <2> QED BY <1>3, <2>1, <2>3, <2>4 DEF CallsBelow
<1>6. shaker'.cut = {}
  <2>1. c.field = NoField
    BY <1>0, <1>3, CallReplaced
  <2> QED BY <1>1, <1>3, <2>1
<1> HIDE DEF UnlimitedInv, LimitedInv, Calls
<1> QED BY <1>2, <1>3, <1>4, <1>5, <1>6 DEF IntrospectInv

-----------------------------------------------------------------------------
(* The other steps of the lookups. *)

\* The index leaves the lookups alone until they begin.
LEMMA IndexingKeepsLookups ==
  ASSUME ClimbInv, LookupTypeOK, Indexing
  PROVE  /\ UNCHANGED lookupVars /\ [IndexNext]_indexVars
         /\ \/ step' \notin {"searched", "introspected"} /\ step \notin {"searched", "introspected"}
            \/ UNCHANGED <<mutations, step, walkVars, climbVars, asked>> /\ Released
<1>1. UNCHANGED lookupVars /\ [IndexNext]_indexVars
  BY DEF Indexing, IndexNext
<1>2. CASE Visit \/ Indexed \/ Search \/ Climb \/ Climbed
  <2>1. /\ step \in {"indexing", "ready", "climbing"}
        /\ step' \in {"indexing", "ready", "climbing", "showing"}
    BY <1>2 DEF Visit, Indexed, Search, Climb, Climbed
  <2> QED BY <1>1, <2>1
<1>3. CASE Released /\ Republish
  BY <1>1, <1>3 DEF Republish
<1> QED BY <1>2, <1>3 DEF Indexing

\* The types of the lookups, whatever the step.
LEMMA LookupTypesStep ==
  ASSUME ClimbInv, PathsInv, LookupTypeOK, [SearchNext]_searchVars
  PROVE  LookupTypeOK'
<1>1. CASE Indexing
  <2>1. used' = used /\ todo' = todo /\ calls' = calls /\ shaker' = shaker /\ shown' = shown
    BY <1>1 DEF Indexing, lookupVars
  <2>2. \/ step' \notin {"searched", "introspected"} /\ step \notin {"searched", "introspected"}
        \/ step' = step /\ found' = found
    BY <1>1, IndexingKeepsLookups DEF climbVars
  <2>3. used' \subseteq found'
    BY <2>1, <2>2 DEF LookupTypeOK
  <2> HIDE DEF Calls
  <2> QED BY <2>1, <2>2, <2>3 DEF LookupTypeOK
<1>2. CASE Show
  <2> DEFINE most == IF Cardinality(found) < MaxResults THEN Cardinality(found) ELSE MaxResults
  <2>1. most \in Nat
    <3>1. Cardinality(found) \in Nat
      BY FS_CardinalityType DEF PathsInv
    <3> QED BY <3>1, SearchAssumption
  <2>2. PICK best \in [1..most -> found] : todo' = best /\ used' = {best[i] : i \in 1..most}
    BY <1>2 DEF Show
  <2> HIDE DEF most
  <2>3. used' \subseteq found /\ todo' \in Seq(used')
    <3>1. PICK U : U = {best[i] : i \in 1..most}
      OBVIOUS
    <3>2. PICK m \in Nat : m = most
      BY <2>1
    <3>3. best \in [1..m -> U] /\ U \subseteq found
      BY <3>1, <3>2
    <3>4. best \in Seq(U)
      BY <3>3
    <3> QED BY <2>2, <3>1, <3>3, <3>4
  <2>4. /\ shown' = schema /\ calls' = calls /\ shaker' = shaker /\ found' = found
        /\ step = "showing" /\ step' = "searched"
    BY <1>2 DEF Show, Shown, climbVars
  <2>5. calls = <<>> /\ shaker = Untouched
    BY <2>4 DEF LookupTypeOK
  <2>6. shaker' \in [kept : SUBSET DOMAIN shown'.kind, cut : SUBSET Words,
                     names : SUBSET (Words \X Words)]
    BY <2>4, <2>5 DEF Untouched
  <2>7. schema \in Schemas \cup Updates
    BY DEF PathsInv
  <2> HIDE DEF Calls
  <2> QED BY <2>3, <2>4, <2>6, <2>7 DEF LookupTypeOK
<1>3. CASE Introspect
  <2>1. PICK t \in DOMAIN schema.kind, n \in 0..MaxDepth :
          calls' = <<WholeType(t, IF n > 0 THEN n ELSE Unlimited)>>
    BY <1>3 DEF Introspect
  <2>2. /\ shown' = schema /\ used' = used /\ todo' = todo /\ shaker' = shaker /\ found' = found
        /\ step = "ready" /\ step' = "introspected"
    BY <1>3 DEF Introspect, Introspected, climbVars
  <2>3. schema \in Schemas \cup Updates
    BY DEF PathsInv
  <2>4. t \in Words
    BY <2>3, TypesAreValid
  <2>5. PICK d \in Depths : d = IF n > 0 THEN n ELSE Unlimited
    <3>1. n \in Nat
      BY SearchAssumption
    <3> QED BY <3>1 DEF Depths
  <2> DEFINE c == WholeType(t, d)
  <2>6. c \in Calls /\ IsFiniteSet(c.args)
    BY <2>4, CallsMade, FS_EmptySet
  <2>7. calls' = <<c>>
    BY <2>1, <2>5
  <2> HIDE DEF c, Calls
  <2>8. calls' \in Seq(Calls) /\ ToSet(calls') = {c}
    <3>1. <<c>> \in Seq(Calls) /\ DOMAIN <<c>> = {1} /\ <<c>>[1] = c
      BY <2>6
    <3> QED BY <2>7, <3>1 DEF ToSet
  <2>9. /\ used' \subseteq found' /\ todo' \in Seq(used')
        /\ shaker' \in [kept : SUBSET DOMAIN shown'.kind, cut : SUBSET Words,
                        names : SUBSET (Words \X Words)]
    <3>1. used = {} /\ todo = <<>> /\ shaker = Untouched
      BY <2>2 DEF LookupTypeOK
    <3>2. <<>> \in Seq(used')
      BY EmptySeq
    <3> QED BY <2>2, <3>1, <3>2 DEF Untouched
  <2> QED BY <2>2, <2>3, <2>6, <2>8, <2>9 DEF LookupTypeOK
<1>4. CASE RetainPath
  <2>1. /\ calls = <<>> /\ todo # <<>>
        /\ calls' = [i \in DOMAIN Head(todo) |-> RetainNode(Head(todo), i)]
        /\ todo' = Tail(todo) /\ UNCHANGED <<indexVars, used, shaker, shown>>
    BY <1>4 DEF RetainPath
  <2>2. step' = step /\ found' = found
    BY <2>1 DEF indexVars, climbVars
  <2>3. Head(todo) \in used /\ Tail(todo) \in Seq(used)
    BY <2>1, SetOfHeadAndTail DEF LookupTypeOK
  <2>4. PICK path \in found : path = Head(todo)
    BY <2>3 DEF LookupTypeOK
  <2>5. /\ path \in Paths /\ Len(path) \in Nat \ {0} /\ DOMAIN path = 1..Len(path)
        /\ GoodPath(indexed, path)
    BY EndOfPath DEF PathsInv
  <2>6. ASSUME NEW i \in DOMAIN path
        PROVE  RetainNode(path, i) \in Calls /\ IsFiniteSet(RetainNode(path, i).args)
    <3>1. PICK n \in Nodes : n = path[i]
      BY <2>5, EndOfPath
    <3>2. n.type \in Words /\ n.field \in Words /\ n.args \in SUBSET Words /\ NoField \in Words
      BY DEF Nodes, Words
    <3>3. IsFiniteSet(n.args)
      BY <2>5, <3>1 DEF GoodPath, GoodNode
    <3>4. LeafDepth \in Depths /\ 1 \in Depths /\ Unlimited \in Depths
      BY SearchAssumption, DepthsDecrease DEF Depths
    <3> QED BY <3>1, <3>2, <3>3, <3>4 DEF RetainNode, ToRetain, Calls
  <2>7. calls' \in Seq(Calls) /\ ToSet(calls') = {RetainNode(path, i) : i \in DOMAIN path}
    <3> DEFINE b(i) == RetainNode(path, i)
    <3>1. calls' = [i \in DOMAIN path |-> b(i)] /\ \A i \in DOMAIN path : b(i) \in Calls
      BY <2>1, <2>4, <2>6
    <3> HIDE DEF b, Calls, Paths
    <3>2. calls' \in Seq(Calls)
      BY <2>5, <3>1
    <3>3. ToSet(calls') = {b(i) : i \in DOMAIN path}
      BY <3>1 DEF ToSet
    <3> QED BY <3>2, <3>3 DEF b
  <2>8. step \in {"searched", "introspected"}
    BY <2>1 DEF LookupTypeOK
  <2> HIDE DEF Calls, RetainNode
  <2> QED BY <2>1, <2>2, <2>3, <2>6, <2>7, <2>8 DEF LookupTypeOK
<1>5. CASE RetainCall
  BY <1>5, CallKeepsTypes
<1>6. CASE UNCHANGED searchVars
  <2>1. UNCHANGED <<used, todo, calls, shaker, shown, step, found>>
    BY <1>6 DEF searchVars, lookupVars, indexVars, climbVars
  <2> HIDE DEF Calls
  <2> QED BY <2>1 DEF LookupTypeOK
<1> QED BY <1>1, <1>2, <1>3, <1>4, <1>5, <1>6 DEF SearchNext

\* An introspection starts with one call, for the type that is asked for.
LEMMA IntrospectionStarts ==
  ASSUME PathsInv, LookupTypeOK, Introspect
  PROVE  IntrospectInv'
<1>1. PICK t \in DOMAIN schema.kind, n \in 0..MaxDepth :
        /\ asked' = [type |-> t, depth |-> n]
        /\ calls' = <<WholeType(t, IF n > 0 THEN n ELSE Unlimited)>>
  BY DEF Introspect
<1>2. /\ shown' = schema /\ todo' = todo /\ shaker' = shaker /\ step = "ready"
  BY DEF Introspect
<1>3. todo = <<>> /\ shaker = Untouched /\ schema \in Schemas \cup Updates
  BY <1>2 DEF LookupTypeOK, PathsInv
<1>4. t \in Words /\ n \in Nat
  BY <1>3, TypesAreValid, SearchAssumption
<1>5. PICK d \in Depths : d = IF n > 0 THEN n ELSE Unlimited
  BY <1>4 DEF Depths
<1> DEFINE c == WholeType(t, d)
<1>6. c \in Calls /\ c.field = NoField /\ Asks(c) = {<<t, d>>}
  BY <1>4, CallsMade
<1>7. calls' = <<c>>
  BY <1>1, <1>5
<1> HIDE DEF c, Calls, Asks
<1>8. ToSet(calls') = {c}
  <2>1. DOMAIN <<c>> = {1} /\ <<c>>[1] = c
    OBVIOUS
  <2> QED BY <1>7, <2>1 DEF ToSet
<1>9. Ahead' = {<<t, d>>}
  <2>1. Ahead' = UNION {Asks(x) : x \in ToSet(calls')}
    BY DEF Ahead, Asks
  <2> QED BY <1>6, <1>8, <2>1
<1> DEFINE a == <<t, d>>
<1>10. a[1] = t /\ a[2] = d /\ Ahead' = {a}
  BY <1>9
<1> HIDE DEF a, Ahead
<1>11. AheadTypes' = {t}
  BY <1>10 DEF AheadTypes
<1>12. shaker'.kept = {} /\ shaker'.cut = {} /\ asked'.type = t /\ asked'.depth = n
  BY <1>1, <1>2, <1>3 DEF Untouched
<1>13. CASE n = 0
  <2>1. d = Unlimited
    BY <1>5, <1>13
  <2>2. UnlimitedInv'
    BY <1>10, <1>11, <1>12, <2>1 DEF UnlimitedInv
  <2> QED BY <1>2, <1>3, <1>6, <1>8, <1>12, <1>13, <2>2 DEF IntrospectInv
<1>14. CASE n # 0
  <2>1. d = n /\ n \in 1..n /\ n - n = 0 /\ n - 1 \in Nat
    BY <1>4, <1>5, <1>14
  <2>2. t \in Within(schema, t, n - n)
    BY <2>1, WalkOfNone
  <2> HIDE DEF Within
  <2>3. /\ \A x \in Ahead' : x[2] \in 1..asked'.depth
        /\ \A x \in Ahead' : x[1] \in DOMAIN shown'.kind => x[1] \in Within(shown', asked'.type, asked'.depth - x[2])
    BY <1>2, <1>10, <1>12, <2>1, <2>2
  <2>4. \A u \in Within(shown', asked'.type, asked'.depth - 1) :
          \E x \in Ahead' : u \in Within(shown', x[1], x[2] - 1)
    BY <1>2, <1>10, <1>12, <2>1
  <2>5. LimitedInv'
    BY <1>12, <2>3, <2>4 DEF LimitedInv
  <2> QED BY <1>2, <1>3, <1>4, <1>6, <1>8, <1>12, <1>14, <2>5 DEF IntrospectInv
<1> QED BY <1>13, <1>14

\* What is known of an introspection, whatever the step.
LEMMA IntrospectionStep ==
  ASSUME ClimbInv, PathsInv, LookupTypeOK, IntrospectInv, [SearchNext]_searchVars
  PROVE  IntrospectInv'
<1>1. ASSUME step' = step, asked' = asked, UNCHANGED lookupVars
      PROVE  IntrospectInv'
  <2>1. UNCHANGED <<step, asked, used, todo, calls, shaker, shown>>
    BY <1>1 DEF lookupVars
  <2>2. Ahead' = Ahead /\ AheadTypes' = AheadTypes
    BY <2>1 DEF Ahead, AheadTypes, Asks
  <2> HIDE DEF Ahead, AheadTypes
  <2>3. (UnlimitedInv => UnlimitedInv') /\ (LimitedInv => LimitedInv')
    BY <2>1, <2>2 DEF UnlimitedInv, LimitedInv
  <2> HIDE DEF UnlimitedInv, LimitedInv
  <2> QED BY <2>1, <2>3 DEF IntrospectInv
<1>2. CASE Indexing
  <2>1. UNCHANGED lookupVars
    BY <1>2 DEF Indexing
  <2>2. step' # "introspected" \/ (step' = step /\ asked' = asked)
    BY <1>2, IndexingKeepsLookups
  <2> QED BY <1>1, <2>1, <2>2 DEF IntrospectInv
<1>3. CASE Show
  BY <1>3 DEF Show, Shown, IntrospectInv
<1>4. CASE Introspect
  BY <1>4, IntrospectionStarts
<1>5. CASE RetainPath
  <2>1. todo # <<>> /\ UNCHANGED indexVars
    BY <1>5 DEF RetainPath
  <2>2. step' = step
    BY <2>1 DEF indexVars
  <2> QED BY <2>1, <2>2 DEF IntrospectInv
<1>6. CASE RetainCall
  BY <1>6, CallKeepsIntrospection
<1>7. CASE UNCHANGED searchVars
  BY <1>1, <1>7 DEF searchVars, indexVars
<1> QED BY <1>2, <1>3, <1>4, <1>5, <1>6, <1>7 DEF SearchNext

-----------------------------------------------------------------------------
(* What a search retains. *)

\* What an input type refers to are input types.
LEMMA InputsLeadToInputs ==
  ASSUME NEW s \in Schemas \cup Updates, NEW t, IsInput(s, t), NEW u \in Refers(s, t)
  PROVE  u \in DOMAIN s.kind /\ IsInput(s, u)
<1>1. t \in DOMAIN s.kind /\ s.kind[t] # "union" /\ u \in DOMAIN s.kind
  BY DEF IsInput, Refers
<1>2. PICK i \in DOMAIN s.fields[t] : u \in {s.fields[t][i].type} \cup s.fields[t][i].args
  BY <1>1 DEF Refers
<1>3. s.fields[t][i].args = {}
  BY <1>1, TypesAreValid
<1>4. u = s.fields[t][i].type
  BY <1>2, <1>3
<1> QED BY <1>1, <1>4, TypesAreValid

\* While the root paths are retained: a call for an output type retains it, one for an
\* input type calls for what it refers to.
LEMMA CallKeepsUsable ==
  ASSUME ClimbInv, PathsInv, LookupTypeOK, UsableInv, RetainCall
  PROVE  UsableInv'
<1> SUFFICES ASSUME step' = "searched", shown' = indexed' PROVE UsableInv'
  BY DEF UsableInv
<1>0. PICK c : c = Head(calls)
  OBVIOUS
<1> DEFINE d == Decrement(c.depth)
<1>1. /\ UNCHANGED <<indexVars, used, todo, shown>>
      /\ Returns(c) => shaker' = shaker
      /\ ~Returns(c) =>
           /\ c.type \in DOMAIN shown.kind /\ ~Reached(c.depth)
           /\ shaker'.kept = shaker.kept \cup {c.type}
           /\ IF c.field = NoField THEN shaker'.names = shaker.names
              ELSE shaker'.names = shaker.names \cup {<<c.type, c.field>>}
  BY <1>0, NodeIsKept
<1>2. /\ step = "searched" /\ shown = indexed /\ shown' = shown /\ used' = used /\ todo' = todo
      /\ shown \in Schemas \cup Updates
  BY <1>1 DEF indexVars, walkVars, LookupTypeOK
<1>3. /\ \A x \in ToSet(calls) :
           /\ x.argDepth = Unlimited
           /\ x.depth = 1 \/ (x.depth = Unlimited /\ x.field = NoField)
      /\ \A x \in Ahead : x[1] \in DOMAIN shown.kind => (x[2] = Unlimited <=> IsInput(shown, x[1]))
      /\ \A t \in shaker.kept : IsInput(shown, t) => Refers(shown, t) \subseteq shaker.kept \cup InputsAhead
      /\ \A p \in used : p \in ToSet(todo) \/ \A k \in DOMAIN p : NodeServed(p[k])
  BY <1>2 DEF UsableInv
<1>4. /\ <<c.type, c.depth>> \in Ahead
      /\ \A x \in Ahead : x \in Ahead' \/ x = <<c.type, c.depth>>
      /\ \A x \in Ahead' :
           \/ x \in Ahead
           \/ /\ ~Returns(c) /\ ~Reached(d) /\ x = <<x[1], d>>
              /\ x[1] \in DOMAIN shown.kind => x[1] \in Refers(shown, c.type)
      /\ ~Returns(c) /\ ~Reached(d) => \A u \in Refers(shown, c.type) : <<u, d>> \in Ahead'
  BY <1>0, AheadAfter
<1>5. /\ c \in Calls /\ c \in ToSet(calls)
      /\ \E R : ToSet(calls) = {c} \cup R /\ ToSet(calls') = CallsBelow(c) \cup R
  BY <1>0, CallReplaced
<1>6. /\ c.argDepth = Unlimited /\ ~Reached(c.depth)
      /\ \/ c.depth = 1 /\ c.depth # Unlimited /\ Reached(d)
         \/ c.depth = Unlimited /\ c.field = NoField /\ d = Unlimited /\ ~Reached(d)
  <2>1. c.argDepth = Unlimited /\ (c.depth = 1 \/ (c.depth = Unlimited /\ c.field = NoField))
    BY <1>3, <1>5
  <2>2. 1 # Unlimited /\ Decrement(1) = 0 /\ Reached(0) /\ ~Reached(1)
    BY DEF Unlimited, Decrement, Reached
  <2> QED BY <2>1, <2>2, DepthsDecrease
<1>7. c.type \in DOMAIN shown.kind =>
        c.type \in shaker'.kept /\ (c.depth = Unlimited <=> IsInput(shown, c.type))
  <2>1. <<c.type, c.depth>>[1] = c.type /\ <<c.type, c.depth>>[2] = c.depth
    OBVIOUS
  <2>2. c.type \in DOMAIN shown.kind => (c.depth = Unlimited <=> IsInput(shown, c.type))
    BY <1>3, <1>4, <2>1
  <2>3. c.type \in DOMAIN shown.kind => c.type \in shaker'.kept
    BY <1>0, <1>6, CalledIsKept
  <2> QED BY <2>2, <2>3
<1>8. /\ \A b \in ToSet(Below(c)) : b.field = NoField /\ b.depth = d /\ b.argDepth = b.depth
      /\ Reached(d) => ToSet(Below(c)) = {}
  BY <1>2, <1>5, BelowIsAsked
<1>9. \A a \in c.args : /\ WholeType(a, c.argDepth).field = NoField
                        /\ WholeType(a, c.argDepth).depth = c.argDepth
                        /\ WholeType(a, c.argDepth).argDepth = c.argDepth
  BY <1>5, CallsMade DEF Calls
<1>k. shaker.kept \subseteq shaker'.kept /\ shaker.names \subseteq shaker'.names
  BY <1>1
<1> HIDE DEF d, Ahead, Returns, Reached, Refers, Calls, Below, WholeType
\* the calls
<1>10. \A x \in ToSet(calls') :
         /\ x.argDepth = Unlimited
         /\ x.depth = 1 \/ (x.depth = Unlimited /\ x.field = NoField)
  <2> SUFFICES ASSUME NEW x \in ToSet(calls')
               PROVE  /\ x.argDepth = Unlimited
                      /\ x.depth = 1 \/ (x.depth = Unlimited /\ x.field = NoField)
    OBVIOUS
  <2>1. CASE x \in ToSet(calls)
    BY <1>3, <2>1
  <2>2. CASE x \in ToSet(Below(c))
    BY <1>6, <1>8, <2>2
  <2>3. ASSUME NEW a \in c.args, x = WholeType(a, c.argDepth)
        PROVE  x.argDepth = Unlimited /\ x.depth = Unlimited /\ x.field = NoField
    BY <1>6, <1>9, <2>3
  <2> QED BY <1>5, <2>1, <2>2, <2>3 DEF CallsBelow
\* what is ahead
<1>11. \A x \in Ahead' : x[1] \in DOMAIN shown.kind => (x[2] = Unlimited <=> IsInput(shown, x[1]))
  <2> SUFFICES ASSUME NEW x \in Ahead', x[1] \in DOMAIN shown.kind
               PROVE  x[2] = Unlimited <=> IsInput(shown, x[1])
    OBVIOUS
  <2>1. CASE x \in Ahead
    BY <1>3, <2>1
  <2>2. CASE x \notin Ahead
    <3>1. ~Returns(c) /\ ~Reached(d) /\ x = <<x[1], d>> /\ x[1] \in Refers(shown, c.type)
      BY <1>4, <2>2
    <3>2. x[2] = Unlimited /\ c.depth = Unlimited
      <4>1. d = Unlimited /\ c.depth = Unlimited
        BY <1>6, <3>1
      <4>2. x[2] = d
        BY <3>1
      <4> QED BY <4>1, <4>2
    <3>3. IsInput(shown, c.type)
      BY <1>1, <1>7, <3>1, <3>2
    <3>4. IsInput(shown, x[1])
      BY <1>2, <3>1, <3>3, InputsLeadToInputs
    <3> QED BY <3>2, <3>4
  <2> QED BY <2>1, <2>2
\* no input type is forgotten
<1>12. ASSUME NEW u \in DOMAIN shown.kind, u \in shaker.kept \cup InputsAhead
       PROVE  u \in shaker'.kept \cup InputsAhead'
  <2>1. CASE u \in shaker.kept
    BY <1>k, <2>1
  <2>2. CASE <<u, Unlimited>> \in Ahead'
    BY <1>2, <2>2 DEF InputsAhead
  <2>3. CASE u \in InputsAhead /\ <<u, Unlimited>> \notin Ahead'
    <3>1. <<u, Unlimited>> = <<c.type, c.depth>>
      BY <1>4, <2>3 DEF InputsAhead
    <3>2. u = c.type
      BY <3>1
    <3> QED BY <1>7, <1>12, <3>2
  <2> QED BY <1>12, <2>1, <2>2, <2>3
<1>13. \A t \in shaker'.kept : IsInput(shown, t) => Refers(shown, t) \subseteq shaker'.kept \cup InputsAhead'
  <2> SUFFICES ASSUME NEW t \in shaker'.kept, IsInput(shown, t), NEW u \in Refers(shown, t)
               PROVE  u \in shaker'.kept \cup InputsAhead'
    OBVIOUS
  <2>1. u \in DOMAIN shown.kind
    BY DEF Refers
  <2>2. CASE t \in shaker.kept
    BY <1>3, <1>12, <2>1, <2>2
  <2>3. CASE t \notin shaker.kept
    <3>1. ~Returns(c) /\ t = c.type /\ c.type \in DOMAIN shown.kind
      BY <1>1, <2>3
    <3>2. c.depth = Unlimited
      BY <1>7, <3>1
    <3>3. d = Unlimited /\ ~Reached(d)
      <4>1. 1 # Unlimited
        BY DEF Unlimited
      <4> QED BY <1>6, <3>2, <4>1
    <3>4. <<u, Unlimited>> \in Ahead'
      BY <1>4, <3>1, <3>3
    <3> QED BY <1>2, <2>1, <3>4 DEF InputsAhead
  <2> QED BY <2>2, <2>3
\* a node that was served is
<1>14. ASSUME NEW n, n.type \in DOMAIN shown.kind, NodeServed(n)
       PROVE  NodeServed(n)'
  <2>1. n.args \cap DOMAIN shown.kind \subseteq shaker'.kept \cup InputsAhead'
    BY <1>12, <1>14 DEF NodeServed
  <2>2. \/ n.type \in shaker'.kept /\ (n.field # NoField => <<n.type, n.field>> \in shaker'.names)
        \/ \E x \in ToSet(calls') : x.type = n.type /\ x.field = n.field
    <3>1. CASE n.type \in shaker.kept /\ (n.field # NoField => <<n.type, n.field>> \in shaker.names)
      BY <1>k, <3>1
    <3>2. ASSUME NEW x \in ToSet(calls), x.type = n.type, x.field = n.field, x # c
          PROVE  x \in ToSet(calls')
      BY <1>5, <3>2
    <3>3. CASE c.type = n.type /\ c.field = n.field
      <4>1. n.type \in shaker'.kept
        BY <1>7, <1>14, <3>3
      <4>2. ASSUME n.field # NoField PROVE <<n.type, n.field>> \in shaker'.names
        <5>1. c.depth # Unlimited
          BY <1>6, <3>3, <4>2
        <5>2. ~Returns(c)
          BY <1>6, <1>14, <3>3, <5>1 DEF Returns, Walked
        <5> QED BY <1>1, <3>3, <4>2, <5>2
      <4> QED BY <4>1, <4>2
    <3> QED BY <1>14, <3>1, <3>2, <3>3 DEF NodeServed
  <2> HIDE DEF InputsAhead
  <2> QED BY <1>2, <2>1, <2>2 DEF NodeServed
<1>15. \A p \in used' : p \in ToSet(todo') \/ \A k \in DOMAIN p : NodeServed(p[k])'
  <2> SUFFICES ASSUME NEW p \in used, p \notin ToSet(todo), NEW k \in DOMAIN p
               PROVE  NodeServed(p[k])'
    BY <1>2
  <2>1. NodeServed(p[k])
    BY <1>3
  <2>2. p[k].type \in DOMAIN shown.kind
    BY <1>2 DEF LookupTypeOK, PathsInv, ClimbInv, WalkInv, WalkTypeOK
  <2> QED BY <1>14, <2>1, <2>2
<1> HIDE DEF NodeServed, InputsAhead
<1> QED BY <1>2, <1>10, <1>11, <1>13, <1>15 DEF UsableInv

\* The first call of a root path's nodes: each for an output type, with all of its input.
LEMMA PathIsCalledFor ==
  ASSUME LeafDepth = 1, ClimbInv, PathsInv, LookupTypeOK, UsableInv, RetainPath
  PROVE  UsableInv'
<1> SUFFICES ASSUME step' = "searched", shown' = indexed' PROVE UsableInv'
  BY DEF UsableInv
<1>1. /\ calls = <<>> /\ todo # <<>>
      /\ calls' = [i \in DOMAIN Head(todo) |-> RetainNode(Head(todo), i)]
      /\ todo' = Tail(todo) /\ UNCHANGED <<indexVars, used, shaker, shown>>
  BY DEF RetainPath
<1>2. step = "searched" /\ shown = indexed
  BY <1>1 DEF indexVars, walkVars
<1>3. /\ Head(todo) \in used /\ ToSet(todo) = {Head(todo)} \cup ToSet(Tail(todo))
  BY <1>1, SetOfHeadAndTail DEF LookupTypeOK
<1>4. PICK path \in found : path = Head(todo)
  BY <1>3 DEF LookupTypeOK
<1>5. /\ path \in Paths /\ Len(path) \in Nat \ {0} /\ DOMAIN path = 1..Len(path)
      /\ (\A k \in DOMAIN path : GoodNode(shown, path[k])) /\ path[Len(path)].field = NoField
  BY <1>2, EndOfPath DEF PathsInv, GoodPath
<1> DEFINE b(i) == RetainNode(path, i)
<1>6. ASSUME NEW i \in DOMAIN path
      PROVE  /\ b(i).type = path[i].type /\ b(i).field = path[i].field
             /\ b(i).depth = 1 /\ b(i).args = path[i].args /\ b(i).argDepth = Unlimited
             /\ Asks(b(i)) = {<<path[i].type, 1>>} \cup {<<a, Unlimited>> : a \in path[i].args}
  <2>1. /\ b(i).type = path[i].type /\ b(i).field = path[i].field
        /\ b(i).depth = 1 /\ b(i).args = path[i].args /\ b(i).argDepth = Unlimited
    BY <1>5 DEF RetainNode, ToRetain
  <2> HIDE DEF b
  <2> QED BY <2>1 DEF Asks
<1> HIDE DEF b, Paths, GoodNode
<1>7. ToSet(calls') = {b(i) : i \in DOMAIN path}
  BY <1>1, <1>4 DEF ToSet, b
<1>8. Ahead' = UNION {Asks(b(i)) : i \in DOMAIN path}
  <2>1. Ahead' = UNION {Asks(x) : x \in ToSet(calls')}
    BY DEF Ahead, Asks
  <2> HIDE DEF Ahead, Asks
  <2> QED BY <1>7, <2>1
<1>9. Ahead = {}
  BY <1>1, EmptySeq DEF Ahead, ToSet
<1>10. InputsAhead = {}
  BY <1>9 DEF InputsAhead
<1>u. 1 # Unlimited
  BY DEF Unlimited
<1> HIDE DEF Ahead, Asks
<1>11. \A x \in ToSet(calls') :
         x.argDepth = Unlimited /\ (x.depth = 1 \/ (x.depth = Unlimited /\ x.field = NoField))
  BY <1>6, <1>7
<1>12. \A x \in Ahead' : x[1] \in DOMAIN shown.kind => (x[2] = Unlimited <=> IsInput(shown, x[1]))
  <2> SUFFICES ASSUME NEW i \in DOMAIN path, NEW x \in Asks(b(i)), x[1] \in DOMAIN shown.kind
               PROVE  x[2] = Unlimited <=> IsInput(shown, x[1])
    BY <1>8
  <2>1. /\ ~IsInput(shown, path[i].type)
        /\ \A a \in path[i].args \cap DOMAIN shown.kind : IsInput(shown, a)
    BY <1>2, <1>5 DEF GoodNode
  <2>2. CASE x = <<path[i].type, 1>>
    <3>1. x[1] = path[i].type /\ x[2] = 1
      BY <2>2
    <3> QED BY <1>u, <2>1, <3>1
  <2>3. ASSUME NEW a \in path[i].args, x = <<a, Unlimited>>
        PROVE  x[2] = Unlimited /\ IsInput(shown, x[1])
    <3>1. x[1] = a /\ x[2] = Unlimited
      BY <2>3
    <3> QED BY <2>1, <3>1
  <2> QED BY <1>6, <2>2, <2>3
<1>13. \A t \in shaker'.kept : IsInput(shown, t) => Refers(shown, t) \subseteq shaker'.kept \cup InputsAhead'
  BY <1>1, <1>2, <1>10 DEF UsableInv
<1>14. ASSUME NEW k \in DOMAIN path PROVE NodeServed(path[k])'
  <2>1. b(k) \in ToSet(calls') /\ b(k).type = path[k].type /\ b(k).field = path[k].field
    BY <1>6, <1>7
  <2>2. path[k].args \cap DOMAIN shown.kind \subseteq InputsAhead'
    <3> SUFFICES ASSUME NEW a \in path[k].args, a \in DOMAIN shown.kind PROVE a \in InputsAhead'
      OBVIOUS
    <3>1. <<a, Unlimited>> \in Asks(b(k))
      BY <1>6
    <3>2. <<a, Unlimited>> \in Ahead'
      BY <1>8, <3>1
    <3> QED BY <1>1, <3>2 DEF InputsAhead
  <2> HIDE DEF InputsAhead
  <2> QED BY <1>1, <2>1, <2>2 DEF NodeServed
<1>15. ASSUME NEW p \in used, NEW k \in DOMAIN p, NodeServed(p[k])
       PROVE  NodeServed(p[k])'
  <2>1. ToSet(calls) = {}
    BY <1>1, EmptySeq DEF ToSet
  <2>2. /\ p[k].type \in shaker.kept /\ (p[k].field # NoField => <<p[k].type, p[k].field>> \in shaker.names)
        /\ p[k].args \cap DOMAIN shown.kind \subseteq shaker.kept
    BY <1>10, <1>15, <2>1 DEF NodeServed
  <2> QED BY <1>1, <2>2 DEF NodeServed
<1>16. \A p \in used' : p \in ToSet(todo') \/ \A k \in DOMAIN p : NodeServed(p[k])'
  <2> SUFFICES ASSUME NEW p \in used, p \notin ToSet(Tail(todo)), NEW k \in DOMAIN p
               PROVE  NodeServed(p[k])'
    BY <1>1
  <2>1. CASE p = path
    BY <1>14, <2>1
  <2>2. CASE p # path
    <3>1. p \notin ToSet(todo)
      BY <1>3, <1>4, <2>2
    <3>2. NodeServed(p[k])
      BY <1>2, <3>1 DEF UsableInv
    <3> QED BY <1>15, <3>2
  <2> QED BY <2>1, <2>2
<1> HIDE DEF NodeServed, InputsAhead
<1> QED BY <1>1, <1>11, <1>12, <1>13, <1>16 DEF UsableInv

\* What the search retains, whatever the step.
LEMMA UsableStep ==
  ASSUME LeafDepth = 1, ClimbInv, PathsInv, LookupTypeOK, UsableInv, [SearchNext]_searchVars
  PROVE  UsableInv'
<1>1. ASSUME step' = step, indexed' = indexed, UNCHANGED lookupVars
      PROVE  UsableInv'
  <2>1. UNCHANGED <<step, indexed, used, todo, calls, shaker, shown>>
    BY <1>1 DEF lookupVars
  <2>2. Ahead' = Ahead /\ InputsAhead' = InputsAhead
    BY <2>1 DEF Ahead, InputsAhead, Asks
  <2> HIDE DEF Ahead, InputsAhead
  <2>3. ASSUME NEW n PROVE NodeServed(n)' <=> NodeServed(n)
    BY <2>1, <2>2 DEF NodeServed
  <2> HIDE DEF NodeServed
  <2>4. \A p \in used : (p \in ToSet(todo) \/ \A k \in DOMAIN p : NodeServed(p[k]))
                        => (p \in ToSet(todo) \/ \A k \in DOMAIN p : NodeServed(p[k])')
    BY <2>3
  <2> QED BY <2>1, <2>2, <2>4 DEF UsableInv
<1>2. CASE Indexing
  <2>1. UNCHANGED lookupVars
    BY <1>2 DEF Indexing
  <2>2. step' # "searched" \/ (step' = step /\ indexed' = indexed)
    BY <1>2, IndexingKeepsLookups DEF walkVars
  <2> QED BY <1>1, <2>1, <2>2 DEF UsableInv
<1>3. CASE Show
  <2> DEFINE most == IF Cardinality(found) < MaxResults THEN Cardinality(found) ELSE MaxResults
  <2>1. PICK best \in [1..most -> found] : todo' = best /\ used' = {best[i] : i \in 1..most}
    BY <1>3 DEF Show
  <2> HIDE DEF most
  <2>2. used' \subseteq ToSet(todo')
    BY <2>1 DEF ToSet
  <2>3. calls' = <<>> /\ shaker' = Untouched
    BY <1>3 DEF Show, Shown, LookupTypeOK
  <2>4. ToSet(calls') = {} /\ Ahead' = {} /\ shaker'.kept = {}
    BY <2>3, EmptySeq DEF ToSet, Ahead, Untouched
  <2> HIDE DEF NodeServed, InputsAhead
  <2> QED BY <2>2, <2>4 DEF UsableInv
<1>4. CASE Introspect
  BY <1>4 DEF Introspect, Introspected, UsableInv
<1>5. CASE RetainPath
  BY <1>5, PathIsCalledFor
<1>6. CASE RetainCall
  BY <1>6, CallKeepsUsable
<1>7. CASE UNCHANGED searchVars
  BY <1>1, <1>7 DEF searchVars, indexVars, walkVars
<1> QED BY <1>2, <1>3, <1>4, <1>5, <1>6, <1>7 DEF SearchNext

-----------------------------------------------------------------------------
\* With the lookups, the index still does nothing but what it is specified to do: what is
\* proved of it above holds of the lookups too.
THEOREM LookupsKeepTheIndex == SearchSpec => IndexSpec
<1>1. SearchInit => IndexInit
  BY DEF SearchInit
<1>2. [SearchNext]_searchVars => [IndexNext]_indexVars
  <2>1. Indexing => [IndexNext]_indexVars
    BY DEF Indexing, IndexNext
  <2>2. Show => [IndexNext]_indexVars
    BY DEF Show, IndexNext
  <2>3. Introspect => [IndexNext]_indexVars
    BY DEF Introspect, IndexNext
  <2>4. RetainPath \/ RetainCall \/ UNCHANGED searchVars => [IndexNext]_indexVars
    BY DEF RetainPath, RetainCall, searchVars
  <2> QED BY <2>1, <2>2, <2>3, <2>4 DEF SearchNext
<1> QED BY <1>1, <1>2, PTL DEF SearchSpec, IndexSpec

\* The paths of the index and the types of the lookups.
LEMMA LookupTypes == SearchSpec => [](PathsInv /\ LookupTypeOK)
<1>1. SearchInit => PathsInv /\ LookupTypeOK
  <2> SUFFICES ASSUME SearchInit PROVE PathsInv /\ LookupTypeOK
    OBVIOUS
  <2>1. IndexInit /\ PathsInv
    BY PathsStart DEF SearchInit
  <2>2. used = {} /\ todo = <<>> /\ calls = <<>> /\ shaker = Untouched /\ shown = schema /\ schema \in Schemas
    BY DEF SearchInit, IndexInit
  <2>3. calls \in Seq(Calls) /\ todo \in Seq(used) /\ ToSet(calls) = {}
    BY <2>2, EmptySeq DEF ToSet
  <2>4. shaker \in [kept : SUBSET DOMAIN shown.kind, cut : SUBSET Words, names : SUBSET (Words \X Words)]
    BY <2>2 DEF Untouched
  <2> HIDE DEF Calls
  <2> QED BY <2>1, <2>2, <2>3, <2>4 DEF LookupTypeOK
<1>2. ClimbInv /\ PathsInv /\ LookupTypeOK /\ [SearchNext]_searchVars /\ [IndexNext]_indexVars
        => (PathsInv /\ LookupTypeOK)'
  BY PathsStep, LookupTypesStep
<1> QED BY <1>1, <1>2, LookupsKeepTheIndex, ClimbInvariant, PTL DEF SearchSpec, IndexSpec

\* Whatever the schema and the depth, introspection shows exactly the types that are at
\* most so many references away, or all that there are: no type is lost because
\* retain_type met it before with less depth left, and it walks no type too far.
THEOREM IntrospectionShowsAll == SearchSpec => []IntrospectionIsExact
<1>1. SearchInit => IntrospectInv
  BY DEF SearchInit, IndexInit, IntrospectInv
<1>2. ClimbInv /\ PathsInv /\ LookupTypeOK /\ IntrospectInv /\ [SearchNext]_searchVars => IntrospectInv'
  BY IntrospectionStep
<1>3. LookupTypeOK /\ IntrospectInv => IntrospectionIsExact
  <2> SUFFICES ASSUME LookupTypeOK, IntrospectInv, step = "introspected", Released
               PROVE  /\ IF asked.depth = 0 THEN AllFrom(shown, asked.type, shaker.kept)
                         ELSE shaker.kept = Within(shown, asked.type, asked.depth - 1)
                      /\ shaker.cut = {}
    BY DEF IntrospectionIsExact
  <2>1. /\ shaker.cut = {} /\ shaker.kept \subseteq DOMAIN shown.kind /\ asked.type \in DOMAIN shown.kind
        /\ IF asked.depth = 0 THEN UnlimitedInv ELSE LimitedInv
    BY DEF IntrospectInv, LookupTypeOK
  <2>2. Ahead = {} /\ AheadTypes = {}
    <3>1. ToSet(calls) = {}
      BY EmptySeq DEF Released, ToSet
    <3> QED BY <3>1 DEF Ahead, AheadTypes
  <2>3. CASE asked.depth = 0
    <3>1. /\ asked.type \in shaker.kept /\ Closed(shown, shaker.kept)
          /\ \A T \in SUBSET DOMAIN shown.kind :
               asked.type \in T /\ Closed(shown, T) => shaker.kept \cap DOMAIN shown.kind \subseteq T
      BY <2>1, <2>2, <2>3 DEF UnlimitedInv, Closed
    <3>2. ASSUME NEW U \in SUBSET shaker.kept, asked.type \in U, Closed(shown, U)
          PROVE  U = shaker.kept
      <4>1. U \in SUBSET DOMAIN shown.kind
        BY <2>1
      <4>2. shaker.kept \cap DOMAIN shown.kind \subseteq U
        BY <3>1, <3>2, <4>1
      <4> QED BY <2>1, <4>2
    <3>3. AllFrom(shown, asked.type, shaker.kept)
      BY <3>1, <3>2 DEF AllFrom
    <3> QED BY <2>1, <2>3, <3>3
  <2>4. CASE asked.depth # 0
    <3>1. shaker.kept = Within(shown, asked.type, asked.depth - 1)
      BY <2>1, <2>2, <2>4 DEF LimitedInv
    <3> QED BY <2>1, <2>4, <3>1
  <2> QED BY <2>3, <2>4
<1> QED BY <1>1, <1>2, <1>3, LookupTypes, LookupsKeepTheIndex, ClimbInvariant, PTL DEF SearchSpec

\* An operation can be written from every search result, whatever the schema is and however
\* many matches, paths and results there are, if the leaves are shown to a depth of 1, as
\* they are unless the configuration says otherwise (runtime/introspection.rs:70). To a depth
\* of 2 it fails: an input type that a limited walk of a leaf retained first is not walked
\* again without a limit.
THEOREM SearchesAreUsable == ASSUME LeafDepth = 1 PROVE SearchSpec => []ResultsAreUsable
<1>1. SearchInit => UsableInv
  BY DEF SearchInit, IndexInit, UsableInv
<1>2. ClimbInv /\ PathsInv /\ LookupTypeOK /\ UsableInv /\ [SearchNext]_searchVars => UsableInv'
  BY UsableStep
<1>3. ClimbInv /\ PathsInv /\ LookupTypeOK /\ UsableInv => ResultsAreUsable
  <2> SUFFICES ASSUME ClimbInv, PathsInv, LookupTypeOK, UsableInv,
                      step = "searched", Released, shown = indexed, NEW p \in used
               PROVE  /\ Head(p).type \in Roots
                      /\ \A i \in DOMAIN p :
                           /\ InAnswer(p[i].type) \/ (p[i].type = Mutation /\ ~mutations)
                           /\ p[i].field # NoField => Shows(shaker, p[i].type, p[i].field)
                           /\ \E T \in SUBSET shaker.kept :
                                p[i].args \cap DOMAIN shown.kind \subseteq T /\ Closed(shown, T)
    BY DEF ResultsAreUsable
  <2>1. ToSet(calls) = {} /\ ToSet(todo) = {} /\ Ahead = {}
    <3>1. ToSet(calls) = {} /\ ToSet(todo) = {}
      BY EmptySeq DEF Released, ToSet
    <3> QED BY <3>1 DEF Ahead
  <2>2. InputsAhead = {}
    BY <2>1 DEF InputsAhead
  <2>3. p \in found /\ GoodPath(shown, p) /\ Head(p).type \in Roots
    BY DEF LookupTypeOK, PathsInv
  <2>4. /\ \A t \in shaker.kept : IsInput(shown, t) => Refers(shown, t) \subseteq shaker.kept
        /\ \A k \in DOMAIN p : NodeServed(p[k])
    BY <2>1, <2>2 DEF UsableInv
  <2>5. shown \in Schemas \cup Updates
    BY DEF LookupTypeOK
  <2> DEFINE T == {t \in shaker.kept : IsInput(shown, t)}
  <2>6. Closed(shown, T)
    <3> SUFFICES ASSUME NEW t \in T, NEW u \in Refers(shown, t) PROVE u \in T
      BY DEF Closed
    <3>1. u \in shaker.kept
      BY <2>4
    <3>2. IsInput(shown, u)
      BY <2>5, InputsLeadToInputs
    <3> QED BY <3>1, <3>2
  <2>7. ASSUME NEW i \in DOMAIN p
        PROVE  /\ InAnswer(p[i].type) \/ (p[i].type = Mutation /\ ~mutations)
               /\ p[i].field # NoField => Shows(shaker, p[i].type, p[i].field)
               /\ p[i].args \cap DOMAIN shown.kind \subseteq T
    <3>1. /\ p[i].type \in shaker.kept
          /\ p[i].field # NoField => <<p[i].type, p[i].field>> \in shaker.names
          /\ p[i].args \cap DOMAIN shown.kind \subseteq shaker.kept
      BY <2>1, <2>2, <2>4 DEF NodeServed
    <3>2. InAnswer(p[i].type) \/ (p[i].type = Mutation /\ ~mutations)
      BY <3>1 DEF InAnswer
    <3>3. p[i].field # NoField => Shows(shaker, p[i].type, p[i].field)
      BY <3>1 DEF Shows
    <3>4. \A a \in p[i].args \cap DOMAIN shown.kind : IsInput(shown, a)
      BY <2>3 DEF GoodPath, GoodNode
    <3> QED BY <3>1, <3>2, <3>3, <3>4
  <2> QED BY <2>3, <2>6, <2>7
<1> QED BY <1>1, <1>2, <1>3, LookupTypes, LookupsKeepTheIndex, ClimbInvariant, PTL DEF SearchSpec

-----------------------------------------------------------------------------
(* OperationCalls *)

\* The results of a call that are asked for: an app whose prefetch is its own operation has one.
Due == IF prefetch = document THEN {"result"} ELSE Results

\* The places that are still to be visited.
PlacesIn(r, S) == {Place(p.at, p.e) : p \in {q \in S : q.result = r}}
StillToVisit(r) == PlacesIn(r, ToSet(pending))

\* W are the places visited so far: what they lead to is visited or still to be, their private
\* fields are marked, and each fragment in spreads has been visited from one of them.
Visited(r, W) ==
  /\ Tops(Of(r)) \subseteq W \cup StillToVisit(r)
  /\ \A x \in W : Inside(Of(r), x) \subseteq W \cup StillToVisit(r)
  /\ \A x \in W : x.e.kind = "field" /\ x.e.private => Spot(x) \in private[r]
  /\ \A s \in spreads : s[1] = r => \E x \in W : x.e.kind = "spread" /\ x.e.name = s[2]

\* All private fields of a document are marked.
AllMarked(r) ==
  \A x \in Places(Of(r)) : x.e.kind = "field" /\ x.e.private => Spot(x) \in private[r]

CollectInv ==
  /\ {document, prefetch} \subseteq Documents \cup Prefetches
  /\ private \in [Results -> {private[r] : r \in Results}]
  /\ IsSequence(pending) /\ \A p \in ToSet(pending) : p.result \in Due
  /\ phase = "loading" => spreads = {}
  /\ phase = "collecting" => \A r \in Due :
       /\ StillToVisit(r) \subseteq Places(Of(r))
       /\ SpreadOnce(Of(r)) => \E W \in SUBSET Places(Of(r)) : Visited(r, W)
  /\ phase \in {"ready", "called", "prefetching", "answered", "done"} =>
       \A r \in Due : SpreadOnce(Of(r)) => AllMarked(r)

\* The host can put the results together, and the prefetch has one only if it was asked for.
ResultInv ==
  /\ phase = "prefetching" => prefetch # document
  /\ rawOther # Nothing => prefetch # document /\ phase \in {"answered", "done"}
  /\ PrivateFieldsAreFiltered

-----------------------------------------------------------------------------
\* The indices of a sequence.
LEMMA SequenceDomain ==
  ASSUME NEW s, IsSequence(s)
  PROVE  Len(s) \in Nat /\ DOMAIN s = 1..Len(s) /\ \A S : ToSet(s) \subseteq S => s \in Seq(S)
<1>1. Len(s) \in Nat /\ DOMAIN s = 1..Len(s)
  BY LenProperties DEF IsSequence
<1>2. ASSUME NEW S, ToSet(s) \subseteq S PROVE s \in Seq(S)
  <2>1. s \in [1..Len(s) -> ToSet(s)]
    BY LenProperties DEF IsSequence
  <2>2. s \in [1..Len(s) -> S]
    BY <1>2, <2>1
  <2> QED BY <1>1, <2>2, SeqDef
<1> QED BY <1>1, <1>2

\* Any sequence is one.
LEMMA SequenceMade ==
  ASSUME NEW S, NEW s \in Seq(S)
  PROVE  IsSequence(s) /\ ToSet(s) \subseteq S
<1>1. Len(s) \in Nat /\ s \in [1..Len(s) -> S] /\ DOMAIN s = 1..Len(s)
  BY LenProperties
<1>2. ToSet(s) \subseteq S
  BY <1>1 DEF ToSet
<1>3. s \in [1..Len(s) -> ToSet(s)]
  BY <1>1 DEF ToSet
<1> QED BY <1>1, <1>2, <1>3, SeqDef DEF IsSequence

\* Two sequences, one after the other.
LEMMA SequencesJoined ==
  ASSUME NEW a, NEW b, IsSequence(a), IsSequence(b)
  PROVE  IsSequence(a \o b) /\ ToSet(a \o b) = ToSet(a) \cup ToSet(b)
<1> DEFINE S == ToSet(a) \cup ToSet(b)
<1>1. a \in Seq(S) /\ b \in Seq(S)
  BY SequenceDomain
<1> HIDE DEF S
<1>2. a \o b \in Seq(S) /\ ToSet(a \o b) = ToSet(a) \cup ToSet(b)
  BY <1>1, SetOfJoined
<1>3. IsSequence(a \o b)
  BY <1>2, SequenceMade
<1> QED BY <1>2, <1>3

\* The selections of a set, to be visited.
LEMMA VisitsOf ==
  ASSUME NEW r, NEW at, NEW of, IsSequence(of)
  PROVE  /\ IsSequence(ToVisit(r, at, of))
         /\ \A p \in ToSet(ToVisit(r, at, of)) : p.result = r
         /\ PlacesIn(r, ToSet(ToVisit(r, at, of))) = {Place(at, s) : s \in ToSet(of)}
         /\ \A q : q # r => PlacesIn(q, ToSet(ToVisit(r, at, of))) = {}
<1> DEFINE v == ToVisit(r, at, of)
           S == {[result |-> r, at |-> at, e |-> x] : x \in ToSet(of)}
<1>1. Len(of) \in Nat /\ DOMAIN of = 1..Len(of)
  BY SequenceDomain
<1>2. DOMAIN v = 1..Len(of) /\ \A i \in 1..Len(of) : v[i] = [result |-> r, at |-> at, e |-> of[i]]
  BY <1>1 DEF ToVisit
<1>3. v = [i \in 1..Len(of) |-> v[i]]
  BY <1>1, <1>2 DEF ToVisit
<1>4. \A i \in 1..Len(of) : of[i] \in ToSet(of)
  BY <1>1 DEF ToSet
<1>5. \A i \in 1..Len(of) : v[i] \in S
  BY <1>2, <1>4
<1> HIDE DEF v
<1>6. v \in [1..Len(of) -> S]
  BY <1>3, <1>5
<1>7. IsSequence(v) /\ ToSet(v) \subseteq S
  <2> HIDE DEF S
  <2>1. v \in Seq(S)
    BY <1>1, <1>6, SeqDef
  <2> QED BY <2>1, SequenceMade
<1>8. S \subseteq ToSet(v)
  BY <1>1, <1>2 DEF ToSet
<1>9. ToSet(v) = S
  BY <1>7, <1>8
<1>10. \A p \in S : p.result = r
  OBVIOUS
<1>11. PlacesIn(r, S) = {Place(at, s) : s \in ToSet(of)}
  <2>1. {y \in S : y.result = r} = S
    BY <1>10
  <2>2. {Place(p.at, p.e) : p \in S} = {Place(at, s) : s \in ToSet(of)}
    <3>1. ASSUME NEW s \in ToSet(of) PROVE \E p \in S : p.at = at /\ p.e = s
      <4>1. [result |-> r, at |-> at, e |-> s] \in S
        OBVIOUS
      <4> HIDE DEF S
      <4> QED BY <4>1
    <3>2. \A p \in S : p.at = at /\ p.e \in ToSet(of)
      OBVIOUS
    <3> HIDE DEF S
    <3> QED BY <3>1, <3>2
  <2> QED BY <2>1, <2>2 DEF PlacesIn
<1>12. \A q : q # r => PlacesIn(q, S) = {}
  BY <1>10 DEF PlacesIn
<1> QED BY <1>7, <1>9, <1>10, <1>11, <1>12 DEF v

\* What the places of a document are: its top selections, and what places lead to.
LEMMA PlacesAreClosed ==
  ASSUME NEW d \in Documents \cup Prefetches
  PROVE  /\ Tops(d) \subseteq Places(d) /\ \A x \in Places(d) : Inside(d, x) \subseteq Places(d)
         /\ \A W \in SUBSET Places(d) :
              Tops(d) \subseteq W /\ (\A x \in W : Inside(d, x) \subseteq W) => W = Places(d)
         /\ IsSequence(d.of)
         /\ \A x \in Places(d) :
              IsSequence(x.e.of) /\ (x.e.kind = "spread" => IsSequence(d.frags[x.e.name].of))
BY DocumentAssumption DEF ArePlaces

\* Where a field is, is a sequence of keys.
LEMMA SpotsAreSequences ==
  ASSUME NEW d \in Documents \cup Prefetches, NEW x \in Places(d)
  PROVE  Spot(x) \in Seq({y.e.key : y \in Places(d)}) /\ Spot(x) # <<>>
<1> DEFINE K == {y.e.key : y \in Places(d)}
           W == {y \in Places(d) : y.at \in Seq(K)}
<1>1. \A y \in W : Spot(y) \in Seq(K) /\ Spot(y) # <<>>
  <2> SUFFICES ASSUME NEW y \in W PROVE Spot(y) \in Seq(K) /\ Spot(y) # <<>>
    OBVIOUS
  <2>1. y.at \in Seq(K) /\ y.e.key \in K
    OBVIOUS
  <2> QED BY <2>1, AppendProperties DEF Spot
<1>2. Tops(d) \subseteq W
  <2>1. <<>> \in Seq(K)
    OBVIOUS
  <2>2. \A y \in Tops(d) : y \in Places(d) /\ y.at = <<>>
    BY PlacesAreClosed DEF Tops, Place
  <2> QED BY <2>1, <2>2
<1>3. ASSUME NEW y \in W, NEW z \in Inside(d, y) PROVE z \in W
  <2>1. z \in Places(d)
    BY <1>3, PlacesAreClosed
  <2>2. z.at = y.at \/ z.at = Spot(y)
    BY <1>3 DEF Inside, Place
  <2> QED BY <1>1, <1>3, <2>1, <2>2
<1>4. W = Places(d)
  BY <1>2, <1>3, PlacesAreClosed
<1> QED BY <1>1, <1>4

\* A marked place is left out.
LEMMA MarkedIsLeftOut ==
  ASSUME NEW K, NEW p \in Seq(K), p # <<>>, NEW tree, p \in tree, NEW v
  PROVE  p \notin DOMAIN Restricted(tree, v)
<1>1. Len(p) \in Nat /\ Len(p) >= 1
  BY EmptySeq, LenProperties
<1>2. SubSeq(p, 1, Len(p)) = p
  <2>1. \A k \in 1..Len(p) : p[k] \in K
    BY <1>1, LenProperties
  <2>2. /\ SubSeq(p, 1, Len(p)) \in Seq(K) /\ Len(SubSeq(p, 1, Len(p))) = Len(p)
        /\ \A k \in 1..Len(p) : SubSeq(p, 1, Len(p))[k] = p[k]
    BY <1>1, <2>1, SubSeqProperties
  <2> QED BY <2>2, SeqEqual
<1>3. Len(p) \in 1..Len(p)
  BY <1>1
<1> QED BY <1>2, <1>3 DEF Restricted, HasPrivate, Filtered

\* The places of what is to be visited next and of the rest.
LEMMA PlacesOfVisits ==
  ASSUME NEW r, NEW at, NEW of, IsSequence(of), NEW rest, IsSequence(rest)
  PROVE  LET v == ToVisit(r, at, of) \o rest
         IN /\ IsSequence(v) /\ \A p \in ToSet(v) : p.result = r \/ p \in ToSet(rest)
            /\ PlacesIn(r, ToSet(v)) = {Place(at, s) : s \in ToSet(of)} \cup PlacesIn(r, ToSet(rest))
            /\ \A q : q # r => PlacesIn(q, ToSet(v)) = PlacesIn(q, ToSet(rest))
<1> DEFINE new == ToVisit(r, at, of)
           v == new \o rest
<1>1. /\ IsSequence(new) /\ \A p \in ToSet(new) : p.result = r
      /\ PlacesIn(r, ToSet(new)) = {Place(at, s) : s \in ToSet(of)}
      /\ \A q : q # r => PlacesIn(q, ToSet(new)) = {}
  BY VisitsOf
<1>2. IsSequence(v) /\ ToSet(v) = ToSet(new) \cup ToSet(rest)
  BY <1>1, SequencesJoined
<1> HIDE DEF new, v
<1>3. \A q : PlacesIn(q, ToSet(v)) = PlacesIn(q, ToSet(new)) \cup PlacesIn(q, ToSet(rest))
  BY <1>2 DEF PlacesIn
<1>4. \A p \in ToSet(v) : p.result = r \/ p \in ToSet(rest)
  BY <1>1, <1>2
<1>5. \A q : q # r => PlacesIn(q, ToSet(v)) = PlacesIn(q, ToSet(rest))
  BY <1>1, <1>3
<1>6. PlacesIn(r, ToSet(v)) = {Place(at, s) : s \in ToSet(of)} \cup PlacesIn(r, ToSet(rest))
  BY <1>1, <1>3
<1> QED BY <1>2, <1>4, <1>5, <1>6 DEF v, new

\* The selection that the loop visits next, and the place it is.
LEMMA NextVisit ==
  ASSUME CollectInv, phase = "collecting", NEW h, h = Head(pending), pending # <<>>
  PROVE  LET x    == Place(h.at, h.e)
             rest == Tail(pending)
         IN /\ h.result \in Due /\ h.result \in Results
            /\ Of(h.result) \in Documents \cup Prefetches
            /\ x \in Places(Of(h.result)) /\ x \in StillToVisit(h.result)
            /\ IsSequence(rest) /\ \A p \in ToSet(rest) : p.result \in Due
            /\ StillToVisit(h.result) = {x} \cup PlacesIn(h.result, ToSet(rest))
            /\ \A q : q # h.result => StillToVisit(q) = PlacesIn(q, ToSet(rest))
<1> DEFINE x == Place(h.at, h.e)
           rest == Tail(pending)
<1>1. IsSequence(pending) /\ pending \in Seq(ToSet(pending))
  BY DEF CollectInv, IsSequence
<1>2. /\ h \in ToSet(pending) /\ rest \in Seq(ToSet(pending))
      /\ ToSet(pending) = {h} \cup ToSet(rest)
  BY <1>1, SetOfHeadAndTail
<1>3. IsSequence(rest) /\ \A p \in ToSet(rest) : p.result \in Due
  BY <1>2, SequenceMade DEF CollectInv
<1>4. h.result \in Due /\ h.result \in Results /\ Of(h.result) \in Documents \cup Prefetches
  BY <1>2 DEF CollectInv, Due, Results, Of
<1>5. \A q : StillToVisit(q) = PlacesIn(q, {h}) \cup PlacesIn(q, ToSet(rest))
  <2> HIDE DEF rest
  <2> QED BY <1>2 DEF StillToVisit, PlacesIn
<1>6. \A q : q # h.result => PlacesIn(q, {h}) = {}
  BY DEF PlacesIn
<1>7. PlacesIn(h.result, {h}) = {x}
  <2>1. {y \in {h} : y.result = h.result} = {h}
    OBVIOUS
  <2> QED BY <2>1 DEF PlacesIn
<1>8. x \in StillToVisit(h.result)
  BY <1>5, <1>7
<1>9. x \in Places(Of(h.result))
  BY <1>4, <1>8 DEF CollectInv
<1> HIDE DEF x, rest
<1> QED BY <1>3, <1>4, <1>5, <1>6, <1>7, <1>8, <1>9 DEF x, rest

\* Marking adds to the places of one result.
LEMMA MarksAreAdded ==
  ASSUME NEW r \in Results, NEW key, NEW M, private \in [Results -> {private[q] : q \in Results}],
         private' = [private EXCEPT ![r] = Marked(@, key, M)]
  PROVE  /\ private' \in [Results -> {private'[q] : q \in Results}]
         /\ \A q \in Results : private[q] \subseteq private'[q]
         /\ M \subseteq private'[r]
<1>1. private' = [q \in Results |-> IF q = r THEN private[r] \cup M ELSE private[q]]
  BY DEF Marked
<1>2. \A q \in Results : private'[q] = IF q = r THEN private[r] \cup M ELSE private[q]
  BY <1>1
<1>3. private' \in [Results -> {private'[q] : q \in Results}]
  BY <1>1
<1> QED BY <1>2, <1>3

\* What a turn of the loop does when it visits x of result r: N are the places that it calls
\* for.
TurnOf(r, x, N) ==
  /\ N \subseteq Inside(Of(r), x)
  /\ IsSequence(pending') /\ \A p \in ToSet(pending') : p.result \in Due
  /\ StillToVisit(r) \subseteq {x} \cup StillToVisit(r)'
  /\ StillToVisit(r)' \subseteq N \cup StillToVisit(r)
  /\ N \subseteq StillToVisit(r)'
  /\ \A q : q # r => StillToVisit(q)' = StillToVisit(q)
  /\ private' \in [Results -> {private'[q] : q \in Results}]
  /\ \A q \in Results : private[q] \subseteq private'[q]
  /\ x.e.kind = "field" /\ x.e.private => Spot(x) \in private'[r]
  /\ spreads \subseteq spreads'
  /\ \A s \in spreads' \ spreads : x.e.kind = "spread" /\ s = <<r, x.e.name>>
  /\ \/ N = Inside(Of(r), x)
     \/ x.e.kind = "spread" /\ <<r, x.e.name>> \in spreads

\* A turn of the loop visits one place of one result: its selections are to be visited
\* (unless it spreads a fragment again), and it is marked if it is private.
LEMMA PlaceVisited ==
  ASSUME CollectInv, CollectNext
  PROVE  \E r \in Due : \E x \in Places(Of(r)) :
           x \in StillToVisit(r) /\ \E N : TurnOf(r, x, N)
<1>1. phase = "collecting" /\ pending # <<>> /\ UNCHANGED <<document, prefetch>>
  BY DEF CollectNext, documentVars
<1>2. PICK h : h = Head(pending)
  OBVIOUS
<1>3. PICK r : r = h.result
  OBVIOUS
<1>4. PICK x : x = Place(h.at, h.e)
  OBVIOUS
<1>5. PICK rest : rest = Tail(pending)
  OBVIOUS
<1>6. /\ r \in Due /\ r \in Results /\ Of(r) \in Documents \cup Prefetches
      /\ x \in Places(Of(r)) /\ x \in StillToVisit(r)
      /\ IsSequence(rest) /\ \A p \in ToSet(rest) : p.result \in Due
      /\ StillToVisit(r) = {x} \cup PlacesIn(r, ToSet(rest))
      /\ \A q : q # r => StillToVisit(q) = PlacesIn(q, ToSet(rest))
  BY <1>1, <1>2, <1>3, <1>4, <1>5, NextVisit
<1>7. x.e = h.e /\ x.at = h.at /\ Spot(x) = Append(h.at, h.e.key)
  BY <1>4 DEF Place, Spot
<1>8. /\ IsSequence(h.e.of)
      /\ h.e.kind = "spread" => IsSequence(Of(r).frags[h.e.name].of)
  BY <1>6, <1>7, PlacesAreClosed
<1>9. Due' = Due
  BY <1>1 DEF Due
<1>10. ASSUME NEW at, NEW of, IsSequence(of), pending' = ToVisit(r, at, of) \o rest
       PROVE  LET N == {Place(at, s) : s \in ToSet(of)}
              IN /\ IsSequence(pending') /\ \A p \in ToSet(pending') : p.result \in Due
                 /\ StillToVisit(r) \subseteq {x} \cup StillToVisit(r)'
                 /\ StillToVisit(r)' \subseteq N \cup StillToVisit(r)
                 /\ N \subseteq StillToVisit(r)'
                 /\ \A q : q # r => StillToVisit(q)' = StillToVisit(q)
  <2> DEFINE N == {Place(at, s) : s \in ToSet(of)}
  <2>1. /\ IsSequence(pending') /\ \A p \in ToSet(pending') : p.result = r \/ p \in ToSet(rest)
        /\ PlacesIn(r, ToSet(pending')) = N \cup PlacesIn(r, ToSet(rest))
        /\ \A q : q # r => PlacesIn(q, ToSet(pending')) = PlacesIn(q, ToSet(rest))
    BY <1>6, <1>10, PlacesOfVisits
  <2>2. \A q : StillToVisit(q)' = PlacesIn(q, ToSet(pending'))
    BY DEF StillToVisit, PlacesIn
  <2> HIDE DEF N
  <2>3. /\ StillToVisit(r) \subseteq {x} \cup StillToVisit(r)'
        /\ StillToVisit(r)' \subseteq N \cup StillToVisit(r)
        /\ N \subseteq StillToVisit(r)'
        /\ \A q : q # r => StillToVisit(q)' = StillToVisit(q)
    BY <1>6, <2>1, <2>2
  <2>4. \A p \in ToSet(pending') : p.result \in Due
    BY <1>6, <2>1
  <2> QED BY <2>1, <2>3, <2>4 DEF N
<1>11. ASSUME pending' = rest
       PROVE  /\ IsSequence(pending') /\ \A p \in ToSet(pending') : p.result \in Due
              /\ StillToVisit(r) \subseteq {x} \cup StillToVisit(r)'
              /\ StillToVisit(r)' \subseteq {} \cup StillToVisit(r)
              /\ \A q : q # r => StillToVisit(q)' = StillToVisit(q)
  <2>1. \A q : StillToVisit(q)' = PlacesIn(q, ToSet(rest))
    BY <1>11 DEF StillToVisit, PlacesIn
  <2> QED BY <1>6, <1>11, <2>1
<1> DEFINE key == Append(h.at, h.e.key)
           marks(M) == private' = [private EXCEPT ![r] = Marked(@, key, M)]
<1>12. private \in [Results -> {private[q] : q \in Results}]
  BY DEF CollectInv
<1>13. \E N : TurnOf(r, x, N)
  <2>1. CASE /\ h.e.kind = "field" /\ h.e.private
             /\ marks({key}) /\ pending' = rest /\ UNCHANGED spreads
    <3>1. Inside(Of(r), x) = {}
      BY <1>7, <2>1 DEF Inside
    <3>2. /\ private' \in [Results -> {private'[q] : q \in Results}]
          /\ \A q \in Results : private[q] \subseteq private'[q]
          /\ Spot(x) \in private'[r]
      BY <1>6, <1>7, <1>12, <2>1, MarksAreAdded
    <3>3. TurnOf(r, x, {})
      BY <1>7, <1>11, <2>1, <3>1, <3>2 DEF TurnOf
    <3> QED BY <3>3
  <2>2. CASE /\ h.e.kind = "field" /\ ~h.e.private
             /\ UNCHANGED private \/ marks({})
             /\ pending' = ToVisit(r, key, h.e.of) \o rest /\ UNCHANGED spreads
    <3>1. Inside(Of(r), x) = {Place(key, s) : s \in ToSet(h.e.of)}
      BY <1>7, <2>2 DEF Inside
    <3>2. /\ private' \in [Results -> {private'[q] : q \in Results}]
          /\ \A q \in Results : private[q] \subseteq private'[q]
      BY <1>6, <1>12, <2>2, MarksAreAdded
    <3> HIDE DEF key
    <3>3. TurnOf(r, x, Inside(Of(r), x))
      BY <1>7, <1>8, <1>10, <2>2, <3>1, <3>2 DEF TurnOf
    <3> QED BY <3>3
  <2>3. CASE /\ h.e.kind = "spread" /\ <<r, h.e.name>> \notin spreads
             /\ spreads' = spreads \cup {<<r, h.e.name>>}
             /\ pending' = ToVisit(r, h.at, Of(r).frags[h.e.name].of) \o rest
             /\ UNCHANGED private
    <3>1. Inside(Of(r), x) = {Place(h.at, s) : s \in ToSet(Of(r).frags[h.e.name].of)}
      BY <1>7, <2>3 DEF Inside
    <3>2. TurnOf(r, x, Inside(Of(r), x))
      BY <1>7, <1>8, <1>10, <1>12, <2>3, <3>1 DEF TurnOf
    <3> QED BY <3>2
  <2>4. CASE /\ h.e.kind = "spread" /\ <<r, h.e.name>> \in spreads
             /\ pending' = rest /\ UNCHANGED <<spreads, private>>
    <3>1. TurnOf(r, x, {})
      BY <1>7, <1>11, <1>12, <2>4 DEF TurnOf
    <3> QED BY <3>1
  <2>5. CASE /\ h.e.kind = "inline"
             /\ pending' = ToVisit(r, h.at, h.e.of) \o rest
             /\ UNCHANGED <<spreads, private>>
    <3>1. Inside(Of(r), x) = {Place(h.at, s) : s \in ToSet(h.e.of)}
      BY <1>7, <2>5 DEF Inside
    <3>2. TurnOf(r, x, Inside(Of(r), x))
      BY <1>7, <1>8, <1>10, <1>12, <2>5, <3>1 DEF TurnOf
    <3> QED BY <3>2
  <2> QED BY <1>2, <1>3, <1>5, <2>1, <2>2, <2>3, <2>4, <2>5 DEF CollectNext
<1> QED BY <1>6, <1>13

\* A place that is visited joins those visited so far. A fragment that is spread again leads
\* to the places it led to before, unless it is spread in two places.
LEMMA VisitedMore ==
  ASSUME NEW r \in Results, NEW x, NEW N, TurnOf(r, x, N), UNCHANGED <<document, prefetch>>,
         x \in Places(Of(r)), x \in StillToVisit(r), SpreadOnce(Of(r)),
         NEW W \in SUBSET Places(Of(r)), Visited(r, W)
  PROVE  Visited(r, W \cup {x})'
<1> DEFINE V == W \cup {x}
           now == StillToVisit(r)
           next == StillToVisit(r)'
<1>1. Of(r)' = Of(r)
  BY DEF Of
<1>2. W \cup now \subseteq V \cup next
  BY DEF TurnOf
<1>3. Tops(Of(r)) \subseteq V \cup next
  BY <1>2 DEF Visited
<1>4. ASSUME NEW y \in V PROVE Inside(Of(r), y) \subseteq V \cup next
  <2>1. CASE y \in W
    BY <1>2, <2>1 DEF Visited
  <2>2. CASE y = x /\ N = Inside(Of(r), x)
    BY <2>2 DEF TurnOf
  <2>3. CASE y = x /\ x.e.kind = "spread" /\ <<r, x.e.name>> \in spreads
    <3>1. PICK z \in W : z.e.kind = "spread" /\ z.e.name = x.e.name
      BY <2>3 DEF Visited
    <3>2. z.at = x.at
      BY <2>3, <3>1 DEF SpreadOnce
    <3>3. Inside(Of(r), x) = Inside(Of(r), z)
      BY <2>3, <3>1, <3>2 DEF Inside
    <3> QED BY <1>2, <2>3, <3>1, <3>3 DEF Visited
  <2> QED BY <1>4, <2>1, <2>2, <2>3 DEF TurnOf
<1>5. \A y \in V : y.e.kind = "field" /\ y.e.private => Spot(y) \in private'[r]
  BY DEF Visited, TurnOf
<1>6. ASSUME NEW s \in spreads', s[1] = r PROVE \E y \in V : y.e.kind = "spread" /\ y.e.name = s[2]
  <2>1. CASE s \in spreads
    BY <1>6, <2>1 DEF Visited
  <2>2. CASE s \notin spreads
    BY <2>2 DEF TurnOf
  <2> QED BY <2>1, <2>2
<1> HIDE DEF V
<1>7. Visited(r, V)'
  BY <1>1, <1>3, <1>4, <1>5, <1>6 DEF Visited
<1> QED BY <1>7 DEF V

\* What is visited of another result is as it was.
LEMMA VisitedStays ==
  ASSUME NEW r \in Results, NEW q, q # r, NEW x, NEW N, TurnOf(q, x, N),
         UNCHANGED <<document, prefetch>>, NEW W, Visited(r, W)
  PROVE  Visited(r, W)'
<1>1. Of(r)' = Of(r) /\ StillToVisit(r)' = StillToVisit(r) /\ private[r] \subseteq private'[r]
  BY DEF Of, TurnOf
<1>2. \A s \in spreads' : s[1] = r => s \in spreads
  BY DEF TurnOf
<1> QED BY <1>1, <1>2 DEF Visited

\* A turn of the loop preserves the invariant.
LEMMA CollectStep ==
  ASSUME CollectInv, CollectNext
  PROVE  CollectInv'
<1>1. phase = "collecting" /\ UNCHANGED <<document, prefetch, phase>>
  BY DEF CollectNext, documentVars
<1>2. PICK r \in Due : \E x \in Places(Of(r)) : x \in StillToVisit(r) /\ \E N : TurnOf(r, x, N)
  BY PlaceVisited
<1>3. PICK x \in Places(Of(r)) : x \in StillToVisit(r) /\ \E N : TurnOf(r, x, N)
  BY <1>2
<1>4. PICK N : TurnOf(r, x, N)
  BY <1>3
<1>5. Due' = Due /\ Due \subseteq Results /\ \A q : Of(q)' = Of(q)
  BY <1>1 DEF Due, Of, Results
<1>6. \A q \in Due : Of(q) \in Documents \cup Prefetches
  BY DEF CollectInv, Of
<1>7. ASSUME NEW q \in Due PROVE StillToVisit(q)' \subseteq Places(Of(q))
  <2>1. StillToVisit(q) \subseteq Places(Of(q))
    BY <1>1 DEF CollectInv
  <2>2. CASE q = r
    <3>1. Inside(Of(r), x) \subseteq Places(Of(r))
      BY <1>6, PlacesAreClosed
    <3> QED BY <1>4, <2>1, <2>2, <3>1 DEF TurnOf
  <2>3. CASE q # r
    BY <1>4, <2>1, <2>3 DEF TurnOf
  <2> QED BY <2>2, <2>3
<1>8. ASSUME NEW q \in Due, SpreadOnce(Of(q))
      PROVE  \E W \in SUBSET Places(Of(q)) : Visited(q, W)'
  <2>1. PICK W \in SUBSET Places(Of(q)) : Visited(q, W)
    BY <1>1, <1>8 DEF CollectInv
  <2>2. CASE q = r
    <3>1. Visited(q, W \cup {x})'
      BY <1>1, <1>3, <1>4, <1>5, <1>8, <2>1, <2>2, VisitedMore
    <3> QED BY <2>1, <2>2, <3>1
  <2>3. CASE q # r
    <3>1. Visited(q, W)'
      BY <1>1, <1>4, <1>5, <2>1, <2>3, VisitedStays
    <3> QED BY <3>1
  <2> QED BY <2>2, <2>3
<1>9. \A q \in Due : SpreadOnce(Of(q))' <=> SpreadOnce(Of(q))
  BY <1>5 DEF SpreadOnce
<1>10. phase' = "collecting" /\ {document', prefetch'} \subseteq Documents \cup Prefetches
  BY <1>1 DEF CollectInv
<1>11. /\ IsSequence(pending') /\ \A p \in ToSet(pending') : p.result \in Due
       /\ private' \in [Results -> {private'[q] : q \in Results}]
  BY <1>4 DEF TurnOf
<1> QED BY <1>5, <1>7, <1>8, <1>9, <1>10, <1>11 DEF CollectInv

\* The loop starts with the top selections of each document.
LEMMA CollectStarts ==
  ASSUME CollectInv, phase = "loading", Collecting, phase' = "collecting",
         UNCHANGED <<document, prefetch, spreads, private>>
  PROVE  CollectInv'
<1> DEFINE others == IF prefetch = document THEN <<>> ELSE ToVisit("prefetch", <<>>, prefetch.of)
<1>1. Due' = Due /\ Due \subseteq Results /\ \A q : Of(q)' = Of(q)
  BY DEF Due, Of, Results
<1>2. \A q \in Due : Of(q) \in Documents \cup Prefetches /\ IsSequence(Of(q).of)
  BY PlacesAreClosed DEF CollectInv, Of
<1>3. document = Of("result") /\ "result" \in Due /\ "result" # "prefetch"
      /\ (prefetch # document => "prefetch" \in Due) /\ prefetch = Of("prefetch")
  BY DEF Of, Due, Results
<1>4. /\ IsSequence(others) /\ \A p \in ToSet(others) : p.result \in Due
      /\ PlacesIn("result", ToSet(others)) = {}
      /\ "prefetch" \in Due =>
           PlacesIn("prefetch", ToSet(others)) = {Place(<<>>, s) : s \in ToSet(prefetch.of)}
  <2>1. CASE prefetch = document
    <3>1. ToSet(others) = {} /\ IsSequence(others)
      BY <2>1 DEF ToSet, IsSequence
    <3>2. "prefetch" \notin Due
      BY <1>3, <2>1 DEF Due
    <3> QED BY <3>1, <3>2 DEF PlacesIn
  <2>2. CASE prefetch # document
    <3>1. others = ToVisit("prefetch", <<>>, prefetch.of) /\ IsSequence(prefetch.of)
      BY <1>2, <1>3, <2>2
    <3> HIDE DEF others
    <3> QED BY <1>3, <2>2, <3>1, VisitsOf
  <2> QED BY <2>1, <2>2
<1>5. pending' = ToVisit("result", <<>>, document.of) \o others
  BY DEF Collecting
<1> HIDE DEF others
<1>6. /\ IsSequence(pending') /\ \A p \in ToSet(pending') : p.result = "result" \/ p \in ToSet(others)
      /\ PlacesIn("result", ToSet(pending')) = {Place(<<>>, s) : s \in ToSet(document.of)}
      /\ PlacesIn("prefetch", ToSet(pending')) = PlacesIn("prefetch", ToSet(others))
  BY <1>2, <1>3, <1>4, <1>5, PlacesOfVisits
<1>7. \A p \in ToSet(pending') : p.result \in Due
  BY <1>3, <1>4, <1>6
<1>8. \A q \in Due : StillToVisit(q)' = Tops(Of(q))
  <2>1. \A q : StillToVisit(q)' = PlacesIn(q, ToSet(pending'))
    BY DEF StillToVisit, PlacesIn
  <2>2. StillToVisit("result")' = Tops(Of("result"))
    BY <1>3, <1>6, <2>1 DEF Tops
  <2>3. "prefetch" \in Due => StillToVisit("prefetch")' = Tops(Of("prefetch"))
    BY <1>3, <1>4, <1>6, <2>1 DEF Tops
  <2> QED BY <1>1, <2>2, <2>3 DEF Results
<1>9. ASSUME NEW q \in Due
      PROVE  StillToVisit(q)' \subseteq Places(Of(q)) /\ Visited(q, {})'
  <2>1. Tops(Of(q)) \subseteq Places(Of(q))
    BY <1>2, PlacesAreClosed
  <2>2. spreads' = {}
    BY DEF CollectInv
  <2> QED BY <1>1, <1>8, <2>1, <2>2 DEF Visited
<1>10. /\ private' \in [Results -> {private'[q] : q \in Results}]
       /\ {document', prefetch'} \subseteq Documents \cup Prefetches
  BY DEF CollectInv
<1>11. \A q \in Due : \E W \in SUBSET Places(Of(q)) : Visited(q, W)'
  BY <1>9
<1> QED BY <1>1, <1>6, <1>7, <1>9, <1>10, <1>11 DEF CollectInv

\* When the loop is done, what it visited is closed, and so it is every place.
LEMMA CollectEnds ==
  ASSUME CollectInv, Collected
  PROVE  CollectInv'
<1>1. /\ phase = "collecting" /\ pending = <<>> /\ phase' \in {"called", "ready"}
      /\ UNCHANGED <<document, prefetch, pending, spreads, private>>
  BY DEF Collected, documentVars, collectVars
<1>2. Due' = Due /\ Due \subseteq Results /\ \A q : Of(q)' = Of(q)
  BY <1>1 DEF Due, Of, Results
<1>3. ASSUME NEW q \in Due, SpreadOnce(Of(q)) PROVE AllMarked(q)
  <2>1. PICK W \in SUBSET Places(Of(q)) : Visited(q, W)
    BY <1>1, <1>3 DEF CollectInv
  <2>2. StillToVisit(q) = {}
    BY <1>1 DEF StillToVisit, PlacesIn, ToSet
  <2>3. Of(q) \in Documents \cup Prefetches
    BY DEF CollectInv, Of
  <2>4. W = Places(Of(q))
    BY <2>1, <2>2, <2>3, PlacesAreClosed DEF Visited
  <2> QED BY <2>1, <2>4 DEF Visited, AllMarked
<1>4. \A q \in Due : (SpreadOnce(Of(q))' <=> SpreadOnce(Of(q))) /\ (AllMarked(q)' <=> AllMarked(q))
  BY <1>1, <1>2 DEF SpreadOnce, AllMarked
<1>5. /\ {document', prefetch'} \subseteq Documents \cup Prefetches
      /\ private' \in [Results -> {private'[q] : q \in Results}]
      /\ IsSequence(pending') /\ \A p \in ToSet(pending') : p.result \in Due'
  BY <1>1, <1>2 DEF CollectInv
<1> QED BY <1>1, <1>2, <1>3, <1>4, <1>5 DEF CollectInv

\* Otherwise documents and marks stay as they are.
LEMMA CollectStays ==
  ASSUME CollectInv, UNCHANGED <<document, prefetch, pending, spreads, private>>,
         \/ phase' = phase
         \/ phase' \in {"skipped", "failed"}
         \/ /\ phase \in {"ready", "called", "prefetching", "answered"}
            /\ phase' \in {"called", "prefetching", "answered", "done"}
  PROVE  CollectInv'
<1>1. Due' = Due /\ \A q : Of(q)' = Of(q) /\ StillToVisit(q)' = StillToVisit(q)
  BY DEF Due, Of, StillToVisit, PlacesIn
<1>2. \A q : (SpreadOnce(Of(q))' <=> SpreadOnce(Of(q))) /\ (AllMarked(q)' <=> AllMarked(q))
  BY <1>1 DEF SpreadOnce, AllMarked
<1>3. \A q, W : Visited(q, W)' <=> Visited(q, W)
  BY <1>1 DEF Visited
<1>4. /\ {document', prefetch'} \subseteq Documents \cup Prefetches
      /\ private' \in [Results -> {private'[q] : q \in Results}]
      /\ IsSequence(pending') /\ \A p \in ToSet(pending') : p.result \in Due'
  BY <1>1 DEF CollectInv
<1>5. phase' = "loading" => spreads' = {}
  BY DEF CollectInv
<1>6. phase' = "collecting" => \A q \in Due :
        /\ StillToVisit(q)' \subseteq Places(Of(q))
        /\ SpreadOnce(Of(q)) => \E W \in SUBSET Places(Of(q)) : Visited(q, W)'
  <2> SUFFICES ASSUME phase' = "collecting" PROVE phase = "collecting"
    BY <1>1, <1>3 DEF CollectInv
  <2> QED OBVIOUS
<1>7. phase' \in {"ready", "called", "prefetching", "answered", "done"} =>
        \A q \in Due : SpreadOnce(Of(q)) => AllMarked(q)
  BY DEF CollectInv
<1> QED BY <1>1, <1>2, <1>4, <1>5, <1>6, <1>7 DEF CollectInv

\* Every step preserves the invariant of the loop and its marks.
LEMMA CollectInvStep ==
  ASSUME CollectInv, [OperationNext]_operationVars
  PROVE  CollectInv'
<1> USE DEF documentVars, collectVars
<1>1. CASE Load
  <2>1. CASE phase' = "collecting" /\ Collecting
    BY <1>1, <2>1, CollectStarts DEF Load
  <2>2. CASE phase' = "skipped" /\ UNCHANGED pending
    BY <1>1, <2>2, CollectStays DEF Load
  <2> QED BY <1>1, <2>1, <2>2 DEF Load
<1>2. CASE Execute
  <2>1. CASE phase' = "collecting" /\ Collecting
    BY <1>2, <2>1, CollectStarts DEF Execute
  <2>2. CASE phase' = "failed" /\ UNCHANGED pending
    BY <1>2, <2>2, CollectStays DEF Execute
  <2> QED BY <1>2, <2>1, <2>2 DEF Execute
<1>3. CASE CollectNext
  BY <1>3, CollectStep
<1>4. CASE Collected
  BY <1>4, CollectEnds
<1>5. CASE Call
  BY <1>5, CollectStays DEF Call
<1>6. CASE CallFails
  BY <1>6, CollectStays DEF CallFails
<1>7. CASE Answer
  BY <1>7, CollectStays DEF Answer
<1>8. CASE PrefetchAnswer
  BY <1>8, CollectStays DEF PrefetchAnswer
<1>9. CASE Nest
  BY <1>9, CollectStays DEF Nest
<1>10. CASE UNCHANGED operationVars
  BY <1>10, CollectStays DEF operationVars
<1> QED BY <1>1, <1>2, <1>3, <1>4, <1>5, <1>6, <1>7, <1>8, <1>9, <1>10 DEF OperationNext

-----------------------------------------------------------------------------
\* No private field of a document is in what the model sees of a response.
LEMMA PrivateIsLeftOut ==
  ASSUME CollectInv, phase \in {"called", "answered"}, NEW r \in Due, NEW v, SpreadOnce(Of(r)),
         NEW x \in Places(Of(r)), x.e.kind = "field" /\ x.e.private
  PROVE  Spot(x) \notin DOMAIN Restricted(private[r], v)
<1>1. Spot(x) \in private[r]
  BY DEF CollectInv, AllMarked
<1>2. Of(r) \in Documents \cup Prefetches
  BY DEF CollectInv, Of
<1> QED BY <1>1, <1>2, SpotsAreSequences, MarkedIsLeftOut

\* The response of a tool, or of the execute tool, is filtered.
LEMMA AnswerFilters ==
  ASSUME CollectInv, ResultInv, Answer
  PROVE  ResultInv'
<1>1. /\ phase = "called" /\ UNCHANGED <<document, prefetch, private, rawOther>>
      /\ \/ phase' \in {"answered", "prefetching"} /\ (phase' = "prefetching" => prefetch # document)
         \/ /\ view' = Content(TRUE, Restricted(private["result"], raw'), FALSE, Nothing)
            /\ host' = Content(HasPrivate(private["result"]), raw', FALSE, Nothing)
            /\ phase' = "done"
  BY DEF Answer, documentVars, collectVars
<1>2. rawOther = Nothing
  BY <1>1 DEF ResultInv
<1>3. CASE phase' \in {"answered", "prefetching"}
  BY <1>1, <1>2, <1>3 DEF ResultInv, PrivateFieldsAreFiltered
<1>4. CASE /\ view' = Content(TRUE, Restricted(private["result"], raw'), FALSE, Nothing)
           /\ host' = Content(HasPrivate(private["result"]), raw', FALSE, Nothing)
           /\ phase' = "done"
  <2>1. DOMAIN view' = {"result"} /\ view'["result"] = Restricted(private["result"], raw')
    BY <1>4 DEF Content, Results
  <2>2. "result" \in Due /\ Of("result")' = Of("result")
    BY <1>1 DEF Due, Results, Of
  <2>3. ASSUME SpreadOnce(Of("result")), NEW x \in Places(Of("result")),
               x.e.kind = "field" /\ x.e.private
        PROVE  Spot(x) \notin DOMAIN view'["result"]
    BY <1>1, <2>1, <2>2, <2>3, PrivateIsLeftOut
  <2>4. raw' = (IF "result" \in DOMAIN host' THEN host'["result"] ELSE view'["result"])
    <3>1. CASE HasPrivate(private["result"])
      BY <1>4, <3>1 DEF Content, Results
    <3>2. CASE ~HasPrivate(private["result"])
      BY <1>4, <2>1, <3>2 DEF Content, Results, Restricted
    <3> QED BY <3>1, <3>2
  <2>5. SpreadOnce(Of("result"))' <=> SpreadOnce(Of("result"))
    BY <2>2 DEF SpreadOnce
  <2>6. PrivateFieldsAreFiltered'
    BY <1>1, <1>2, <2>1, <2>2, <2>3, <2>4, <2>5 DEF PrivateFieldsAreFiltered
  <2> QED BY <1>1, <1>2, <1>4, <2>6 DEF ResultInv
<1> QED BY <1>1, <1>3, <1>4

\* Both results of an app's tool are filtered.
LEMMA NestFilters ==
  ASSUME CollectInv, ResultInv, Nest
  PROVE  ResultInv'
<1> DEFINE seen      == Restricted(private["result"], raw)
           seenOther == Restricted(private["prefetch"], rawOther)
<1>1. /\ phase = "answered" /\ phase' = "done"
      /\ UNCHANGED <<document, prefetch, private, raw, rawOther>>
      /\ view' = Content(TRUE, seen, rawOther # Nothing, seenOther)
      /\ host' = Content(seen # raw, raw, rawOther # Nothing /\ seenOther # rawOther, rawOther)
  BY DEF Nest, HostContent, documentVars, collectVars
<1> HIDE DEF seen, seenOther
<1>2. /\ DOMAIN view' \subseteq Results /\ view'["result"] = seen
      /\ "prefetch" \in DOMAIN view' <=> rawOther # Nothing
      /\ rawOther # Nothing => view'["prefetch"] = seenOther
  BY <1>1 DEF Content, Results
<1>3. /\ "result" \in DOMAIN host' <=> seen # raw
      /\ seen # raw => host'["result"] = raw
      /\ "prefetch" \in DOMAIN host' <=> rawOther # Nothing /\ seenOther # rawOther
      /\ rawOther # Nothing /\ seenOther # rawOther => host'["prefetch"] = rawOther
  BY <1>1 DEF Content, Results
<1>4. \A r : Of(r)' = Of(r)
  BY <1>1 DEF Of
<1>5. ASSUME NEW r \in DOMAIN view' PROVE r \in Due
  <2>1. rawOther # Nothing => prefetch # document
    BY DEF ResultInv
  <2> QED BY <1>2, <1>5, <2>1 DEF Due, Results
<1>6. ASSUME NEW r \in DOMAIN view', SpreadOnce(Of(r)), NEW x \in Places(Of(r)),
             x.e.kind = "field" /\ x.e.private
      PROVE  Spot(x) \notin DOMAIN view'[r]
  <2>1. r \in Due
    BY <1>5
  <2>2. \E v : view'[r] = Restricted(private[r], v)
    <3>1. CASE r = "result"
      BY <1>2, <3>1 DEF seen
    <3>2. CASE r = "prefetch"
      BY <1>2, <3>2 DEF seenOther
    <3> QED BY <1>2, <3>1, <3>2 DEF Results
  <2> QED BY <1>1, <1>6, <2>1, <2>2, PrivateIsLeftOut
<1>7. \A r \in DOMAIN view' : SpreadOnce(Of(r))' <=> SpreadOnce(Of(r))
  BY <1>4 DEF SpreadOnce
<1>8. raw' = (IF "result" \in DOMAIN host' THEN host'["result"] ELSE view'["result"])
  BY <1>1, <1>2, <1>3
<1>9. rawOther' # Nothing =>
        rawOther' = (IF "prefetch" \in DOMAIN host' THEN host'["prefetch"] ELSE view'["prefetch"])
  BY <1>1, <1>2, <1>3
<1>10. PrivateFieldsAreFiltered'
  BY <1>4, <1>6, <1>7, <1>8, <1>9 DEF PrivateFieldsAreFiltered
<1>11. rawOther' # Nothing => prefetch' # document' /\ phase' = "done"
  BY <1>1 DEF ResultInv
<1> QED BY <1>1, <1>10, <1>11 DEF ResultInv

\* Every step preserves the invariant of the results.
LEMMA ResultInvStep ==
  ASSUME CollectInv, ResultInv, [OperationNext]_operationVars
  PROVE  ResultInv'
<1> DEFINE Before == {"loading", "collecting", "ready", "called", "skipped", "failed"}
<1>1. ASSUME UNCHANGED <<document, prefetch, rawOther>>, phase \in Before, phase' \in Before
      PROVE  ResultInv'
  BY <1>1 DEF ResultInv, PrivateFieldsAreFiltered
<1> USE DEF documentVars, resultVars
<1>2. CASE Load
  BY <1>1, <1>2 DEF Load
<1>3. CASE Execute
  BY <1>1, <1>3 DEF Execute
<1>4. CASE CollectNext
  BY <1>1, <1>4 DEF CollectNext
<1>5. CASE Collected
  BY <1>1, <1>5 DEF Collected
<1>6. CASE Call
  BY <1>1, <1>6 DEF Call
<1>7. CASE CallFails
  BY <1>1, <1>7 DEF CallFails
<1>8. CASE Answer
  BY <1>8, AnswerFilters
<1>9. CASE PrefetchAnswer
  BY <1>9 DEF PrefetchAnswer, ResultInv, PrivateFieldsAreFiltered
<1>10. CASE Nest
  BY <1>10, NestFilters
<1>11. CASE UNCHANGED operationVars
  <2>1. \A r : Of(r)' = Of(r) /\ (SpreadOnce(Of(r))' <=> SpreadOnce(Of(r)))
    BY <1>11 DEF operationVars, Of, SpreadOnce
  <2> QED BY <1>11, <2>1 DEF operationVars, ResultInv, PrivateFieldsAreFiltered
<1> QED BY <1>2, <1>3, <1>4, <1>5, <1>6, <1>7, <1>8, <1>9, <1>10, <1>11 DEF OperationNext

\* No private field is in what the model sees of the results of a call, and the host gets all
\* of them, for every operation and prefetch that spread each fragment in one place, whatever
\* their selections and the responses are.
THEOREM PrivateFieldsStayPrivate == OperationSpec => []PrivateFieldsAreFiltered
<1>1. OperationInit => CollectInv /\ ResultInv
  <2> SUFFICES ASSUME OperationInit PROVE CollectInv /\ ResultInv
    OBVIOUS
  <2>1. {document, prefetch} \subseteq Documents \cup Prefetches
    BY DEF OperationInit
  <2>2. private \in [Results -> {private[r] : r \in Results}]
    BY DEF OperationInit
  <2>3. IsSequence(pending) /\ ToSet(pending) = {}
    BY DEF OperationInit, IsSequence, ToSet
  <2> QED BY <2>1, <2>2, <2>3 DEF OperationInit, CollectInv, ResultInv, PrivateFieldsAreFiltered
<1>2. CollectInv /\ ResultInv /\ [OperationNext]_operationVars => (CollectInv /\ ResultInv)'
  BY CollectInvStep, ResultInvStep
<1>3. ResultInv => PrivateFieldsAreFiltered
  BY DEF ResultInv
<1> QED BY <1>1, <1>2, <1>3, PTL DEF OperationSpec

-----------------------------------------------------------------------------
(* ToolDescription *)

\* The fields that a call selects from its type only: fragments have a type of their own.
OnlyHere(c, e) == c.do # "fragments" /\ e.kind = "field" /\ e.name # Typename

\* A call is for what the operation selects; whole types are those of arguments.
CallOK(c) ==
  /\ c.do \in {"fragments", "type", "member", "node", "whole"}
  /\ IsFiniteSet(c.args) /\ \A a \in c.args \cap DOMAIN Api.kind : IsInput(Api, a)
  /\ IF c.do = "whole" THEN InSchema(c) => IsInput(Api, c.type)
     ELSE /\ IsSequence(c.of)
          /\ \A e \in ToSet(c.of) :
               \E x \in Chosen(document) : x.e = e /\ (OnlyHere(c, e) => x.on = c.type)

\* The selections that are still to be retained.
Covers(c) ==
  {x \in Chosen(document) :
     /\ c.do \in {"type", "node"} /\ x \in AllOn(c.type, c.of)
     /\ c.do = "node" => x.e.kind = "field"}
StillToRetain == UNION {Covers(c) : c \in ToSet(retaining)}

\* The node of a selected field shows it.
IsShown(x) ==
  x.e.kind = "field" /\ x.e.name # Typename =>
    x.on \in nodes.kept /\ <<x.on, x.e.name>> \in nodes.names

\* W are the selections retained so far: what is under them is retained or still to be.
RetainedSoFar(W) ==
  /\ AllOn(Root(document), document.of) \subseteq W \cup StillToRetain
  /\ \A x \in W : Under(document, x) \subseteq W \cup StillToRetain
  /\ \A x \in W : IsShown(x)

\* Nothing is retained but what is selected, and the input types of arguments.
NodesOK ==
  /\ nodes = [kept |-> nodes.kept, cut |-> nodes.cut, names |-> nodes.names]
  /\ nodes.kept \subseteq DOMAIN Api.kind
  /\ \A t \in nodes.kept \ nodes.cut : IsInput(Api, t)
  /\ nodes.names \subseteq Selects(document)

\* What is retained is selected, and what is selected is retained or still to be.
RetainInv ==
  /\ document \in Documents
  /\ IsSequence(retaining) /\ \A c \in ToSet(retaining) : CallOK(c)
  /\ NodesOK
  /\ phase = "collecting" /\ via # "execute" => \E W \in SUBSET Chosen(document) : RetainedSoFar(W)
  /\ phase = "ready" => \A x \in Chosen(document) : IsShown(x)

-----------------------------------------------------------------------------
\* A sequence that is made of the items of another.
LEMMA SequenceMapped ==
  ASSUME NEW s, IsSequence(s), NEW f, f = [i \in DOMAIN s |-> f[i]]
  PROVE  IsSequence(f) /\ ToSet(f) = {f[i] : i \in DOMAIN s}
<1> DEFINE S == {f[i] : i \in DOMAIN s}
<1>1. Len(s) \in Nat /\ DOMAIN s = 1..Len(s)
  BY SequenceDomain
<1>2. DOMAIN f = 1..Len(s)
  BY <1>1
<1>3. f \in [1..Len(s) -> S]
  BY <1>1
<1>4. f \in Seq(S)
  <2> HIDE DEF S
  <2> QED BY <1>1, <1>3, SeqDef
<1>5. ToSet(f) = S
  BY <1>1, <1>2 DEF ToSet
<1> HIDE DEF S
<1>6. IsSequence(f)
  BY <1>4, SequenceMade
<1> QED BY <1>5, <1>6 DEF S

\* What follows the next call: those it makes, and the rest.
LEMMA AfterNext ==
  ASSUME NEW q, IsSequence(q), q # <<>>, NEW new, IsSequence(new)
  PROVE  /\ Head(q) \in ToSet(q) /\ ToSet(q) = {Head(q)} \cup ToSet(Tail(q))
         /\ IsSequence(Tail(q)) /\ IsSequence(new \o Tail(q))
         /\ ToSet(new \o Tail(q)) = ToSet(new) \cup ToSet(Tail(q))
<1>1. q \in Seq(ToSet(q))
  BY DEF IsSequence
<1>2. /\ Head(q) \in ToSet(q) /\ Tail(q) \in Seq(ToSet(q))
      /\ ToSet(q) = {Head(q)} \cup ToSet(Tail(q))
  BY <1>1, SetOfHeadAndTail
<1>3. IsSequence(Tail(q))
  BY <1>2, SequenceMade
<1> QED BY <1>2, <1>3, SequencesJoined

\* One call is a sequence.
LEMMA JustOne ==
  ASSUME NEW c
  PROVE  IsSequence(<<c>>) /\ ToSet(<<c>>) = {c}
<1>1. <<c>> \in Seq({c})
  OBVIOUS
<1>2. IsSequence(<<c>>)
  BY <1>1, SequenceMade
<1>3. ToSet(<<c>>) = {c}
  BY DEF ToSet
<1> QED BY <1>2, <1>3

\* The empty sequence.
LEMMA NoneIsSequence == IsSequence(<<>>) /\ ToSet(<<>>) = {}
<1>1. IsSequence(<<>>)
  BY DEF IsSequence
<1>2. ToSet(<<>>) = {}
  BY DEF ToSet
<1> QED BY <1>1, <1>2

\* What the selections of a document are.
LEMMA ChosenAreClosed ==
  ASSUME NEW d \in Documents
  PROVE  /\ AllOn(Root(d), d.of) \subseteq Chosen(d)
         /\ \A x \in Chosen(d) : Under(d, x) \subseteq Chosen(d)
         /\ \A W \in SUBSET Chosen(d) :
              AllOn(Root(d), d.of) \subseteq W /\ (\A x \in W : Under(d, x) \subseteq W)
              => W = Chosen(d)
         /\ \A x \in Chosen(d) :
              /\ ValidSelection(x)
              /\ IsSequence(x.e.of) /\ (x.e.kind = "spread" => IsSequence(d.frags[x.e.name].of))
BY DescriptionAssumption DEF AreChosen

\* What is not a fragment is for nothing.
LEMMA NoFragmentOK == CallOK(NoFragment) /\ Covers(NoFragment) = {}
<1>1. NoFragment = [do |-> "fragments", type |-> "", of |-> <<>>, args |-> {}]
  BY DEF NoFragment, Retain
<1>2. IsFiniteSet({})
  BY FS_EmptySet
<1> QED BY <1>1, <1>2, NoneIsSequence DEF CallOK, Covers

\* The selections of a sequence, each on a type.
LEMMA OnType ==
  ASSUME NEW t, NEW of
  PROVE  \A x : x \in AllOn(t, of) <=> x = On(t, x.e) /\ x.e \in ToSet(of)
BY DEF AllOn, On

\* What retaining a fragment is for. Nothing else is in a selection that is not a field.
LEMMA FragmentIsSelected ==
  ASSUME RetainInv, NEW e, NEW x \in Chosen(document), x.e = e
  PROVE  /\ CallOK(FragmentOf(e))
         /\ e.kind # "field" => \A y \in Under(document, x) : y \in Covers(FragmentOf(e))
<1>1. document \in Documents
  BY DEF RetainInv
<1>2. /\ Under(document, x) \subseteq Chosen(document)
      /\ ValidSelection(x) /\ IsSequence(e.of)
      /\ e.kind = "spread" => IsSequence(document.frags[e.name].of)
  BY <1>1, ChosenAreClosed
<1>3. IsFiniteSet({})
  BY FS_EmptySet
<1>4. ASSUME NEW t, NEW of, IsSequence(of), AllOn(t, of) \subseteq Chosen(document)
      PROVE  CallOK(Retain("type", t, of, {})) /\ AllOn(t, of) \subseteq Covers(Retain("type", t, of, {}))
  <2>1. \A s \in ToSet(of) : On(t, s) \in Chosen(document) /\ On(t, s).e = s /\ On(t, s).on = t
    BY <1>4 DEF AllOn, On
  <2>2. CallOK(Retain("type", t, of, {}))
    BY <1>3, <1>4, <2>1 DEF CallOK, Retain
  <2>3. AllOn(t, of) \subseteq Covers(Retain("type", t, of, {}))
    BY <1>4 DEF Covers, Retain
  <2> QED BY <2>2, <2>3
<1>5. CASE e.kind = "spread"
  <2>1. /\ Under(document, x) = AllOn(document.frags[e.name].on, document.frags[e.name].of)
        /\ FragmentOf(e) = Retain("type", document.frags[e.name].on, document.frags[e.name].of, {})
    BY <1>5 DEF Under, FragmentOf
  <2> QED BY <1>2, <1>4, <1>5, <2>1
<1>6. CASE e.kind = "inline" /\ e.name # Anything
  <2>1. Under(document, x) = AllOn(e.name, e.of) /\ FragmentOf(e) = Retain("type", e.name, e.of, {})
    BY <1>6 DEF Under, FragmentOf
  <2> QED BY <1>2, <1>4, <2>1
<1>7. CASE e.kind = "inline" /\ e.name = Anything
  <2>1. Under(document, x) = {} /\ FragmentOf(e) = NoFragment
    BY <1>7 DEF Under, FragmentOf
  <2> QED BY <2>1, NoFragmentOK
<1>8. CASE e.kind = "field"
  <2>1. FragmentOf(e) = Retain("fragments", "", e.of, {})
    BY <1>8 DEF FragmentOf
  <2>2. \A s \in ToSet(e.of) : \E y \in Chosen(document) : y.e = s
    <3>1. CASE e.name = Typename
      <4>1. e.of = <<>>
        BY <1>2, <1>8, <3>1 DEF ValidSelection
      <4> QED BY <4>1, NoneIsSequence
    <3>2. CASE e.name # Typename
      <4>1. HasField(Api, x.on, e.name)
        BY <1>2, <1>8, <3>2 DEF ValidSelection
      <4>2. Under(document, x) = AllOn(FieldOf(Api, x.on, e.name).type, e.of)
        BY <1>8, <4>1 DEF Under
      <4>3. \A s \in ToSet(e.of) : LET y == On(FieldOf(Api, x.on, e.name).type, s)
                                  IN y \in Chosen(document) /\ y.e = s
        BY <1>2, <4>2 DEF AllOn, On
      <4> QED BY <4>3
    <3> QED BY <3>1, <3>2
  <2>3. CallOK(FragmentOf(e))
    <3> DEFINE c == Retain("fragments", "", e.of, {})
    <3>1. c.do = "fragments" /\ c.of = e.of /\ c.args = {}
      BY DEF Retain
    <3> HIDE DEF c
    <3>2. \A s \in ToSet(c.of) : \E y \in Chosen(document) : y.e = s /\ (OnlyHere(c, s) => y.on = c.type)
      BY <2>2, <3>1 DEF OnlyHere
    <3>3. CallOK(c)
      BY <1>2, <1>3, <3>1, <3>2 DEF CallOK
    <3> QED BY <2>1, <3>3 DEF c
  <2> QED BY <1>8, <2>3
<1> QED BY <1>2, <1>5, <1>6, <1>7, <1>8 DEF ValidSelection

\* The fragments of a selection.
LEMMA FragmentsAreSelected ==
  ASSUME RetainInv, NEW c, CallOK(c), c.do # "whole"
  PROVE  /\ IsSequence(FragmentsOf(c)) /\ \A f \in ToSet(FragmentsOf(c)) : CallOK(f)
         /\ c.do = "type" => \A x \in Covers(c) : x.e.kind # "field" =>
              Under(document, x) \subseteq UNION {Covers(f) : f \in ToSet(FragmentsOf(c))}
<1> DEFINE f == FragmentsOf(c)
<1>1. IsSequence(c.of)
  BY DEF CallOK
<1>2. \A e \in ToSet(c.of) : \E x \in Chosen(document) : x.e = e
  BY DEF CallOK
<1>3. /\ \A i \in DOMAIN c.of : f[i] \in {FragmentOf(c.of[i]), NoFragment}
      /\ \A i \in DOMAIN c.of : c.do = "type" => f[i] = FragmentOf(c.of[i])
      /\ f = [i \in DOMAIN c.of |-> f[i]]
  BY DEF FragmentsOf
<1> HIDE DEF f
<1>4. IsSequence(f) /\ ToSet(f) = {f[i] : i \in DOMAIN c.of}
  BY <1>1, <1>3, SequenceMapped
<1>5. \A i \in DOMAIN c.of : c.of[i] \in ToSet(c.of)
  BY DEF ToSet
<1>6. \A i \in DOMAIN c.of : CallOK(f[i])
  BY <1>2, <1>3, <1>5, FragmentIsSelected, NoFragmentOK
<1>7. ASSUME c.do = "type", NEW x \in Covers(c), x.e.kind # "field"
      PROVE  Under(document, x) \subseteq UNION {Covers(g) : g \in ToSet(f)}
  <2>1. x \in Chosen(document) /\ x.e \in ToSet(c.of)
    BY <1>7, OnType DEF Covers
  <2>2. PICK i \in DOMAIN c.of : c.of[i] = x.e
    BY <2>1 DEF ToSet
  <2>3. Under(document, x) \subseteq Covers(f[i])
    BY <1>3, <1>7, <2>1, <2>2, FragmentIsSelected
  <2> QED BY <1>4, <2>3
<1> QED BY <1>4, <1>6, <1>7 DEF f

\* A field of the schema: what it leads to, and its arguments.
LEMMA FieldsApart ==
  ASSUME NEW t \in DOMAIN Api.kind, NEW i \in DOMAIN Api.fields[t]
  PROVE  LET f == Api.fields[t][i]
         IN /\ f.type \in DOMAIN Api.kind => (IsInput(Api, t) <=> IsInput(Api, f.type))
            /\ IsInput(Api, t) => f.args = {}
            /\ IsFiniteSet(f.args) /\ \A a \in f.args \cap DOMAIN Api.kind : IsInput(Api, a)
BY DescriptionAssumption DEF InputsApart

\* A whole type is retained for an argument: it is an input type.
LEMMA WholeOK ==
  ASSUME NEW t, NEW args, IsFiniteSet(args), \A a \in args \cap DOMAIN Api.kind : IsInput(Api, a),
         t \in DOMAIN Api.kind => IsInput(Api, t)
  PROVE  CallOK(Retain("whole", t, <<>>, args))
<1> DEFINE c == Retain("whole", t, <<>>, args)
<1>1. c.do = "whole" /\ c.type = t /\ c.args = args
  BY DEF Retain
<1> HIDE DEF c
<1>2. CallOK(c)
  BY <1>1 DEF CallOK, InSchema
<1> QED BY <1>2 DEF c

\* The types of the arguments are retained whole.
LEMMA ArgumentTypesOK ==
  ASSUME NEW c, CallOK(c)
  PROVE  IsSequence(ArgumentTypes(c)) /\ \A a \in ToSet(ArgumentTypes(c)) : CallOK(a)
<1> DEFINE args == SetToSeq(c.args)
           f == ArgumentTypes(c)
<1>1. args \in Seq(c.args) /\ ToSet(args) = c.args
  BY SetInSequence DEF CallOK
<1>2. IsSequence(args)
  BY <1>1, SequenceMade
<1>3. /\ f = [i \in DOMAIN args |-> f[i]]
      /\ \A i \in DOMAIN args : f[i] = Retain("whole", args[i], <<>>, {})
  BY DEF ArgumentTypes
<1> HIDE DEF f, args
<1>4. IsSequence(f) /\ ToSet(f) = {f[i] : i \in DOMAIN args}
  BY <1>2, <1>3, SequenceMapped
<1>5. \A i \in DOMAIN args : args[i] \in c.args
  BY <1>1 DEF ToSet
<1>6. \A i \in DOMAIN args : args[i] \in DOMAIN Api.kind => IsInput(Api, args[i])
  BY <1>5 DEF CallOK
<1>7. \A i \in DOMAIN args : CallOK(f[i])
  BY <1>3, <1>6, WholeOK, FS_EmptySet
<1> QED BY <1>4, <1>7 DEF f

\* A member of a union is handed what is selected on it.
LEMMA MembersOK ==
  ASSUME RetainInv, NEW c, CallOK(c), c.do = "node", InSchema(c), Api.kind[c.type] = "union"
  PROVE  IsSequence(Members(c)) /\ \A m \in ToSet(Members(c)) : CallOK(m)
<1> DEFINE members == Api.members[c.type]
           f == Members(c)
           call(i) == Retain("member", members[i], c.of, {})
<1>1. IsSequence(members)
  BY DescriptionAssumption DEF InSchema
<1>2. /\ f = [i \in DOMAIN members |-> f[i]]
      /\ \A i \in DOMAIN members : f[i] \in {call(i), NoFragment}
  BY DEF Members
<1> HIDE DEF f
<1>3. IsSequence(f) /\ ToSet(f) = {f[i] : i \in DOMAIN members}
  BY <1>1, <1>2, SequenceMapped
<1>4. ASSUME NEW e \in ToSet(c.of)
      PROVE  (\E x \in Chosen(document) : x.e = e) /\ ~(e.kind = "field" /\ e.name # Typename)
  <2>1. PICK x \in Chosen(document) : x.e = e /\ (OnlyHere(c, e) => x.on = c.type)
    BY <1>4 DEF CallOK
  <2>2. ValidSelection(x)
    BY ChosenAreClosed DEF RetainInv
  <2>3. ASSUME e.kind = "field", e.name # Typename PROVE FALSE
    <3>1. x.on = c.type
      BY <2>1, <2>3 DEF OnlyHere
    <3> QED BY <2>1, <2>2, <2>3, <3>1 DEF ValidSelection
  <2> QED BY <2>1, <2>3
<1>5. ASSUME NEW i \in DOMAIN members PROVE CallOK(call(i))
  <2>1. call(i).do = "member" /\ call(i).of = c.of /\ call(i).args = {}
    BY DEF Retain
  <2> HIDE DEF call
  <2>2. \A e \in ToSet(c.of) : ~OnlyHere(call(i), e) /\ \E x \in Chosen(document) : x.e = e
    BY <1>4 DEF OnlyHere
  <2>3. IsSequence(c.of)
    BY DEF CallOK
  <2> QED BY <2>1, <2>2, <2>3, FS_EmptySet DEF CallOK
<1> HIDE DEF call
<1>6. \A i \in DOMAIN members : CallOK(f[i])
  BY <1>2, <1>5, NoFragmentOK
<1> QED BY <1>3, <1>6 DEF f

\* The fields of an input type are of input types.
LEMMA EveryFieldOK ==
  ASSUME NEW c, InSchema(c), IsInput(Api, c.type)
  PROVE  IsSequence(EveryField(c)) /\ \A m \in ToSet(EveryField(c)) : CallOK(m)
<1> DEFINE fields == Api.fields[c.type]
           f == EveryField(c)
<1>1. IsSequence(fields)
  BY DescriptionAssumption DEF InSchema
<1>2. /\ f = [i \in DOMAIN fields |-> f[i]]
      /\ \A i \in DOMAIN fields : f[i] = Retain("whole", fields[i].type, <<>>, fields[i].args)
  BY DEF EveryField
<1> HIDE DEF f
<1>3. IsSequence(f) /\ ToSet(f) = {f[i] : i \in DOMAIN fields}
  BY <1>1, <1>2, SequenceMapped
<1>4. \A i \in DOMAIN fields : CallOK(f[i])
  <2> SUFFICES ASSUME NEW i \in DOMAIN fields PROVE CallOK(f[i])
    OBVIOUS
  <2>1. /\ fields[i].type \in DOMAIN Api.kind => IsInput(Api, fields[i].type)
        /\ IsFiniteSet(fields[i].args)
        /\ \A a \in fields[i].args \cap DOMAIN Api.kind : IsInput(Api, a)
    BY FieldsApart DEF InSchema
  <2>2. CallOK(Retain("whole", fields[i].type, <<>>, fields[i].args))
    BY <2>1, WholeOK
  <2> QED BY <1>2, <2>2
<1> QED BY <1>3, <1>4 DEF f

\* Each selected field leads to its type, with the selections below it.
LEMMA SelectedFieldsOK ==
  ASSUME RetainInv, NEW c, CallOK(c), c.do = "node", InSchema(c)
  PROVE  /\ IsSequence(SelectedFields(c)) /\ \A m \in ToSet(SelectedFields(c)) : CallOK(m)
         /\ \A x \in Covers(c) :
              Under(document, x) \subseteq UNION {Covers(m) : m \in ToSet(SelectedFields(c))}
<1> DEFINE f == SelectedFields(c)
           field(e) == FieldOf(Api, c.type, e.name)
           call(e) == Retain("type", field(e).type, e.of, field(e).args)
           goes(e) == e.kind = "field" /\ e.name # Typename /\ HasField(Api, c.type, e.name)
<1>1. IsSequence(c.of) /\ document \in Documents
  BY DEF CallOK, RetainInv
<1>2. /\ f = [i \in DOMAIN c.of |-> f[i]]
      /\ \A i \in DOMAIN c.of : f[i] = IF goes(c.of[i]) THEN call(c.of[i]) ELSE NoFragment
  BY DEF SelectedFields
<1> HIDE DEF f
<1>3. IsSequence(f) /\ ToSet(f) = {f[i] : i \in DOMAIN c.of}
  BY <1>1, <1>2, SequenceMapped
<1>4. ASSUME NEW e \in ToSet(c.of), goes(e)
      PROVE  CallOK(call(e)) /\ AllOn(field(e).type, e.of) \subseteq Covers(call(e))
  <2>1. PICK x \in Chosen(document) : x.e = e /\ x.on = c.type
    BY <1>4 DEF CallOK, OnlyHere
  <2>2. IsSequence(e.of) /\ Under(document, x) \subseteq Chosen(document)
    BY <1>1, <2>1, ChosenAreClosed
  <2>3. Under(document, x) = AllOn(field(e).type, e.of)
    BY <1>4, <2>1 DEF Under
  <2>4. \A s \in ToSet(e.of) : LET y == On(field(e).type, s)
                              IN y \in Chosen(document) /\ y.e = s /\ y.on = field(e).type
    BY <2>2, <2>3 DEF AllOn, On
  <2>5. \E i \in DOMAIN Api.fields[c.type] : field(e) = Api.fields[c.type][i]
    BY <1>4 DEF FieldOf, HasField
  <2>6. IsFiniteSet(field(e).args) /\ \A a \in field(e).args \cap DOMAIN Api.kind : IsInput(Api, a)
    BY <2>5, FieldsApart DEF InSchema
  <2>7. /\ call(e).do = "type" /\ call(e).type = field(e).type
        /\ call(e).of = e.of /\ call(e).args = field(e).args
    BY DEF Retain
  <2> HIDE DEF call, field
  <2>8. CallOK(call(e))
    BY <2>2, <2>4, <2>6, <2>7 DEF CallOK
  <2>9. AllOn(field(e).type, e.of) \subseteq Covers(call(e))
    BY <2>2, <2>3, <2>7 DEF Covers
  <2> QED BY <2>8, <2>9
<1>5. \A i \in DOMAIN c.of : CallOK(f[i])
  <2>1. \A i \in DOMAIN c.of : c.of[i] \in ToSet(c.of)
    BY DEF ToSet
  <2> HIDE DEF call
  <2> QED BY <1>2, <1>4, <2>1, NoFragmentOK
<1>6. ASSUME NEW x \in Covers(c)
      PROVE  Under(document, x) \subseteq UNION {Covers(m) : m \in ToSet(f)}
  <2>1. x \in Chosen(document) /\ x = On(c.type, x.e) /\ x.e \in ToSet(c.of) /\ x.e.kind = "field"
    BY <1>6, OnType DEF Covers
  <2>2. ValidSelection(x) /\ x.on = c.type
    BY <1>1, <2>1, ChosenAreClosed DEF On
  <2>3. CASE x.e.name = Typename
    <3>1. Under(document, x) = {}
      BY <2>1, <2>2, <2>3 DEF Under, ValidSelection
    <3> QED BY <3>1
  <2>4. CASE x.e.name # Typename
    <3>1. goes(x.e)
      BY <2>1, <2>2, <2>4 DEF ValidSelection
    <3>2. Under(document, x) = AllOn(field(x.e).type, x.e.of)
      BY <2>1, <2>2, <3>1 DEF Under
    <3>3. PICK i \in DOMAIN c.of : c.of[i] = x.e
      BY <2>1 DEF ToSet
    <3>4. f[i] = call(x.e)
      BY <1>2, <3>1, <3>3
    <3>5. Under(document, x) \subseteq Covers(f[i])
      BY <1>4, <2>1, <3>1, <3>2, <3>4
    <3> QED BY <1>3, <3>5
  <2> QED BY <2>3, <2>4
<1> QED BY <1>3, <1>5, <1>6 DEF f

\* What a call leads to: it is selected, and everything under the fields that the call covers
\* is covered by what it leads to.
LEMMA DeeperOK ==
  ASSUME RetainInv, NEW c, CallOK(c), c.do \in {"node", "whole"}
  PROVE  /\ IsSequence(Deeper(c)) /\ \A m \in ToSet(Deeper(c)) : CallOK(m)
         /\ \A x \in Covers(c) :
              Under(document, x) \subseteq UNION {Covers(m) : m \in ToSet(Deeper(c))}
<1>1. document \in Documents
  BY DEF RetainInv
<1>2. ASSUME NEW x \in Covers(c)
      PROVE  /\ c.do = "node" /\ x \in Chosen(document) /\ x.on = c.type /\ x.e.kind = "field"
             /\ ValidSelection(x)
  <2>1. x \in Chosen(document) /\ x = On(c.type, x.e)
    BY <1>2, OnType DEF Covers
  <2>2. c.do = "node" /\ x.e.kind = "field"
    BY <1>2 DEF Covers
  <2>3. x.on = c.type
    BY <2>1 DEF On
  <2> QED BY <1>1, <2>1, <2>2, <2>3, ChosenAreClosed
<1>3. CASE ReturnsEarly(c)
  <2>1. Deeper(c) = <<>>
    BY <1>3 DEF Deeper
  <2>2. c.do = "node" => ~InSchema(c)
    BY <1>3 DEF ReturnsEarly, Walked
  <2>3. Covers(c) = {}
    BY <1>2, <2>2 DEF ValidSelection, InSchema
  <2> QED BY <2>1, <2>3, NoneIsSequence
<1>4. CASE ~ReturnsEarly(c) /\ Api.kind[c.type] = "union"
  <2>1. Deeper(c) = Members(c) /\ InSchema(c)
    BY <1>4 DEF Deeper, ReturnsEarly
  <2>2. c.do = "node"
    BY <1>4, <2>1 DEF CallOK, IsInput
  <2>3. \A x \in Covers(c) : Under(document, x) = {}
    BY <1>2, <1>4 DEF ValidSelection, Under
  <2> QED BY <2>1, <2>2, <2>3, <1>4, MembersOK
<1>5. CASE ~ReturnsEarly(c) /\ (Api.kind[c.type] = "input" \/ c.do = "whole")
  <2>1. InSchema(c)
    BY <1>5 DEF ReturnsEarly
  <2>2. IsInput(Api, c.type)
    BY <1>5, <2>1 DEF CallOK, IsInput, InSchema
  <2>3. Deeper(c) = EveryField(c)
    BY <1>5, <2>2 DEF Deeper, IsInput
  <2>4. Covers(c) = {}
    BY <1>2, <2>2 DEF ValidSelection
  <2> QED BY <2>1, <2>2, <2>3, <2>4, EveryFieldOK
<1>6. CASE ~ReturnsEarly(c) /\ Api.kind[c.type] \notin {"union", "input"} /\ c.do # "whole"
  <2>1. Deeper(c) = SelectedFields(c) /\ InSchema(c)
    BY <1>6 DEF Deeper, ReturnsEarly
  <2> QED BY <1>6, <2>1, SelectedFieldsOK
<1> QED BY <1>3, <1>4, <1>5, <1>6

\* What a call retains is selected, and shows the fields that the call covers.
LEMMA RetainedOK ==
  ASSUME RetainInv, NEW c, CallOK(c), c.do \in {"node", "whole"}, document' = document,
         nodes' = IF ReturnsEarly(c) THEN nodes ELSE Retained(c)
  PROVE  /\ NodesOK' /\ \A x : IsShown(x) => IsShown(x)'
         /\ \A x \in Covers(c) : IsShown(x)'
<1>1. NodesOK /\ document \in Documents
  BY DEF RetainInv
<1>2. Selects(document)' = Selects(document)
  BY DEF Selects
<1>3. CASE ReturnsEarly(c)
  <2>1. nodes' = nodes
    BY <1>3
  <2>2. NodesOK' /\ \A x : IsShown(x) => IsShown(x)'
    BY <1>1, <1>2, <2>1 DEF NodesOK, IsShown
  <2>3. c.do = "node" => ~InSchema(c)
    BY <1>3 DEF ReturnsEarly, Walked
  <2>4. Covers(c) = {}
    <3> SUFFICES ASSUME NEW x \in Covers(c) PROVE FALSE
      OBVIOUS
    <3>1. x \in Chosen(document) /\ x = On(c.type, x.e) /\ c.do = "node"
      BY OnType DEF Covers
    <3>2. ValidSelection(x) /\ x.on = c.type
      BY <1>1, <3>1, ChosenAreClosed DEF On
    <3> QED BY <2>3, <3>1, <3>2 DEF ValidSelection, InSchema
  <2> QED BY <2>2, <2>4
<1>4. CASE ~ReturnsEarly(c) /\ c.do = "whole"
  <2>1. InSchema(c) /\ IsInput(Api, c.type)
    BY <1>4 DEF ReturnsEarly, CallOK
  <2>2. nodes' = [kept |-> nodes.kept \cup {c.type}, cut |-> nodes.cut, names |-> nodes.names]
    BY <1>1, <1>4 DEF Retained, KeepWhole, NodesOK
  <2>3. NodesOK' /\ \A x : IsShown(x) => IsShown(x)'
    BY <1>1, <1>2, <2>1, <2>2 DEF NodesOK, IsShown, InSchema
  <2>4. Covers(c) = {}
    BY <1>4 DEF Covers
  <2> QED BY <2>3, <2>4
<1>5. CASE ~ReturnsEarly(c) /\ c.do = "node"
  <2> DEFINE new == {<<c.type, f>> : f \in FieldsOf(c.of)}
  <2>1. InSchema(c)
    BY <1>5 DEF ReturnsEarly
  <2>2. nodes' = [kept |-> nodes.kept \cup {c.type}, cut |-> nodes.cut \cup {c.type},
                  names |-> nodes.names \cup new]
    BY <1>1, <1>5 DEF Retained, KeepFields, NodesOK
  <2>3. new \subseteq Selects(document)
    <3> SUFFICES ASSUME NEW f \in FieldsOf(c.of) PROVE <<c.type, f>> \in Selects(document)
      OBVIOUS
    <3>1. PICK e \in ToSet(c.of) : e.kind = "field" /\ e.name # Typename /\ e.name = f
      BY DEF FieldsOf
    <3>2. PICK x \in Chosen(document) : x.e = e /\ x.on = c.type
      BY <1>5, <3>1 DEF CallOK, OnlyHere
    <3> QED BY <3>1, <3>2 DEF Selects
  <2>4. \A x \in Covers(c) : x.e.kind = "field" /\ x.e.name # Typename =>
          x.on = c.type /\ <<x.on, x.e.name>> \in new
    <3> SUFFICES ASSUME NEW x \in Covers(c), x.e.kind = "field", x.e.name # Typename
                 PROVE  x.on = c.type /\ x.e.name \in FieldsOf(c.of)
      OBVIOUS
    <3>1. x = On(c.type, x.e) /\ x.e \in ToSet(c.of)
      BY OnType DEF Covers
    <3>2. x.on = c.type
      BY <3>1 DEF On
    <3> QED BY <3>1, <3>2 DEF FieldsOf
  <2> HIDE DEF new
  <2>5. NodesOK'
    BY <1>1, <1>2, <2>1, <2>2, <2>3 DEF NodesOK, InSchema
  <2>6. \A x : IsShown(x) => IsShown(x)'
    BY <2>2 DEF IsShown
  <2>7. \A x \in Covers(c) : IsShown(x)'
    BY <2>2, <2>4 DEF IsShown
  <2> QED BY <2>5, <2>6, <2>7
<1> QED BY <1>3, <1>4, <1>5

\* One call: new are the calls that it makes, done the selections that it retains.
CallMade(c, new, done) ==
  /\ IsSequence(new) /\ \A n \in ToSet(new) : CallOK(n)
  /\ done \subseteq Chosen(document)
  /\ Covers(c) \subseteq done \cup UNION {Covers(n) : n \in ToSet(new)}
  /\ \A x \in done : Under(document, x) \subseteq UNION {Covers(n) : n \in ToSet(new)}
  /\ \A x \in done : IsShown(x)'
  /\ NodesOK' /\ \A x : IsShown(x) => IsShown(x)'

\* A step of the shaker makes the next call.
LEMMA RetainNextMakesACall ==
  ASSUME RetainInv, RetainNext
  PROVE  \E new, done : /\ retaining' = new \o Tail(retaining)
                        /\ CallMade(Head(retaining), new, done)
<1>1. PICK c : c = Head(retaining)
  OBVIOUS
<1>2. IsSequence(retaining) /\ retaining # <<>> /\ c \in ToSet(retaining) /\ CallOK(c)
  BY <1>1, AfterNext, NoneIsSequence DEF RetainInv, RetainNext
<1>3. document' = document
  BY DEF RetainNext, operationVars, documentVars
<1>4. ASSUME nodes' = nodes PROVE NodesOK' /\ \A x : IsShown(x) => IsShown(x)'
  BY <1>3, <1>4 DEF NodesOK, IsShown, Selects, RetainInv
<1>5. CASE /\ c.do = "fragments" /\ nodes' = nodes
           /\ retaining' = FragmentsOf(c) \o Tail(retaining)
  <2>1. Covers(c) = {}
    BY <1>5 DEF Covers
  <2>2. CallMade(c, FragmentsOf(c), {})
    BY <1>2, <1>4, <1>5, <2>1, FragmentsAreSelected DEF CallMade
  <2> QED BY <1>1, <1>5, <2>2
<1>6. CASE /\ c.do \in {"type", "member"} /\ nodes' = nodes
           /\ retaining' = ((IF InSchema(c) THEN FragmentsOf(c) ELSE <<>>) \o <<Retain("node", c.type, c.of, c.args)>>)
                           \o Tail(retaining)
  <2> DEFINE first == IF InSchema(c) THEN FragmentsOf(c) ELSE <<>>
             node  == Retain("node", c.type, c.of, c.args)
             new   == first \o <<node>>
             done  == {x \in Covers(c) : x.e.kind # "field"}
  <2>1. IsSequence(first) /\ \A f \in ToSet(first) : CallOK(f)
    BY <1>2, <1>6, FragmentsAreSelected, NoneIsSequence
  <2>2. \A e : OnlyHere(node, e) => OnlyHere(c, e)
    BY <1>6 DEF OnlyHere
  <2>3. node.do = "node" /\ node.type = c.type /\ node.of = c.of /\ node.args = c.args
    BY DEF Retain
  <2>4. CallOK(node)
    <3> HIDE DEF node
    <3> QED BY <1>2, <1>6, <2>2, <2>3 DEF CallOK
  <2>5. Covers(c) \subseteq done \cup Covers(node)
    <3> HIDE DEF node
    <3> QED BY <2>3 DEF Covers
  <2> HIDE DEF first, node
  <2>6. IsSequence(new) /\ ToSet(new) = ToSet(first) \cup {node}
    BY <2>1, JustOne, SequencesJoined
  <2>7. ASSUME NEW x \in done PROVE Under(document, x) \subseteq UNION {Covers(n) : n \in ToSet(first)}
    <3>1. c.do = "type" /\ x \in Chosen(document) /\ x = On(c.type, x.e)
      BY <1>6, <2>7, OnType DEF Covers
    <3>2. InSchema(c)
      BY <3>1, ChosenAreClosed DEF RetainInv, ValidSelection, InSchema, On
    <3> QED BY <1>2, <2>7, <3>1, <3>2, FragmentsAreSelected DEF first
  <2>8. \A x \in done : IsShown(x)' /\ x \in Chosen(document)
    BY DEF IsShown, Covers
  <2> HIDE DEF new, done
  <2>9. CallMade(c, new, done)
    BY <1>4, <1>6, <2>1, <2>4, <2>5, <2>6, <2>7, <2>8 DEF CallMade
  <2> QED BY <1>1, <1>6, <2>9 DEF new, first, node
<1>7. CASE /\ c.do \in {"node", "whole"}
           /\ nodes' = IF ReturnsEarly(c) THEN nodes ELSE Retained(c)
           /\ retaining' = (Deeper(c) \o ArgumentTypes(c)) \o Tail(retaining)
  <2> DEFINE new == Deeper(c) \o ArgumentTypes(c)
  <2>1. /\ IsSequence(Deeper(c)) /\ \A m \in ToSet(Deeper(c)) : CallOK(m)
        /\ \A x \in Covers(c) :
             Under(document, x) \subseteq UNION {Covers(m) : m \in ToSet(Deeper(c))}
    BY <1>2, <1>7, DeeperOK
  <2>2. IsSequence(ArgumentTypes(c)) /\ \A a \in ToSet(ArgumentTypes(c)) : CallOK(a)
    BY <1>2, ArgumentTypesOK
  <2>3. IsSequence(new) /\ ToSet(new) = ToSet(Deeper(c)) \cup ToSet(ArgumentTypes(c))
    BY <2>1, <2>2, SequencesJoined
  <2>4. NodesOK' /\ (\A x : IsShown(x) => IsShown(x)') /\ \A x \in Covers(c) : IsShown(x)'
    BY <1>2, <1>3, <1>7, RetainedOK
  <2>5. Covers(c) \subseteq Chosen(document)
    BY DEF Covers
  <2> HIDE DEF new
  <2>6. CallMade(c, new, Covers(c))
    BY <2>1, <2>2, <2>3, <2>4, <2>5 DEF CallMade
  <2> QED BY <1>1, <1>7, <2>6 DEF new
<1> QED BY <1>1, <1>5, <1>6, <1>7 DEF RetainNext

\* The selections that are still to be retained after a call.
LEMMA StillAfterCall ==
  ASSUME RetainInv, retaining # <<>>, NEW new, IsSequence(new), document' = document,
         retaining' = new \o Tail(retaining)
  PROVE  LET c == Head(retaining)
         IN /\ IsSequence(retaining') /\ CallOK(c)
            /\ \A n \in ToSet(retaining') : n \in ToSet(new) \/ n \in ToSet(retaining)
            /\ \A n : CallOK(n)' <=> CallOK(n)
            /\ UNION {Covers(n) : n \in ToSet(new)} \subseteq StillToRetain'
            /\ StillToRetain \subseteq Covers(c) \cup StillToRetain'
<1>1. PICK c : c = Head(retaining)
  OBVIOUS
<1>2. PICK rest : rest = Tail(retaining)
  OBVIOUS
<1>3. /\ c \in ToSet(retaining) /\ ToSet(retaining) = {c} \cup ToSet(rest)
      /\ IsSequence(retaining') /\ ToSet(retaining') = ToSet(new) \cup ToSet(rest)
  BY <1>1, <1>2, AfterNext DEF RetainInv
<1>4. CallOK(c)
  BY <1>3 DEF RetainInv
<1>5. /\ \A n : CallOK(n)' <=> CallOK(n)
      /\ \A n : Covers(n)' = Covers(n)
  BY DEF CallOK, Covers, InSchema, OnlyHere
<1>6. StillToRetain' = UNION {Covers(n) : n \in ToSet(retaining')}
  BY <1>5 DEF StillToRetain
<1>7. StillToRetain = Covers(c) \cup UNION {Covers(n) : n \in ToSet(rest)}
  BY <1>3 DEF StillToRetain
<1> QED BY <1>1, <1>3, <1>4, <1>5, <1>6, <1>7

\* A call keeps what is retained within what is selected, and forgets nothing of it.
LEMMA RetainInvCall ==
  ASSUME RetainInv, RetainNext
  PROVE  RetainInv'
<1>1. /\ phase = "collecting" /\ retaining # <<>>
      /\ document' = document /\ phase' = phase /\ via' = via
  BY DEF RetainNext, operationVars, documentVars
<1>2. PICK new, done : retaining' = new \o Tail(retaining) /\ CallMade(Head(retaining), new, done)
  BY RetainNextMakesACall
<1>3. PICK c : c = Head(retaining)
  OBVIOUS
<1>4. /\ IsSequence(new) /\ \A n \in ToSet(new) : CallOK(n)
      /\ done \subseteq Chosen(document)
      /\ Covers(c) \subseteq done \cup UNION {Covers(n) : n \in ToSet(new)}
      /\ \A x \in done : Under(document, x) \subseteq UNION {Covers(n) : n \in ToSet(new)}
      /\ \A x \in done : IsShown(x)'
      /\ NodesOK' /\ \A x : IsShown(x) => IsShown(x)'
  BY <1>2, <1>3 DEF CallMade
<1>5. /\ IsSequence(retaining') /\ CallOK(c)
      /\ \A n \in ToSet(retaining') : n \in ToSet(new) \/ n \in ToSet(retaining)
      /\ \A n : CallOK(n)' <=> CallOK(n)
      /\ UNION {Covers(n) : n \in ToSet(new)} \subseteq StillToRetain'
      /\ StillToRetain \subseteq Covers(c) \cup StillToRetain'
  BY <1>1, <1>2, <1>3, <1>4, StillAfterCall
<1>6. document' \in Documents /\ \A n \in ToSet(retaining') : CallOK(n)'
  BY <1>1, <1>4, <1>5 DEF RetainInv
<1>7. ASSUME via # "execute", NEW W \in SUBSET Chosen(document), RetainedSoFar(W)
      PROVE  \E V \in SUBSET Chosen(document) : RetainedSoFar(V)'
  <2> DEFINE V == W \cup done
             next == StillToRetain'
  <2>1. StillToRetain \subseteq done \cup next
    BY <1>4, <1>5
  <2>2. AllOn(Root(document), document.of) \subseteq V \cup next
    BY <1>7, <2>1 DEF RetainedSoFar
  <2>3. \A x \in V : Under(document, x) \subseteq V \cup next
    BY <1>4, <1>5, <1>7, <2>1 DEF RetainedSoFar
  <2>4. \A x \in V : IsShown(x)'
    BY <1>4, <1>7 DEF RetainedSoFar
  <2>5. V \in SUBSET Chosen(document)
    BY <1>4
  <2> HIDE DEF V
  <2>6. Root(document)' = Root(document) /\ \A x : Under(document, x)' = Under(document, x)
    BY <1>1 DEF Root, Under
  <2>7. RetainedSoFar(V)'
    BY <1>1, <2>2, <2>3, <2>4, <2>6 DEF RetainedSoFar
  <2> QED BY <2>5, <2>7
<1>8. via # "execute" => \E V \in SUBSET Chosen(document) : RetainedSoFar(V)'
  BY <1>1, <1>7 DEF RetainInv
<1> QED BY <1>1, <1>4, <1>5, <1>6, <1>8 DEF RetainInv

\* Loading begins with the root type.
LEMMA RetainInvLoad ==
  ASSUME RetainInv, LoadTool
  PROVE  RetainInv'
<1>1. document' = document /\ document \in Documents /\ nodes' = nodes /\ via' = via
  BY DEF LoadTool, Load, documentVars, RetainInv
<1>2. phase = "loading" /\ phase' \in {"collecting", "skipped"}
  BY DEF LoadTool, Load
<1>3. NodesOK' /\ \A n : CallOK(n)' <=> CallOK(n)
  BY <1>1 DEF RetainInv, NodesOK, Selects, CallOK, InSchema, OnlyHere
<1>4. CASE phase' = "skipped"
  <2>1. retaining' = retaining
    BY <1>4 DEF LoadTool
  <2> QED BY <1>1, <1>3, <1>4, <2>1 DEF RetainInv
<1>5. CASE phase' = "collecting"
  <2> DEFINE c == Retain("type", Root(document), document.of, {})
  <2>1. c.do = "type" /\ c.type = Root(document) /\ c.of = document.of /\ c.args = {}
    BY DEF Retain
  <2>2. retaining' = <<c>>
    BY <1>5 DEF LoadTool
  <2> HIDE DEF c
  <2>3. IsSequence(retaining') /\ ToSet(retaining') = {c}
    BY <2>2, JustOne
  <2>4. AllOn(Root(document), document.of) \subseteq Chosen(document)
    BY <1>1, ChosenAreClosed
  <2>5. IsSequence(document.of)
    BY <1>1, PlacesAreClosed
  <2>6. CallOK(c)
    <3>1. \A e \in ToSet(c.of) : LET x == On(c.type, e)
                                IN x \in Chosen(document) /\ x.e = e /\ x.on = c.type
      BY <2>1, <2>4 DEF AllOn, On
    <3> QED BY <2>1, <2>5, <3>1, FS_EmptySet DEF CallOK
  <2>7. Covers(c) = AllOn(Root(document), document.of)
    BY <2>1, <2>4 DEF Covers
  <2>8. StillToRetain' = Covers(c)
    <3>1. \A n : Covers(n)' = Covers(n)
      BY <1>1 DEF Covers
    <3> QED BY <2>3, <3>1 DEF StillToRetain
  <2>9. Root(document)' = Root(document)
    BY <1>1 DEF Root
  <2>10. RetainedSoFar({})'
    BY <1>1, <2>7, <2>8, <2>9 DEF RetainedSoFar
  <2>11. \E W \in SUBSET Chosen(document') : RetainedSoFar(W)'
    BY <2>10
  <2>12. \A n \in ToSet(retaining') : CallOK(n)'
    BY <1>3, <2>3, <2>6
  <2> QED BY <1>1, <1>3, <1>5, <2>3, <2>11, <2>12 DEF RetainInv
<1> QED BY <1>2, <1>4, <1>5

\* When no call is left, everything that is selected is shown.
LEMMA AllAreShown ==
  ASSUME RetainInv, retaining = <<>>, phase = "collecting", via # "execute"
  PROVE  \A x \in Chosen(document) : IsShown(x)
<1>1. PICK W \in SUBSET Chosen(document) : RetainedSoFar(W)
  BY DEF RetainInv
<1>2. StillToRetain = {}
  BY NoneIsSequence DEF StillToRetain
<1>3. W = Chosen(document)
  BY <1>1, <1>2, ChosenAreClosed DEF RetainedSoFar, RetainInv
<1> QED BY <1>1, <1>3 DEF RetainedSoFar

\* Nothing else changes what is retained.
LEMMA RetainInvElse ==
  ASSUME RetainInv, UNCHANGED shakeVars, document' = document, via' = via,
         phase' = "collecting" => phase = "collecting" \/ via = "execute",
         phase' = "ready" => \/ phase = "ready"
                             \/ phase = "collecting" /\ via # "execute" /\ retaining = <<>>
  PROVE  RetainInv'
<1>1. nodes' = nodes /\ retaining' = retaining /\ document \in Documents
  BY DEF shakeVars, RetainInv
<1>2. /\ NodesOK' /\ \A n : CallOK(n)' <=> CallOK(n)
      /\ \A x : IsShown(x)' <=> IsShown(x)
  BY <1>1 DEF RetainInv, NodesOK, Selects, CallOK, InSchema, OnlyHere, IsShown
<1>3. \A W : RetainedSoFar(W) => RetainedSoFar(W)'
  BY <1>1 DEF RetainedSoFar, StillToRetain, Covers, Root, Under, IsShown
<1>4. phase' = "collecting" /\ via' # "execute" => \E W \in SUBSET Chosen(document') : RetainedSoFar(W)'
  BY <1>1, <1>3 DEF RetainInv
<1>5. phase' = "ready" => \A x \in Chosen(document') : IsShown(x)'
  BY <1>1, <1>2, AllAreShown DEF RetainInv
<1>6. IsSequence(retaining') /\ \A c \in ToSet(retaining') : CallOK(c)'
  BY <1>1, <1>2 DEF RetainInv
<1> QED BY <1>1, <1>2, <1>4, <1>5, <1>6 DEF RetainInv

-----------------------------------------------------------------------------
(* The definitions of an input schema. *)

\* The types of the variables, those that are to be defined, and all that still are.
InputTypes == {document.vars[n] : n \in Inputs(document)} \cap DOMAIN Api.kind
TypesIn(S) == {c.type : c \in {d \in S : ~d.fields}} \cap DOMAIN Api.kind
StillToDefine == TypesIn(ToSet(defining))

\* A definition whose fields are to be filled in is there.
PendingOK(c) ==
  /\ c.fields \in BOOLEAN
  /\ InSchema(c) => IsInput(Api, c.type)
  /\ c.fields => c = HasFields(c.type) /\ c.type \in DOMAIN definitions

\* The types defined so far and those still to be: what they lead to is among them, and they
\* are among everything the variables lead to.
DefinedSoFar ==
  LET S == DOMAIN definitions \cup StillToDefine
  IN /\ InputTypes \subseteq S
     /\ \A t \in DOMAIN definitions : Refers(Api, t) \subseteq S
     /\ \A U \in SUBSET DOMAIN Api.kind : InputTypes \subseteq U /\ Closed(Api, U) => S \subseteq U

\* What is defined is an input type, with its fields or with them still to be filled in.
DefineInv ==
  /\ document \in Documents
  /\ IsSequence(defining) /\ \A c \in ToSet(defining) : PendingOK(c)
  /\ \A t \in DOMAIN definitions :
       /\ IsInput(Api, t)
       /\ definitions[t] = FieldNames(Api, t) \/ HasFields(t) \in ToSet(defining)
  /\ phase = "loading" => DOMAIN definitions = {}
  /\ phase = "collecting" /\ via # "execute" => DefinedSoFar
  /\ phase = "ready" =>
       /\ LeadTo(Api, InputTypes, DOMAIN definitions)
       /\ \A t \in DOMAIN definitions : definitions[t] = FieldNames(Api, t)

-----------------------------------------------------------------------------
\* An input type refers to the types of its fields.
LEMMA InputRefers ==
  ASSUME NEW t, IsInput(Api, t)
  PROVE  /\ Refers(Api, t) = {Api.fields[t][i].type : i \in DOMAIN Api.fields[t]} \cap DOMAIN Api.kind
         /\ \A u \in Refers(Api, t) : IsInput(Api, u)
<1>1. t \in DOMAIN Api.kind /\ Api.kind[t] # "union"
  BY DEF IsInput
<1>2. \A i \in DOMAIN Api.fields[t] :
        LET f == Api.fields[t][i]
        IN f.args = {} /\ (f.type \in DOMAIN Api.kind => IsInput(Api, f.type))
  BY <1>1, FieldsApart
<1>3. Refers(Api, t) = {Api.fields[t][i].type : i \in DOMAIN Api.fields[t]} \cap DOMAIN Api.kind
  BY <1>1, <1>2 DEF Refers
<1> QED BY <1>2, <1>3

\* One turn of the walk. The types S that are still to be defined after it are the rest of
\* them, and what the type that is now defined refers to.
LEMMA DefineInvTurn ==
  ASSUME DefineInv, DefineNext
  PROVE  DefineInv'
<1> DEFINE c == Head(defining)
           rest == Tail(defining)
           fields == Api.fields[c.type]
           new == [i \in DOMAIN fields |-> Define(fields[i].type)]
<1>1. /\ phase = "collecting" /\ defining # <<>> /\ phase' = phase /\ via' = via
      /\ document' = document /\ document \in Documents
  BY DEF DefineNext, operationVars, documentVars, DefineInv
<1>2. IsSequence(<<>>) /\ ToSet(<<>>) = {}
  BY NoneIsSequence
<1>3. /\ c \in ToSet(defining) /\ ToSet(defining) = {c} \cup ToSet(rest) /\ IsSequence(rest)
      /\ \A s : IsSequence(s) => IsSequence(s \o rest) /\ ToSet(s \o rest) = ToSet(s) \cup ToSet(rest)
  BY <1>1, <1>2, AfterNext DEF DefineInv
<1>4. PendingOK(c) /\ \A d \in ToSet(rest) : PendingOK(d)
  BY <1>3 DEF DefineInv
<1>5. InputTypes' = InputTypes
  BY <1>1 DEF InputTypes
<1>6. \/ /\ c.fields
         /\ definitions' = Defined(c.type, FieldNames(Api, c.type))
         /\ defining' = rest
      \/ /\ ~c.fields /\ (InSchema(c) => c.type \in DOMAIN definitions)
         /\ defining' = rest
         /\ definitions' = definitions
      \/ /\ ~c.fields /\ InSchema(c) /\ c.type \notin DOMAIN definitions
         /\ definitions' = Defined(c.type, Placeholder)
         /\ defining' = new \o <<HasFields(c.type)>> \o rest
  BY DEF DefineNext
<1>7. \A t, as : /\ DOMAIN Defined(t, as) = DOMAIN definitions \cup {t}
                 /\ Defined(t, as)[t] = as
                 /\ \A u \in DOMAIN definitions : u # t => Defined(t, as)[u] = definitions[u]
  BY DEF Defined
<1>8. /\ TypesIn({c} \cup ToSet(rest)) = TypesIn({c}) \cup TypesIn(ToSet(rest))
      /\ c.fields => TypesIn({c}) = {}
      /\ ~c.fields => TypesIn({c}) = {c.type} \cap DOMAIN Api.kind
  BY DEF TypesIn
<1>9. StillToDefine = TypesIn({c}) \cup TypesIn(ToSet(rest)) /\ StillToDefine' = TypesIn(ToSet(defining'))
  <2> HIDE DEF c, rest
  <2> QED BY <1>3, <1>8 DEF StillToDefine, TypesIn
<1>10. \A d \in ToSet(rest) : DOMAIN definitions \subseteq DOMAIN definitions' => PendingOK(d)'
  BY <1>4 DEF PendingOK, InSchema
<1> HIDE DEF c, rest, new
<1>11. CASE /\ c.fields
            /\ definitions' = Defined(c.type, FieldNames(Api, c.type))
            /\ defining' = rest
  <2>1. c = HasFields(c.type) /\ c.type \in DOMAIN definitions
    BY <1>4, <1>11 DEF PendingOK
  <2>2. DOMAIN definitions' = DOMAIN definitions
    BY <1>7, <1>11, <2>1
  <2>3. StillToDefine' = StillToDefine
    BY <1>8, <1>9, <1>11
  <2>4. \A t \in DOMAIN definitions' : HasFields(t) \in ToSet(defining) =>
          t = c.type \/ HasFields(t) \in ToSet(defining')
    <3>1. \A t : HasFields(t) = c => t = c.type
      BY DEF HasFields
    <3> QED BY <1>3, <1>11, <3>1
  <2>5. \A t \in DOMAIN definitions' :
          /\ IsInput(Api, t)
          /\ definitions'[t] = FieldNames(Api, t) \/ HasFields(t) \in ToSet(defining')
    BY <1>7, <1>11, <2>2, <2>4 DEF DefineInv
  <2>6. via # "execute" => DefinedSoFar'
    BY <1>1, <1>5, <2>2, <2>3 DEF DefineInv, DefinedSoFar
  <2>7. IsSequence(defining') /\ \A d \in ToSet(defining') : PendingOK(d)'
    BY <1>3, <1>10, <1>11, <2>2
  <2> QED BY <1>1, <2>5, <2>6, <2>7 DEF DefineInv
<1>12. CASE /\ ~c.fields /\ (InSchema(c) => c.type \in DOMAIN definitions)
            /\ defining' = rest
            /\ definitions' = definitions
  <2>1. TypesIn({c}) \subseteq DOMAIN definitions
    BY <1>8, <1>12 DEF InSchema
  <2>2. DOMAIN definitions' \cup StillToDefine' = DOMAIN definitions \cup StillToDefine
    BY <1>9, <1>12, <2>1
  <2>3. \A t \in DOMAIN definitions' : HasFields(t) \in ToSet(defining) => HasFields(t) \in ToSet(defining')
    <3>1. \A t : HasFields(t) # c
      BY <1>12 DEF HasFields
    <3> QED BY <1>3, <1>12, <3>1
  <2>4. \A t \in DOMAIN definitions' :
          /\ IsInput(Api, t)
          /\ definitions'[t] = FieldNames(Api, t) \/ HasFields(t) \in ToSet(defining')
    BY <1>12, <2>3 DEF DefineInv
  <2>5. via # "execute" => DefinedSoFar'
    BY <1>1, <1>5, <1>12, <2>2 DEF DefineInv, DefinedSoFar
  <2>6. IsSequence(defining') /\ \A d \in ToSet(defining') : PendingOK(d)'
    BY <1>3, <1>10, <1>12
  <2> QED BY <1>1, <2>4, <2>5, <2>6 DEF DefineInv
<1>13. CASE /\ ~c.fields /\ InSchema(c) /\ c.type \notin DOMAIN definitions
            /\ definitions' = Defined(c.type, Placeholder)
            /\ defining' = new \o <<HasFields(c.type)>> \o rest
  <2>1. IsInput(Api, c.type) /\ c.type \in DOMAIN Api.kind
    BY <1>4, <1>13 DEF PendingOK, InSchema
  <2>2. DOMAIN definitions' = DOMAIN definitions \cup {c.type}
    BY <1>7, <1>13
  <2>3. IsSequence(fields)
    BY <2>1, DescriptionAssumption
  <2>4. new = [i \in DOMAIN fields |-> new[i]] /\ \A i \in DOMAIN fields : new[i] = Define(fields[i].type)
    BY DEF new
  <2>5. IsSequence(new) /\ ToSet(new) = {new[i] : i \in DOMAIN fields}
    BY <2>3, <2>4, SequenceMapped
  <2>6. ToSet(new) = {Define(fields[i].type) : i \in DOMAIN fields}
    BY <2>4, <2>5
  <2>7. IsSequence(<<HasFields(c.type)>> \o rest) /\ ToSet(<<HasFields(c.type)>> \o rest) = {HasFields(c.type)} \cup ToSet(rest)
    BY <1>3, JustOne
  <2>8. /\ IsSequence(defining')
        /\ ToSet(defining') = ToSet(new) \cup {HasFields(c.type)} \cup ToSet(rest)
    <3>1. /\ IsSequence(new \o (<<HasFields(c.type)>> \o rest))
          /\ ToSet(new \o (<<HasFields(c.type)>> \o rest)) = ToSet(new) \cup ToSet(<<HasFields(c.type)>> \o rest)
      BY <2>5, <2>7, SequencesJoined
    <3>2. IsSequence(new \o <<HasFields(c.type)>>) /\ ToSet(new \o <<HasFields(c.type)>>) = ToSet(new) \cup {HasFields(c.type)}
      BY <2>5, JustOne, SequencesJoined
    <3> QED BY <1>3, <1>13, <2>7, <3>1, <3>2
  <2>9. TypesIn(ToSet(new)) = Refers(Api, c.type)
    <3>1. Refers(Api, c.type) = {fields[i].type : i \in DOMAIN fields} \cap DOMAIN Api.kind
      BY <2>1, InputRefers
    <3>2. {d \in ToSet(new) : ~d.fields} = ToSet(new)
      BY <2>6 DEF Define
    <3>3. {d.type : d \in ToSet(new)} = {fields[i].type : i \in DOMAIN fields}
      <4>1. \A i \in DOMAIN fields : Define(fields[i].type).type = fields[i].type
        BY DEF Define
      <4> HIDE DEF fields
      <4> QED BY <2>6, <4>1
    <3> QED BY <3>1, <3>2, <3>3 DEF TypesIn
  <2>10. StillToDefine' = Refers(Api, c.type) \cup TypesIn(ToSet(rest))
    <3>1. TypesIn({HasFields(c.type)}) = {}
      BY DEF TypesIn, HasFields
    <3>2. \A A, B, C : TypesIn(A \cup B \cup C) = TypesIn(A) \cup TypesIn(B) \cup TypesIn(C)
      BY DEF TypesIn
    <3>3. TypesIn(ToSet(defining')) = TypesIn(ToSet(new)) \cup TypesIn({HasFields(c.type)}) \cup TypesIn(ToSet(rest))
      BY <2>8, <3>2
    <3> QED BY <1>9, <2>9, <3>1, <3>3
  <2>11. TypesIn({c}) = {c.type}
    BY <1>8, <1>13, <2>1
  <2>12. DOMAIN definitions' \cup StillToDefine' = DOMAIN definitions \cup StillToDefine \cup Refers(Api, c.type)
    BY <1>9, <2>2, <2>10, <2>11
  <2>13. \A t \in DOMAIN definitions' :
           /\ IsInput(Api, t)
           /\ definitions'[t] = FieldNames(Api, t) \/ HasFields(t) \in ToSet(defining')
    <3>1. \A t : HasFields(t) # c
      BY <1>13 DEF HasFields
    <3>2. \A t \in DOMAIN definitions : definitions'[t] = definitions[t]
      BY <1>7, <1>13
    <3>3. \A t : HasFields(t) \in ToSet(defining) => HasFields(t) \in ToSet(defining')
      BY <1>3, <2>8, <3>1
    <3>4. HasFields(c.type) \in ToSet(defining')
      BY <2>8
    <3> QED BY <2>1, <2>2, <3>2, <3>3, <3>4 DEF DefineInv
  <2>14. via # "execute" => DefinedSoFar'
    <3> SUFFICES ASSUME DefinedSoFar PROVE DefinedSoFar'
      BY <1>1 DEF DefineInv
    <3>1. \A U \in SUBSET DOMAIN Api.kind : InputTypes \subseteq U /\ Closed(Api, U) =>
            DOMAIN definitions \cup StillToDefine \subseteq U /\ c.type \in U /\ Refers(Api, c.type) \subseteq U
      BY <1>9, <2>11 DEF DefinedSoFar, Closed
    <3> QED BY <1>5, <2>2, <2>12, <3>1 DEF DefinedSoFar
  <2>15. \A d \in ToSet(defining') : PendingOK(d)'
    <3>1. \A d \in ToSet(new) : PendingOK(d)'
      <4>1. \A i \in DOMAIN fields : fields[i].type \in DOMAIN Api.kind => IsInput(Api, fields[i].type)
        BY <2>1, FieldsApart
      <4> TAKE d \in ToSet(new)
      <4>2. PICK i \in DOMAIN fields : d = Define(fields[i].type)
        BY <2>6
      <4>3. d.type = fields[i].type /\ d.fields = FALSE
        BY <4>2 DEF Define
      <4> QED BY <4>1, <4>3 DEF PendingOK, InSchema
    <3>2. \A d : d = HasFields(c.type) => PendingOK(d)'
      <4> TAKE d
      <4> HAVE d = HasFields(c.type)
      <4>1. d.type = c.type /\ d.fields = TRUE
        BY DEF HasFields
      <4> QED BY <2>1, <2>2, <4>1 DEF PendingOK, InSchema
    <3>3. DOMAIN definitions \subseteq DOMAIN definitions'
      BY <2>2
    <3> QED BY <1>10, <2>8, <3>1, <3>2, <3>3
  <2> QED BY <1>1, <2>8, <2>13, <2>14, <2>15 DEF DefineInv
<1> QED BY <1>6, <1>11, <1>12, <1>13

\* The walk begins with the types of the variables.
LEMMA DefineInvLoad ==
  ASSUME DefineInv, LoadTool
  PROVE  DefineInv'
<1>1. /\ document' = document /\ document \in Documents /\ definitions' = definitions /\ via' = via
      /\ phase = "loading" /\ phase' \in {"collecting", "skipped"} /\ DOMAIN definitions = {}
  BY DEF LoadTool, Load, documentVars, DefineInv
<1>2. CASE phase' = "skipped"
  <2>1. defining' = defining
    BY <1>2 DEF LoadTool
  <2> QED BY <1>1, <1>2, <2>1 DEF DefineInv, PendingOK, InSchema
<1>3. CASE phase' = "collecting"
  <2> DEFINE inputs == SetToSeq(Inputs(document))
             f == [i \in DOMAIN inputs |-> Define(document.vars[inputs[i]])]
  <2>1. inputs \in Seq(Inputs(document)) /\ ToSet(inputs) = Inputs(document)
    BY <1>1, DescriptionAssumption, SetInSequence
  <2>2. defining' = f
    BY <1>3 DEF LoadTool
  <2> HIDE DEF inputs
  <2>3. IsSequence(inputs)
    BY <2>1, SequenceMade
  <2>4. f = [i \in DOMAIN inputs |-> f[i]] /\ \A i \in DOMAIN inputs : f[i] = Define(document.vars[inputs[i]])
    OBVIOUS
  <2> HIDE DEF f
  <2>5. IsSequence(f) /\ ToSet(f) = {f[i] : i \in DOMAIN inputs}
    BY <2>3, <2>4, SequenceMapped
  <2>6. ToSet(f) = {Define(document.vars[n]) : n \in Inputs(document)}
    <3>1. \A i \in DOMAIN inputs : inputs[i] \in Inputs(document)
      BY <2>1 DEF ToSet
    <3>2. \A n \in Inputs(document) : \E i \in DOMAIN inputs : inputs[i] = n
      BY <2>1 DEF ToSet
    <3> QED BY <2>4, <2>5, <3>1, <3>2
  <2>7. TypesIn(ToSet(f)) = InputTypes
    <3>1. {d \in ToSet(f) : ~d.fields} = ToSet(f)
      BY <2>6 DEF Define
    <3>2. {d.type : d \in ToSet(f)} = {document.vars[n] : n \in Inputs(document)}
      <4>1. \A n : Define(document.vars[n]).type = document.vars[n]
        BY DEF Define
      <4> QED BY <2>6, <4>1
    <3> QED BY <3>1, <3>2 DEF TypesIn, InputTypes
  <2>8. StillToDefine' = InputTypes /\ InputTypes' = InputTypes
    BY <1>1, <2>2, <2>7 DEF StillToDefine, TypesIn, InputTypes
  <2>9. DefinedSoFar'
    BY <1>1, <2>8 DEF DefinedSoFar
  <2>10. \A n \in Inputs(document) : document.vars[n] \in DOMAIN Api.kind => IsInput(Api, document.vars[n])
    BY <1>1, DescriptionAssumption
  <2>11. \A d \in ToSet(f) : PendingOK(d)'
    <3> TAKE d \in ToSet(f)
    <3>1. PICK n \in Inputs(document) : d = Define(document.vars[n])
      BY <2>6
    <3>2. d.type = document.vars[n] /\ d.fields = FALSE
      BY <3>1 DEF Define
    <3> QED BY <2>10, <3>2 DEF PendingOK, InSchema
  <2> QED BY <1>1, <1>3, <2>2, <2>5, <2>9, <2>11 DEF DefineInv
<1> QED BY <1>1, <1>2, <1>3

\* When no type is left, the definitions are what the variables lead to.
LEMMA AllAreDefined ==
  ASSUME DefineInv, defining = <<>>, phase = "collecting", via # "execute"
  PROVE  /\ LeadTo(Api, InputTypes, DOMAIN definitions)
         /\ \A t \in DOMAIN definitions : definitions[t] = FieldNames(Api, t)
<1>1. ToSet(defining) = {} /\ StillToDefine = {}
  BY NoneIsSequence DEF StillToDefine, TypesIn
<1>2. DOMAIN definitions \subseteq DOMAIN Api.kind
  BY DEF DefineInv, IsInput
<1>3. LeadTo(Api, InputTypes, DOMAIN definitions)
  BY <1>1, <1>2 DEF DefineInv, DefinedSoFar, LeadTo, Closed
<1> QED BY <1>1, <1>3 DEF DefineInv

\* Nothing else changes what is defined.
LEMMA DefineInvElse ==
  ASSUME DefineInv, UNCHANGED defineVars, document' = document, via' = via,
         phase' = "loading" => phase = "loading",
         phase' = "collecting" => phase = "collecting" \/ via = "execute",
         phase' = "ready" => \/ phase = "ready"
                             \/ phase = "collecting" /\ via # "execute" /\ defining = <<>>
  PROVE  DefineInv'
<1>1. /\ definitions' = definitions /\ defining' = defining /\ document \in Documents
      /\ InputTypes' = InputTypes /\ (DefinedSoFar => DefinedSoFar') /\ \A c : PendingOK(c) => PendingOK(c)'
  BY DEF defineVars, DefineInv, DefinedSoFar, StillToDefine, TypesIn, InputTypes, PendingOK, InSchema
<1>2. phase' = "ready" => /\ LeadTo(Api, InputTypes', DOMAIN definitions')
                          /\ \A t \in DOMAIN definitions' : definitions'[t] = FieldNames(Api, t)
  BY <1>1, AllAreDefined DEF DefineInv
<1> QED BY <1>1, <1>2 DEF DefineInv

-----------------------------------------------------------------------------
(* The life of a tool. *)

\* The invariant of the description and of the input schema.
DescribeInv == RetainInv /\ DefineInv

\* An operation begins with nothing retained or defined.
LEMMA DescribeInitOK == DescribeInit => DescribeInv
<1> SUFFICES ASSUME DescribeInit PROVE DescribeInv
  OBVIOUS
<1>1. /\ document \in Documents /\ phase = "loading"
      /\ retaining = <<>> /\ defining = <<>> /\ DOMAIN definitions = {}
      /\ nodes = [kept |-> {}, cut |-> {}, names |-> {}]
  BY DEF DescribeInit, OperationInit, Untouched
<1>2. NodesOK
  BY <1>1 DEF NodesOK
<1> QED BY <1>1, <1>2, NoneIsSequence DEF DescribeInv, RetainInv, DefineInv

\* Once it is loaded, an operation is collected, and made, only when its description is.
LEMMA OperateSteps ==
  ASSUME Operate
  PROVE  /\ document' = document /\ via' = via
         /\ phase' # "loading" \/ phase = "loading"
         /\ phase' = "collecting" => phase = "collecting" \/ via = "execute"
         /\ phase' = "ready" => \/ phase = "ready"
                                \/ phase = "collecting" /\ via # "execute"
<1>1. CASE Execute
  BY <1>1 DEF Execute, documentVars
<1>2. CASE CollectNext
  BY <1>2 DEF CollectNext, documentVars
<1>3. CASE Collected
  BY <1>3 DEF Collected, documentVars
<1>4. CASE Call
  BY <1>4 DEF Call, documentVars
<1>5. CASE CallFails
  BY <1>5 DEF CallFails, documentVars
<1>6. CASE Answer
  BY <1>6 DEF Answer, documentVars
<1>7. CASE PrefetchAnswer
  BY <1>7 DEF PrefetchAnswer, documentVars
<1>8. CASE Nest
  BY <1>8 DEF Nest, documentVars
<1> QED BY <1>1, <1>2, <1>3, <1>4, <1>5, <1>6, <1>7, <1>8 DEF Operate

\* Every step keeps what is retained and defined within what is selected.
LEMMA DescribeNextOK == DescribeInv /\ [DescribeNext]_describeVars => DescribeInv'
<1> SUFFICES ASSUME DescribeInv, [DescribeNext]_describeVars PROVE DescribeInv'
  OBVIOUS
<1>1. RetainInv /\ DefineInv
  BY DEF DescribeInv
<1>2. CASE LoadTool
  BY <1>1, <1>2, RetainInvLoad, DefineInvLoad DEF DescribeInv
<1>3. CASE RetainNext
  <2>1. UNCHANGED defineVars /\ document' = document /\ via' = via /\ phase' = phase
    BY <1>3 DEF RetainNext, operationVars, documentVars
  <2> QED BY <1>1, <1>3, <2>1, RetainInvCall, DefineInvElse DEF DescribeInv
<1>4. CASE DefineNext
  <2>1. UNCHANGED shakeVars /\ document' = document /\ via' = via /\ phase' = phase
    BY <1>4 DEF DefineNext, operationVars, documentVars
  <2> QED BY <1>1, <1>4, <2>1, DefineInvTurn, RetainInvElse DEF DescribeInv
<1>5. CASE Operate
  <2>1. UNCHANGED shakeVars /\ UNCHANGED defineVars /\ retaining = <<>> /\ defining = <<>>
    BY <1>5 DEF Operate
  <2>2. RetainInv'
    BY <1>1, <1>5, <2>1, OperateSteps, RetainInvElse
  <2>3. DefineInv'
    BY <1>1, <1>5, <2>1, OperateSteps, DefineInvElse
  <2> QED BY <2>2, <2>3 DEF DescribeInv
<1>6. CASE UNCHANGED describeVars
  <2>1. /\ UNCHANGED shakeVars /\ UNCHANGED defineVars
        /\ document' = document /\ via' = via /\ phase' = phase
    BY <1>6 DEF describeVars, operationVars, documentVars
  <2> QED BY <1>1, <2>1, RetainInvElse, DefineInvElse DEF DescribeInv
<1> QED BY <1>2, <1>3, <1>4, <1>5, <1>6 DEF DescribeNext

\* The description of a tool that is ready shows what the operation selects.
LEMMA DescribedIsSelected ==
  ASSUME RetainInv, phase = "ready"
  PROVE  Described = {a \in Selects(document) : a[1] \notin {Root(document), "Query"}}
<1> DEFINE types == {t \in nodes.kept \ {Root(document), "Query"} : Api.kind[t] # "input"}
<1>1. /\ document \in Documents /\ NodesOK
      /\ \A x \in Chosen(document) : IsShown(x)
  BY DEF RetainInv
<1>2. \A t \in types : t \in nodes.cut /\ t \in nodes.kept
  BY <1>1 DEF NodesOK, IsInput
<1>3. \A t \in types : \A f : Shows(nodes, t, f) <=> <<t, f>> \in nodes.names
  BY <1>2 DEF Shows
<1>4. \A a : a \in Described <=>
        \E t \in types : \E f \in FieldNames(Api, t) : Shows(nodes, t, f) /\ a = <<t, f>>
  BY DEF Described
<1>5. \A a : a \in Selects(document) <=>
        \E x \in Chosen(document) : x.e.kind = "field" /\ x.e.name # Typename /\ a = <<x.on, x.e.name>>
  BY DEF Selects
<1> HIDE DEF types
<1>6. ASSUME NEW a \in Described
      PROVE  a \in Selects(document) /\ a[1] \notin {Root(document), "Query"}
  <2>1. PICK t \in types : \E f \in FieldNames(Api, t) : Shows(nodes, t, f) /\ a = <<t, f>>
    BY <1>4
  <2>2. PICK f \in FieldNames(Api, t) : Shows(nodes, t, f) /\ a = <<t, f>>
    BY <2>1
  <2>3. a \in nodes.names
    BY <1>3, <2>2
  <2>4. a[1] = t
    BY <2>2
  <2> QED BY <1>1, <2>3, <2>4 DEF NodesOK, types
<1>7. ASSUME NEW a \in Selects(document), a[1] \notin {Root(document), "Query"}
      PROVE  a \in Described
  <2>1. PICK x \in Chosen(document) : x.e.kind = "field" /\ x.e.name # Typename /\ a = <<x.on, x.e.name>>
    BY <1>5
  <2>2. x.on \in nodes.kept /\ <<x.on, x.e.name>> \in nodes.names
    BY <1>1, <2>1 DEF IsShown
  <2>3. x.on \in DOMAIN Api.kind /\ ~IsInput(Api, x.on) /\ HasField(Api, x.on, x.e.name)
    BY <1>1, <2>1, ChosenAreClosed DEF ValidSelection
  <2>4. x.e.name \in FieldNames(Api, x.on)
    BY <2>3 DEF HasField, FieldNames
  <2>5. a[1] = x.on
    BY <2>1
  <2>6. x.on \in types
    BY <1>7, <2>2, <2>3, <2>5 DEF types, IsInput
  <2> QED BY <1>3, <1>4, <2>1, <2>2, <2>4, <2>6
<1> QED BY <1>6, <1>7

\* The description of a tool shows exactly the fields its operation selects below the root,
\* and its input schema defines exactly the types its variables lead to.
THEOREM ToolIsDescribed == DescribeSpec => []ToolDescribesOperation
<1>1. DescribeInv => ToolDescribesOperation
  <2> SUFFICES ASSUME DescribeInv, phase = "ready" PROVE ToolDescribesOperation
    BY DEF ToolDescribesOperation
  <2>1. /\ LeadTo(Api, InputTypes, DOMAIN definitions)
        /\ \A t \in DOMAIN definitions : definitions[t] = FieldNames(Api, t)
    BY DEF DescribeInv, DefineInv
  <2> QED BY <2>1, DescribedIsSelected DEF DescribeInv, ToolDescribesOperation, InputTypes
<1> QED BY <1>1, DescribeInitOK, DescribeNextOK, PTL DEF DescribeSpec

-----------------------------------------------------------------------------
(* CallExecution *)

\* Every engine is detached, and none has been written to: the variable that closures
\* captured is as the load has left it.
NothingShared ==
  \A i \in 1..Len(engines) :
    engines[i].shared = Rhai!Detached(Rhai!Ways) /\ engines[i].captured = "loaded"

\* A reload has compiled what it is about to install.
LoadingIsGood ==
  /\ loading.at \in {"lib", "swap"} => loading.main > Rhai!Broken
  /\ loading.at = "swap" => loading.lib > Rhai!Broken

\* A hook holds an engine with the scripts it started with and a copy of the variable
\* that it alone has written to.
HookIsSound(r) ==
  hook[r].at = "running" =>
    /\ hook[r].engine \in 1..Len(engines)
    /\ engines[hook[r].engine].main = hook[r].began.main
    /\ hook[r].began.lib \in {engines[hook[r].engine].lib, Rhai!Later}
    /\ hook[r].top = hook[r].mine

HooksAreSound == \A r \in Requests : HookIsSound(r)

ScriptInv ==
  /\ Rhai!RhaiTypeOK
  /\ NothingShared /\ LoadingIsGood /\ HooksAreSound
  /\ EnginesAreWhole

-----------------------------------------------------------------------------
USE ScriptAssumption
    DEF scripts, lockVars, callVars, Rhai!Absent, Rhai!Broken, Rhai!Later, Rhai!Written,
        Rhai!Current, Rhai!Variable

\* detach follows every way but those into a promise.
LEMMA WaysAreDetached ==
  ASSUME NEW w \in Rhai!Ways, ~Rhai!ToReceiver(w)
  PROVE  w \notin Rhai!Detached(Rhai!Ways)
<1>1. PICK n \in 0..Depth : w \in [1..n -> {"item", "curry", "receiver"}]
  BY DEF Rhai!Ways
<1>2. \A i \in DOMAIN w : w[i] \in Rhai!Followed
  BY <1>1 DEF Rhai!ToReceiver, Rhai!Followed
<1> QED BY <1>2 DEF Rhai!Detached

\* The variable itself is a way, and it is detached.
LEMMA VariableIsDetached == <<>> \in Rhai!Ways /\ <<>> \notin Rhai!Detached(Rhai!Ways)
<1>1. <<>> \in [1..0 -> {"item", "curry", "receiver"}] /\ 0 \in 0..Depth
  OBVIOUS
<1>2. DOMAIN <<>> = {}
  OBVIOUS
<1>3. <<>> \in Rhai!Ways
  BY <1>1, <1>2 DEF Rhai!Ways
<1> QED BY <1>2, <1>3 DEF Rhai!Detached

\* What is loaded makes an engine with nothing shared.
LEMMA EngineMade ==
  ASSUME NEW s, s.main \in Rhai!OnDisk, s.lib \in Rhai!OnDisk \cup {Rhai!Later}
  PROVE  /\ Rhai!Engine(s) \in Rhai!EngineType
         /\ Rhai!Engine(s).main = s.main /\ Rhai!Engine(s).lib = s.lib
         /\ Rhai!Engine(s).shared = Rhai!Detached(Rhai!Ways)
         /\ Rhai!Engine(s).captured = "loaded"
<1>1. Rhai!Detached(Rhai!Ways) \in SUBSET Rhai!Ways
  BY DEF Rhai!Detached
<1> QED BY <1>1 DEF Rhai!Engine, Rhai!EngineType, Rhai!Values

\* A step of the scripts, as CallExecution composes them with the event loop.
ScriptStep ==
  \/ Rhai!Edit \/ Rhai!StartReload \/ Rhai!CompileMain \/ Rhai!RunTopLevel \/ Rhai!Swap
  \/ \E r \in Requests :
       \/ Rhai!BeginHook(r) \/ Rhai!Write(r) \/ Rhai!TakeAnswer(r) \/ Rhai!Import(r)
       \/ Rhai!HookReturns(r) \/ Rhai!HookThrows(r) \/ Rhai!AfterHook(r)

\* A step of a call or of the event loop is one of the scripts or leaves them as they are.
LEMMA StepsOfScripts ==
  ASSUME [CallNext]_callVars
  PROVE  ScriptStep \/ UNCHANGED scripts
BY DEF CallNext, EventLoop, TakeReload, LoadScripts, TopLevel, TakeUpdate, ApplyUpdate,
   RequestStep, CallOperation, CallExecute, Hook, EndCall, ScriptStep, Rhai!RunHook

\* What an edit or a part of a reload keeps that does not install an engine.
LEMMA LoadingStep ==
  ASSUME ScriptInv, UNCHANGED <<engines, hook>>,
         disk' \in Rhai!Scripts, edits' \in 0..MaxEdits, changed' \in {"yes", "no"},
         loading' \in [at : {"idle", "main", "lib", "swap"}, main : Rhai!OnDisk,
                       lib : Rhai!OnDisk \cup {Rhai!Later}],
         LoadingIsGood'
  PROVE  ScriptInv'
BY DEF ScriptInv, Rhai!RhaiTypeOK, NothingShared, HooksAreSound, HookIsSound, EnginesAreWhole,
   Rhai!EnginesAreWhole

\* What a step of a hook keeps that leaves the engines as they are: whatever it makes of
\* its own state, others keep theirs.
LEMMA HookStep ==
  ASSUME ScriptInv, NEW r \in Requests,
         UNCHANGED <<disk, edits, changed, loading, engines>>,
         NEW h \in Rhai!HookType, h.engine \in 0..Len(engines),
         hook' = [hook EXCEPT ![r] = h],
         HookIsSound(r)'
  PROVE  ScriptInv'
<1>1. Rhai!RhaiTypeOK'
  BY DEF ScriptInv, Rhai!RhaiTypeOK
<1>2. \A o \in Requests : o # r => hook'[o] = hook[o]
  BY DEF ScriptInv, Rhai!RhaiTypeOK
<1>3. HooksAreSound'
  BY <1>2 DEF ScriptInv, HooksAreSound, HookIsSound
<1> QED BY <1>1, <1>3 DEF ScriptInv, NothingShared, LoadingIsGood, EnginesAreWhole,
   Rhai!EnginesAreWhole

\* What a step keeps that changes the engine a hook holds: it stays detached and usable,
\* and only a module that was not imported is new in it.
LEMMA EngineStep ==
  ASSUME ScriptInv, NEW e \in 1..Len(engines), NEW new \in Rhai!EngineType,
         UNCHANGED <<disk, edits, changed, loading, hook>>,
         engines' = [engines EXCEPT ![e] = new],
         new.main = engines[e].main, new.shared = engines[e].shared,
         new.captured = engines[e].captured,
         new.lib = engines[e].lib \/ (engines[e].lib = Rhai!Later /\ new.lib > Rhai!Broken)
  PROVE  ScriptInv'
<1>1. /\ engines' \in Seq(Rhai!EngineType) /\ Len(engines') = Len(engines)
      /\ engines'[e] = new
      /\ \A i \in 1..Len(engines) : i # e => engines'[i] = engines[i]
  BY DEF ScriptInv, Rhai!RhaiTypeOK
<1>2. Rhai!RhaiTypeOK'
  BY <1>1 DEF ScriptInv, Rhai!RhaiTypeOK
<1>3. NothingShared'
  BY <1>1 DEF ScriptInv, NothingShared
<1>4. HooksAreSound'
  BY <1>1 DEF ScriptInv, HooksAreSound, HookIsSound
<1>5. EnginesAreWhole'
  BY <1>1 DEF ScriptInv, EnginesAreWhole, Rhai!EnginesAreWhole, Rhai!Usable
<1> QED BY <1>2, <1>3, <1>4, <1>5 DEF ScriptInv, LoadingIsGood

\* Edits, reloads and hooks of any number of calls keep the invariant.
LEMMA ScriptInvStep ==
  ASSUME ScriptInv, [CallNext]_callVars
  PROVE  ScriptInv'
<1>t. /\ disk \in Rhai!Scripts /\ disk.main \in Rhai!OnDisk /\ disk.lib \in Rhai!OnDisk
      /\ edits \in 0..MaxEdits /\ changed \in {"yes", "no"}
      /\ loading \in [at : {"idle", "main", "lib", "swap"}, main : Rhai!OnDisk,
                      lib : Rhai!OnDisk \cup {Rhai!Later}]
      /\ engines \in Seq(Rhai!EngineType) /\ Len(engines) \in Nat \ {0}
      /\ hook \in [Requests -> Rhai!HookType]
  BY DEF ScriptInv, Rhai!RhaiTypeOK, Rhai!Scripts
<1>idle. /\ Rhai!Idle \in [at : {"idle", "main", "lib", "swap"}, main : Rhai!OnDisk,
                           lib : Rhai!OnDisk \cup {Rhai!Later}]
         /\ Rhai!Idle.at = "idle"
  BY DEF Rhai!Idle, Rhai!OnDisk
<1>none. Rhai!NoHook \in Rhai!HookType /\ Rhai!NoHook.at = "none" /\ Rhai!NoHook.engine = 0
  BY DEF Rhai!NoHook, Rhai!HookType, Rhai!Loaded, Rhai!OnDisk, Rhai!Values
<1>1. CASE Rhai!Edit
  <2>1. disk' \in Rhai!Scripts /\ edits' \in 0..MaxEdits
    <3>1. PICK f \in {"main", "lib"}, c \in {Rhai!Broken, Rhai!Written(edits + 1)} :
            disk' = [disk EXCEPT ![f] = c]
      BY <1>1 DEF Rhai!Edit
    <3>2. edits + 1 \in 0..MaxEdits /\ edits' = edits + 1
      BY <1>1, <1>t DEF Rhai!Edit
    <3>3. c \in Rhai!OnDisk
      BY <3>1, <3>2 DEF Rhai!OnDisk
    <3> QED BY <1>t, <3>1, <3>2, <3>3 DEF Rhai!Scripts
  <2> QED BY <1>1, <1>t, <2>1, LoadingStep DEF Rhai!Edit, ScriptInv, LoadingIsGood
<1>2. CASE Rhai!StartReload
  <2>1. /\ loading' \in [at : {"idle", "main", "lib", "swap"}, main : Rhai!OnDisk,
                         lib : Rhai!OnDisk \cup {Rhai!Later}]
        /\ loading'.at = "main"
    BY <1>2, <1>idle DEF Rhai!StartReload
  <2> QED BY <1>2, <1>t, <2>1, LoadingStep DEF Rhai!StartReload, LoadingIsGood
<1>3. CASE Rhai!CompileMain
  <2>1. CASE disk.main > Rhai!Broken
    <3>1. /\ loading' = [loading EXCEPT !.at = "lib", !.main = disk.main]
          /\ UNCHANGED <<disk, edits, changed, engines, hook>>
      BY <1>3, <2>1 DEF Rhai!CompileMain
    <3>2. loading'.at = "lib" /\ loading'.main = disk.main
      BY <1>t, <3>1
    <3> QED BY <1>t, <2>1, <3>1, <3>2, LoadingStep DEF LoadingIsGood
  <2>2. CASE ~(disk.main > Rhai!Broken)
    <3>1. loading' = Rhai!Idle /\ UNCHANGED <<disk, edits, changed, engines, hook>>
      BY <1>3, <2>2 DEF Rhai!CompileMain
    <3> QED BY <1>t, <1>idle, <3>1, LoadingStep DEF LoadingIsGood
  <2> QED BY <2>1, <2>2
<1>4. CASE Rhai!RunTopLevel
  <2>0. PICK lib \in {disk.lib, Rhai!Later} :
          loading' = IF lib > Rhai!Broken
                     THEN [loading EXCEPT !.at = "swap", !.lib = lib] ELSE Rhai!Idle
    BY <1>4 DEF Rhai!RunTopLevel
  <2>t. lib \in Rhai!OnDisk \cup {Rhai!Later}
    BY <1>t, <2>0
  <2>f. UNCHANGED <<disk, edits, changed, engines, hook>>
    BY <1>4 DEF Rhai!RunTopLevel
  <2>1. CASE lib > Rhai!Broken
    <3>1. loading' = [loading EXCEPT !.at = "swap", !.lib = lib]
      BY <2>0, <2>1
    <3>2. loading'.at = "swap" /\ loading'.lib = lib /\ loading'.main = loading.main
      BY <1>t, <3>1
    <3>3. loading.main > Rhai!Broken
      BY <1>4 DEF Rhai!RunTopLevel, ScriptInv, LoadingIsGood
    <3> QED BY <1>t, <2>t, <2>f, <2>1, <3>1, <3>2, <3>3, LoadingStep DEF LoadingIsGood
  <2>2. CASE ~(lib > Rhai!Broken)
    <3>1. loading' = Rhai!Idle
      BY <2>0, <2>2
    <3> QED BY <1>t, <1>idle, <2>f, <3>1, LoadingStep DEF LoadingIsGood
  <2> QED BY <2>1, <2>2
<1>5. CASE Rhai!Swap
  <2>1. /\ loading.main > Rhai!Broken /\ loading.lib > Rhai!Broken
        /\ loading' = Rhai!Idle /\ UNCHANGED <<disk, edits, changed, hook>>
        /\ engines' = Append(engines, Rhai!Engine(loading))
    BY <1>5 DEF Rhai!Swap, ScriptInv, LoadingIsGood
  <2>2. /\ Rhai!Engine(loading) \in Rhai!EngineType
        /\ Rhai!Engine(loading).main = loading.main /\ Rhai!Engine(loading).lib = loading.lib
        /\ Rhai!Engine(loading).shared = Rhai!Detached(Rhai!Ways)
        /\ Rhai!Engine(loading).captured = "loaded"
    BY <1>t, EngineMade
  <2>3. /\ engines' \in Seq(Rhai!EngineType) /\ Len(engines') = Len(engines) + 1
        /\ engines'[Len(engines) + 1] = Rhai!Engine(loading)
        /\ \A i \in 1..Len(engines) : engines'[i] = engines[i]
    BY <1>t, <2>1, <2>2
  <2>4. Rhai!RhaiTypeOK'
    BY <1>t, <1>idle, <2>1, <2>3 DEF ScriptInv, Rhai!RhaiTypeOK
  <2>5. NothingShared'
    BY <1>t, <2>2, <2>3 DEF ScriptInv, NothingShared
  <2>6. HooksAreSound'
    BY <1>t, <2>1, <2>3 DEF ScriptInv, HooksAreSound, HookIsSound
  <2>7. EnginesAreWhole'
    BY <1>t, <2>1, <2>2, <2>3 DEF ScriptInv, EnginesAreWhole, Rhai!EnginesAreWhole, Rhai!Usable
  <2> QED BY <1>idle, <2>1, <2>4, <2>5, <2>6, <2>7 DEF ScriptInv, LoadingIsGood
<1>6. ASSUME NEW r \in Requests, Rhai!BeginHook(r) PROVE ScriptInv'
  <2> DEFINE now == engines[Len(engines)]
  <2>1. now \in Rhai!EngineType /\ UNCHANGED <<disk, edits, changed, loading, engines>>
    BY <1>6, <1>t DEF Rhai!BeginHook
  <2>2. CASE now.main = Rhai!Absent
    <3> DEFINE h == [Rhai!NoHook EXCEPT !.at = "returned"]
    <3>1. h \in Rhai!HookType /\ h.at = "returned" /\ h.engine = 0
      BY DEF Rhai!NoHook, Rhai!HookType, Rhai!Loaded, Rhai!OnDisk, Rhai!Values
    <3>2. hook' = [hook EXCEPT ![r] = h]
      BY <1>6, <2>2 DEF Rhai!BeginHook
    <3> HIDE DEF h
    <3>3. HookIsSound(r)' /\ h.engine \in 0..Len(engines)
      BY <1>t, <3>1, <3>2 DEF HookIsSound
    <3> QED BY <2>1, <3>1, <3>2, <3>3, HookStep
  <2>3. CASE now.main # Rhai!Absent
    <3> DEFINE h == [Rhai!NoHook EXCEPT !.at = "running", !.engine = Len(engines),
                                       !.began = [main |-> now.main, lib |-> now.lib]]
    <3>1. h \in Rhai!HookType
      BY <1>t, <2>1 DEF Rhai!NoHook, Rhai!HookType, Rhai!Loaded, Rhai!EngineType, Rhai!Values
    <3>2. /\ h.at = "running" /\ h.engine = Len(engines)
          /\ h.began.main = now.main /\ h.began.lib = now.lib
          /\ h.top = "loaded" /\ h.mine = "loaded"
      BY DEF Rhai!NoHook
    <3>3. hook' = [hook EXCEPT ![r] = h]
      BY <1>6, <2>3 DEF Rhai!BeginHook
    <3> HIDE DEF h
    <3>4. hook'[r] = h
      BY <1>t, <3>3
    <3>5. HookIsSound(r)' /\ h.engine \in 0..Len(engines)
      BY <1>t, <2>1, <3>2, <3>4 DEF HookIsSound
    <3> QED BY <2>1, <3>1, <3>3, <3>5, HookStep
  <2> QED BY <2>2, <2>3
<1>h. ASSUME NEW r \in Requests, hook[r].at = "running"
      PROVE  /\ hook[r].engine \in 1..Len(engines)
             /\ engines[hook[r].engine] \in Rhai!EngineType
             /\ engines[hook[r].engine].shared = Rhai!Detached(Rhai!Ways)
  BY <1>h, <1>t DEF ScriptInv, HooksAreSound, HookIsSound, NothingShared
<1>7. ASSUME NEW r \in Requests, Rhai!Write(r) PROVE ScriptInv'
  <2>1. PICK w \in {<<>>} \cup {w \in Rhai!Held(r).shared : ~Rhai!ToReceiver(w)} :
          /\ hook' = IF w = <<>> THEN [hook EXCEPT ![r].top = r, ![r].mine = r] ELSE hook
          /\ engines' = IF w \in Rhai!Held(r).shared
                        THEN [engines EXCEPT ![hook[r].engine].captured = r] ELSE engines
    BY <1>7 DEF Rhai!Write
  <2>2. Rhai!Held(r).shared = Rhai!Detached(Rhai!Ways)
    BY <1>7, <1>h DEF Rhai!Write, Rhai!Held
  <2>3. w = <<>>
    BY <2>1, <2>2, WaysAreDetached DEF Rhai!Detached
  <2>4. w \notin Rhai!Held(r).shared
    BY <2>2, <2>3, VariableIsDetached
  <2> DEFINE h == [hook[r] EXCEPT !.top = r, !.mine = r]
  <2>5. h \in Rhai!HookType
    <3>1. hook[r] \in Rhai!HookType /\ r \in Rhai!Values
      BY <1>t DEF Rhai!Values
    <3> QED BY <3>1 DEF Rhai!HookType
  <2>6. /\ h.at = hook[r].at /\ h.engine = hook[r].engine /\ h.began = hook[r].began
        /\ h.top = r /\ h.mine = r
    BY <1>t DEF Rhai!HookType
  <2>7. engines' = engines /\ UNCHANGED <<disk, edits, changed, loading>>
    BY <1>7, <2>1, <2>4 DEF Rhai!Write
  <2>8. hook' = [hook EXCEPT ![r] = h]
    BY <1>t, <2>1, <2>3
  <2>9. h.engine \in 0..Len(engines)
    BY <2>6 DEF ScriptInv, Rhai!RhaiTypeOK
  <2>10. HookIsSound(r) /\ hook'[r] = h
    BY <1>t, <2>8 DEF ScriptInv, HooksAreSound
  <2> HIDE DEF h
  <2>11. HookIsSound(r)'
    BY <2>6, <2>7, <2>10 DEF HookIsSound
  <2> QED BY <2>5, <2>7, <2>8, <2>9, <2>11, HookStep
<1>8. ASSUME NEW r \in Requests, Rhai!TakeAnswer(r) PROVE ScriptInv'
  <2> DEFINE e == hook[r].engine
             new == [engines[e] EXCEPT !.receiver = "taken"]
  <2>1. e \in 1..Len(engines) /\ engines[e] \in Rhai!EngineType
    BY <1>8, <1>h DEF Rhai!TakeAnswer
  <2>2. /\ new \in Rhai!EngineType /\ new.main = engines[e].main
        /\ new.shared = engines[e].shared /\ new.captured = engines[e].captured
        /\ new.lib = engines[e].lib
    BY <2>1 DEF Rhai!EngineType
  <2>3. /\ engines' = [engines EXCEPT ![e] = new]
        /\ UNCHANGED <<disk, edits, changed, loading, hook>>
    BY <1>8 DEF Rhai!TakeAnswer
  <2> HIDE DEF e, new
  <2> QED BY <2>1, <2>2, <2>3, EngineStep
<1>9. ASSUME NEW r \in Requests, Rhai!Import(r) PROVE ScriptInv'
  <2> DEFINE e == hook[r].engine
             new == [engines[e] EXCEPT !.lib = disk.lib]
  <2>1. e \in 1..Len(engines) /\ engines[e] \in Rhai!EngineType
    BY <1>9, <1>h DEF Rhai!Import
  <2>2. /\ new \in Rhai!EngineType /\ new.main = engines[e].main
        /\ new.shared = engines[e].shared /\ new.captured = engines[e].captured
        /\ new.lib = disk.lib
    BY <1>t, <2>1 DEF Rhai!EngineType
  <2>3. /\ engines' = [engines EXCEPT ![e] = new]
        /\ UNCHANGED <<disk, edits, changed, loading, hook>>
        /\ engines[e].lib = Rhai!Later /\ disk.lib > Rhai!Broken
    BY <1>9 DEF Rhai!Import, Rhai!Held
  <2> HIDE DEF e, new
  <2> QED BY <2>1, <2>2, <2>3, EngineStep
<1>10. ASSUME NEW r \in Requests, Rhai!HookReturns(r) PROVE ScriptInv'
  <2> DEFINE h == [Rhai!NoHook EXCEPT !.at = "returned"]
  <2>1. h \in Rhai!HookType /\ h.at = "returned" /\ h.engine = 0
    BY DEF Rhai!NoHook, Rhai!HookType, Rhai!Loaded, Rhai!OnDisk, Rhai!Values
  <2>2. hook' = [hook EXCEPT ![r] = h] /\ UNCHANGED <<disk, edits, changed, loading, engines>>
    BY <1>10 DEF Rhai!HookReturns
  <2> HIDE DEF h
  <2>3. HookIsSound(r)' /\ h.engine \in 0..Len(engines)
    BY <1>t, <2>1, <2>2 DEF HookIsSound
  <2> QED BY <2>1, <2>2, <2>3, HookStep
<1>11. ASSUME NEW r \in Requests, Rhai!HookThrows(r) \/ Rhai!AfterHook(r) PROVE ScriptInv'
  <2>1. /\ hook' = [hook EXCEPT ![r] = Rhai!NoHook]
        /\ UNCHANGED <<disk, edits, changed, loading, engines>>
    BY <1>11 DEF Rhai!HookThrows, Rhai!AfterHook
  <2>2. HookIsSound(r)'
    BY <1>t, <1>none, <2>1 DEF HookIsSound
  <2>3. Rhai!NoHook.engine \in 0..Len(engines)
    BY <1>t, <1>none
  <2> QED BY <1>none, <2>1, <2>2, <2>3, HookStep
<1>12. CASE UNCHANGED scripts
  BY <1>12 DEF ScriptInv, Rhai!RhaiTypeOK, NothingShared, LoadingIsGood, HooksAreSound,
     HookIsSound, EnginesAreWhole, Rhai!EnginesAreWhole
<1> QED BY <1>1, <1>2, <1>3, <1>4, <1>5, <1>6, <1>7, <1>8, <1>9, <1>10, <1>11, <1>12,
           StepsOfScripts DEF ScriptStep

\* The invariant of the scripts holds in every state.
LEMMA ScriptInvariant == CallSpec => []ScriptInv
<1>1. CallInit => ScriptInv
  <2> SUFFICES ASSUME CallInit PROVE ScriptInv
    OBVIOUS
  <2>1. PICK lib \in {disk.lib, Rhai!Later} :
          /\ \/ disk.main = Rhai!Absent /\ lib = Rhai!Later
             \/ Rhai!Usable([main |-> disk.main, lib |-> lib])
          /\ engines = <<Rhai!Engine([main |-> disk.main, lib |-> lib])>>
    BY DEF CallInit, Rhai!RhaiInit
  <2>2. disk \in Rhai!Scripts /\ disk.main \in Rhai!OnDisk /\ disk.lib \in Rhai!OnDisk
    BY DEF CallInit, Rhai!RhaiInit, Rhai!Scripts, Rhai!OnDisk
  <2> DEFINE s == [main |-> disk.main, lib |-> lib]
  <2>3. s.main = disk.main /\ s.lib = lib /\ lib \in Rhai!OnDisk \cup {Rhai!Later}
    BY <2>1, <2>2
  <2>4. engines = <<Rhai!Engine(s)>> /\ (s.main = Rhai!Absent \/ Rhai!Usable(s))
    BY <2>1
  <2> HIDE DEF s
  <2>5. /\ Rhai!Engine(s) \in Rhai!EngineType
        /\ Rhai!Engine(s).main = s.main /\ Rhai!Engine(s).lib = s.lib
        /\ Rhai!Engine(s).shared = Rhai!Detached(Rhai!Ways)
        /\ Rhai!Engine(s).captured = "loaded"
    BY <2>2, <2>3, EngineMade
  <2>6. engines \in Seq(Rhai!EngineType) /\ Len(engines) = 1 /\ engines[1] = Rhai!Engine(s)
    BY <2>4, <2>5
  <2>7. /\ hook \in [Requests -> Rhai!HookType]
        /\ \A r \in Requests : hook[r].at = "none" /\ hook[r].engine = 0
    BY DEF CallInit, Rhai!RhaiInit, Rhai!NoHook, Rhai!HookType, Rhai!Loaded, Rhai!OnDisk,
       Rhai!Values
  <2>8. /\ loading \in [at : {"idle", "main", "lib", "swap"}, main : Rhai!OnDisk,
                        lib : Rhai!OnDisk \cup {Rhai!Later}]
        /\ loading.at = "idle" /\ edits \in 0..MaxEdits /\ changed \in {"yes", "no"}
    BY DEF CallInit, Rhai!RhaiInit, Rhai!Idle, Rhai!OnDisk
  <2>9. Rhai!RhaiTypeOK
    BY <2>2, <2>6, <2>7, <2>8 DEF Rhai!RhaiTypeOK
  <2>10. NothingShared /\ LoadingIsGood /\ HooksAreSound
    BY <2>5, <2>6, <2>7, <2>8 DEF NothingShared, LoadingIsGood, HooksAreSound, HookIsSound
  <2>11. EnginesAreWhole
    BY <2>4, <2>5, <2>6 DEF EnginesAreWhole, Rhai!EnginesAreWhole, Rhai!Usable
  <2> QED BY <2>9, <2>10, <2>11 DEF ScriptInv
<1>2. ScriptInv /\ [CallNext]_callVars => ScriptInv'
  BY ScriptInvStep
<1> QED BY <1>1, <1>2, PTL DEF CallSpec

\* Every variable of the calls, the scripts and the lock keeps its type.
THEOREM TypeCorrect == CallSpec => []CallTypeOK
<1> DEFINE LockType == loop \in {"free", "waiting"} /\ guards \subseteq Requests
<1>1. CallInit => LockType
  BY DEF CallInit
<1>2. LockType /\ [CallNext]_callVars => LockType'
  BY DEF CallNext, EventLoop, TakeReload, LoadScripts, TopLevel, TakeUpdate, ApplyUpdate,
     RequestStep, CallOperation, CallExecute, Hook, EndCall
<1>3. LockType /\ ScriptInv => CallTypeOK
  BY DEF CallTypeOK, ScriptInv
<1> HIDE DEF LockType
<1> QED BY <1>1, <1>2, <1>3, ScriptInvariant, PTL DEF CallSpec

\* However many calls are in a hook, however deep the values of their scripts are nested,
\* and however often scripts are reloaded meanwhile: each hook runs on the scripts it
\* started with, and finds in a variable what it wrote itself and through a closure what
\* the load has left there.
THEOREM HooksKeepTheirScripts == CallSpec => []HooksAreIsolated
<1>1. ScriptInv => HooksAreIsolated
  <2> SUFFICES ASSUME ScriptInv, NEW r \in Requests, hook[r].at = "running"
               PROVE  /\ Rhai!Held(r).main = hook[r].began.main
                      /\ hook[r].began.lib \in {Rhai!Held(r).lib, Rhai!Later}
                      /\ \A w \in Rhai!Ways : ~Rhai!ToReceiver(w) =>
                           Rhai!Reads(r, w) = IF w = <<>> THEN hook[r].mine ELSE "loaded"
    BY DEF HooksAreIsolated, Rhai!HooksAreIsolated
  <2>1. HookIsSound(r)
    BY DEF ScriptInv, HooksAreSound
  <2>2. Rhai!Held(r).shared = Rhai!Detached(Rhai!Ways)
    BY <2>1 DEF ScriptInv, NothingShared, HookIsSound, Rhai!Held
  <2>3. ASSUME NEW w \in Rhai!Ways, ~Rhai!ToReceiver(w)
        PROVE  Rhai!Reads(r, w) = IF w = <<>> THEN hook[r].mine ELSE "loaded"
    <3>1. w \notin Rhai!Held(r).shared
      BY <2>2, <2>3, WaysAreDetached
    <3>2. hook[r].top = hook[r].mine
      BY <2>1 DEF HookIsSound
    <3> QED BY <3>1, <3>2 DEF Rhai!Reads
  <2> QED BY <2>1, <2>3 DEF HookIsSound, Rhai!Held
<1> QED BY <1>1, ScriptInvariant, PTL

\* Each file of an engine that calls ever run has compiled and its statements have run,
\* whenever it was read: files of two versions may be in one engine, a file that fails
\* is in none.
THEOREM OnlyWholeEngines == CallSpec => []EnginesAreWhole
<1>1. ScriptInv => EnginesAreWhole
  BY DEF ScriptInv
<1> QED BY <1>1, ScriptInvariant, PTL
=============================================================================

------------------------- MODULE SchemaSources_proofs -------------------------
(***************************************************************************)
(* What UplinkStream and SchemaSources guarantee for any number of           *)
(* endpoints, chunks and versions.                                         *)
(***************************************************************************)
EXTENDS SchemaSources, TLAPS

Polled == use \in {"schema", "manifest"}

\* Each source has places of its own.
PlaceOfSource ==
  /\ pc \in {"fetch", "transform"} => Polled
  /\ pc \in {"full", "hash"} => use = "platform"
  /\ pc \in {"open", "watch"} => use = "file"

\* What waits to be sent is whole as well.
WholeInv ==
  /\ TypeOK /\ PlaceOfSource /\ ManifestsAreWhole
  /\ use = "manifest" /\ outgoing.kind = "new" => outgoing.parts = Needed(outgoing.ver)

\* A version on its way is newer than what the consumer has and than those before it,
\* and none is newer than the last id; the one that waits to be sent and the one that is
\* being transformed are newer than all others.
Sorted ==
  /\ have.ver <= lastId
  /\ \A i \in 1..Len(queue) : queue[i].kind = "new" =>
       have.ver < queue[i].ver /\ queue[i].ver <= lastId
  /\ \A i, j \in 1..Len(queue) :
       i < j /\ queue[i].kind = "new" /\ queue[j].kind = "new" => queue[i].ver < queue[j].ver
  /\ pc = "send" /\ outgoing.kind = "new" =>
       /\ outgoing.ver = lastId /\ have.ver < lastId
       /\ \A i \in 1..Len(queue) : queue[i].kind = "new" => queue[i].ver < lastId
  /\ pc = "transform" => offer > lastId

OrderInv == TypeOK /\ PlaceOfSource /\ (Polled /\ rewound = "no" => Sorted)

-----------------------------------------------------------------------------
USE UplinkAssumption DEF Versions, Chunks, EndpointIds, ChannelCapacity, Results,
    pollVars, consumerVars, uplinkVars, vars

\* A result that is sent goes to the end of the queue.
LEMMA QueueGrows ==
  ASSUME queue \in Seq(Results), NEW r \in Results
  PROVE  /\ Append(queue, r) \in Seq(Results) /\ Len(Append(queue, r)) = Len(queue) + 1
         /\ Append(queue, r)[Len(queue) + 1] = r /\ Len(queue) \in Nat
         /\ \A i \in 1..Len(queue) : Append(queue, r)[i] = queue[i]
<1> HIDE DEF Results
<1> QED OBVIOUS

\* A result that is received was at its head.
LEMMA QueueShrinks ==
  ASSUME queue \in Seq(Results), queue # <<>>
  PROVE  /\ Head(queue) \in Results /\ Head(queue) = queue[1]
         /\ Len(queue) \in Nat /\ Len(queue) >= 1
         /\ Tail(queue) \in Seq(Results) /\ Len(Tail(queue)) = Len(queue) - 1
         /\ \A i \in 1..Len(Tail(queue)) : i + 1 \in 1..Len(queue) /\ Tail(queue)[i] = queue[i + 1]
<1> HIDE DEF Results
<1>1. Len(queue) \in Nat /\ Len(queue) >= 1
  OBVIOUS
<1>2. Tail(queue) \in Seq(Results) /\ Len(Tail(queue)) = Len(queue) - 1
  OBVIOUS
<1>3. Head(queue) = queue[1] /\ queue[1] \in Results
  BY <1>1
<1>4. \A i \in 1..Len(Tail(queue)) : Tail(queue)[i] = queue[i + 1]
  BY <1>1, <1>2
<1> QED BY <1>1, <1>2, <1>3, <1>4

\* The types and the places of Uplink's poll loop.
LEMMA UplinkTypeStep ==
  ASSUME TypeOK, PlaceOfSource, UplinkPoll
  PROVE  TypeOK' /\ PlaceOfSource'
<1> USE DEF TypeOK, UplinkTypeOK, PlaceOfSource, Polled
<1>0. Polled /\ changed' = changed /\ use' = use
  BY DEF UplinkPoll, UplinkNext, UplinkTask, Poll, EndpointFails, NextEndpoint, AnswerNew,
     AnswerUnchanged, AnswerError, ChunkArrives, ChunkFails, Transformed, Replicate
<1>f. \A kind \in {"retry", "noRetry"} : Failure(kind) \in Results
  BY DEF Failure
<1>1. CASE Poll
  BY <1>0, <1>1 DEF Poll
<1>2. CASE EndpointFails \/ ChunkFails
  <2>1. CASE NextEndpoint
    <3>1. at' \in EndpointIds /\ pc' \in {"fetch", "send"} /\ outgoing' \in Results
      <4> HIDE DEF Results
      <4> QED BY <2>1, <1>f DEF NextEndpoint
    <3>2. UNCHANGED <<serves, lastId, offer, got, queue, have, consumer, rewound>>
      BY <2>1 DEF NextEndpoint
    <3> HIDE DEF Results
    <3> QED BY <1>0, <3>1, <3>2
  <2>2. NextEndpoint
    BY <1>2 DEF EndpointFails, ChunkFails
  <2> QED BY <2>1, <2>2
<1>3. CASE AnswerNew \/ AnswerUnchanged
  <2>1. CASE AnswerNew
    BY <1>0, <2>1 DEF AnswerNew
  <2>2. CASE AnswerUnchanged
    BY <1>0, <2>2 DEF AnswerUnchanged
  <2> QED BY <1>3, <2>1, <2>2
<1>4. CASE AnswerError
  <2>1. outgoing' \in Results
    BY <1>4, <1>f DEF AnswerError
  <2> HIDE DEF Results
  <2> QED BY <1>0, <1>4, <2>1 DEF AnswerError
<1>5. ASSUME NEW c \in Chunks, ChunkArrives(c) PROVE TypeOK' /\ PlaceOfSource'
  <2>1. offer \in Versions /\ c \in Chunks
    BY <1>5
  <2>2. got' \subseteq Versions \X Chunks
    BY <1>5, <2>1 DEF ChunkArrives
  <2> HIDE DEF Results
  <2> QED BY <1>0, <1>5, <2>2 DEF ChunkArrives
<1>6. CASE Transformed
  <2>1. outgoing' \in Results
    BY <1>6 DEF Transformed
  <2> HIDE DEF Results
  <2> QED BY <1>0, <1>6, <2>1 DEF Transformed
<1>7. ASSUME NEW e \in EndpointIds, Replicate(e) PROVE TypeOK' /\ PlaceOfSource'
  <2>1. serves' \in [EndpointIds -> Versions]
    BY <1>7 DEF Replicate
  <2>2. UNCHANGED <<use, pollVars, queue, consumerVars, rewound>>
    BY <1>7 DEF Replicate
  <2> HIDE DEF Results
  <2> QED BY <1>0, <2>1, <2>2
<1> QED BY <1>1, <1>2, <1>3, <1>4, <1>5, <1>6, <1>7 DEF UplinkPoll, UplinkNext, UplinkTask

\* The types and the places of the channel.
LEMMA ChannelTypeStep ==
  ASSUME TypeOK, PlaceOfSource, Delivery
  PROVE  TypeOK' /\ PlaceOfSource'
<1> USE DEF TypeOK, UplinkTypeOK, PlaceOfSource, Polled
<1>0. changed' = changed /\ use' = use
  BY DEF Delivery, Channel, Send, SendFails, Receive, StreamEnds, Start
<1>1. CASE Send
  <2>1. queue' \in Seq(Results) /\ Len(queue') <= ChannelCapacity
    BY <1>1, QueueGrows DEF Send
  <2> QED BY <1>0, <1>1, <2>1 DEF Send
<1>2. CASE SendFails
  BY <1>0, <1>2 DEF SendFails
<1>3. CASE Receive
  <2>1. queue' \in Seq(Results) /\ Len(queue') <= ChannelCapacity
    BY <1>3, QueueShrinks DEF Receive
  <2>2. have' \in [ver : Versions, parts : SUBSET (Versions \X Chunks)]
    BY <1>3, QueueShrinks DEF Receive
  <2> QED BY <1>0, <1>3, <2>1, <2>2 DEF Receive
<1>4. CASE StreamEnds \/ Start
  BY <1>0, <1>4 DEF StreamEnds, Start
<1> QED BY <1>1, <1>2, <1>3, <1>4 DEF Delivery, Channel

\* Every variable keeps its type, and every source its places.
LEMMA TypeStep ==
  ASSUME TypeOK, PlaceOfSource, [Next]_vars
  PROVE  TypeOK' /\ PlaceOfSource'
<1> USE DEF TypeOK, UplinkTypeOK, PlaceOfSource, Polled
<1>s. serves[1] \in Versions
  OBVIOUS
<1>1. CASE UplinkPoll
  BY <1>1, UplinkTypeStep
<1>2. CASE Delivery
  BY <1>2, ChannelTypeStep
<1>3. CASE PlatformPoll
  BY <1>3 DEF PlatformPoll
<1>4. CASE FullFetch
  <2>1. outgoing' \in Results
    BY <1>4, <1>s DEF FullFetch
  <2> QED BY <1>4, <1>s, <2>1 DEF FullFetch
<1>5. CASE FullFetchFails
  BY <1>5 DEF FullFetchFails
<1>6. CASE HashPoll \/ HashPollFails
  BY <1>6 DEF HashPoll, HashPollFails
<1>7. CASE OpenFile
  BY <1>7 DEF OpenFile
<1>8. CASE ReadFile
  BY <1>8, <1>s DEF ReadFile
<1>9. CASE Publish
  <2>1. serves' \in [EndpointIds -> Versions]
    BY <1>9 DEF Publish, SourceVersions
  <2>2. changed' \in {"no", "yes"} /\ UNCHANGED <<use, pollVars, queue, consumerVars, rewound>>
    BY <1>9 DEF Publish
  <2> HIDE DEF Results
  <2> QED BY <2>1, <2>2
<1>10. CASE UNCHANGED vars
  BY <1>10
<1> QED BY <1>1, <1>2, <1>3, <1>4, <1>5, <1>6, <1>7, <1>8, <1>9, <1>10
        DEF Next, PlatformTask, FileStream

\* The source in use is fixed.
LEMMA SourceStays ==
  ASSUME [Next]_vars
  PROVE  use' = use /\ \A v : Needed(v)' = Needed(v)
<1>1. use' = use
  BY DEF Next, UplinkPoll, UplinkNext, UplinkTask, Poll, EndpointFails, NextEndpoint, AnswerNew,
     AnswerUnchanged, AnswerError, ChunkArrives, ChunkFails, Transformed, Replicate,
     Delivery, Channel, Send, SendFails, Receive, StreamEnds, Start,
     PlatformTask, PlatformPoll, FullFetch, FullFetchFails, HashPoll, HashPollFails,
     FileStream, OpenFile, ReadFile, Publish
<1> QED BY <1>1 DEF Needed

\* Manifests are whole where they are made, where they wait and where they arrive.
LEMMA WholeStep ==
  ASSUME WholeInv, [Next]_vars
  PROVE  WholeInv'
<1>0. TypeOK' /\ PlaceOfSource' /\ use' = use /\ \A v : Needed(v)' = Needed(v)
  BY TypeStep, SourceStays DEF WholeInv
<1> DEFINE Whole(r) == r.kind = "new" => r.parts = Needed(r.ver)
<1>d. DOMAIN queue' = 1..Len(queue') /\ DOMAIN queue = 1..Len(queue)
  BY <1>0 DEF WholeInv, TypeOK, UplinkTypeOK
<1> SUFFICES ASSUME use = "manifest"
             PROVE  /\ have'.ver # 0 => have'.parts = Needed(have'.ver)
                    /\ \A i \in 1..Len(queue') : Whole(queue'[i])
                    /\ Whole(outgoing')
  <2>1. ManifestsAreWhole'
    BY <1>0, <1>d DEF ManifestsAreWhole, Needed
  <2> QED BY <1>0, <2>1 DEF WholeInv, Needed
<1>h. /\ have.ver # 0 => have.parts = Needed(have.ver)
      /\ \A i \in 1..Len(queue) : Whole(queue[i])
      /\ Whole(outgoing)
      /\ queue \in Seq(Results) /\ outgoing \in Results
  BY DEF WholeInv, ManifestsAreWhole, TypeOK, UplinkTypeOK
<1> HIDE DEF Whole
<1>f. \A kind \in {"retry", "noRetry"} : Whole(Failure(kind))
  BY DEF Failure, Whole
<1>1. CASE UplinkPoll
  <2>1. have' = have /\ queue' = queue
    BY <1>1 DEF UplinkPoll, UplinkNext, UplinkTask, Poll, EndpointFails, NextEndpoint, AnswerNew,
       AnswerUnchanged, AnswerError, ChunkArrives, ChunkFails, Transformed, Replicate
  <2>2. CASE Transformed
    <3>1. Whole(outgoing')
      BY <2>2 DEF Transformed, Whole
    <3> QED BY <1>h, <2>1, <3>1
  <2>3. CASE EndpointFails \/ ChunkFails \/ AnswerError
    BY <1>h, <1>f, <2>1, <2>3 DEF EndpointFails, ChunkFails, NextEndpoint, AnswerError
  <2>4. outgoing' = outgoing \/ Transformed \/ EndpointFails \/ ChunkFails \/ AnswerError
    BY <1>1 DEF UplinkPoll, UplinkNext, UplinkTask, Poll, AnswerNew, AnswerUnchanged,
       ChunkArrives, Replicate
  <2> QED BY <1>h, <2>1, <2>2, <2>3, <2>4
<1>2. CASE Send
  BY <1>h, <1>2, QueueGrows DEF Send
<1>3. CASE Receive
  <2>1. have' = have \/ (Head(queue).kind = "new" /\
          have' = [ver |-> Head(queue).ver, parts |-> Head(queue).parts])
    BY <1>3 DEF Receive
  <2>2. Whole(Head(queue))
    <3>1. queue # <<>>
      BY <1>3 DEF Receive
    <3>2. Head(queue) = queue[1] /\ Len(queue) \in Nat /\ Len(queue) >= 1
      BY <1>h, <3>1, QueueShrinks
    <3> QED BY <1>h, <3>2
  <2>3. \A i \in 1..Len(queue') : Whole(queue'[i])
    BY <1>h, <1>3, QueueShrinks DEF Receive
  <2> QED BY <1>3, <1>h, <2>1, <2>2, <2>3 DEF Whole, Receive
<1>4. CASE SendFails \/ StreamEnds \/ Start
  BY <1>h, <1>4 DEF SendFails, StreamEnds, Start
<1>5. CASE PlatformTask
  <2>1. ~FullFetch
    BY DEF FullFetch, WholeInv, PlaceOfSource
  <2> QED BY <1>h, <1>5, <2>1 DEF PlatformTask, PlatformPoll, FullFetchFails, HashPoll, HashPollFails
<1>6. CASE FileStream
  <2>1. ~ReadFile
    BY DEF ReadFile, WholeInv, PlaceOfSource
  <2> QED BY <1>h, <1>6, <2>1 DEF FileStream, OpenFile
<1>7. CASE Publish \/ UNCHANGED vars
  BY <1>h, <1>7 DEF Publish
<1> QED BY <1>1, <1>2, <1>3, <1>4, <1>5, <1>6, <1>7 DEF Next, Delivery, Channel

\* A version that is sent goes behind all others; it is the newest.
LEMMA SortedSend ==
  ASSUME TypeOK, Sorted, Send
  PROVE  Sorted'
<1>1. /\ Len(queue) \in Nat /\ Len(queue') = Len(queue) + 1
      /\ queue'[Len(queue) + 1] = outgoing
      /\ \A i \in 1..Len(queue) : queue'[i] = queue[i]
  BY QueueGrows DEF Send, TypeOK, UplinkTypeOK
<1>2. /\ UNCHANGED <<have, lastId>> /\ pc = "send" /\ pc' \in {"done", "sleep"}
      /\ have.ver \in Nat /\ lastId \in Nat
  BY DEF Send, TypeOK, UplinkTypeOK
<1>3. \A i \in 1..Len(queue') : i = Len(queue) + 1 \/ i \in 1..Len(queue)
  BY <1>1
<1>4. \A i \in 1..Len(queue') : queue'[i].kind = "new" =>
        have.ver < queue'[i].ver /\ queue'[i].ver <= lastId
  BY <1>1, <1>2, <1>3 DEF Sorted
<1>5. ASSUME NEW i \in 1..Len(queue'), NEW j \in 1..Len(queue'), i < j,
             queue'[i].kind = "new", queue'[j].kind = "new"
      PROVE  queue'[i].ver < queue'[j].ver
  <2>1. i \in 1..Len(queue)
    BY <1>1, <1>5
  <2>2. CASE j \in 1..Len(queue)
    BY <1>1, <1>5, <2>1, <2>2 DEF Sorted
  <2>3. CASE j = Len(queue) + 1
    BY <1>1, <1>2, <1>5, <2>1, <2>3 DEF Sorted
  <2> QED BY <1>3, <2>2, <2>3
<1> QED BY <1>2, <1>4, <1>5 DEF Sorted

\* The version that is received is newer than the one before it and older than the others.
LEMMA SortedReceive ==
  ASSUME TypeOK, Sorted, Receive
  PROVE  Sorted' /\ (have' # have => have'.ver > have.ver)
<1>1. /\ Len(queue) \in Nat /\ Len(queue) >= 1 /\ Len(queue') = Len(queue) - 1
      /\ Head(queue) = queue[1]
      /\ \A i \in 1..Len(queue') : i + 1 \in 1..Len(queue) /\ queue'[i] = queue[i + 1]
  BY QueueShrinks DEF Receive, TypeOK, UplinkTypeOK
<1>2. /\ UNCHANGED <<lastId, pc, offer, outgoing>>
      /\ \/ have' = have
         \/ /\ queue[1].kind = "new"
            /\ have' = [ver |-> queue[1].ver, parts |-> queue[1].parts]
  BY <1>1 DEF Receive
<1>3. 1 \in 1..Len(queue) /\ \A i \in 1..Len(queue') : 1 < i + 1
  BY <1>1
<1>4. \A i \in 1..Len(queue') : queue'[i].kind = "new" =>
        have'.ver < queue'[i].ver /\ queue'[i].ver <= lastId
  BY <1>1, <1>2, <1>3 DEF Sorted
<1>5. ASSUME NEW i \in 1..Len(queue'), NEW j \in 1..Len(queue'), i < j,
             queue'[i].kind = "new", queue'[j].kind = "new"
      PROVE  queue'[i].ver < queue'[j].ver
  <2>1. i + 1 < j + 1
    BY <1>5
  <2> QED BY <1>1, <1>5, <2>1 DEF Sorted
<1>6. have'.ver <= lastId /\ (have' # have => have'.ver > have.ver)
  BY <1>2, <1>3 DEF Sorted
<1>7. pc = "send" /\ outgoing.kind = "new" =>
        /\ outgoing.ver = lastId /\ have'.ver < lastId
        /\ \A i \in 1..Len(queue') : queue'[i].kind = "new" => queue'[i].ver < lastId
  BY <1>1, <1>2, <1>3 DEF Sorted
<1> QED BY <1>2, <1>4, <1>5, <1>6, <1>7 DEF Sorted

\* Until an endpoint that lags rewinds the last id, every step keeps versions in order.
LEMMA OrderStep ==
  ASSUME OrderInv, [Next]_vars
  PROVE  OrderInv'
<1>0. TypeOK' /\ PlaceOfSource' /\ use' = use
  BY TypeStep, SourceStays DEF OrderInv
<1> SUFFICES ASSUME Polled, rewound' = "no"
             PROVE  Sorted'
  BY <1>0 DEF OrderInv, Polled
<1>p. TypeOK /\ PlaceOfSource
  BY DEF OrderInv
<1>u. rewound = "no" => Sorted
  BY DEF OrderInv
<1>t. /\ have.ver \in Nat /\ lastId \in Nat /\ \A e \in EndpointIds : serves[e] \in Nat
      /\ at \in EndpointIds /\ offer \in Nat
      /\ \A i \in 1..Len(queue) : queue[i].ver \in Nat
  <2>1. \A i \in 1..Len(queue) : queue[i] \in Results
    <3> HIDE DEF Results
    <3> QED BY <1>p DEF TypeOK, UplinkTypeOK
  <2>2. \A r \in Results : r.ver \in Nat
    OBVIOUS
  <2>3. /\ have.ver \in Nat /\ lastId \in Nat /\ at \in EndpointIds /\ offer \in Nat
    BY <1>p DEF TypeOK, UplinkTypeOK
  <2>4. \A e \in EndpointIds : serves[e] \in Nat
    BY <1>p DEF TypeOK, UplinkTypeOK
  <2> HIDE DEF Results
  <2> QED BY <2>1, <2>2, <2>3, <2>4
<1>f. \A kind \in {"retry", "noRetry"} : Failure(kind).kind # "new"
  BY DEF Failure
<1>1. CASE Poll
  BY <1>u, <1>1 DEF Poll, Sorted
<1>2. CASE EndpointFails \/ ChunkFails
  BY <1>u, <1>f, <1>2 DEF EndpointFails, ChunkFails, NextEndpoint, Sorted
<1>3. CASE AnswerNew
  BY <1>u, <1>3 DEF AnswerNew, Sorted
<1>4. CASE AnswerUnchanged
  <2>1. rewound = "no" /\ serves[at] = lastId
    BY <1>t, <1>4 DEF AnswerUnchanged
  <2> QED BY <1>u, <1>4, <2>1 DEF AnswerUnchanged, Sorted
<1>5. CASE AnswerError
  BY <1>u, <1>f, <1>5 DEF AnswerError, Sorted
<1>6. ASSUME NEW c \in Chunks, ChunkArrives(c) PROVE Sorted'
  BY <1>u, <1>6 DEF ChunkArrives, Sorted
<1>7. CASE Transformed
  BY <1>t, <1>u, <1>7 DEF Transformed, Sorted
<1>8. ASSUME NEW e \in EndpointIds, Replicate(e) PROVE Sorted'
  BY <1>u, <1>8 DEF Replicate, Sorted
<1>9. CASE Send
  BY <1>p, <1>u, <1>9, SortedSend DEF Send
<1>10. CASE Receive
  BY <1>p, <1>u, <1>10, SortedReceive DEF Receive
<1>11. CASE SendFails \/ StreamEnds \/ Start
  BY <1>u, <1>11 DEF SendFails, StreamEnds, Start, Sorted
<1>12. CASE PlatformPoll \/ FullFetch \/ FullFetchFails \/ HashPoll \/ HashPollFails
  BY <1>p, <1>u, <1>12 DEF PlatformPoll, FullFetch, FullFetchFails, HashPoll, HashPollFails,
     PlaceOfSource, Polled, Sorted
<1>13. CASE FileStream \/ Publish
  BY <1>p, <1>13 DEF FileStream, OpenFile, ReadFile, Publish, PlaceOfSource, Polled
<1>14. CASE UNCHANGED vars
  BY <1>u, <1>14 DEF Sorted
<1> QED BY <1>1, <1>2, <1>3, <1>4, <1>5, <1>6, <1>7, <1>8, <1>9, <1>10, <1>11, <1>12, <1>13,
   <1>14 DEF Next, UplinkPoll, UplinkNext, UplinkTask, PlatformTask, Delivery, Channel

-----------------------------------------------------------------------------
\* The first states are ordered, and nothing is on its way in them.
LEMMA FirstStates ==
  Init => WholeInv /\ OrderInv
<1> SUFFICES ASSUME Init PROVE WholeInv /\ OrderInv
  OBVIOUS
<1>1. Failure("retry") \in Results /\ Failure("retry").kind # "new"
  BY DEF Failure
<1>2. /\ outgoing = Failure("retry") /\ queue = <<>> /\ have = Nothing
      /\ at = 1 /\ lastId = 0 /\ offer = 0 /\ got = {} /\ consumer = "waiting"
      /\ rewound = "no" /\ changed = "no" /\ use \in Sources
  BY DEF Init, UplinkInit
<1>3. /\ pc \in {"fetch", "full", "open"} /\ PlaceOfSource
      /\ serves \in [EndpointIds -> Versions]
  BY DEF Init, UplinkInit, PlatformInit, FileInit, SourceVersions, PlaceOfSource, Polled
<1>4. queue \in Seq(Results) /\ Len(queue) = 0
  BY <1>2
<1>5. have \in [ver : Versions, parts : SUBSET (Versions \X Chunks)] /\ have.ver = 0
  BY <1>2 DEF Nothing
<1>6. TypeOK
  BY <1>1, <1>2, <1>3, <1>4, <1>5 DEF TypeOK, UplinkTypeOK
<1>7. ManifestsAreWhole
  BY <1>2, <1>4, <1>5 DEF ManifestsAreWhole
<1>8. Sorted
  BY <1>1, <1>2, <1>3, <1>4, <1>5 DEF Sorted
<1> QED BY <1>1, <1>2, <1>3, <1>6, <1>7, <1>8 DEF WholeInv, OrderInv

\* WholeInv and OrderInv hold in every state.
LEMMA SourceInvariants ==
  Spec => [](WholeInv /\ OrderInv)
<1>1. WholeInv /\ OrderInv /\ [Next]_vars => (WholeInv /\ OrderInv)'
  BY WholeStep, OrderStep
<1> QED BY <1>1, FirstStates, PTL DEF Spec

\* The variables of the poll task, the channel and the consumer keep their types.
THEOREM TypeCorrect == Spec => []TypeOK
<1>1. WholeInv => TypeOK
  BY DEF WholeInv
<1> QED BY <1>1, SourceInvariants, PTL

\* No manifest that waits in the channel or has been taken lacks a chunk or mixes two
\* versions, for any number of endpoints and chunks and any order of their failures.
THEOREM OnlyWholeManifests == Spec => []ManifestsAreWhole
<1>1. WholeInv => ManifestsAreWhole
  BY DEF WholeInv
<1> QED BY <1>1, SourceInvariants, PTL

\* What the state machine is given from Uplink is newer every time, until an endpoint
\* that lags behind has answered "unchanged".
THEOREM VersionsOnlyGrow == Spec => OnlyNewerVersions
<1> DEFINE Newer == (use \in {"schema", "manifest"} /\ have' # have /\ rewound = "no")
                      => have'.ver > have.ver
<1>1. OrderInv /\ [Next]_vars => [Newer]_vars
  <2> SUFFICES ASSUME OrderInv, Next, Polled, have' # have, rewound = "no"
               PROVE  have'.ver > have.ver
    BY DEF Polled
  <2>1. ~ReadFile
    BY DEF ReadFile, OrderInv, PlaceOfSource, Polled
  <2>2. Receive
    BY <2>1 DEF Next, UplinkPoll, UplinkNext, UplinkTask, Poll, EndpointFails, NextEndpoint,
       AnswerNew, AnswerUnchanged, AnswerError, ChunkArrives, ChunkFails, Transformed, Replicate,
       Delivery, Channel, Send, SendFails, StreamEnds, Start, PlatformTask, PlatformPoll,
       FullFetch, FullFetchFails, HashPoll, HashPollFails, FileStream, OpenFile, Publish
  <2> QED BY <2>2, SortedReceive DEF OrderInv
<1> QED BY <1>1, SourceInvariants, PTL DEF Spec, OnlyNewerVersions

===============================================================================

---------------------------- MODULE UplinkStream ----------------------------
(***************************************************************************)
(* The poll loop behind Apollo Uplink (uplink.rs), as it feeds schemas      *)
(* (uplink/schema) and persisted query manifests (uplink/persisted_queries) *)
(* to the state machine through a channel of two.                           *)
(*                                                                         *)
(* A task polls: it asks the endpoints in order, with the id of the last    *)
(* answer, until one of them gives an answer that can be used.  A manifest  *)
(* is used only when every one of its chunks was downloaded; when one of    *)
(* them was not, the next endpoint is asked.  Endpoints are replicas, which *)
(* may lag behind one another.                                             *)
(***************************************************************************)
EXTENDS Naturals, Sequences, FiniteSets

CONSTANTS
  NumEndpoints,   \* endpoints in their configured order: 1..NumEndpoints
  NumChunks,      \* chunks of a manifest in the order of the answer: 1..NumChunks
  Unlisted,       \* versions of a variant with no persisted query list
  MaxVersion      \* bound: versions published

ASSUME UplinkAssumption ==
  /\ NumEndpoints \in Nat \ {0}
  /\ NumChunks \in Nat
  /\ MaxVersion \in Nat \ {0}
  /\ Unlisted \subseteq 1..MaxVersion

ChannelCapacity == 2

VARIABLES
  use,        \* what the stream is for: "schema" or "manifest"
  serves,     \* the version each endpoint serves
  pc,         \* the poll task
  at,         \* the endpoint it is asking
  lastId,     \* last_id: id of the last answer; 0 for None
  offer,      \* the version of the answer being transformed
  got,        \* its chunks that have been downloaded
  outgoing,   \* the result that waits to be sent
  queue,      \* the channel
  have,       \* the last version the state machine was given, with its chunks
  consumer,   \* the state machine: "waiting" for a first version, "running", "failed"
  rewound     \* history: "yes" once an endpoint that lags has answered "unchanged"

pollVars     == <<pc, at, lastId, offer, got, outgoing>>
consumerVars == <<have, consumer>>
uplinkVars   == <<use, serves, pollVars, queue, consumerVars, rewound>>

EndpointIds == 1..NumEndpoints
Versions    == 0..MaxVersion
Chunks      == 1..NumChunks
Parts(v)    == {v} \X Chunks
Results     == [kind : {"new", "retry", "noRetry"}, ver : Versions,
                parts : SUBSET (Versions \X Chunks)]

Failure(kind) == [kind |-> kind, ver |-> 0, parts |-> {}]
Nothing       == [ver |-> 0, parts |-> {}]

\* What the answer of version v is transformed from: chunks to download for a
\* manifest, none for a schema or for a variant without a list.
Needed(v) == IF use = "manifest" /\ v \notin Unlisted THEN Parts(v) ELSE {}

UplinkInit ==
  /\ use \in {"schema", "manifest"}
  /\ serves = [e \in EndpointIds |-> 1]
  /\ pc = "fetch" /\ at = 1 /\ lastId = 0 /\ offer = 0 /\ got = {}
  /\ outgoing = Failure("retry")
  /\ queue = <<>>
  /\ have = Nothing /\ consumer = "waiting"
  /\ rewound = "no"

-----------------------------------------------------------------------------
(* The poll task *)

\* The sleep of poll_interval ends; Fallback starts from the first endpoint again.
Poll ==
  /\ pc = "sleep"
  /\ pc' = "fetch" /\ at' = 1
  /\ UNCHANGED <<use, serves, lastId, offer, got, outgoing, queue, consumerVars, rewound>>

\* This endpoint's answer is of no use: ask the next, or report that all failed.
NextEndpoint ==
  /\ IF at < NumEndpoints
     THEN pc' = "fetch" /\ at' = at + 1 /\ UNCHANGED outgoing
     ELSE pc' = "send" /\ outgoing' = Failure("retry") /\ UNCHANGED at
  /\ UNCHANGED <<use, serves, lastId, offer, got, queue, consumerVars, rewound>>

\* The request fails, or its response has no data.
EndpointFails == pc = "fetch" /\ NextEndpoint

\* UplinkResponse::New: the endpoint has something newer than ifAfterId.
AnswerNew ==
  /\ pc = "fetch" /\ serves[at] > lastId
  /\ pc' = "transform" /\ offer' = serves[at] /\ got' = {}
  /\ UNCHANGED <<use, serves, at, lastId, outgoing, queue, consumerVars, rewound>>

\* UplinkResponse::Unchanged: the answer's id, which is that of the endpoint's own
\* version, replaces last_id.
AnswerUnchanged ==
  /\ pc = "fetch" /\ serves[at] <= lastId
  /\ pc' = "sleep" /\ lastId' = serves[at]
  /\ rewound' = IF serves[at] < lastId THEN "yes" ELSE rewound
  /\ UNCHANGED <<use, serves, at, offer, got, outgoing, queue, consumerVars>>

\* UplinkResponse::Error: RETRY_LATER, or an error that no retry can mend.
AnswerError ==
  /\ pc = "fetch"
  /\ \E kind \in {"retry", "noRetry"} : outgoing' = Failure(kind)
  /\ pc' = "send"
  /\ UNCHANGED <<use, serves, at, lastId, offer, got, queue, consumerVars, rewound>>

\* fetch_chunk_into_manifest: one of the next chunk's URLs delivers it.
ChunkArrives(c) ==
  /\ pc = "transform" /\ got # Needed(offer)
  /\ c = Cardinality(got) + 1
  /\ got' = got \cup {<<offer, c>>}
  /\ UNCHANGED <<use, serves, pc, at, lastId, offer, outgoing, queue, consumerVars, rewound>>

\* Mutant of ChunkFails: a chunk that cannot be downloaded is left out.
ChunkSkipped ==
  /\ pc = "transform" /\ got # Needed(offer)
  /\ outgoing' = [kind |-> "new", ver |-> offer, parts |-> got]
  /\ pc' = "send" /\ lastId' = offer
  /\ UNCHANGED <<use, serves, at, offer, got, queue, consumerVars, rewound>>

\* None of a chunk's URLs delivers it: the whole answer is given up.
ChunkFails == pc = "transform" /\ got # Needed(offer) /\ NextEndpoint

\* Mutant of Transformed: the answer's id is not remembered.
TransformedForgotten ==
  /\ pc = "transform" /\ got = Needed(offer)
  /\ outgoing' = [kind |-> "new", ver |-> offer, parts |-> got]
  /\ pc' = "send"
  /\ UNCHANGED <<use, serves, at, lastId, offer, got, queue, consumerVars, rewound>>

\* The manifest is complete: its id is remembered and the result goes to the channel.
Transformed ==
  /\ pc = "transform" /\ got = Needed(offer)
  /\ outgoing' = [kind |-> "new", ver |-> offer, parts |-> got]
  /\ pc' = "send" /\ lastId' = offer
  /\ UNCHANGED <<use, serves, at, offer, got, queue, consumerVars, rewound>>

\* The channel has room.  After an error that no retry can mend the task ends.
Send ==
  /\ pc = "send" /\ consumer # "failed"
  /\ Len(queue) < ChannelCapacity
  /\ queue' = Append(queue, outgoing)
  /\ pc' = IF outgoing.kind = "noRetry" THEN "done" ELSE "sleep"
  /\ UNCHANGED <<use, serves, at, lastId, offer, got, outgoing, consumerVars, rewound>>

\* The receiver is gone with the state machine.
SendFails ==
  /\ pc = "send" /\ consumer = "failed"
  /\ pc' = "done"
  /\ UNCHANGED <<use, serves, at, lastId, offer, got, outgoing, queue, consumerVars, rewound>>

-----------------------------------------------------------------------------
(* The state machine's end of the channel *)

\* The schema stream logs its errors and drops them; the manifest stream passes on
\* those that no retry can mend (classify_uplink_manifest_result).
Reported(result) == use = "manifest" /\ result.kind = "noRetry"

\* ManifestError is fatal unless the server runs; a version is taken in any state.
Receive ==
  /\ queue # <<>> /\ consumer # "failed"
  /\ queue' = Tail(queue)
  /\ LET result == Head(queue) IN
     /\ have' = IF result.kind = "new"
                THEN [ver |-> result.ver, parts |-> result.parts] ELSE have
     /\ consumer' = IF Reported(result) /\ consumer = "waiting" THEN "failed" ELSE consumer
  /\ UNCHANGED <<use, serves, pollVars, rewound>>

\* The stream ends: schemas are followed by NoMoreSchema, fatal while there is none.
StreamEnds ==
  /\ pc = "done" /\ queue = <<>> /\ use # "manifest"
  /\ consumer = "waiting" /\ have.ver = 0
  /\ consumer' = "failed"
  /\ UNCHANGED <<use, serves, pollVars, queue, have, rewound>>

\* The other source has delivered too, and the server starts.
Start ==
  /\ consumer = "waiting" /\ have.ver # 0
  /\ consumer' = "running"
  /\ UNCHANGED <<use, serves, pollVars, queue, have, rewound>>

\* A version reaches an endpoint; an endpoint never goes back.
Replicate(e) ==
  /\ \E v \in 1..MaxVersion : v > serves[e] /\ serves' = [serves EXCEPT ![e] = v]
  /\ UNCHANGED <<use, pollVars, queue, consumerVars, rewound>>

UplinkTask == \/ Poll \/ EndpointFails \/ AnswerNew \/ AnswerUnchanged \/ AnswerError
              \/ (\E c \in Chunks : ChunkArrives(c)) \/ ChunkFails \/ Transformed
UplinkNext == UplinkTask \/ \E e \in EndpointIds : Replicate(e)
Channel    == Send \/ SendFails \/ Receive \/ StreamEnds \/ Start

UplinkSpec == UplinkInit /\ [][UplinkNext \/ Channel]_uplinkVars

-----------------------------------------------------------------------------
(* Properties *)

UplinkTypeOK ==
  /\ serves \in [EndpointIds -> Versions]
  /\ at \in EndpointIds
  /\ lastId \in Versions /\ offer \in Versions
  /\ got \subseteq Versions \X Chunks
  /\ outgoing \in Results
  /\ queue \in Seq(Results) /\ Len(queue) <= ChannelCapacity
  /\ have \in [ver : Versions, parts : SUBSET (Versions \X Chunks)]
  /\ consumer \in {"waiting", "running", "failed"}
  /\ rewound \in {"no", "yes"}

\* Whatever endpoints and chunk downloads fail on the way, no part of a manifest is
\* ever served for the whole, nor parts of two versions together
\* (manifest_from_uplink_chunks returns the first error).
ManifestsAreWhole ==
  use = "manifest" =>
    /\ have.ver # 0 => have.parts = Needed(have.ver)
    /\ \A i \in DOMAIN queue : queue[i].kind = "new" => queue[i].parts = Needed(queue[i].ver)

=============================================================================

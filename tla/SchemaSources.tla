---------------------------- MODULE SchemaSources ----------------------------
(***************************************************************************)
(* SchemaSource::into_stream (uplink/schema.rs): the state machine's schema *)
(* comes from Uplink (UplinkStream), from the latest publication of the     *)
(* graph variant (platform_api/schema.rs), polled by its hash, or from a    *)
(* watched file.  The same channel and consumer serve the first two; the    *)
(* stream of a file is read by the state machine itself.                   *)
(*                                                                         *)
(* For "platform" and "file", serves[1] is what the Platform API publishes  *)
(* and what the disk holds: a version may come back, and 0 is a file that   *)
(* is missing or cannot be read.                                           *)
(***************************************************************************)
EXTENDS UplinkStream

CONSTANTS Sources     \* the sources to explore

VARIABLE changed      \* the file: "yes" while a notification is pending

vars == <<uplinkVars, changed>>

SourceVersions == IF use = "file" THEN Versions ELSE 1..MaxVersion

TypeOK ==
  /\ UplinkTypeOK
  /\ use \in Sources
  /\ pc \in {"fetch", "transform", "send", "sleep", "done", "full", "hash", "open", "watch"}
  /\ changed \in {"no", "yes"}

PlatformInit ==
  /\ use = "platform" /\ serves \in [EndpointIds -> SourceVersions]
  /\ pc = "full"

FileInit ==
  /\ use = "file" /\ serves \in [EndpointIds -> SourceVersions]
  /\ pc = "open"

Init ==
  /\ changed = "no"
  /\ \/ UplinkInit /\ use \in Sources
     \/ /\ PlatformInit \/ FileInit
        /\ use \in Sources
        /\ at = 1 /\ lastId = 0 /\ offer = 0 /\ got = {}
        /\ outgoing = Failure("retry") /\ queue = <<>>
        /\ have = Nothing /\ consumer = "waiting" /\ rewound = "no"

-----------------------------------------------------------------------------
(* The published schema *)

\* The interval passes.  Until a first document has arrived the document is asked
\* for, afterwards its hash.
PlatformPoll ==
  /\ pc = "sleep" /\ use = "platform"
  /\ pc' = IF lastId = 0 THEN "full" ELSE "hash"
  /\ UNCHANGED <<use, serves, at, lastId, offer, got, outgoing, queue, consumerVars,
                 rewound, changed>>

\* Hash and document come from one response; current_hash is the response's.
FullFetch ==
  /\ pc = "full"
  /\ outgoing' = [kind |-> "new", ver |-> serves[1], parts |-> {}]
  /\ lastId' = serves[1] /\ pc' = "send"
  /\ UNCHANGED <<use, serves, at, offer, got, queue, consumerVars, rewound, changed>>

\* A permanent error ends the stream only while no document has arrived.
FullFetchFails ==
  /\ pc = "full"
  /\ \E kind \in {"transient", "permanent"} :
       pc' = IF kind = "permanent" /\ lastId = 0 THEN "done" ELSE "sleep"
  /\ UNCHANGED <<use, serves, at, lastId, offer, got, outgoing, queue, consumerVars,
                 rewound, changed>>

\* Mutant of HashPoll: the hash that was polled is taken for that of the document.
HashPollRemembered ==
  /\ pc = "hash"
  /\ pc' = IF serves[1] = lastId THEN "sleep" ELSE "full"
  /\ lastId' = serves[1]
  /\ UNCHANGED <<use, serves, at, offer, got, outgoing, queue, consumerVars,
                 rewound, changed>>

HashPoll ==
  /\ pc = "hash"
  /\ pc' = IF serves[1] = lastId THEN "sleep" ELSE "full"
  /\ UNCHANGED <<use, serves, at, lastId, offer, got, outgoing, queue, consumerVars,
                 rewound, changed>>

\* Errors of a poll, transient and permanent, are logged and the loop goes on.
HashPollFails ==
  /\ pc = "hash"
  /\ pc' = "sleep"
  /\ UNCHANGED <<use, serves, at, lastId, offer, got, outgoing, queue, consumerVars,
                 rewound, changed>>

-----------------------------------------------------------------------------
(* The schema file *)

\* A file that does not exist or cannot be read gives an empty stream.  Otherwise
\* the watch takes its snapshot and yields a first event of its own; what was read
\* here is not used.
OpenFile ==
  /\ pc = "open"
  /\ IF serves[1] = 0 THEN pc' = "done" /\ UNCHANGED changed
                      ELSE pc' = "watch" /\ changed' = "yes"
  /\ UNCHANGED <<use, serves, at, lastId, offer, got, outgoing, queue, consumerVars, rewound>>

\* A failed read is skipped; the notification is taken before the file is read.
ReadFile ==
  /\ pc = "watch" /\ changed = "yes" /\ consumer # "failed"
  /\ changed' = "no"
  /\ have' = IF serves[1] = 0 THEN have ELSE [ver |-> serves[1], parts |-> {}]
  /\ UNCHANGED <<use, serves, pollVars, queue, consumer, rewound>>

-----------------------------------------------------------------------------
\* A new publication, or an edit of the file, which the watcher notices.
Publish ==
  /\ use \in {"platform", "file"}
  /\ \E v \in SourceVersions \ {serves[1]} : serves' = [serves EXCEPT ![1] = v]
  /\ changed' = IF pc = "watch" THEN "yes" ELSE changed
  /\ UNCHANGED <<use, pollVars, queue, consumerVars, rewound>>

UplinkPoll     == UplinkNext /\ use \in {"schema", "manifest"} /\ UNCHANGED changed
PlatformTask   == \/ PlatformPoll \/ FullFetch \/ FullFetchFails \/ HashPoll \/ HashPollFails
FileStream     == OpenFile \/ ReadFile
Delivery       == Channel /\ UNCHANGED changed

Next == UplinkPoll \/ PlatformTask \/ FileStream \/ Delivery \/ Publish

\* The runtime polls the tasks and the state machine.  Requests may fail any number
\* of times, but one that is made again and again is answered in the end, and one
\* endpoint is asked as long as the ones before it fail.
Fairness ==
  /\ WF_vars(UplinkTask /\ use \in {"schema", "manifest"} /\ UNCHANGED changed)
  /\ SF_vars((AnswerNew \/ AnswerUnchanged) /\ use \in {"schema", "manifest"} /\ UNCHANGED changed)
  /\ \A c \in Chunks : SF_vars(ChunkArrives(c) /\ UNCHANGED changed)
  /\ SF_vars(Transformed /\ UNCHANGED changed)
  /\ WF_vars(PlatformTask) /\ SF_vars(FullFetch) /\ SF_vars(HashPoll)
  /\ WF_vars(FileStream)
  /\ WF_vars((Send \/ SendFails) /\ UNCHANGED changed)
  /\ WF_vars(Receive /\ UNCHANGED changed)
  /\ WF_vars(StreamEnds /\ UNCHANGED changed)

Spec == Init /\ [][Next]_vars
FairSpec == Spec /\ Fairness

-----------------------------------------------------------------------------
(* Properties *)

\* Uplink delivers newer and newer versions, each once, however its endpoints fail or
\* lag, until an endpoint that lags answers "unchanged": its id then replaces the
\* newer one, and versions already delivered may come again.
OnlyNewerVersions ==
  [][ (use \in {"schema", "manifest"} /\ have' # have /\ rewound = "no")
        => have'.ver > have.ver ]_vars

\* A version that a source keeps on serving reaches the state machine, after any
\* failures and newer or older versions, unless the stream or the server has ended.
Stays(v) == \A e \in EndpointIds : e = 1 \/ use \in {"schema", "manifest"} => serves[e] = v
SourceConverges ==
  \A v \in 1..MaxVersion :
    Stays(v) ~> (have.ver = v \/ ~Stays(v) \/ pc = "done" \/ consumer = "failed")

==============================================================================

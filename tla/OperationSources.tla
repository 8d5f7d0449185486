-------------------------- MODULE OperationSources --------------------------
(***************************************************************************)
(* The source of the operations that the configuration selects              *)
(* (build_server, main.rs; OperationSource::into_stream): files or the file  *)
(* of a manifest (OperationFiles), a collection in GraphOS                   *)
(* (CollectionPoller), or no source, which sends one empty set.  The manifest *)
(* that comes from Uplink is in UplinkStream.                               *)
(***************************************************************************)
EXTENDS OperationFiles, Sequences

CONSTANTS Ids, MaxStamp, Limit     \* those of CollectionPoller

ASSUME CollectionAssumption == MaxStamp \in Nat \ {0} /\ Limit \in Nat

VARIABLES
  source,      \* the source in use
  collection, retired, pc, previous, changed, channel, catalog, started, receiver, forgotten

collectionVars == <<collection, retired, pc, previous, changed, channel, catalog, started,
                    receiver, forgotten>>
sourceVars     == <<source, vars, collectionVars>>

Collection == INSTANCE CollectionPoller

Configurations ==
  [operations : {"local", "infer", "manifest", "introspect", "default", "collection", "uplink"},
   paths      : {"given", "none"},     \* of "local"
   graphRef   : {"set", "unset"},      \* APOLLO_GRAPH_REF
   key        : {"set", "unset"},      \* what platform_api_config and uplink_config need
   tools      : {"some", "none"}]      \* introspection tools

\* No source is configured: the default collection of the graph, if there is a graph.
Inferred(c) == \/ c.operations = "infer"
               \/ c.operations = "local" /\ c.paths = "none"

Selected(c) ==
  LET default == c.operations = "default"
      remote  == Inferred(c) \/ default \/ c.operations \in {"collection", "uplink"} IN
  CASE Inferred(c) /\ c.graphRef = "unset" -> "none"
    [] default /\ c.graphRef = "unset"     -> "error"
    [] remote /\ c.key = "unset"           -> "error"
    [] Inferred(c) \/ default              -> "collection"
    [] c.operations = "introspect"         -> "none"
    [] OTHER                               -> c.operations

\* A server without a source and without introspection tools is not built.
Buildable(c) == Selected(c) # "error" /\ (Selected(c) = "none" => c.tools = "some")

SourceTypeOK ==
  /\ TypeOK /\ Collection!TypeOK
  /\ source \in {"local", "manifest", "collection", "none", "uplink"}

SourceInit ==
  /\ \E c \in Configurations : Buildable(c) /\ source = Selected(c)
  /\ Init /\ Collection!Init
  /\ kind = IF source = "manifest" THEN "manifest" ELSE "files"
  /\ source \notin {"local", "manifest"} => content = [f \in Files |-> Absent]
  /\ source # "collection" => collection = {}

FileStep ==
  /\ source \in {"local", "manifest"}
  /\ Next
  /\ UNCHANGED <<source, collectionVars>>

CollectionStep ==
  /\ source = "collection"
  /\ Collection!Next
  /\ UNCHANGED <<source, vars>>

\* OperationSource::None: the state machine receives an empty set.
SendNothing ==
  /\ source = "none" /\ started = "no"
  /\ started' = "yes"
  /\ UNCHANGED <<source, vars, collection, retired, pc, previous, changed, channel, catalog,
                 receiver, forgotten>>

SourceNext == FileStep \/ CollectionStep \/ SendNothing

InFiles(A)      == source \in {"local", "manifest"} /\ A /\ UNCHANGED <<source, collectionVars>>
InCollection(A) == source = "collection" /\ A /\ UNCHANGED <<source, vars>>

SourceSpec == SourceInit /\ [][SourceNext]_sourceVars

\* The fairness of OperationFiles and of CollectionPoller.
FairSourceSpec ==
  /\ SourceSpec
  /\ WF_sourceVars(SendNothing)
  /\ WF_sourceVars(InFiles(ReadFile \/ EndRead))
  /\ \A w \in Watches : SF_sourceVars(InFiles(BeginRead(w) \/ DirectoryGone(w)))
  /\ WF_sourceVars(InCollection(Collection!Load)) /\ WF_sourceVars(InCollection(Collection!Fetch))
  /\ WF_sourceVars(InCollection(Collection!Send)) /\ WF_sourceVars(InCollection(Collection!SendFails))
  /\ WF_sourceVars(InCollection(Collection!Receive))
  /\ SF_sourceVars(InCollection(Collection!PollChanged))
  /\ SF_sourceVars(InCollection(Collection!FetchSucceeds))

-----------------------------------------------------------------------------
\* What the poller of a collection takes for delivered has been (handle_poll_result).
PreviousIsDelivered == Collection!PreviousIsDelivered

\* Whatever source is configured, the operations it holds in the end, once they stop
\* changing, are those the state machine has.
SourceConverges ==
  <>[](CASE source \in {"local", "manifest"} -> Settled
         [] source = "collection"            -> Collection!Settled
         [] OTHER                            -> started = "yes" \/ source = "uplink")
=============================================================================

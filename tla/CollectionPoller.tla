---------------------------- MODULE CollectionPoller ----------------------------
(***************************************************************************)
(* Operation collections (platform_api/operation_collections): a task      *)
(* loads a collection from GraphOS, polls its list of (id, lastUpdatedAt)  *)
(* for differences, fetches the operations that changed, and hands the     *)
(* whole set to the server through a bounded channel.  A collection by id  *)
(* and the default collection differ only in the query they send.          *)
(***************************************************************************)
EXTENDS Naturals, FiniteSets, Sequences

CONSTANTS
  Ids,        \* operations that may be in the collection
  MaxStamp,   \* bound: values of lastUpdatedAt of an operation
  Limit       \* MAX_COLLECTION_SIZE_FOR_POLLING

ChannelCapacity == 2
Entries == [id : Ids, at : 1..MaxStamp]
IdsOf(entries) == {e.id : e \in entries}

Oversized(entries) == Cardinality(entries) > Limit

VARIABLES
  collection,  \* the collection in GraphOS
  retired,     \* ids that have been removed from it, which it does not reuse
  pc,          \* where the task stands
  previous,    \* previous_updated_at: the operations it believes it delivered
  changed,     \* the ids it is fetching
  channel,     \* the sets on their way to the event loop
  catalog,     \* the set the event loop received last
  started,     \* "yes" once it has received one
  receiver,    \* "open" until the state machine drops the stream
  forgotten    \* history: a poll applied a removal and failed, and no set was sent since

serverVars == <<catalog, started, receiver>>
remoteVars == <<collection, retired>>
vars == <<remoteVars, pc, previous, changed, channel, serverVars, forgotten>>

TypeOK ==
  /\ collection \subseteq Entries /\ retired \subseteq Ids
  /\ pc \in {"loading", "sleeping", "fetching", "sending", "failed", "ended"}
  /\ previous \subseteq Entries /\ catalog \subseteq Entries
  /\ \A d, e \in previous : d.id = e.id => d = e
  /\ changed \subseteq Ids
  /\ channel \in Seq(SUBSET Entries) /\ Len(channel) <= ChannelCapacity
  /\ started \in {"no", "yes"} /\ receiver \in {"open", "dropped"}
  /\ forgotten \in {"no", "yes"}

Init ==
  /\ \E ids \in SUBSET Ids : collection = [id : ids, at : {1}]
  /\ retired = {}
  /\ pc = "loading" /\ previous = {} /\ changed = {} /\ channel = <<>>
  /\ catalog = {} /\ started = "no" /\ receiver = "open" /\ forgotten = "no"

\* The set that the event loop has, or will have once it has emptied the channel.
Delivered == IF channel = <<>> THEN catalog ELSE channel[Len(channel)]

-----------------------------------------------------------------------------
(* The first request *)

LoadSucceeds ==
  /\ pc = "loading"
  /\ previous' = collection
  /\ pc' = "sending"
  /\ UNCHANGED <<remoteVars, changed, channel, serverVars, forgotten>>

\* A transient error is left to the poll loop; a permanent one is sent to the event
\* loop, which is what "failed" stands for, and ends the task.
LoadFails ==
  /\ pc = "loading"
  /\ pc' \in {"sleeping", "failed"}
  /\ UNCHANGED <<remoteVars, previous, changed, channel, serverVars, forgotten>>

-----------------------------------------------------------------------------
(* The poll loop *)

Removed(poll) == {e \in previous : e.id \notin IdsOf(poll)}
Changed(poll) == IdsOf(poll \ previous)

PollUnchanged ==
  /\ pc = "sleeping"
  /\ Removed(collection) = {} /\ Changed(collection) = {}
  /\ UNCHANGED vars

\* The removals are applied at once; the changed operations have to be fetched.
PollChanged ==
  /\ pc = "sleeping"
  /\ Removed(collection) # {} \/ Changed(collection) # {}
  /\ previous' = previous \ Removed(collection)
  /\ changed' = Changed(collection)
  /\ pc' = IF changed' = {} THEN "sending" ELSE "fetching"
  /\ UNCHANGED <<remoteVars, channel, serverVars, forgotten>>

PollFails == pc = "sleeping" /\ UNCHANGED vars

\* The operations arrive as they are by now; one that is gone does not arrive.
Merge(fetched) == {e \in previous : e.id \notin IdsOf(fetched)} \cup fetched

FetchSucceeds ==
  /\ pc = "fetching"
  /\ previous' = Merge({e \in collection : e.id \in changed})
  /\ changed' = {}
  /\ pc' = "sending"
  /\ UNCHANGED <<remoteVars, channel, serverVars, forgotten>>

\* Mutant of FetchFails: the new entries are recorded before they are fetched.
FetchFailsRecorded ==
  /\ pc = "fetching"
  /\ previous' = Merge({e \in collection : e.id \in changed})
  /\ changed' = {}
  /\ pc' = "sleeping"
  /\ UNCHANGED <<remoteVars, channel, serverVars, forgotten>>

\* The error is logged and the next poll compares with what is left in previous.
FetchFails ==
  /\ pc = "fetching"
  /\ changed' = {}
  /\ pc' = "sleeping"
  /\ forgotten' = IF IdsOf(Delivered) \subseteq IdsOf(previous) THEN "no" ELSE "yes"
  /\ UNCHANGED <<remoteVars, previous, channel, serverVars>>

\* The set is sent before its size is checked.
Send ==
  /\ pc = "sending" /\ receiver = "open"
  /\ Len(channel) < ChannelCapacity
  /\ channel' = Append(channel, previous)
  /\ pc' = IF Oversized(previous) THEN "ended" ELSE "sleeping"
  /\ forgotten' = "no"
  /\ UNCHANGED <<remoteVars, previous, changed, serverVars>>

SendFails ==
  /\ pc = "sending" /\ receiver = "dropped"
  /\ pc' = "ended"
  /\ UNCHANGED <<remoteVars, previous, changed, channel, serverVars, forgotten>>

-----------------------------------------------------------------------------
(* The event loop and GraphOS *)

Receive ==
  /\ receiver = "open" /\ channel # <<>>
  /\ catalog' = Head(channel)
  /\ channel' = Tail(channel)
  /\ started' = "yes"
  /\ UNCHANGED <<remoteVars, pc, previous, changed, receiver, forgotten>>

\* CollectionError: the state machine ends in Error and drops its streams.
ReceiveError ==
  /\ pc = "failed" /\ receiver = "open"
  /\ receiver' = "dropped"
  /\ UNCHANGED <<remoteVars, pc, previous, changed, channel, catalog, started, forgotten>>

DropReceiver ==
  /\ receiver = "open"
  /\ receiver' = "dropped" /\ channel' = <<>>
  /\ UNCHANGED <<remoteVars, pc, previous, changed, catalog, started, forgotten>>

Add(id) ==
  /\ id \notin IdsOf(collection) \cup retired
  /\ collection' = collection \cup {[id |-> id, at |-> 1]}
  /\ UNCHANGED <<retired, pc, previous, changed, channel, serverVars, forgotten>>

Edit(e) ==
  /\ e.at < MaxStamp
  /\ collection' = (collection \ {e}) \cup {[e EXCEPT !.at = @ + 1]}
  /\ UNCHANGED <<retired, pc, previous, changed, channel, serverVars, forgotten>>

Remove(e) ==
  /\ collection' = collection \ {e}
  /\ retired' = retired \cup {e.id}
  /\ UNCHANGED <<pc, previous, changed, channel, serverVars, forgotten>>

-----------------------------------------------------------------------------
Load  == LoadSucceeds \/ LoadFails
Poll  == PollUnchanged \/ PollChanged \/ PollFails
Fetch == FetchSucceeds \/ FetchFails
GraphOS == \/ \E id \in Ids : Add(id)
           \/ \E e \in collection : Edit(e) \/ Remove(e)

Next == Load \/ Poll \/ Fetch \/ Send \/ SendFails \/ Receive \/ ReceiveError \/ DropReceiver \/ GraphOS

Spec == Init /\ [][Next]_vars

\* Every request has a timeout and the task polls for ever, so requests end, and
\* GraphOS does not fail all of them; the event loop takes what is sent.
Fairness ==
  /\ WF_vars(Load) /\ WF_vars(Fetch) /\ WF_vars(Send) /\ WF_vars(SendFails) /\ WF_vars(Receive)
  /\ SF_vars(PollChanged) /\ SF_vars(FetchSucceeds)
FairSpec == Spec /\ Fairness

-----------------------------------------------------------------------------

\* While the loop sleeps it takes for delivered nothing that is not, and the event loop
\* has nothing it no longer knows, except what a failed fetch made it forget.
PreviousIsDelivered ==
  pc = "sleeping" /\ receiver = "open" =>
    /\ previous \subseteq Delivered
    /\ forgotten = "no" => previous = Delivered

\* A collection that stays as it is reaches the catalog, whatever polls, fetches and
\* edits went before, unless the poller has forgotten a removal and has nothing
\* else to fetch, or unless it started on a failure and the collection is empty.
Over == pc \in {"failed", "ended"} \/ receiver = "dropped"
Settled ==
  \/ catalog = collection /\ (started = "yes" \/ collection = {})
  \/ Over
  \/ forgotten = "yes" /\ previous = collection
================================================================================

------------------------ MODULE OperationSources_proofs ------------------------
(***************************************************************************)
(* What OperationFiles and CollectionPoller guarantee, whichever of them    *)
(* OperationSources selects, for any number of paths, files and operations. *)
(***************************************************************************)
EXTENDS OperationSources, FiniteSetTheorems, TLAPS

\* Only the configured paths are watched and read; a set that was sent was sent with
\* all of them read.
FilesInv ==
  /\ TypeOK
  /\ notified \subseteq Active
  /\ reading # NotReading => reading.watch \in Active
  /\ loaded \subseteq ActivePaths
  /\ first = "sent" => /\ loaded = ActivePaths /\ Cardinality(loaded) = PathCount
                       /\ delivered \in Merged(held)

\* An operation is in a set once.
Unique(entries) == \A d, e \in entries : d.id = e.id => d = e

\* Between the requests of a poll the poller takes for delivered nothing that is not;
\* before the first request there is nothing at all.
PollerInv ==
  /\ Collection!TypeOK
  /\ Unique(collection) /\ Unique(catalog) /\ \A i \in 1..Len(channel) : Unique(channel[i])
  /\ pc = "loading" => previous = {} /\ channel = <<>> /\ catalog = {} /\ forgotten = "no"
  /\ receiver = "open" /\ pc = "fetching" => previous \subseteq Collection!Delivered
  /\ PreviousIsDelivered

-----------------------------------------------------------------------------
(* Operations from files *)

\* As many paths as there are watches are all of the watched paths.
LEMMA AllPathsLoaded ==
  ASSUME NEW S \in SUBSET ActivePaths, Cardinality(S) = PathCount
  PROVE  S = ActivePaths
<1> DEFINE f == [w \in Active |-> PathOf[w]]
<1>1. IsFiniteSet(Active) /\ Cardinality(Active) \in Nat
  <2>1. Active \in SUBSET Watches
    BY DEF Active
  <2> QED BY <2>1, FilesAssumption, FS_Subset, FS_CardinalityType DEF FilesAssumption
<1>2. f \in Surjection(Active, ActivePaths)
  BY DEF Surjection, ActivePaths
<1>3. IsFiniteSet(ActivePaths) /\ Cardinality(ActivePaths) <= Cardinality(Active)
  BY <1>1, <1>2, FS_Surjection
<1>4. /\ Cardinality(S) <= Cardinality(ActivePaths)
      /\ Cardinality(ActivePaths) = Cardinality(S) => ActivePaths = S
  BY <1>3, FS_Subset
<1>5. Cardinality(ActivePaths) \in Nat
  BY <1>3, FS_CardinalityType
<1> QED BY <1>1, <1>3, <1>4, <1>5 DEF PathCount

\* What is watched is fixed.
LEMMA PathsStay ==
  ASSUME [Next]_vars
  PROVE  /\ kind' = kind /\ Active' = Active
         /\ ActivePaths' = ActivePaths /\ PathCount' = PathCount
<1>1. kind' = kind
  BY DEF Next, Stream, BeginRead, DirectoryGone, ReadFile, Fail, EndRead, Start, Edit, vars
<1>2. Active' = Active
  BY <1>1 DEF Active
<1> QED BY <1>1, <1>2 DEF ActivePaths, PathCount

\* A set that was sent stays complete while no path's operations change.
LEMMA SetStays ==
  ASSUME FilesInv, UNCHANGED <<kind, loaded, held, first, delivered>>
  PROVE  (first = "sent" => /\ loaded = ActivePaths /\ Cardinality(loaded) = PathCount
                            /\ delivered \in Merged(held))'
<1>1. Active' = Active
  BY DEF Active
<1>2. ActivePaths' = ActivePaths /\ PathCount' = PathCount /\ Cardinality(loaded)' = Cardinality(loaded)
  BY <1>1 DEF ActivePaths, PathCount
<1>3. delivered \in Merged(held) => delivered' \in Merged(held)'
  BY <1>2 DEF Merged
<1> QED BY <1>2, <1>3 DEF FilesInv

\* A notification is taken and its path begins to be read.
LEMMA BeginReadKeeps ==
  ASSUME FilesInv, NEW w \in Watches, BeginRead(w)
  PROVE  FilesInv'
<1>1. /\ UNCHANGED <<kind, content, edits, loaded, held, first, delivered, machine>>
      /\ notified' = notified \ {w} /\ w \in Active
  BY DEF BeginRead, outVars, FilesInv
<1>2. Active' = Active /\ ActivePaths' = ActivePaths
  BY <1>1 DEF Active, ActivePaths
<1>3. PathOf[w] \in Paths /\ NoOps \in [Files -> Contents]
  BY FilesAssumption DEF FilesAssumption, NoOps, Contents
<1>4. \E fs \in SUBSET Files : reading' = [watch |-> w, todo |-> fs, read |-> NoOps]
  <2>1. FilesOf[PathOf[w]] \in SUBSET Files
    BY <1>3, FilesAssumption DEF FilesAssumption
  <2>2. CASE reading' = [watch |-> w, todo |-> FilesOf[PathOf[w]], read |-> NoOps]
    BY <2>1, <2>2
  <2>3. CASE reading' = [watch |-> w, todo |-> {f \in FilesOf[PathOf[w]] : content[f] # Absent},
                         read |-> NoOps]
    <3>1. {f \in FilesOf[PathOf[w]] : content[f] # Absent} \in SUBSET Files
      BY <2>1
    <3> QED BY <2>3, <3>1
  <2>4. CASE reading' = [watch |-> w, todo |-> {}, read |-> NoOps]
    BY <2>4
  <2> QED BY <2>2, <2>3, <2>4 DEF BeginRead
<1>5. unlisted' \subseteq Directories
  BY DEF BeginRead, FilesInv, TypeOK
<1>6. /\ reading' \in [watch : Watches, todo : SUBSET Files, read : [Files -> Contents]]
      /\ reading'.watch = w
  BY <1>3, <1>4
<1>7. TypeOK'
  BY <1>1, <1>5, <1>6 DEF FilesInv, TypeOK
<1> QED BY <1>1, <1>2, <1>6, <1>7, SetStays DEF FilesInv

\* The operations of one more path are there.
LEMMA EndReadKeeps ==
  ASSUME FilesInv, EndRead
  PROVE  FilesInv'
<1> DEFINE p == PathOf[reading.watch]
<1>1. /\ UNCHANGED <<kind, content, edits, notified, unlisted, machine>>
      /\ reading' = NotReading /\ loaded' = loaded \cup {p}
      /\ held' = [held EXCEPT ![p] = reading.read] /\ Emit(held')
  BY DEF EndRead
<1>2. /\ Active' = Active /\ ActivePaths' = ActivePaths /\ PathCount' = PathCount
      /\ reading.watch \in Active /\ p \in ActivePaths
  BY <1>1 DEF Active, ActivePaths, PathCount, FilesInv, EndRead
<1>3. reading.read \in [Files -> Contents] /\ p \in Paths
  BY FilesAssumption DEF FilesAssumption, FilesInv, TypeOK, EndRead
<1>4. loaded' \subseteq ActivePaths /\ loaded' \subseteq Paths
  BY <1>1, <1>2, <1>3 DEF FilesInv, TypeOK
<1>5. held' \in [Paths -> [Files -> Contents]]
  BY <1>1, <1>3 DEF FilesInv, TypeOK
<1>6. CASE Cardinality(loaded') = PathCount
  <2>1. first' = "sent" /\ delivered' \in Merged(held')
    BY <1>1, <1>6 DEF Emit
  <2>2. loaded' = ActivePaths
    BY <1>4, <1>6, AllPathsLoaded
  <2>3. delivered' \in Merged(held)' /\ delivered' \in [Files -> Contents]
    BY <1>2, <2>1 DEF Merged
  <2>4. TypeOK'
    BY <1>1, <1>4, <1>5, <2>1, <2>3 DEF FilesInv, TypeOK
  <2> QED BY <1>1, <1>2, <1>6, <2>1, <2>2, <2>3, <2>4 DEF FilesInv
<1>7. CASE Cardinality(loaded') # PathCount
  <2>1. UNCHANGED <<first, delivered>>
    BY <1>1, <1>7 DEF Emit
  <2>2. first # "sent"
    \* Otherwise every watched path had been read, and none is read for the first time.
    <3> SUFFICES ASSUME first = "sent" PROVE FALSE
      OBVIOUS
    <3>1. loaded = ActivePaths /\ Cardinality(loaded) = PathCount
      BY DEF FilesInv
    <3>2. loaded' = loaded
      BY <1>1, <1>2, <3>1
    <3> QED BY <1>7, <3>1, <3>2
  <2>3. TypeOK'
    BY <1>1, <1>4, <1>5, <2>1 DEF FilesInv, TypeOK
  <2> QED BY <1>1, <1>2, <1>4, <2>1, <2>2, <2>3 DEF FilesInv
<1> QED BY <1>6, <1>7

\* A file of the path is read, or the stream fails on it.
LEMMA ReadFileKeeps ==
  ASSUME FilesInv, ReadFile
  PROVE  FilesInv'
<1>1. UNCHANGED <<kind, content, edits, notified, loaded, held, unlisted, first, delivered>>
  BY DEF ReadFile, Fail, stateVars, outVars
<1>2. Active' = Active /\ ActivePaths' = ActivePaths
  BY <1>1 DEF Active, ActivePaths
<1>3. CASE Fail
  <2>1. reading' = NotReading /\ machine' \in {machine, "failed"}
    BY <1>3 DEF Fail
  <2>2. TypeOK'
    BY <1>1, <2>1 DEF FilesInv, TypeOK
  <2> QED BY <1>1, <1>2, <2>1, <2>2, SetStays DEF FilesInv
<1>4. ASSUME NEW f \in reading.todo, machine' = machine,
             reading' = [reading EXCEPT !.todo = @ \ {f}, !.read[f] = Op(content[f])]
      PROVE  FilesInv'
  <2>1. /\ reading \in [watch : Watches, todo : SUBSET Files, read : [Files -> Contents]]
        /\ reading.watch \in Active
    BY DEF ReadFile, FilesInv, TypeOK
  <2>2. f \in Files /\ Op(content[f]) \in Contents
    <3>1. f \in Files /\ content[f] \in Contents
      BY <2>1 DEF FilesInv, TypeOK
    <3> QED BY <3>1, FilesAssumption DEF FilesAssumption, Op, Contents, Blank
  <2>3. /\ reading' \in [watch : Watches, todo : SUBSET Files, read : [Files -> Contents]]
        /\ reading'.watch = reading.watch
    BY <1>4, <2>1, <2>2
  <2>4. TypeOK'
    BY <1>1, <1>4, <2>3 DEF FilesInv, TypeOK
  <2> QED BY <1>1, <1>2, <2>1, <2>3, <2>4, SetStays DEF FilesInv
<1> QED BY <1>3, <1>4 DEF ReadFile, outVars

\* FilesInv is inductive.
LEMMA FilesStep ==
  ASSUME FilesInv, [Next]_vars
  PROVE  FilesInv'
<1>1. ASSUME NEW w \in Watches, BeginRead(w) PROVE FilesInv'
  BY <1>1, BeginReadKeeps
<1>2. ASSUME NEW w \in Watches, DirectoryGone(w) PROVE FilesInv'
  <2>1. /\ UNCHANGED <<kind, content, edits, reading, loaded, held, unlisted, first, delivered>>
        /\ machine' = "failed" /\ notified' = notified \ {w}
    BY <1>2 DEF DirectoryGone, stateVars
  <2>2. TypeOK'
    BY <2>1 DEF FilesInv, TypeOK
  <2> QED BY <2>1, <2>2, PathsStay, SetStays DEF FilesInv
<1>3. CASE ReadFile
  BY <1>3, ReadFileKeeps
<1>4. CASE EndRead
  BY <1>4, EndReadKeeps
<1>5. CASE Start
  <2>1. /\ UNCHANGED <<kind, content, edits, notified, reading, loaded, held, unlisted, first, delivered>>
        /\ machine' = "running"
    BY <1>5 DEF Start, stateVars
  <2>2. TypeOK'
    BY <2>1 DEF FilesInv, TypeOK
  <2> QED BY <2>1, <2>2, PathsStay, SetStays DEF FilesInv
<1>6. ASSUME NEW f \in Files, Edit(f) PROVE FilesInv'
  <2>1. /\ UNCHANGED <<kind, reading, loaded, held, unlisted, first, delivered, machine>>
        /\ edits' \in 0..MaxEdits
        /\ notified' \subseteq Active
    BY <1>6, FilesAssumption DEF FilesAssumption, Edit, stateVars, outVars, FilesInv, TypeOK
  <2>2. content' \in [Files -> Contents]
    BY <1>6 DEF Edit, FilesInv, TypeOK
  <2>3. Active \subseteq Watches
    BY DEF Active
  <2>4. TypeOK'
    BY <2>1, <2>2, <2>3 DEF FilesInv, TypeOK
  <2> QED BY <2>1, <2>4, PathsStay, SetStays DEF FilesInv
<1>7. CASE UNCHANGED vars
  <2>1. UNCHANGED <<kind, content, edits, notified, reading, loaded, held, unlisted, first,
                    delivered, machine>>
    BY <1>7 DEF vars, stateVars, outVars
  <2>2. TypeOK'
    BY <2>1 DEF FilesInv, TypeOK
  <2> QED BY <2>1, <2>2, PathsStay, SetStays DEF FilesInv
<1> QED BY <1>1, <1>2, <1>3, <1>4, <1>5, <1>6, <1>7 DEF Next, Stream

-----------------------------------------------------------------------------
(* Operations from a collection *)

\* A set that is sent is the last that was; the ones before it stay.
LEMMA ChannelGrows ==
  ASSUME NEW S, channel \in Seq(S), NEW s \in S
  PROVE  /\ Append(channel, s) \in Seq(S) /\ Append(channel, s) # <<>>
         /\ Len(channel) \in Nat /\ Len(Append(channel, s)) = Len(channel) + 1
         /\ Append(channel, s)[Len(channel) + 1] = s
         /\ \A i \in 1..Len(channel) : Append(channel, s)[i] = channel[i]
OBVIOUS

\* Taking a set from the channel leaves the last one that was sent as it is.
LEMMA ChannelShrinks ==
  ASSUME NEW S, channel \in Seq(S), channel # <<>>
  PROVE  /\ Head(channel) \in S /\ Head(channel) = channel[1]
         /\ Tail(channel) \in Seq(S)
         /\ Len(channel) \in Nat \ {0} /\ Len(Tail(channel)) = Len(channel) - 1
         /\ \A i \in 1..Len(Tail(channel)) :
              i + 1 \in 1..Len(channel) /\ Tail(channel)[i] = channel[i + 1]
         /\ Tail(channel) = <<>> => Len(channel) = 1
         /\ Tail(channel) # <<>> => Tail(channel)[Len(Tail(channel))] = channel[Len(channel)]
<1>1. Len(channel) \in Nat \ {0} /\ Head(channel) = channel[1] /\ channel[1] \in S
  OBVIOUS
<1>2. Tail(channel) \in Seq(S) /\ Len(Tail(channel)) = Len(channel) - 1
  OBVIOUS
<1>3. \A i \in 1..Len(Tail(channel)) :
        i + 1 \in 1..Len(channel) /\ Tail(channel)[i] = channel[i + 1]
  BY <1>1, <1>2
<1>4. Tail(channel) = <<>> => Len(channel) = 1
  <2>1. Len(<<>>) = 0
    OBVIOUS
  <2>2. Tail(channel) = <<>> => Len(Tail(channel)) = 0
    BY <2>1, Zenon
  <2> QED BY <1>1, <1>2, <2>2
<1>5. Tail(channel) # <<>> => Len(Tail(channel)) \in 1..Len(Tail(channel))
  BY <1>2
<1> QED BY <1>1, <1>2, <1>3, <1>4, <1>5

\* What was sent last depends on the channel and the catalog alone.
LEMMA DeliveredStays ==
  ASSUME UNCHANGED <<channel, catalog>>
  PROVE  Collection!Delivered' = Collection!Delivered
BY DEF Collection!Delivered

USE DEF Collection!Entries, Collection!ChannelCapacity

\* A first answer is only sent; a first failure leaves nothing to compare with.
LEMMA LoadKeeps ==
  ASSUME PollerInv, Collection!Load
  PROVE  PollerInv'
<1>1. UNCHANGED <<collection, retired, changed, channel, catalog, started, receiver, forgotten>>
  BY DEF Collection!Load, Collection!LoadSucceeds, Collection!LoadFails, Collection!remoteVars,
     Collection!serverVars
<1>2. pc = "loading" /\ previous = {} /\ channel = <<>> /\ catalog = {} /\ forgotten = "no"
  BY DEF Collection!Load, Collection!LoadSucceeds, Collection!LoadFails, PollerInv
<1>3. \/ previous' = collection /\ pc' = "sending"
      \/ previous' = previous /\ pc' \in {"sleeping", "failed"}
  BY DEF Collection!Load, Collection!LoadSucceeds, Collection!LoadFails
<1>4. Collection!TypeOK'
  BY <1>1, <1>2, <1>3 DEF PollerInv, Collection!TypeOK, Unique
<1>5. PreviousIsDelivered'
  BY <1>1, <1>2, <1>3 DEF PreviousIsDelivered, Collection!PreviousIsDelivered, Collection!Delivered
<1> QED BY <1>1, <1>3, <1>4, <1>5 DEF PollerInv, Unique

\* A poll only takes removals out of what was delivered.
LEMMA PollKeeps ==
  ASSUME PollerInv, Collection!Poll
  PROVE  PollerInv'
<1>1. CASE Collection!PollChanged
  <2>1. UNCHANGED <<collection, retired, channel, catalog, started, receiver, forgotten>>
    BY <1>1 DEF Collection!PollChanged, Collection!remoteVars, Collection!serverVars
  <2>2. /\ pc = "sleeping" /\ pc' \in {"sending", "fetching"}
        /\ previous' \subseteq previous
    BY <1>1 DEF Collection!PollChanged
  <2>3. changed' \subseteq Ids
    BY <1>1 DEF Collection!PollChanged, Collection!Changed, Collection!IdsOf, PollerInv,
       Collection!TypeOK
  <2>4. Collection!TypeOK'
    BY <2>1, <2>2, <2>3 DEF PollerInv, Collection!TypeOK
  <2>5. receiver = "open" => previous' \subseteq Collection!Delivered'
    BY <2>1, <2>2, DeliveredStays DEF PollerInv, PreviousIsDelivered, Collection!PreviousIsDelivered
  <2>6. PreviousIsDelivered'
    BY <2>2 DEF PreviousIsDelivered, Collection!PreviousIsDelivered
  <2> QED BY <2>1, <2>2, <2>4, <2>5, <2>6 DEF PollerInv, Unique
<1>2. CASE UNCHANGED Collection!vars
  BY <1>2 DEF Collection!vars, Collection!remoteVars, Collection!serverVars, PollerInv,
     Collection!TypeOK, Unique, PreviousIsDelivered, Collection!PreviousIsDelivered,
     Collection!Delivered
<1> QED BY <1>1, <1>2 DEF Collection!Poll, Collection!PollUnchanged, Collection!PollFails

\* What a fetch brings is only sent; a fetch that fails leaves what was delivered, and
\* less than that only if a removal had been applied.
LEMMA FetchKeeps ==
  ASSUME PollerInv, Collection!Fetch
  PROVE  PollerInv'
<1>1. UNCHANGED <<collection, retired, channel, catalog, started, receiver>>
  BY DEF Collection!Fetch, Collection!FetchSucceeds, Collection!FetchFails,
     Collection!remoteVars, Collection!serverVars
<1>2. CASE Collection!FetchSucceeds
  <2> DEFINE fetched == {e \in collection : e.id \in changed}
  <2>1. /\ previous' = Collection!Merge(fetched)
        /\ changed' = {} /\ pc' = "sending" /\ forgotten' = forgotten
    BY <1>2 DEF Collection!FetchSucceeds
  <2>2. previous' \subseteq [id : Ids, at : 1..MaxStamp] /\ Unique(previous')
    BY <2>1 DEF Collection!Merge, Collection!IdsOf, PollerInv, Collection!TypeOK, Unique
  <2>3. Collection!TypeOK'
    BY <1>1, <2>1, <2>2 DEF PollerInv, Collection!TypeOK, Unique
  <2> QED BY <1>1, <2>1, <2>3 DEF PollerInv, Unique, PreviousIsDelivered,
        Collection!PreviousIsDelivered
<1>3. CASE Collection!FetchFails
  <2>1. /\ pc = "fetching" /\ pc' = "sleeping" /\ previous' = previous /\ changed' = {}
        /\ forgotten' \in {"no", "yes"}
        /\ forgotten' = "no" => Collection!IdsOf(Collection!Delivered) \subseteq Collection!IdsOf(previous)
    BY <1>3 DEF Collection!FetchFails
  <2>2. Collection!TypeOK'
    BY <1>1, <2>1 DEF PollerInv, Collection!TypeOK
  <2>3. Unique(Collection!Delivered)
    <3>1. channel # <<>> => Len(channel) \in 1..Len(channel)
      BY DEF PollerInv, Collection!TypeOK
    <3> QED BY <3>1 DEF PollerInv, Collection!Delivered
  <2>4. receiver = "open" => previous \subseteq Collection!Delivered
    BY <2>1 DEF PollerInv
  <2>5. ASSUME receiver = "open", forgotten' = "no"
        PROVE  Collection!Delivered \subseteq previous
    <3> SUFFICES ASSUME NEW d \in Collection!Delivered PROVE d \in previous
      OBVIOUS
    <3>1. PICK e \in previous : e.id = d.id
      BY <2>1, <2>5 DEF Collection!IdsOf
    <3>2. e \in Collection!Delivered
      BY <2>4, <2>5
    <3>3. e = d
      BY <2>3, <3>1, <3>2 DEF Unique
    <3> QED BY <3>3
  <2>6. PreviousIsDelivered'
    BY <1>1, <2>1, <2>4, <2>5, DeliveredStays DEF PreviousIsDelivered, Collection!PreviousIsDelivered
  <2> QED BY <1>1, <2>1, <2>2, <2>6 DEF PollerInv, Unique
<1> QED BY <1>2, <1>3 DEF Collection!Fetch

\* The set that is sent is what previous holds.
LEMMA SendKeeps ==
  ASSUME PollerInv, Collection!Send
  PROVE  PollerInv'
<1>1. /\ UNCHANGED <<collection, retired, previous, changed, catalog, started, receiver>>
      /\ channel' = Append(channel, previous) /\ Len(channel) < 2
      /\ pc' \in {"ended", "sleeping"} /\ forgotten' = "no"
  BY DEF Collection!Send, Collection!remoteVars, Collection!serverVars
<1>2. channel \in Seq(SUBSET Collection!Entries) /\ previous \in SUBSET Collection!Entries
  BY DEF PollerInv, Collection!TypeOK
<1>3. /\ channel' \in Seq(SUBSET Collection!Entries) /\ channel' # <<>>
      /\ Len(channel) \in Nat /\ Len(channel') = Len(channel) + 1
      /\ channel'[Len(channel) + 1] = previous
      /\ \A i \in 1..Len(channel) : channel'[i] = channel[i]
  <2> HIDE DEF Collection!Entries
  <2> QED BY <1>1, <1>2, ChannelGrows
<1>4. Unique(previous)
  BY DEF PollerInv, Collection!TypeOK, Unique
<1>5. \A i \in 1..Len(channel') : Unique(channel'[i])
  <2> TAKE i \in 1..Len(channel')
  <2>1. i \in 1..Len(channel) \/ i = Len(channel) + 1
    BY <1>3
  <2> QED BY <1>3, <1>4, <2>1 DEF PollerInv
<1>6. Collection!Delivered' = previous
  BY <1>3 DEF Collection!Delivered
<1>7. Collection!TypeOK'
  BY <1>1, <1>3 DEF PollerInv, Collection!TypeOK
<1>8. PreviousIsDelivered'
  BY <1>1, <1>6 DEF PreviousIsDelivered, Collection!PreviousIsDelivered
<1> QED BY <1>1, <1>5, <1>7, <1>8 DEF PollerInv, Unique

\* The event loop takes the sets in the order in which they were sent.
LEMMA ReceiveKeeps ==
  ASSUME PollerInv, Collection!Receive
  PROVE  PollerInv'
<1>1. /\ UNCHANGED <<collection, retired, pc, previous, changed, receiver, forgotten>>
      /\ channel # <<>> /\ channel' = Tail(channel) /\ catalog' = Head(channel)
      /\ started' = "yes"
  BY DEF Collection!Receive, Collection!remoteVars
<1>2. channel \in Seq(SUBSET Collection!Entries)
  BY DEF PollerInv, Collection!TypeOK
<1>3. /\ catalog' \in SUBSET Collection!Entries /\ catalog' = channel[1]
      /\ channel' \in Seq(SUBSET Collection!Entries)
      /\ Len(channel) \in Nat \ {0} /\ Len(channel') = Len(channel) - 1
      /\ \A i \in 1..Len(channel') : i + 1 \in 1..Len(channel) /\ channel'[i] = channel[i + 1]
      /\ channel' = <<>> => Len(channel) = 1
      /\ channel' # <<>> => channel'[Len(channel')] = channel[Len(channel)]
  <2> HIDE DEF Collection!Entries
  <2> QED BY <1>1, <1>2, ChannelShrinks
<1>4. Collection!Delivered' = Collection!Delivered
  BY <1>1, <1>3 DEF Collection!Delivered
<1>5. Unique(catalog)' /\ \A i \in 1..Len(channel') : Unique(channel'[i])
  <2>1. 1 \in 1..Len(channel)
    BY <1>3
  <2> QED BY <1>3, <2>1 DEF PollerInv, Unique
<1>6. Collection!TypeOK'
  BY <1>1, <1>3 DEF PollerInv, Collection!TypeOK
<1>7. PreviousIsDelivered'
  BY <1>1, <1>4 DEF PollerInv, PreviousIsDelivered, Collection!PreviousIsDelivered
<1>8. pc # "loading"
  BY <1>1 DEF PollerInv
<1> QED BY <1>1, <1>4, <1>5, <1>6, <1>7, <1>8 DEF PollerInv, Unique

\* The stream or the task ends.
LEMMA EndKeeps ==
  ASSUME PollerInv, Collection!SendFails \/ Collection!ReceiveError \/ Collection!DropReceiver
  PROVE  PollerInv'
<1>1. UNCHANGED <<collection, retired, previous, changed, catalog, started, forgotten>>
  BY DEF Collection!SendFails, Collection!ReceiveError, Collection!DropReceiver,
     Collection!remoteVars, Collection!serverVars
<1>2. /\ pc' \in {pc, "ended"} /\ receiver' \in {receiver, "dropped"}
      /\ receiver' = "dropped"
      /\ channel' = channel \/ channel' = <<>>
  BY DEF Collection!SendFails, Collection!ReceiveError, Collection!DropReceiver,
     Collection!remoteVars, Collection!serverVars
<1>3. <<>> \in Seq(SUBSET Collection!Entries) /\ Len(<<>>) = 0
  OBVIOUS
<1>4. Collection!TypeOK'
  <2>1. channel' \in Seq(SUBSET Collection!Entries) /\ Len(channel') <= 2
    <3>1. channel \in Seq(SUBSET Collection!Entries) /\ Len(channel) <= 2
      BY DEF PollerInv, Collection!TypeOK
    <3>2. CASE channel' = channel
      BY <3>1, <3>2
    <3>3. CASE channel' = <<>>
      <4>1. Len(channel') = 0
        BY <1>3, <3>3, Zenon
      <4> QED BY <1>3, <3>3, <4>1
    <3> QED BY <1>2, <3>2, <3>3
  <2>2. pc' \in {"loading", "sleeping", "fetching", "sending", "failed", "ended"}
        /\ receiver' \in {"open", "dropped"}
    BY <1>2 DEF PollerInv, Collection!TypeOK
  <2> QED BY <1>1, <2>1, <2>2 DEF PollerInv, Collection!TypeOK
<1>5. \A i \in 1..Len(channel') : Unique(channel'[i])
  BY <1>2, <1>3 DEF PollerInv
<1> QED BY <1>1, <1>2, <1>4, <1>5 DEF PollerInv, Unique, PreviousIsDelivered,
      Collection!PreviousIsDelivered

\* GraphOS changes the collection, and no operation comes into it twice.
LEMMA GraphOSKeeps ==
  ASSUME PollerInv, Collection!GraphOS
  PROVE  PollerInv'
<1>1. UNCHANGED <<pc, previous, changed, channel, catalog, started, receiver, forgotten>>
  BY DEF Collection!GraphOS, Collection!Add, Collection!Edit, Collection!Remove,
     Collection!serverVars
<1>2. collection \subseteq [id : Ids, at : 1..MaxStamp] /\ retired \subseteq Ids /\ Unique(collection)
  BY DEF PollerInv, Collection!TypeOK
<1>3. collection' \subseteq [id : Ids, at : 1..MaxStamp] /\ retired' \subseteq Ids /\ Unique(collection')
  <2>1. ASSUME NEW id \in Ids, Collection!Add(id)
        PROVE  collection' \subseteq [id : Ids, at : 1..MaxStamp] /\ retired' \subseteq Ids
               /\ Unique(collection')
    BY <1>2, <2>1, CollectionAssumption DEF CollectionAssumption, Collection!Add,
       Collection!IdsOf, Unique
  <2>2. ASSUME NEW e \in collection, Collection!Edit(e)
        PROVE  collection' \subseteq [id : Ids, at : 1..MaxStamp] /\ retired' \subseteq Ids
               /\ Unique(collection')
    <3>1. /\ [e EXCEPT !.at = @ + 1] \in [id : Ids, at : 1..MaxStamp]
          /\ [e EXCEPT !.at = @ + 1].id = e.id
      BY <1>2, <2>2, CollectionAssumption DEF CollectionAssumption, Collection!Edit
    <3> QED BY <1>2, <2>2, <3>1 DEF Collection!Edit, Unique
  <2>3. ASSUME NEW e \in collection, Collection!Remove(e)
        PROVE  collection' \subseteq [id : Ids, at : 1..MaxStamp] /\ retired' \subseteq Ids
               /\ Unique(collection')
    BY <1>2, <2>3 DEF Collection!Remove, Unique
  <2> QED BY <2>1, <2>2, <2>3 DEF Collection!GraphOS
<1>4. Collection!TypeOK'
  BY <1>1, <1>3 DEF PollerInv, Collection!TypeOK
<1> QED BY <1>1, <1>3, <1>4, DeliveredStays DEF PollerInv, Unique, PreviousIsDelivered,
      Collection!PreviousIsDelivered

\* PollerInv is inductive.
LEMMA PollerStep ==
  ASSUME PollerInv, [Collection!Next]_collectionVars
  PROVE  PollerInv'
<1>1. CASE UNCHANGED collectionVars
  <2>1. UNCHANGED <<collection, retired, pc, previous, changed, channel, catalog, started,
                    receiver, forgotten>>
    BY <1>1 DEF collectionVars
  <2>2. Collection!TypeOK'
    BY <2>1 DEF PollerInv, Collection!TypeOK
  <2> QED BY <2>1, <2>2, DeliveredStays DEF PollerInv, Unique, PreviousIsDelivered,
        Collection!PreviousIsDelivered
<1> QED BY <1>1, LoadKeeps, PollKeeps, FetchKeeps, SendKeeps, ReceiveKeeps, EndKeeps, GraphOSKeeps
     DEF Collection!Next

-----------------------------------------------------------------------------
(* The source in use *)

\* The files' state, the poller's and the kind of the source, together.
SourcesInv ==
  /\ FilesInv /\ PollerInv
  /\ source \in {"local", "manifest", "collection", "none", "uplink"}

\* Every configuration that a server is built from selects one of five sources.
LEMMA SelectedSources ==
  ASSUME NEW c \in Configurations, Buildable(c)
  PROVE  Selected(c) \in {"local", "manifest", "collection", "none", "uplink"}
<1>1. c.operations \in {"local", "infer", "manifest", "introspect", "default", "collection", "uplink"}
  BY DEF Configurations
<1>2. CASE Inferred(c) /\ c.graphRef = "unset"
  BY <1>2 DEF Selected
<1> QED BY <1>1, <1>2 DEF Buildable, Selected, Inferred

\* Every source starts with nothing read, loaded or sent.
LEMMA FirstSources ==
  SourceInit => SourcesInv
<1> SUFFICES ASSUME SourceInit PROVE SourcesInv
  OBVIOUS
<1>1. source \in {"local", "manifest", "collection", "none", "uplink"}
  BY SelectedSources DEF SourceInit
<1>2. FilesInv
  <2>1. NoOps \in [Files -> Contents]
    BY FilesAssumption DEF FilesAssumption, NoOps, Contents
  <2>2. Active \subseteq Watches
    BY DEF Active
  <2>3. TypeOK
    BY <2>1, <2>2, FilesAssumption DEF FilesAssumption, SourceInit, Init, TypeOK
  <2> QED BY <2>3 DEF SourceInit, Init, FilesInv
<1>3. PollerInv
  <2>1. PICK ids \in SUBSET Ids : collection = [id : ids, at : {1}]
    BY DEF SourceInit, Collection!Init
  <2>2. collection \subseteq Collection!Entries /\ Unique(collection)
    BY <2>1, CollectionAssumption DEF CollectionAssumption, Unique
  <2>3. /\ retired = {} /\ pc = "loading" /\ previous = {} /\ changed = {} /\ channel = <<>>
        /\ catalog = {} /\ started = "no" /\ receiver = "open" /\ forgotten = "no"
    BY DEF SourceInit, Collection!Init
  <2>4. <<>> \in Seq(SUBSET Collection!Entries) /\ Len(<<>>) = 0
    OBVIOUS
  <2>5. Collection!TypeOK
    BY <2>2, <2>3, <2>4 DEF Collection!TypeOK
  <2> QED BY <2>2, <2>3, <2>4, <2>5 DEF PollerInv, Unique, PreviousIsDelivered,
        Collection!PreviousIsDelivered
<1> QED BY <1>1, <1>2, <1>3 DEF SourcesInv

\* The sources run apart from one another.
LEMMA SourcesStep ==
  ASSUME SourcesInv, [SourceNext]_sourceVars
  PROVE  SourcesInv'
<1>1. CASE FileStep
  BY <1>1, FilesStep, PollerStep DEF FileStep, SourcesInv
<1>2. CASE CollectionStep
  BY <1>2, FilesStep, PollerStep DEF CollectionStep, SourcesInv
<1>3. CASE SendNothing
  <2>1. /\ UNCHANGED <<source, vars, collection, retired, pc, previous, changed, channel, catalog,
                       receiver, forgotten>>
        /\ started' = "yes"
    BY <1>3 DEF SendNothing
  <2>2. Collection!TypeOK'
    BY <2>1 DEF SourcesInv, PollerInv, Collection!TypeOK
  <2>3. PollerInv'
    BY <2>1, <2>2, DeliveredStays DEF SourcesInv, PollerInv, Unique, PreviousIsDelivered,
       Collection!PreviousIsDelivered
  <2> QED BY <2>1, <2>3, FilesStep DEF SourcesInv
<1>4. CASE UNCHANGED sourceVars
  BY <1>4, FilesStep, PollerStep DEF sourceVars, SourcesInv
<1> QED BY <1>1, <1>2, <1>3, <1>4 DEF SourceNext

\* SourcesInv holds in every state.
LEMMA SourcesInvariant == SourceSpec => []SourcesInv
<1>1. SourceInit => SourcesInv
  BY FirstSources
<1>2. SourcesInv /\ [SourceNext]_sourceVars => SourcesInv'
  BY SourcesStep
<1> QED BY <1>1, <1>2, PTL DEF SourceSpec

\* The variables of every source keep their types.
THEOREM TypeCorrect == SourceSpec => []SourceTypeOK
<1>1. SourcesInv => SourceTypeOK
  BY DEF SourcesInv, FilesInv, PollerInv, SourceTypeOK
<1> QED BY <1>1, SourcesInvariant, PTL

\* Whatever paths are configured and however files are edited while they are read, a
\* set of operations is sent only when every path has been read, and it is put together
\* from all of them (the barrier of OperationSource::into_stream).
THEOREM OnlyCompleteSets == SourceSpec => []SetsAreComplete
<1>1. SourcesInv => SetsAreComplete
  BY DEF SourcesInv, FilesInv, SetsAreComplete
<1> QED BY <1>1, SourcesInvariant, PTL

\* Whatever requests fail, between polls the poller of a collection takes for delivered
\* only what it has sent last, and all of it unless a failed fetch came after a removal.
THEOREM PollerKnowsWhatItSent == SourceSpec => []PreviousIsDelivered
<1>1. SourcesInv => PreviousIsDelivered
  BY DEF SourcesInv, PollerInv
<1> QED BY <1>1, SourcesInvariant, PTL

===============================================================================

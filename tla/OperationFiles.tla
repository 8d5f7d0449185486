--------------------------- MODULE OperationFiles ---------------------------
(***************************************************************************)
(* Operations from files: the configured operation files and directories    *)
(* (OperationSource::Files, operations/operation_source.rs) and the file of  *)
(* a persisted query manifest (ManifestSource::LocalHotReload,              *)
(* manifest_poller.rs), both over the file watcher (files.rs).              *)
(*                                                                         *)
(* Each configured path has a watch, which yields once at the start and     *)
(* once or more after a change.  The state machine polls the streams of all *)
(* watches: it takes a notification, reads the path and, when every path    *)
(* has been read at least once, has the operations of all of them.          *)
(* Reading a path is not interrupted by the reading of another, but files   *)
(* may be edited meanwhile.                                                *)
(***************************************************************************)
EXTENDS Naturals, FiniteSets

CONSTANTS
  Watches,       \* entries of operations.paths
  Paths, Files,
  PathOf,        \* the path of an entry
  FilesOf,       \* the operation files of a path
  Directories,   \* the paths that are directories; the others are one file
  ManifestPath,  \* the path of the manifest
  MaxContent,    \* bound: contents of a file, 2..MaxContent
  MaxEdits       \* bound

ASSUME FilesAssumption ==
  /\ IsFiniteSet(Watches)
  /\ PathOf \in [Watches -> Paths]
  /\ FilesOf \in [Paths -> SUBSET Files]
  /\ Directories \subseteq Paths
  /\ \A p \in Paths \ Directories : Cardinality(FilesOf[p]) = 1
  /\ ManifestPath \in Paths \ Directories
  /\ MaxContent \in Nat /\ MaxContent >= 2
  /\ MaxEdits \in Nat

Absent   == 0                   \* no such file
Blank    == 1                   \* nothing but white space, or not a manifest
Contents == 0..MaxContent

VARIABLES
  kind,       \* "files" or "manifest"
  content,    \* the disk
  edits,      \* bound on edits
  notified,   \* watches with a notification in their channel
  reading,    \* the path that is being read, what is left to read, what was read
  loaded,     \* the keys of the state map
  held,       \* its values: the operations of each path, by file
  unlisted,   \* paths whose directory could not be listed when last read
  first,      \* "sent" once a set of operations was sent
  delivered,  \* the last set sent
  machine     \* the state machine: "waiting", "running", "failed"

stateVars == <<loaded, held, unlisted>>
outVars   == <<first, delivered, machine>>
vars      == <<kind, content, edits, notified, reading, stateVars, outVars>>

Op(c)    == IF c > Blank THEN c ELSE 0       \* the operations of a file with this content
NoOps    == [f \in Files |-> 0]
NotReading == [watch |-> "none"]
Active   == IF kind = "files" THEN Watches ELSE {w \in Watches : PathOf[w] = ManifestPath}
PathCount == Cardinality(Active)
ActivePaths == {PathOf[w] : w \in Active}

TypeOK ==
  /\ kind \in {"files", "manifest"}
  /\ content \in [Files -> Contents]
  /\ edits \in 0..MaxEdits
  /\ notified \subseteq Watches
  /\ reading = NotReading \/ reading \in [watch : Watches, todo : SUBSET Files, read : [Files -> Contents]]
  /\ loaded \subseteq Paths /\ unlisted \subseteq Directories
  /\ held \in [Paths -> [Files -> Contents]]
  /\ first \in {"none", "sent"}
  /\ delivered \in [Files -> Contents]
  /\ machine \in {"waiting", "running", "failed"}

Init ==
  /\ kind \in {"files", "manifest"}
  /\ content \in [Files -> Contents]
  /\ edits = 0
  /\ notified = Active              \* every watch yields once at the start
  /\ reading = NotReading
  /\ loaded = {} /\ held = [p \in Paths |-> NoOps] /\ unlisted = {}
  /\ first = "none" /\ delivered = NoOps /\ machine = "waiting"

-----------------------------------------------------------------------------
(* Reading a path *)

\* The files of a directory are listed; a directory that cannot be listed is taken
\* for an empty one.
BeginRead(w) ==
  /\ machine # "failed" /\ reading = NotReading
  /\ w \in notified
  /\ notified' = notified \ {w}
  /\ LET p == PathOf[w]
         Read(fs) == reading' = [watch |-> w, todo |-> fs, read |-> NoOps]
     IN \/ /\ p \notin Directories
           /\ Read(FilesOf[p]) /\ UNCHANGED unlisted
        \/ /\ p \in Directories
           /\ Read({f \in FilesOf[p] : content[f] # Absent})
           /\ unlisted' = unlisted \ {p}
        \/ /\ p \in Directories
           /\ Read({}) /\ unlisted' = unlisted \cup {p}
  /\ UNCHANGED <<kind, content, edits, loaded, held, outVars>>

\* OperationError ends the server in any state, ManifestError only before it runs.
Fail ==
  /\ machine' = IF kind = "manifest" /\ machine = "running" THEN machine ELSE "failed"
  /\ reading' = NotReading
  /\ UNCHANGED <<kind, content, edits, notified, stateVars, first, delivered>>

\* The directory itself is gone and is read as if it were a file.
DirectoryGone(w) ==
  /\ machine # "failed" /\ reading = NotReading
  /\ w \in notified /\ PathOf[w] \in Directories
  /\ machine' = "failed"
  /\ notified' = notified \ {w}
  /\ UNCHANGED <<kind, content, edits, reading, stateVars, first, delivered>>

\* An operation file may be blank; a manifest has to parse.
Readable(f) == content[f] # Absent /\ (kind = "manifest" => content[f] # Blank)

ReadFile ==
  /\ machine # "failed" /\ reading # NotReading
  /\ \E f \in reading.todo :
       \/ /\ Readable(f)
          /\ reading' = [reading EXCEPT !.todo = @ \ {f}, !.read[f] = Op(content[f])]
          /\ UNCHANGED <<kind, content, edits, notified, stateVars, outVars>>
       \/ ~Readable(f) /\ Fail

\* De-duplication by canonical path: a file that two paths lead to is taken once,
\* from whichever path the map yields first.
Merged(h) ==
  {d \in [Files -> Contents] :
     \A f \in Files :
       LET found == {h[p][f] : p \in ActivePaths} \ {0}
       IN IF found = {} THEN d[f] = 0 ELSE d[f] \in found}

\* Mutant of Emit: the set is sent although paths are still to be read.
EmitEarly(h) == first' = "sent" /\ delivered' \in Merged(h)

\* The barrier: one event with the operations of all paths once all have been read.
Emit(h) ==
  IF Cardinality(loaded') = PathCount
  THEN first' = "sent" /\ delivered' \in Merged(h)
  ELSE UNCHANGED <<first, delivered>>

\* Mutant of EndRead: operations are added to those the path had before.
EndReadAdds ==
  /\ machine # "failed" /\ reading # NotReading /\ reading.todo = {}
  /\ reading' = NotReading
  /\ loaded' = loaded \cup {PathOf[reading.watch]}
  /\ held' = [held EXCEPT ![PathOf[reading.watch]] =
                [f \in Files |-> IF reading.read[f] = 0 THEN @[f] ELSE reading.read[f]]]
  /\ Emit(held')
  /\ UNCHANGED <<kind, content, edits, notified, unlisted, machine>>

\* The path's operations replace those it had.
EndRead ==
  /\ machine # "failed" /\ reading # NotReading /\ reading.todo = {}
  /\ reading' = NotReading
  /\ loaded' = loaded \cup {PathOf[reading.watch]}
  /\ held' = [held EXCEPT ![PathOf[reading.watch]] = reading.read]
  /\ Emit(held')
  /\ UNCHANGED <<kind, content, edits, notified, unlisted, machine>>

-----------------------------------------------------------------------------
\* The schema is there as well.
Start ==
  /\ machine = "waiting" /\ first = "sent"
  /\ machine' = "running"
  /\ UNCHANGED <<kind, content, edits, notified, reading, stateVars, first, delivered>>

\* A file is written, truncated, removed or created.  The watcher compares contents
\* at an interval and tells every watch that the file belongs to; its channel of one
\* keeps the notification until it is taken.
Edit(f) ==
  /\ edits < MaxEdits /\ edits' = edits + 1
  /\ \E c \in Contents \ {content[f]} : content' = [content EXCEPT ![f] = c]
  /\ notified' = notified \cup {w \in Active : f \in FilesOf[PathOf[w]]}
  /\ UNCHANGED <<kind, reading, stateVars, outVars>>

Stream == \/ \E w \in Watches : BeginRead(w) \/ DirectoryGone(w)
          \/ ReadFile \/ EndRead
Next == Stream \/ Start \/ \E f \in Files : Edit(f)

\* The event loop polls the streams of all watches.
Spec == Init /\ [][Next]_vars
Fairness == /\ WF_vars(ReadFile \/ EndRead)
            /\ \A w \in Watches : SF_vars(BeginRead(w) \/ DirectoryGone(w))
FairSpec == Spec /\ Fairness

-----------------------------------------------------------------------------
(* Properties *)

\* A set of operations is only ever sent when every path has been read, and it holds
\* the operations of all of them.
SetsAreComplete ==
  first = "sent" => loaded = ActivePaths /\ delivered \in Merged(held)

\* Once the files stop changing, the server has the operations they hold, or it has
\* ended on a file that cannot be read (define-tools.mdx: the tools are updated when
\* files are added, modified or removed).
Settled ==
  \/ machine = "failed" \/ unlisted # {}
  \/ /\ first = "sent"
     /\ \A f \in UNION {FilesOf[p] : p \in ActivePaths} :
          delivered[f] = Op(content[f]) \/ (kind = "manifest" /\ ~Readable(f))
=============================================================================

------------------------- MODULE MCOperationSources -------------------------
(* OperationSources on small instances: files that overlap, two operations of a
   collection. *)
EXTENDS OperationSources, TLC

CONSTANTS one, two, dir, single, a, b
TwoEntries   == {one, two}
DirAndFile   == {dir, single}
TwoNames     == {a, b}
\* A directory with both files, and one of them again by its own path.
Overlapping  == (one :> dir) @@ (two :> single)
FilesOfPaths == (dir :> {a, b}) @@ (single :> {a})
OneDirectory == {dir}
=============================================================================

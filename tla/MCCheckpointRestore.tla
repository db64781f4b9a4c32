------------------------- MODULE MCCheckpointRestore -------------------------
(***************************************************************************)
(* The smallest tree in which a file, a link, a directory and a directory  *)
(* within a directory can take one another's place: a, a/s, a/s/x, a/y,    *)
(* which rollback.exclude may name, and a/i, which git ignores.  The       *)
(* commit of the start has two files in directories, one file in the place *)
(* of all, or nothing.                                                     *)
(***************************************************************************)
EXTENDS CheckpointRestore

CONSTANTS f, g, k

A == <<1>>
S == <<1, 1>>
X == <<1, 1, 1>>
Y == <<1, 2>>
I == <<1, 3>>

MCPaths == {A, S, X, Y, I}
MCFiles == {f, g}
MCIgnored == {I}
MCLinks == {k}
Holding(ps) == [p \in MCPaths |-> IF p \in ps THEN f ELSE Absent]
MCCommits == {Holding({X, Y}), Holding({A}), Holding({})}
MCExcludable == {A, Y}
=============================================================================

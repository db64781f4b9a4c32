------------------------------ MODULE PathTree ------------------------------
(***************************************************************************)
(* Repository paths, each the sequence of its segments, and the orders in  *)
(* which the program walks them.                                           *)
(***************************************************************************)
EXTENDS SequencesExt, Naturals

CONSTANTS
  Paths,      \* the paths, closed under non-empty prefixes
  Absent,     \* nothing there, in the tree or in the index
  Directory

Ancestors(p) == {SubSeq(p, 1, i) : i \in 1 .. Len(p) - 1}
Parent(p) == Front(p)
Root == <<>>
Below(p) == {q \in Paths : IsStrictPrefix(p, q)}
Children(p) == {q \in Paths : Len(q) = Len(p) + 1 /\ IsPrefix(p, q)}
Related(p) == Ancestors(p) \cup Below(p)

\* A segment stands for its place in the order of names.
ASSUME PathsAssumption ==
  \A p \in Paths : p \in Seq(Nat) /\ p # Root /\ Ancestors(p) \subseteq Paths

Lexical(p, q) ==
  \/ IsStrictPrefix(p, q)
  \/ \E i \in 1 .. Len(p) : /\ i <= Len(q) /\ p[i] < q[i]
                            /\ SubSeq(p, 1, i - 1) = SubSeq(q, 1, i - 1)
DeepestFirst(p, q) == Len(p) > Len(q) \/ (Len(p) = Len(q) /\ Lexical(p, q))
ShallowestFirst(p, q) == Len(p) < Len(q) \/ (Len(p) = Len(q) /\ Lexical(p, q))
=============================================================================

----------------------- MODULE MCContributionCapture -----------------------
EXTENDS ContributionCapture

\* The store is empty, or a file in it is damaged.
HeldMC == {[d \in Digests |-> "absent"],
           [d \in Digests |-> IF d = "y" THEN "corrupt" ELSE "absent"]}

Tree(a, b) == [p \in Paths |-> IF p = 1 THEN a ELSE b]
Repository(h, i, t) == [head |-> [sha |-> 0, tree |-> h], index |-> i, tree |-> t]

\* A file, as committed; the same changed, beside an untracked file.
StartsMC == {
  Repository(Tree("x", Absent), Tree("x", Absent), Tree("x", Absent)),
  Repository(Tree("x", Absent), Tree("x", Absent), Tree("y", "x"))} \cap Repositories
=============================================================================

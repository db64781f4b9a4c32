---------------------------- MODULE MCTransplant ----------------------------
(***************************************************************************)
(* A small tree: a, a/s, a/s/x, a/y, and a/i, which is ignored.  A         *)
(* scenario pairs every tree a checkpoint may hold with every tree a       *)
(* session may leave: files for files, files for links and links for       *)
(* files or other links, with what the session did staged or not, or       *)
(* nothing of it known to git.                                             *)
(***************************************************************************)
EXTENDS Transplant

CONSTANTS f, g, k, l

A == <<1>>
S == <<1, 1>>
X == <<1, 1, 1>>
Y == <<1, 2>>
I == <<1, 3>>

MCPaths == {A, S, X, Y, I}
MCFiles == {f, g}
MCLinks == {k, l}
MCIgnored == {I}

TreesOf(leaves) ==
  {t \in [MCPaths -> leaves \cup {Directory, Absent}] :
     /\ t[I] = Absent
     /\ \A p \in MCPaths : t[p] # Absent => \A a \in Ancestors(p) : t[a] = Directory}

Staged(t) == [p \in MCPaths |-> IF t[p] = Directory THEN Absent ELSE t[p]]
Nothing == [p \in MCPaths |-> Absent]
Index(t, tracked) == IF tracked THEN Staged(t) ELSE Nothing

\* From the tree t to the tree u; git knew t or not, and was told of u or not.
Between(t, u, edits) ==
  {[oracle |-> [tree |-> t, index |-> Index(t, tracked)],
    ended  |-> [tree |-> u, index |-> IF staged THEN Staged(u) ELSE Index(t, tracked)],
    edits  |-> edits] : tracked, staged \in BOOLEAN}

From(before, after, edits) ==
  UNION {Between(t, u, edits) : t \in TreesOf(before), u \in TreesOf(after)}

\* A session that left something git does not restore or ignores, or an index
\* with an unmerged path.
Odd ==
  {[s EXCEPT !.ended.tree[p] = IF p = I THEN g ELSE Special] :
     s \in {r \in From({f}, {g}, 0) : r.ended.tree[A] = Directory}, p \in {Y, I}}
  \cup {[s EXCEPT !.ended.index[Y] = Special] :
          s \in {r \in From({f}, {g}, 0) : r.ended.index[A] = Absent}}

\* The user may change something twice where the session left a deep tree.
MCScenarios ==
  From({f}, {g}, 1) \cup {s \in From({f}, {g}, 2) : s.ended.tree[S] = Directory}
  \cup From({f}, {k}, 1) \cup From({k}, {g}, 0) \cup From({k}, {l}, 0) \cup Odd
=============================================================================

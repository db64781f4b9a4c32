----------------------------- MODULE GitWorktree -----------------------------
(***************************************************************************)
(* A checkout: the commit HEAD names, the index over it, the working tree, *)
(* and the git commands the checkpoints and the restore are made of        *)
(* (git/src/git-cli.ts runs them; what they do is git's).                  *)
(*                                                                         *)
(* Contents at different paths, or of different versions of a path, have   *)
(* nothing in common: git finds no renames and a patch applies exactly or  *)
(* not at all.  A symbolic link leads nowhere in the checkout, and no      *)
(* directory is a repository of its own.                                   *)
(***************************************************************************)
EXTENDS PathTree

CONSTANTS
  Files,     \* contents of regular files
  Links,     \* targets of symbolic links
  Ignored    \* the paths git ignores

Leaves == Files \cup Links
Entries == Leaves \cup {Absent}   \* of a commit or the index
Nodes == Entries \cup {Directory}

\* A node is of one kind.
ASSUME NodesAssumption ==
  /\ Files \cap Links = {} /\ Directory # Absent
  /\ {Directory, Absent} \cap Leaves = {}

Nothing == [p \in Paths |-> Absent]

\* A checkout is a record of four: the number and the content of HEAD's commit,
\* the index, and the tree.  A listing, of a commit or the index, has no directories.
IsListing(i) == \A p \in Paths : i[p] # Absent => \A a \in Ancestors(p) : i[a] = Absent

Occupied(listing) == {p \in Paths : listing[p] # Absent}
Changed(old, new) == {p \in Paths : old[p] # new[p]}
Above(ps) == UNION {Ancestors(p) : p \in ps}
EmptyAt(t, p) == t[p] = Directory /\ \A q \in Below(p) : t[q] = Absent

-----------------------------------------------------------------------------
(* What git reports. *)

\* The working tree's version of what the index lists: a directory is none.
Version(w, p) == IF w.tree[p] \in Leaves THEN w.tree[p] ELSE Absent
Worktree(w) == [p \in Paths |-> IF w.index[p] # Absent THEN Version(w, p) ELSE Absent]

\* git diff --name-only, with and without --cached.
TrackedDirty(w) == Changed(w.index, Worktree(w)) \cup Changed(w.commit, w.index)

\* git ls-files --others --exclude-standard.
Untracked(w) == {p \in Paths \ Ignored : w.tree[p] \in Leaves /\ w.index[p] = Absent}

\* git status --porcelain: an untracked path is shown as the highest directory
\* above it with nothing in the index, and not at all if that directory's own
\* name is in the index.
Item(p) == [path |-> p, directory |-> FALSE]
Uncharted(w, p) == {a \in Ancestors(p) : Below(a) \cap Occupied(w.index) = {}}
StatusItems(w) ==
  {Item(p) : p \in TrackedDirty(w)}
  \cup {Item(p) : p \in {q \in Untracked(w) : Uncharted(w, q) = {}}}
  \cup {[path |-> a, directory |-> TRUE] :
          a \in {b \in Above(Untracked(w)) :
                   /\ w.index[b] = Absent
                   /\ \E p \in Untracked(w) :
                        b \in Uncharted(w, p) /\ Uncharted(w, p) \cap Ancestors(b) = {}}}

-----------------------------------------------------------------------------
(* How git changes a tree. *)

\* ps are unlinked, but for what lies behind a leaf, and the directories this
\* empties go with them.
Removed(t, ps) ==
  LET gone == {p \in ps : \A a \in Ancestors(p) : t[a] = Directory}
      left == Above(gone)
  IN [q \in Paths |->
        IF \/ q \in gone
           \/ /\ q \in left
              /\ \A r \in Below(q) : t[r] = Absent \/ r \in gone \/ (r \in left /\ t[r] = Directory)
        THEN Absent ELSE t[q]]

\* ps are written, over whatever is in their way.
Written(t, to, ps) ==
  [q \in Paths |-> IF q \in ps THEN to[q]
                   ELSE IF q \in Above(ps) THEN Directory
                   ELSE IF Ancestors(q) \cap ps # {} THEN Absent
                   ELSE t[q]]

\* git reset --hard HEAD.
ResetHard(w) ==
  LET dropped == {p \in Occupied(w.index) \ Occupied(w.commit) : w.tree[p] # Directory}
  IN [w EXCEPT !.index = w.commit,
               !.tree = Written(Removed(w.tree, dropped), w.commit, Occupied(w.commit))]

Barred(t, p) ==
  (\E a \in Ancestors(p) : t[a] \in Leaves) \/ (t[p] = Directory /\ ~EmptyAt(t, p))

\* git apply of the patch from old to new, and with --index (cached).  A patch
\* that does not match is refused before anything is written; one that meets an
\* obstacle in the tree or in the index stops there, in the order of the paths.
Apply(w, old, new, cached) ==
  LET touched  == Changed(old, new)
      gone     == touched \cap Occupied(old)
      made     == touched \cap Occupied(new)
      missing  == {p \in gone : /\ w.index[p] # Absent /\ w.tree[p] = Absent
                                /\ \A a \in Ancestors(p) : w.tree[a] \notin Leaves
                                                           /\ w.index[a] \notin Links}
      t        == IF cached THEN Written(w.tree, w.index, missing) ELSE w.tree
      listed   == IF cached THEN Occupied(w.index) ELSE {}
      refused  == \/ \E p \in gone : t[p] # old[p]
                  \/ cached /\ \E p \in gone : w.index[p] # old[p]
                  \/ \E p \in made \ gone : t[p] \in Leaves \/ p \in listed
                  \/ \E p \in made : \E a \in Ancestors(p) \ gone :
                       (IF cached THEN w.index[a] ELSE t[a]) \in Links
      bare     == Removed(t, gone)
      blocked  == {p \in made : Barred(bare, p)}
      clashing == {p \in made \ blocked : Related(p) \cap (listed \ gone) # {}}
      done     == {p \in made : \A b \in blocked \cup clashing :
                                  Lexical(p, b) \/ (p = b /\ b \in clashing)}
      indexed  == [q \in Paths |-> IF q \in touched THEN new[q]
                                   ELSE IF Related(q) \cap made # {} THEN Absent
                                   ELSE w.index[q]]
  IN IF refused THEN [ok |-> FALSE, world |-> [w EXCEPT !.tree = t]]
     ELSE LET ok == blocked \cup clashing = {}
          IN [ok |-> ok,
              world |-> [w EXCEPT !.tree = Written(bare, new, done),
                                  !.index = IF cached /\ ok THEN indexed ELSE @]]
=============================================================================

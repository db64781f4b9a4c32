------------------------------ MODULE Transplant ------------------------------
(***************************************************************************)
(* One selective rollback from the plan to the verdict, path by path       *)
(* (git/src: restore-selective, protected-domain, plan-stabilization,      *)
(* final-fence, transplant-schedule, worktree-materialize,                 *)
(* index-transplant, post-transplant-verification).  SelectiveRollback has *)
(* the same steps with their journal and treats a path's content as        *)
(* opaque; here the paths form a tree with an index over it, and the       *)
(* question is what the planner accepts, what the schedule then does to    *)
(* the tree, and what the verification makes of it, while a user edits.    *)
(*                                                                         *)
(* Each observation of the repository (a plan's, a snapshot's, the         *)
(* fence's, the verification's) is one step.                               *)
(***************************************************************************)
EXTENDS PathTree

CONSTANTS
  Files,            \* contents of regular files (mode included)
  Links,            \* targets of symbolic links
  Torn,             \* a regular file whose writing was cut short
  Special,          \* what is never restored: a fifo; an unmerged entry, a submodule
  Ignored,          \* the paths git ignores or rollback.exclude names
  SymlinkCheckout,  \* core.symlinks
  Scenarios         \* what the session started from, what it left, the user's edits to come

Regular == Files \cup {Torn}
Leaves == Regular \cup Links \cup {Special}
Nodes == Leaves \cup {Directory, Absent}
Entries == Files \cup Links \cup {Special, Absent}
Worlds == [tree : [Paths -> Nodes], index : [Paths -> Entries]]

\* A node is of one kind.
ASSUME NodesAssumption ==
  /\ Regular \cap Links = {}
  /\ Special # Directory /\ Special # Absent /\ Directory # Absent
  /\ {Special, Directory, Absent} \cap (Regular \cup Links) = {}

\* What a file system and an index can hold at all.
Coherent(w) ==
  /\ \A p \in Paths : w.tree[p] # Absent => \A a \in Ancestors(p) : w.tree[a] = Directory
  /\ \A p \in Paths : w.index[p] # Absent => \A a \in Ancestors(p) : w.index[a] = Absent

ASSUME ScenariosAssumption ==
  \A s \in Scenarios :
    /\ {s.oracle, s.ended} \subseteq Worlds
    /\ Coherent(s.oracle) /\ Coherent(s.ended)
    /\ s.edits \in Nat

VARIABLES
  oracle,    \* the checkpoint of the session's start, checked out
  ended,     \* what the session left: the contribution is the difference
  selected,  \* the paths of the change groups asked for
  repo,      \* the user's checkout
  head,      \* how many commits the user has made
  budget,    \* the edits the user may still make
  pc,
  plan,      \* the plan that was accepted
  frozen,    \* the snapshot S of the protected domain
  states,    \* the obligations of the schedule and what has become of each
  stopped,   \* why the execution ended early, if it did
  late,      \* what the user has edited since the fence
  report,    \* the verdict
  ending

vars == <<oracle, ended, selected, repo, head, budget, pc, plan, frozen,
          states, stopped, late, report, ending>>

State(w, p) == [node |-> w.tree[p], entry |-> w.index[p]]
Before(p) == State(oracle, p)
After(p) == State(ended, p)

\* git ls-files, with and without --others --exclude-standard.
Indexed(w) == {p \in Paths : w.index[p] # Absent}
Listed(w) == Indexed(w) \cup {p \in Paths \ Ignored : w.tree[p] \in Regular \cup Links}

\* The paths of the contribution: a rename is its two ends.
Candidates(before, after) ==
  {p \in Listed(before) \cup Listed(after) : State(before, p) # State(after, p)}

-----------------------------------------------------------------------------
(* The planner. *)

Unsupported(state) == Special \in {state.node, state.entry}

Verdict(p, seen) ==
  IF seen = Before(p) THEN "already_at_before"
  ELSE IF \/ ~SymlinkCheckout /\ Before(p).node \in Links
          \/ Unsupported(seen) \/ Unsupported(Before(p))
          \/ seen # After(p)
       THEN "conflict"
       ELSE "restore_required"

Destroys(p, seen) == seen.node = Directory /\ Before(p).node # Directory

\* Members of a directory that is about to go which the selection does not
\* account for.  A directory nobody selected is accounted for by what it holds.
Uncovered(members) ==
  LET covered == {q \in (DOMAIN members) \cap selected : Before(q).node = Absent}
  IN {q \in DOMAIN members \ covered :
        q \notin selected /\ members[q] = "directory" => Below(q) \cap covered = {}}

\* The index after the rollback holds both a path and something below it.
IndexCollision(population) ==
  LET projected == (population \ selected) \cup {p \in selected : Before(p).entry # Absent}
  IN \E p \in projected : Ancestors(p) \cap projected # {}

(***************************************************************************)
(* What to do, from fixed observations: used by the planner on what it     *)
(* reads and by the stabilization on S.                                    *)
(***************************************************************************)
Topology(observed, members) ==
  LET writes  == {p \in selected : Verdict(p, observed[p]) = "restore_required"}
      wanted  == {p \in writes : Before(p).node # Absent}
      needed  == UNION {Ancestors(p) : p \in wanted}
      asked   == needed \ selected
      kept    == {a \in asked : observed[a].node = Directory}
      created == {a \in asked : observed[a].node = Absent}
  IN [seen         |-> [p \in selected |-> observed[p]],
      writes       |-> writes,
      dependencies |-> kept,
      parents      |-> [a \in created |->
                          [requiredBy |-> {p \in wanted : a \in Ancestors(p)},
                           target     |-> [observed[a] EXCEPT !.node = Directory]]],
      conflict     |-> \/ \E p \in writes : Destroys(p, observed[p]) /\ Uncovered(members[p]) # {}
                       \/ \E a \in needed \cap selected : Before(a).node # Directory
                       \/ asked # kept \cup created
                       \/ IndexCollision({p \in DOMAIN observed : observed[p].entry # Absent})]

KindOf(node) == IF node = Directory THEN "directory" ELSE "leaf"
MembersAmong(w, qs) == [q \in {r \in qs : w.tree[r] # Absent} |-> KindOf(w.tree[q])]

Stop(how) == pc' = "done" /\ ending' = how

PlanSelectiveRestore ==
  LET topology == Topology([p \in Paths |-> State(repo, p)],
                           [p \in Paths |-> MembersAmong(repo, Below(p))])
      verdicts == {Verdict(p, State(repo, p)) : p \in selected}
      refused  == topology.conflict \/ "conflict" \in verdicts
  IN /\ pc = "plan"
     /\ plan' = topology
     /\ \/ refused /\ Stop("conflicted")
        \/ ~refused /\ topology.writes = {} /\ Stop("noop")
        \/ ~refused /\ topology.writes # {} /\ pc' = "freeze" /\ UNCHANGED ending
     /\ UNCHANGED <<oracle, ended, selected, repo, head, budget, frozen, states,
                    stopped, late, report>>

-----------------------------------------------------------------------------
(* The protected domain. *)

TouchesTree == {p \in plan.writes : plan.seen[p].node # Before(p).node} \cup DOMAIN plan.parents
RecursiveRoots == {p \in plan.writes : Destroys(p, plan.seen[p])}
ImmediateRoots == {Parent(p) : p \in TouchesTree} \ RecursiveRoots

\* What is looked at around the footprint; a watched path that is no
\* directory has no members.
WatchesOf(w) ==
  [r \in RecursiveRoots \cup ImmediateRoots |->
     IF r # Root /\ w.tree[r] # Directory THEN <<>>
     ELSE MembersAmong(w, IF r \in RecursiveRoots THEN Below(r) ELSE Children(r))]

ProtectedPaths(w) ==
  selected \cup DOMAIN plan.parents \cup plan.dependencies
  \cup ({Parent(p) : p \in TouchesTree} \ {Root})
  \cup Listed(w)

Capture(w, paths) == [states |-> [p \in paths |-> State(w, p)], watches |-> WatchesOf(w)]

\* Fault: the plan is executed as it was approved, whatever S says.
FaultStable(snapshot) == TRUE

\* The plan still follows from the snapshot: the selected states, the parents
\* it relies on, and the operations, each with its target and who needs it.
Stable(snapshot) ==
  /\ \A p \in selected : snapshot.states[p] = plan.seen[p]
  /\ LET again == Topology(snapshot.states, snapshot.watches)
     IN /\ ~again.conflict
        /\ again.dependencies = plan.dependencies
        /\ again.parents = plan.parents

\* Capture S and HEAD, and check the plan against them.
Freeze ==
  /\ pc = "freeze"
  /\ LET snapshot == Capture(repo, ProtectedPaths(repo))
     IN /\ frozen' = [domain |-> snapshot, head |-> head]
        /\ \/ Stable(snapshot) /\ pc' = "prepare" /\ UNCHANGED ending
           \/ ~Stable(snapshot) /\ Stop("precondition_changed")
  /\ UNCHANGED <<oracle, ended, selected, repo, head, budget, plan, states,
                 stopped, late, report>>

-----------------------------------------------------------------------------
(* The schedule. *)

NodeKind(node) == CASE node \in Regular -> "regular"
                    [] node \in Links -> "symlink"
                    [] node = Special -> "other"
                    [] node = Directory -> "directory"
                    [] node = Absent -> "absent"

Removals == {p \in plan.writes : /\ plan.seen[p].node # Absent
                                 /\ NodeKind(plan.seen[p].node) # NodeKind(Before(p).node)}
LeafWrites == {p \in plan.writes : Before(p).node \notin {plan.seen[p].node, Absent}}
IndexWrites == {p \in plan.writes : plan.seen[p].entry # Before(p).entry}

Obligations ==
  LET Phase(phase, paths) == {[phase |-> phase, path |-> p] : p \in paths}
  IN Phase("removal", Removals) \cup Phase("directory", DOMAIN plan.parents)
     \cup Phase("leaf", LeafWrites) \cup Phase("index", IndexWrites)

Rank == [removal |-> 1, directory |-> 2, leaf |-> 3, index |-> 4]

\* The order of execution, which is total.
Precedes(o, q) ==
  \/ Rank[o.phase] < Rank[q.phase]
  \/ /\ o.phase = q.phase
     /\ CASE o.phase = "removal" -> DeepestFirst(o.path, q.path)
          [] o.phase = "directory" -> ShallowestFirst(o.path, q.path)
          [] o.phase \in {"leaf", "index"} -> Lexical(o.path, q.path)

\* A parent is owed by every path that needs it.
Attributed(o) == IF o.phase = "directory" THEN plan.parents[o.path].requiredBy ELSE {o.path}

\* Of the shapes that deriveSchedule refuses, the one a plan can have.
Schedulable == \A p \in plan.writes : Before(p).node # Directory

Prepare ==
  /\ pc = "prepare"
  /\ \/ /\ Schedulable
        /\ states' = [o \in Obligations |-> "pending"]
        /\ pc' = "fence"
        /\ UNCHANGED ending
     \/ /\ ~Schedulable
        /\ Stop("failed")
        /\ UNCHANGED states
  /\ UNCHANGED <<oracle, ended, selected, repo, head, budget, plan, frozen, stopped, late,
                 report>>

\* Fault: the members of the watched directories are not compared.
FaultUnmoved == /\ Capture(repo, ProtectedPaths(repo)).states = frozen.domain.states
                /\ head = frozen.head

\* Nothing protected has moved, nothing has joined or left, HEAD is where it was.
Unmoved == /\ Capture(repo, ProtectedPaths(repo)) = frozen.domain
           /\ head = frozen.head

FinalFence ==
  /\ pc = "fence"
  /\ \/ Unmoved /\ pc' = "execute" /\ UNCHANGED ending
     \/ ~Unmoved /\ Stop("precondition_changed")
  /\ UNCHANGED <<oracle, ended, selected, repo, head, budget, plan, frozen, states,
                 stopped, late, report>>

-----------------------------------------------------------------------------
(* The primitives, and the execution of the schedule. *)

Reachable(p) == \A a \in Ancestors(p) : repo.tree[a] = Directory

\* git update-index --add refuses a path within a path.
Accepts(p) == Before(p).entry # Absent => Related(p) \cap Indexed(repo) = {}
Transplanted(p) == [repo EXCEPT !.index[p] = Before(p).entry]

\* What each primitive asks of the place it is about to change.
Able(o) ==
  LET p == o.path
      node == repo.tree[p]
  IN CASE o.phase = "removal" ->
            /\ Reachable(p) /\ node \notin {Absent, Special}
            /\ \A q \in Children(p) : repo.tree[q] = Absent
       [] o.phase = "directory" -> Reachable(p) /\ node = Absent
       [] o.phase = "leaf" ->
            Reachable(p) /\ NodeKind(node) \in {"absent", NodeKind(Before(p).node)}
       [] o.phase = "index" -> Accepts(p)

Effect(o) ==
  LET p == o.path
  IN CASE o.phase = "removal" -> [repo EXCEPT !.tree[p] = Absent]
       [] o.phase = "directory" -> [repo EXCEPT !.tree[p] = Directory]
       [] o.phase = "leaf" -> [repo EXCEPT !.tree[p] = Before(p).node]
       [] o.phase = "index" -> Transplanted(p)

\* What a primitive that fails half-way leaves: a file truncated and not yet
\* written, a link unlinked and not yet made again, or nothing done.
Halfway(o) ==
  {repo}
  \cup {[repo EXCEPT !.tree[o.path] = IF Before(p).node \in Regular THEN Torn ELSE Absent] :
          p \in IF o.phase = "leaf" THEN {o.path} ELSE {}}

Due(o) == /\ states[o] = "pending"
          /\ \A q \in DOMAIN states : Precedes(q, o) => states[q] = "completed"

Becomes(o, state) == states' = [states EXCEPT ![o] = state]

\* The primitive of o: it succeeds, refuses, or fails on the way.
Execute(o) ==
  /\ pc = "execute" /\ Due(o)
  /\ \/ /\ Able(o)
        /\ repo' = Effect(o)
        /\ Becomes(o, "completed")
        /\ pc' = IF \A q \in DOMAIN states \ {o} : states[q] = "completed" THEN "verify" ELSE pc
        /\ UNCHANGED stopped
     \/ /\ \/ ~Able(o) /\ stopped' = "refused" /\ UNCHANGED repo
           \/ Able(o) /\ stopped' = "interrupted" /\ repo' \in Halfway(o)
        /\ Becomes(o, "attempted")
        /\ pc' = "verify"
  /\ UNCHANGED <<oracle, ended, selected, head, budget, plan, frozen, late, report, ending>>

-----------------------------------------------------------------------------
(* The verification, against S as it was frozen. *)

ExecutionStatus(p) ==
  LET mine == {states[o] : o \in {q \in DOMAIN states : p \in Attributed(q)}}
  IN IF mine = {"completed"} THEN "execution_complete"
     ELSE IF mine = {"pending"} THEN "not_attempted" ELSE "failed"

\* The state of the obligation of a phase at a path, if there is one.
ObligationState(phase, p) ==
  LET o == [phase |-> phase, path |-> p]
  IN IF o \in DOMAIN states THEN states[o] ELSE "absent"
\* Fault: only an obligation that completed accounts for a change.
FaultMayHaveMutated(phase, p) == ObligationState(phase, p) = "completed"
MayHaveMutated(phase, p) == ObligationState(phase, p) \in {"attempted", "completed"}

\* The plan's operation at p, if it has one.
Operations == plan.writes \cup DOMAIN plan.parents
Observed(p) == IF p \in plan.writes THEN plan.seen[p] ELSE frozen.domain.states[p]
Target(p) == IF p \in plan.writes THEN Before(p) ELSE plan.parents[p].target

\* The plan lets a member of a watched directory go, come, or change its
\* kind, and the obligation that does it was entered.
Authorized(p, effect) ==
  /\ p \in Operations
  /\ LET from == Observed(p).node
         to == Target(p).node
     IN CASE effect = "disappear" -> from # Absent /\ to = Absent /\ MayHaveMutated("removal", p)
          [] effect = "appear" -> from = Absent /\ to # Absent /\ MayHaveMutated(KindOf(to), p)
          [] effect = "kind_change" ->
               /\ Absent \notin {from, to} /\ KindOf(from) # KindOf(to)
               /\ MayHaveMutated(KindOf(to), p)

Effects(was, is) ==
  [q \in {r \in DOMAIN was \cup DOMAIN is :
            r \in DOMAIN was \cap DOMAIN is => was[r] # is[r]} |->
     IF q \notin DOMAIN is THEN "disappear"
     ELSE IF q \notin DOMAIN was THEN "appear" ELSE "kind_change"]

Unauthorized(live) ==
  UNION {LET effects == Effects(frozen.domain.watches[r], live.watches[r])
         IN {q \in DOMAIN effects : ~Authorized(q, effects[q])}
         : r \in DOMAIN frozen.domain.watches}

\* A path that the verification cannot call changed by this transaction.
Unattributed(p, live) ==
  /\ live.states[p] # frozen.domain.states[p]
  /\ IF p \in selected
     THEN p \notin plan.writes \/ ExecutionStatus(p) = "not_attempted"
     ELSE p \notin DOMAIN plan.parents \/ ObligationState("directory", p) = "pending"

\* Fault: the index is not compared.
FaultNotRestored(p, live) ==
  /\ p \in plan.writes /\ ExecutionStatus(p) = "execution_complete"
  /\ live.states[p].node # Before(p).node

NotRestored(p, live) ==
  p \in plan.writes /\ ExecutionStatus(p) = "execution_complete" /\ live.states[p] # Before(p)

ParentNotVerified(p, live) ==
  /\ p \in DOMAIN plan.parents /\ ObligationState("directory", p) = "completed"
  /\ live.states[p] # plan.parents[p].target

Outcome(p, live) ==
  IF p \notin plan.writes
  THEN IF Unattributed(p, live) THEN "failed" ELSE "already_at_before"
  ELSE IF ExecutionStatus(p) # "execution_complete" THEN ExecutionStatus(p)
       ELSE IF NotRestored(p, live) THEN "failed" ELSE "restored"

Marked(kind, paths) == {kind} \X paths

VerifyPostTransplantState ==
  LET paths == DOMAIN frozen.domain.states
      live == Capture(repo, paths)
  IN /\ pc = "verify"
     /\ report' =
          [outcomes   |-> [p \in selected |-> Outcome(p, live)],
           violations |->
             Marked("unattributed_change", {p \in paths : Unattributed(p, live)})
             \cup Marked("candidate_not_restored", {p \in paths : NotRestored(p, live)})
             \cup Marked("planned_effect_not_verified", {p \in paths : ParentNotVerified(p, live)})
             \cup Marked("unauthorized_topology_change", Unauthorized(live))
             \cup Marked("head_moved", IF head = frozen.head THEN {} ELSE {Root})]
     /\ Stop("verified")
     /\ UNCHANGED <<oracle, ended, selected, repo, head, budget, plan, frozen, states,
                    stopped, late>>

-----------------------------------------------------------------------------
(* The user. *)

\* One change of the checkout at p: a node written, made or removed, or the
\* index brought up to the tree.
Edited(p) ==
  LET node == repo.tree[p]
      saved == IF node = Directory THEN {}
               ELSE {[repo EXCEPT !.tree[p] = n] : n \in Files \cup Links}
      made == IF node = Absent THEN {[repo EXCEPT !.tree[p] = Directory]} ELSE {}
      removed == {[repo EXCEPT !.tree[p] = Absent]}
      staged == IF node \in Files \cup Links \cup {Absent}
                THEN {[repo EXCEPT !.index[p] = node]} ELSE {}
  IN {w \in saved \cup made \cup removed \cup staged : w # repo /\ Coherent(w)}

UserEdits(p) ==
  /\ pc # "done" /\ budget > 0
  /\ repo' \in Edited(p)
  /\ budget' = budget - 1
  /\ late' = IF pc \in {"execute", "verify"} THEN late \cup {p} ELSE late
  /\ UNCHANGED <<oracle, ended, selected, head, pc, plan, frozen, states, stopped,
                 report, ending>>

UserCommits ==
  /\ pc # "done" /\ budget > 0
  /\ head' = head + 1
  /\ budget' = budget - 1
  /\ UNCHANGED <<oracle, ended, selected, repo, pc, plan, frozen, states, stopped,
                 late, report, ending>>

-----------------------------------------------------------------------------
NoTopology == [seen |-> <<>>, writes |-> {}, dependencies |-> {}, parents |-> <<>>,
               conflict |-> FALSE]
NoSnapshot == [domain |-> [states |-> <<>>, watches |-> <<>>], head |-> 0]
NoReport == [outcomes |-> <<>>, violations |-> {}]

Init ==
  /\ \E s \in Scenarios :
       /\ oracle = s.oracle /\ ended = s.ended /\ repo = s.ended
       /\ budget = s.edits
       /\ selected \in SUBSET Candidates(s.oracle, s.ended) \ {{}}
  /\ head = 0
  /\ pc = "plan"
  /\ plan = NoTopology /\ frozen = NoSnapshot
  /\ states = <<>>
  /\ stopped = "none"
  /\ late = {}
  /\ report = NoReport
  /\ ending = "none"

Transaction ==
  \/ PlanSelectiveRestore \/ Freeze \/ Prepare \/ FinalFence
  \/ \E o \in DOMAIN states : Execute(o)
  \/ VerifyPostTransplantState

Next == Transaction \/ (\E p \in Paths : UserEdits(p)) \/ UserCommits

Spec == Init /\ [][Next]_vars

-----------------------------------------------------------------------------
(* Properties. *)

Steps == {"plan", "freeze", "prepare", "fence", "execute", "verify", "done"}
Endings == {"none", "conflicted", "noop", "precondition_changed", "failed", "verified"}
Outcomes == {"already_at_before", "restored", "not_attempted", "failed"}

TypeOK ==
  /\ {oracle, ended, repo} \subseteq Worlds
  /\ selected \subseteq Paths /\ late \subseteq Paths
  /\ head \in Nat /\ budget \in Nat
  /\ pc \in Steps /\ ending \in Endings
  /\ stopped \in {"none", "refused", "interrupted"}
  /\ \A o \in DOMAIN states : states[o] \in {"pending", "attempted", "completed"}
  /\ pc = "done" <=> ending # "none"
  /\ ending = "verified" => report.outcomes \in [selected -> Outcomes]

(***************************************************************************)
(* Whatever the user does before the fence, the transplant changes no path *)
(* outside its plan, and of what it changes only what the session left (or *)
(* nothing): an edit of the user's is overwritten or removed only if it    *)
(* was made after the fence.  (What MODIFIED_SINCE, the stabilization and  *)
(* the fence are for: restore-selective.ts, final-fence.ts.)               *)
(***************************************************************************)
NothingElseDestroyed ==
  [][pc = "execute" /\ states' # states => \A p \in Paths :
       State(repo', p) # State(repo, p) =>
         /\ p \in Operations
         /\ p \in late \/ /\ repo.tree[p] \in {After(p).node, Absent, repo'.tree[p]}
                          /\ repo.index[p] \in {After(p).entry, repo'.index[p]}]_vars

\* The two shapes whose refusal the plan could have foreseen: a directory that
\* is to go and holds a directory no obligation removes; an index entry that is
\* written before the one below or above it is dropped.
HoldsStructure(o) ==
  o.phase = "removal" /\ \E q \in Below(o.path) \ selected : repo.tree[q] = Directory
WrittenTooEarly(o) ==
  o.phase = "index" /\ \E q \in Related(o.path) :
    ObligationState("index", q) = "pending" /\ repo.index[q] # Absent

(***************************************************************************)
(* After the fence a primitive refuses only over what the user did since,  *)
(* or over one of the two shapes: the order of the schedule (removals from *)
(* the bottom, parents from the top, the index last) suits every other     *)
(* tree (transplant-schedule.ts).                                          *)
(***************************************************************************)
RefusalsExplained ==
  stopped = "refused" /\ late = {} =>
    \E o \in DOMAIN states : states[o] = "attempted" /\ (HoldsStructure(o) \/ WrittenTooEarly(o))

(***************************************************************************)
(* What the receipt says of a path is so: one reported restored, or at its *)
(* earlier state already, is exactly as the checkpoint has it, tree and    *)
(* index; one reported not attempted is as the session left it, unless the *)
(* user has edited it since the fence (post-transplant-verification.ts).   *)
(***************************************************************************)
ReportIsTrue ==
  ending = "verified" => \A p \in selected :
    /\ report.outcomes[p] \in {"restored", "already_at_before"} => State(repo, p) = Before(p)
    /\ report.outcomes[p] = "not_attempted" => State(repo, p) = After(p) \/ p \in late

\* A path that is replaced by another kind of node, or a link by a link, and
\* was left without either.
HalfReplaced(p) ==
  /\ p \in plan.writes /\ Before(p).node # Absent
  /\ repo.tree[p] = Absent /\ ExecutionStatus(p) = "failed"

(***************************************************************************)
(* The verification raises no alarm over the program's own work: without   *)
(* an edit or a commit since the fence, a schedule that ran to its end is  *)
(* reported restored everywhere and violates nothing, and one that was cut *)
(* short is blamed at most for the path it was just replacing              *)
(* (post-transplant-verification.ts).                                      *)
(***************************************************************************)
AlarmsExplained ==
  ending = "verified" /\ late = {} /\ head = frozen.head =>
    /\ stopped = "none" => \A p \in selected : report.outcomes[p] \in {"restored", "already_at_before"}
    /\ \A v \in report.violations : v[1] = "unauthorized_topology_change" /\ HalfReplaced(v[2])

(***************************************************************************)
(* "Contains no refusal of its own, deliberately: every deterministic      *)
(* failure was settled by prepareSelectiveTransplant before the marker     *)
(* existed" (transplant-schedule.ts): once the fence has passed, a         *)
(* primitive refuses only what somebody has changed since.                 *)
(***************************************************************************)
PreparedNeverRefuses == stopped = "refused" => late # {}
=============================================================================

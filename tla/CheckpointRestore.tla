-------------------------- MODULE CheckpointRestore --------------------------
(***************************************************************************)
(* A whole-session rollback (`viberevert rollback SESSION --apply`): the   *)
(* refusals, the plan, the emergency checkpoint, the restore with its      *)
(* verification, and the receipt (git/src: checkpoint, snapshots,          *)
(* restore-preflight, restore; cli-commands/src: rollback-locked-phase,    *)
(* rollback-orchestration, emergency-checkpoint).  SelectiveRollback has a *)
(* full apply as one step; here it is taken apart, over a checkout with    *)
(* its commit, its index and its tree.                                     *)
(*                                                                         *)
(* Each phase of the program is one step, but for the capture of the       *)
(* emergency checkpoint: its two lists and its two archives are made by    *)
(* concurrent calls.  Between two steps a user may write a file, stage one *)
(* or commit, and the program may die.  The session's own checkpoint is    *)
(* taken while nobody else writes.                                         *)
(***************************************************************************)
EXTENDS GitWorktree

CONSTANTS
  None,         \* nothing yet
  Commits,      \* what the repository may hold at first
  Excludable,   \* the paths rollback.exclude names, if it names any
  MaxEvents     \* bound: what people do to the checkout and the configuration, and crashes

ASSUME ConstantsAssumption ==
  /\ \A c \in Commits : c \in [Paths -> Entries] /\ IsListing(c)
  /\ Excludable \subseteq Paths
  /\ MaxEvents \in Nat
  /\ None \notin {"head_mismatch", "exclude_drift", "extraction_conflict", "internal",
                  "tracked_dirty_parity", "verification", "succeeded", "crashed"}
  /\ \A ps \in SUBSET Paths : None # ps /\ \A files \in [ps -> Files] : None # files
  /\ None \notin [head : Nat, commit : [Paths -> Entries], index : [Paths -> Entries],
                  tree : [Paths -> Nodes]]

VARIABLES
  repo,        \* the checkout
  events,      \* how many of them have happened
  pc,
  excluded,    \* what rollback.exclude names
  started,     \* the checkout when the session started
  checkpoint,  \* the checkpoint of the session's start
  after,       \* the status taken when it ended
  forced,      \* --force
  seen,        \* what the admission found
  plan,
  patches,     \* the emergency checkpoint's patches, captured before its archives
  lists,       \* the paths its two snapshots are to look at, None before git listed them
  archives,    \* the files they have archived, None before
  saved,       \* the emergency checkpoints
  receipt,     \* of an apply, or None
  ending,      \* how the last run ended
  before,      \* the checkout when the emergency checkpoint was completed
  late         \* what others have changed since the command began, and whether
               \* the lists of the emergency checkpoint were being made by then

session == <<started, checkpoint, after>>
command == <<forced, seen, plan, patches, lists, archives, before>>
restoreVars == <<repo, events, pc, excluded, session, command, saved, receipt, ending, late>>

-----------------------------------------------------------------------------
(* The capture of a checkpoint. *)

\* HEAD and the two patches, each by the version it applies to and the one it makes.
Diffs(w) == [head |-> w.head,
             staged |-> [old |-> w.commit, new |-> w.index],
             unstaged |-> [old |-> w.index, new |-> Worktree(w)]]

\* A tracked path whose directory has become a file cannot be looked at.
Inaccessible(t, ps) == {p \in ps : \E a \in Ancestors(p) : t[a] \in Files}
RegularFiles(t, ps) == [p \in {q \in ps : t[q] \in Files} |-> t[p]]

\* Fault: the tracked paths are those of HEAD.
FaultTracked(w) == Occupied(w.commit)

\* git ls-files.
Tracked(w) == Occupied(w.index)

\* git ls-files --others, less what rollback.exclude names.
Others(w, patterns) == Untracked(w) \ patterns

\* Both snapshots of a checkout nobody touches.
Snapshot(w, patterns) ==
  [dirty |-> TrackedDirty(w),
   tracked |-> RegularFiles(w.tree, Tracked(w)),
   untracked |-> RegularFiles(w.tree, Others(w, patterns)),
   patterns |-> patterns]

SnapshotFails(w) == Inaccessible(w.tree, Tracked(w)) # {}

\* The manifest, with the artifacts it names.
Manifest(diffs, snapshot) ==
  [head |-> diffs.head, staged |-> diffs.staged, unstaged |-> diffs.unstaged,
   dirty |-> snapshot.dirty, tracked |-> snapshot.tracked,
   untracked |-> snapshot.untracked, patterns |-> snapshot.patterns]

Checkpoint(w, patterns) == Manifest(Diffs(w), Snapshot(w, patterns))

-----------------------------------------------------------------------------
(* The phases of the restore: each maps a checkout to what it leaves and   *)
(* how it failed, if it did.                                               *)

Result(w, failure) == [world |-> w, failure |-> failure]
Fine(w) == Result(w, None)

\* Fault: the staged patch is applied to the tree only.
FaultReplay(w, patch, cached) ==
  LET applied == Apply(w, patch.old, patch.new, FALSE)
  IN IF patch.old = patch.new THEN Fine(w)
     ELSE Result(applied.world, IF applied.ok THEN None ELSE "internal")

Replay(w, patch, cached) ==
  LET applied == Apply(w, patch.old, patch.new, cached)
  IN IF patch.old = patch.new THEN Fine(w)
     ELSE Result(applied.world, IF applied.ok THEN None ELSE "internal")

\* Make way for ps, from the root down: links go, and so do empty directories
\* where a file is to be.  The walk ends early below a file.
ClearConflicts(t, ps) ==
  LET visited   == ps \cup Above(ps)
      stopping  == Inaccessible(t, visited)
      reached   == {p \in visited : \A q \in stopping : ShallowestFirst(p, q)}
      cleared   == {p \in reached : t[p] \in Links \/ (p \in ps /\ EmptyAt(t, p))}
      conflicts == {p \in ps : t[p] = Directory /\ ~EmptyAt(t, p)}
  IN [tree |-> [p \in Paths |-> IF p \in cleared THEN Absent ELSE t[p]],
      failure |-> IF stopping # {} THEN "internal"
                  ELSE IF conflicts # {} THEN "extraction_conflict" ELSE None]

Clear(w, ps) == LET c == ClearConflicts(w.tree, ps) IN Result([w EXCEPT !.tree = c.tree], c.failure)

\* The tracked archive, of which the paths ps are wanted.
RestoreTrackedContent(cp, w, ps) ==
  LET c == ClearConflicts(w.tree, ps)
  IN Result([w EXCEPT !.tree = IF c.failure = None THEN Written(c.tree, cp.tracked, ps) ELSE c.tree],
            c.failure)

\* Fault: the sweep is left out.
FaultDeleteUncaptured(cp, w, patterns) == Fine(w)

DeleteUncaptured(cp, w, patterns) ==
  LET deleted == {p \in Untracked(w) \ (patterns \cup DOMAIN cp.untracked) : w.tree[p] \in Files}
  IN Fine([w EXCEPT !.tree = [p \in Paths |-> IF p \in deleted THEN Absent ELSE @[p]]])

\* tar leaves out what it cannot put in its place.
ExtractUntracked(cp, w) ==
  LET out == {p \in DOMAIN cp.untracked : ~Barred(w.tree, p)}
  IN Fine([w EXCEPT !.tree = Written(@, cp.untracked, out)])

VerifyParity(cp, w) ==
  Result(w, IF TrackedDirty(w) = cp.dirty THEN None ELSE "tracked_dirty_parity")

Recorded(cp) == DOMAIN cp.tracked \cup DOMAIN cp.untracked
Drifted(w, hashes) == {p \in DOMAIN hashes : w.tree[p] # hashes[p]}
VerifyHashes(cp, w) ==
  Result(w, IF Inaccessible(w.tree, Recorded(cp)) # {} THEN "internal"
            ELSE IF Drifted(w, cp.tracked) \cup Drifted(w, cp.untracked) # {} THEN "verification"
            ELSE None)

\* HEAD and the exclusions must be what they were at the capture.
Preflight(cp, w, patterns, allowHeadMismatch) ==
  Result(w, IF w.head # cp.head /\ ~allowHeadMismatch THEN "head_mismatch"
            ELSE IF patterns # cp.patterns THEN "exclude_drift" ELSE None)

Phases == <<"preflight", "reset", "staged", "unstaged", "tracked", "sweep", "clear",
            "extract", "parity", "verify">>

Perform(phase, cp, w, patterns, allowHeadMismatch) ==
  CASE phase = "preflight" -> Preflight(cp, w, patterns, allowHeadMismatch)
    [] phase = "reset"     -> Fine(ResetHard(w))
    [] phase = "staged"    -> Replay(w, cp.staged, TRUE)
    [] phase = "unstaged"  -> Replay(w, cp.unstaged, FALSE)
    [] phase = "tracked"   -> RestoreTrackedContent(cp, w, DOMAIN cp.tracked)
    [] phase = "sweep"     -> DeleteUncaptured(cp, w, patterns)
    [] phase = "clear"     -> Clear(w, DOMAIN cp.untracked \ patterns)
    [] phase = "extract"   -> ExtractUntracked(cp, w)
    [] phase = "parity"    -> VerifyParity(cp, w)
    [] phase = "verify"    -> VerifyHashes(cp, w)
    \* in a fresh worktree, the archive is unpacked only where replaying was not enough
    [] phase = "drifted"   -> IF Inaccessible(w.tree, DOMAIN cp.tracked) # {} THEN Result(w, "internal")
                              ELSE RestoreTrackedContent(cp, w, Drifted(w, cp.tracked))

\* One phase after the other, up to the first that fails.
Run(phases, cp, w, patterns, allowHeadMismatch) ==
  LET result[i \in 0 .. Len(phases)] ==
        IF i = 0 THEN Fine(w)
        ELSE IF result[i - 1].failure # None THEN result[i - 1]
        ELSE Perform(phases[i], cp, result[i - 1].world, patterns, allowHeadMismatch)
  IN result[Len(phases)]

\* The checkpoint's commit checked out in a worktree of its own and the
\* checkpoint restored over it: what later steps take for the session's start.
Fresh(w) == [head |-> w.head, commit |-> w.commit, index |-> w.commit,
             tree |-> Written(Nothing, w.commit, Occupied(w.commit))]
\* Fault: the unstaged patch is left to the archive.
FaultFreshPhases == <<"preflight", "staged", "drifted", "clear", "extract", "parity", "verify">>

FreshPhases == <<"preflight", "staged", "unstaged", "drifted", "clear", "extract", "parity", "verify">>
Materialized(cp, w) == Run(FreshPhases, cp, Fresh(w), cp.patterns, FALSE)

-----------------------------------------------------------------------------
(* The session. *)

\* No list and no archive has been made.
Unlisted == [dirty |-> None, tracked |-> None, untracked |-> None]
Unarchived == [tracked |-> None, untracked |-> None]

RestoreInit ==
  /\ \E c \in Commits :
       repo = [head |-> 1, commit |-> c, index |-> c, tree |-> Written(Nothing, c, Occupied(c))]
  /\ events = 0
  /\ pc = "outside"
  /\ excluded = Excludable
  /\ started = None /\ checkpoint = None /\ after = None
  /\ forced = FALSE /\ seen = {} /\ plan = None /\ patches = None /\ before = None
  /\ lists = Unlisted /\ archives = Unarchived
  /\ saved = {} /\ receipt = None /\ ending = None /\ late = {}

StartSession ==
  /\ pc = "outside"
  /\ ~SnapshotFails(repo)
  /\ started' = repo
  /\ checkpoint' = Checkpoint(repo, excluded)
  /\ pc' = "session"
  /\ UNCHANGED <<repo, events, excluded, after, command, saved, receipt, ending, late>>

EndSession ==
  /\ pc = "session"
  /\ after' = StatusItems(repo)
  /\ pc' = "idle"
  /\ UNCHANGED <<repo, events, excluded, started, checkpoint, command, saved, receipt, ending, late>>

-----------------------------------------------------------------------------
(* The run of the command. *)

\* What was changed when the session started or ended.
Familiar == after \cup {Item(p) : p \in checkpoint.dirty \cup DOMAIN checkpoint.untracked}

\* Fault: what the checkpoint itself accounts for is left out.
FaultUnrelated == StatusItems(repo) \ after

Unrelated == StatusItems(repo) \ Familiar

Refusals ==
  (IF receipt # None THEN {"already_applied"} ELSE {})
  \cup (IF repo.head # checkpoint.head THEN {"head_mismatch"} ELSE {})
  \cup (IF after = None THEN {"un_ended_session"}
        ELSE IF Unrelated # {} THEN {"dirty_tree"} ELSE {})

Bypassable == {"head_mismatch", "un_ended_session", "dirty_tree"}

Stop(how) == pc' = "idle" /\ ending' = how

Admit(force) ==
  /\ pc = "idle"
  /\ forced' = force
  /\ seen' = Refusals
  /\ IF Refusals \ (IF force THEN Bypassable ELSE {}) = {}
     THEN pc' = "plan" /\ ending' = None
     ELSE Stop("refused")
  /\ plan' = None /\ patches' = None /\ before' = None /\ late' = {}
  /\ lists' = Unlisted /\ archives' = Unarchived
  /\ UNCHANGED <<repo, events, excluded, session, saved, receipt>>

\* The plan: what differs from the checkpoint, read without touching anything.
\* Fault: what is dirty only now is left out.
FaultPlanned(cp, w, patterns) ==
  LET surplus == Untracked(w) \ DOMAIN cp.untracked
      drifted == Drifted(w, cp.tracked) \cup Drifted(w, cp.untracked)
  IN [tracked_restored |-> Drifted(w, cp.tracked) \cup (cp.dirty \ DOMAIN cp.tracked),
      untracked_restored |-> Drifted(w, cp.untracked),
      untracked_deleted |-> {p \in surplus \ patterns : w.tree[p] \in Files},
      skipped_excluded |-> surplus \cap patterns,
      skipped_unchanged |-> ((cp.dirty \cap DOMAIN cp.tracked) \cup DOMAIN cp.untracked) \ drifted]

Planned(cp, w, patterns) ==
  LET surplus == Untracked(w) \ DOMAIN cp.untracked
      drifted == Drifted(w, cp.tracked) \cup Drifted(w, cp.untracked)
  IN [tracked_restored |-> Drifted(w, cp.tracked) \cup (cp.dirty \ DOMAIN cp.tracked)
                           \cup (TrackedDirty(w) \ cp.dirty),
      untracked_restored |-> Drifted(w, cp.untracked),
      untracked_deleted |-> {p \in surplus \ patterns : w.tree[p] \in Files},
      skipped_excluded |-> surplus \cap patterns,
      skipped_unchanged |-> ((cp.dirty \cap DOMAIN cp.tracked) \cup DOMAIN cp.untracked) \ drifted]

PlanRestore ==
  /\ pc = "plan"
  /\ \/ /\ Inaccessible(repo.tree, Recorded(checkpoint)) # {}
        /\ Stop("plan_failed") /\ UNCHANGED plan
     \/ /\ Inaccessible(repo.tree, Recorded(checkpoint)) = {}
        /\ plan' = Planned(checkpoint, repo, excluded)
        /\ pc' = "diffs" /\ UNCHANGED ending
  /\ UNCHANGED <<repo, events, excluded, session, forced, seen, patches, lists, archives, before,
                 saved, receipt, late>>

\* The emergency checkpoint: the patches first.
CaptureDiffs ==
  /\ pc = "diffs"
  /\ patches' = Diffs(repo)
  /\ pc' = "snapshot"
  /\ UNCHANGED <<repo, events, excluded, session, forced, seen, plan, lists, archives, before,
                 saved, receipt, ending, late>>

\* Then the two snapshots beside each other.  Each has git list its paths by a
\* process of its own (the paths that are dirty, which are never looked at, are
\* listed with the tracked ones) and then archives what stands there: what
\* someone does to a path meanwhile comes before or after it is read.
ListTracked ==
  /\ pc = "snapshot" /\ lists.tracked = None
  /\ lists' = [lists EXCEPT !.dirty = TrackedDirty(repo), !.tracked = Tracked(repo)]
  /\ UNCHANGED <<repo, events, pc, excluded, session, forced, seen, plan, patches, archives,
                 before, saved, receipt, ending, late>>

ListUntracked ==
  /\ pc = "snapshot" /\ lists.untracked = None
  /\ lists' = [lists EXCEPT !.untracked = Others(repo, excluded)]
  /\ UNCHANGED <<repo, events, pc, excluded, session, forced, seen, plan, patches, archives,
                 before, saved, receipt, ending, late>>

Archive(surface) ==
  /\ pc = "snapshot" /\ lists[surface] # None /\ archives[surface] = None
  /\ \/ /\ Inaccessible(repo.tree, lists[surface]) # {}
        /\ Stop("no_recovery") /\ UNCHANGED archives
     \/ /\ Inaccessible(repo.tree, lists[surface]) = {}
        /\ archives' = [archives EXCEPT ![surface] = RegularFiles(repo.tree, lists[surface])]
        /\ UNCHANGED <<pc, ending>>
  /\ UNCHANGED <<repo, events, excluded, session, forced, seen, plan, patches, lists, before,
                 saved, receipt, late>>

\* Both have come back: the manifest is written.
CompleteCheckpoint ==
  /\ pc = "snapshot" /\ archives.tracked # None /\ archives.untracked # None
  /\ saved' = saved \cup {Manifest(patches, [dirty |-> lists.dirty, tracked |-> archives.tracked,
                                             untracked |-> archives.untracked,
                                             patterns |-> excluded])}
  /\ before' = repo
  /\ lists' = Unlisted /\ archives' = Unarchived
  /\ pc' = Phases[1]
  /\ UNCHANGED <<repo, events, excluded, session, forced, seen, plan, patches, receipt, ending, late>>

CaptureSnapshot == \/ ListTracked \/ ListUntracked
                   \/ \E surface \in {"tracked", "untracked"} : Archive(surface)
                   \/ CompleteCheckpoint

Successor(phase) ==
  IF phase = Last(Phases) THEN "receipt"
  ELSE Phases[1 + CHOOSE i \in DOMAIN Phases : Phases[i] = phase]

\* A phase of the restore; the first that fails is the last.
Restore ==
  /\ pc \in Range(Phases)
  /\ LET r == Perform(pc, checkpoint, repo, excluded, forced /\ "head_mismatch" \in seen)
     IN /\ repo' = r.world
        /\ IF r.failure = None
           THEN pc' = Successor(pc) /\ UNCHANGED ending
           ELSE pc' = "receipt" /\ ending' = r.failure
  /\ UNCHANGED <<events, excluded, session, command, saved, receipt, late>>

WriteReceipt ==
  /\ pc = "receipt"
  /\ receipt' = IF ending = None THEN [failure |-> None, results |-> plan]
                ELSE [failure |-> ending, results |-> None]
  /\ Stop(IF ending = None THEN "succeeded" ELSE ending)
  /\ UNCHANGED <<repo, events, excluded, session, command, saved, late>>

-----------------------------------------------------------------------------
(* The surroundings. *)

Running == pc \notin {"outside", "session", "idle"}
Happens(cost) == events + cost <= MaxEvents /\ events' = events + cost

\* The session's process is gone and nobody ends it.
AbandonSession ==
  /\ pc = "session"
  /\ Happens(1)
  /\ pc' = "idle"
  /\ UNCHANGED <<repo, excluded, session, command, saved, receipt, ending, late>>

ProcessDies ==
  /\ Running
  /\ Happens(1)
  /\ Stop("crashed")
  /\ plan' = None /\ patches' = None /\ before' = None
  /\ lists' = Unlisted /\ archives' = Unarchived
  /\ UNCHANGED <<repo, excluded, session, forced, seen, saved, receipt, late>>

\* rollback.exclude is emptied or filled.
Configure ==
  /\ ~Running
  /\ Happens(1)
  /\ excluded' \in {{}, Excludable} \ {excluded}
  /\ UNCHANGED <<repo, pc, session, command, saved, receipt, ending, late>>

\* What someone does to the checkout at p: write it, over whatever is in the
\* way, or delete it and all it holds; git add it, git reset it, or git rm
\* --cached it; or commit.
Changes(w, p) ==
  LET deleted  == [q \in Paths |-> IF IsPrefix(p, q) THEN Absent ELSE w.tree[q]]
      added    == [q \in Paths |-> IF q = p THEN Version(w, p)
                                   ELSE IF w.tree[p] \in Leaves /\ q \in Related(p) THEN Absent
                                   ELSE w.index[q]]
      addable  == p \notin Ignored /\ w.tree[p] # Directory
      reverted == [w.index EXCEPT ![p] = w.commit[p]]
  IN {[w EXCEPT !.tree = Written(@, [q \in {p} |-> v], {p})] : v \in Leaves}
     \cup {[w EXCEPT !.tree = deleted], [w EXCEPT !.index[p] = Absent],
           [w EXCEPT !.index = IF addable THEN added ELSE @],
           [w EXCEPT !.index = IF IsListing(reverted) THEN reverted ELSE @],
           IF w.index = w.commit THEN w ELSE [w EXCEPT !.commit = w.index, !.head = @ + 1]}

\* The lists of the emergency checkpoint are being made, or have been.
Capturing == before # None \/ lists # Unlisted

Work(p) ==
  /\ Happens(IF Running THEN 2 ELSE 1)
  /\ repo' \in Changes(repo, p) \ {repo}
  /\ late' = IF pc \in {"outside", "session"} THEN {} ELSE late \cup {<<p, Capturing>>}
  /\ UNCHANGED <<pc, excluded, session, command, saved, receipt, ending>>

Program == PlanRestore \/ CaptureDiffs \/ CaptureSnapshot \/ Restore \/ WriteReceipt
RestoreNext == \/ StartSession \/ EndSession \/ AbandonSession
        \/ \E force \in BOOLEAN : Admit(force)
        \/ Program \/ ProcessDies
        \/ Configure \/ \E p \in Paths : Work(p)

RestoreSpec == RestoreInit /\ [][RestoreNext]_restoreVars

-----------------------------------------------------------------------------
(* The properties. *)

\* What a checkpoint is of: the index, the tracked files, and the untracked
\* regular files that are not excluded.
Surface(w, patterns) ==
  [index |-> w.index, worktree |-> Worktree(w),
   untracked |-> RegularFiles(w.tree, Untracked(w) \ patterns)]

Undisturbed == late = {} /\ before # None /\ before.head = checkpoint.head

\* A rollback that reports success, over a checkout nobody else has touched,
\* has brought the session's start back: the index as well, and nothing
\* besides, although only dirty paths and hashes were compared.
SuccessIsCheckpoint ==
  ending = "succeeded" /\ Undisturbed
  => Surface(repo, checkpoint.patterns) = Surface(started, checkpoint.patterns)

\* What no checkpoint holds and no sweep removes.
Kept(w, p) == w.tree[p] \in Links \/ (w.tree[p] \in Files /\ p \in Ignored \cup checkpoint.patterns)

\* A path that was new in the index when the session started is in the hands
\* of a file git does not know now, or is a directory with directories in it.
NewPathTaken ==
  \E p \in Occupied(started.index) \ Occupied(started.commit) :
    \/ \E q \in {p} \cup Related(p) : before.tree[q] \in Leaves /\ before.index[q] = Absent
    \/ \E q \in Below(p) : before.tree[q] = Directory

\* An untracked file of the checkpoint has become a directory which the sweep
\* does not empty, or lies behind a file it does not remove.
UntrackedTaken ==
  \E p \in DOMAIN checkpoint.untracked :
    \/ before.tree[p] = Directory /\ \E q \in Below(p) : before.tree[q] = Directory \/ Kept(before, q)
    \/ \E a \in Ancestors(p) : Kept(before, a)

\* A rollback over a checkout nobody else touches does not break off after its
\* reset, whatever the session did to the tree and the index, but for these two
\* (restoreCheckpoint's phases; a second attempt would be refused).
FailuresExplained ==
  ending \in {"internal", "extraction_conflict", "tracked_dirty_parity", "verification"}
    /\ Undisturbed
  => NewPathTaken \/ UntrackedTaken

\* The session's checkpoint and the emergency checkpoints are kept for good; HEAD
\* and the patches are git's to give back.
Holds(cp, p, v) == \/ p \in DOMAIN cp.tracked /\ cp.tracked[p] = v
                   \/ p \in DOMAIN cp.untracked /\ cp.untracked[p] = v

Recoverable(p) ==
  \/ \E cp \in saved \cup {checkpoint} : Holds(cp, p, repo.tree[p])
  \/ repo.tree[p] \in {repo.commit[p], checkpoint.staged.new[p]}

\* What no checkpoint was to hold stands where HEAD or the session's start has
\* something tracked.
InTheWay(w, patterns, p) ==
  /\ p \in Ignored \cup patterns
  /\ ({p} \cup Related(p)) \cap (Occupied(w.commit) \cup Occupied(started.index)) # {}

\* The restore overwrites or deletes no version of a regular file that nothing
\* holds any more, but what was in the way and what someone has touched since the
\* first list of the emergency checkpoint was asked for: written, or moved into
\* the index or out of it.  A file that is staged after the tracked paths were
\* listed and before the untracked ones are is in neither list, and the reset
\* deletes it (createCheckpoint; rollback-contract.md: "We never mutate without a
\* recoverable pre-state snapshot").
NothingLost ==
  [][UNCHANGED events /\ pc \in Range(Phases)
     => \A p \in Paths :
          repo.tree[p] \in Files /\ repo'.tree[p] # repo.tree[p] /\ <<p, TRUE>> \notin late
          => Recoverable(p) \/ InTheWay(repo, excluded, p)]_restoreVars

\* A link stands where a directory held an untracked file of the checkpoint.
LinkInTheWay(p) ==
  before.tree[p] \in Links /\ Below(p) \cap DOMAIN checkpoint.untracked # {}

\* The receipt of a success is the plan made before anything was touched; it
\* names every file that was changed, and what it says was skipped was not
\* changed, but for what was in the way (buildReceiptForApply).
ReceiptIsTrue ==
  ending = "succeeded" /\ Undisturbed
  => LET said(outcome) == receipt.results[outcome]
         changed == said("tracked_restored") \cup said("untracked_restored") \cup said("untracked_deleted")
         spared == said("skipped_excluded") \cup said("skipped_unchanged")
     IN /\ \A p \in Paths \ changed :
             before.tree[p] # repo.tree[p] =>
               Files \cap {before.tree[p], repo.tree[p]} = {} \/ InTheWay(before, checkpoint.patterns, p)
        /\ \A p \in spared : \/ before.tree[p] = repo.tree[p]
                              \/ InTheWay(before, checkpoint.patterns, p)
                              \/ LinkInTheWay(p)

\* A rollback that died can be run again: nothing refuses it that did not refuse
\* the first, but git status.  The restore takes the checkout through states that
\* show a directory whole where its files were shown, and files one by one where
\* an entry above them was all that was shown.  A file it shows is always one that
\* was accounted for, or below one; only where HEAD had moved and the run was
\* forced may the patches leave others.
CrashIsRepeatable ==
  ending = "crashed" /\ late = {}
  => /\ Refusals \subseteq seen \cup {"dirty_tree"}
     /\ "dirty_tree" \in Refusals \ seen /\ "head_mismatch" \notin seen =>
          \A i \in Unrelated : i.directory \/ \E j \in Familiar : IsStrictPrefix(j.path, i.path)

\* The session's start as later steps see it, put together in a worktree of its
\* own without a reset or a sweep, is the session's start (withCheckpointOracle).
OracleIsCheckpoint ==
  pc = "session" /\ repo = started
  => LET r == Materialized(checkpoint, started)
     IN r.failure = None /\ Surface(r.world, {}) = Surface(started, checkpoint.patterns)
=============================================================================

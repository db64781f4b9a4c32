------------------------- MODULE SelectiveRollback --------------------------
(***************************************************************************)
(* `rollback <session> --apply`, selective and whole-session, as the       *)
(* holder of rollback.lock runs it: runLockedRollbackPhase of cli-commands *)
(* and, for a selective apply, the restore transaction of the git package. *)
(* An invocation may fail or die at any step, leaving its lock directory   *)
(* behind; the user, editors and other git commands change the repository  *)
(* between any two of its steps.                                           *)
(*                                                                         *)
(* A managed path is in its pre-session state ("before"), its end-of-      *)
(* session state ("after") or some "other" one; one value stands for both  *)
(* the worktree and the index side of a PathState.  Each path is a change  *)
(* group of its own.  At most one invocation runs: DirLock has the lock.   *)
(***************************************************************************)
EXTENDS Naturals

CONSTANTS Paths,      \* the managed paths the session changed
          Ids,        \* rollback ids generateRollbackId can mint
          NoId,
          Commands,   \* verify.commands are in the session's snapshot
          HEAD,       \* the reference, as an outsider may move it
          MaxEdits    \* bound on the edits by outsiders

ASSUME NoIdAssumption == NoId \notin Ids
ASSUME HEADAssumption == HEAD \notin Paths
ASSUME CommandsAssumption == Commands \in BOOLEAN
ASSUME MaxEditsAssumption == MaxEdits \in Nat

VARIABLES
    pc,            \* the lock holder's next step; "idle" and "stale": no holder
    id,            \* its rollback id, NoId for a whole-session apply
    selected,      \* the paths of the selected change groups
    planned,       \* the states the plan observed on them
    frozen,        \* S and the HEAD captured with it
    recovery,      \* what is known of the emergency checkpoint
    checkpoint,    \* what the emergency checkpoint holds
    fenceMoved,    \* the final fence saw the protected domain differ from S
    progress,      \* progress[p]: the transplant's obligation on p
    transaction,   \* the outcome of runSelectiveRestoreTransaction
    clean,         \* post-transplant verification found everything settled
    execution,     \* how the verification commands ended
    before,        \* observation B, taken before the commands
    integrity,     \* the integrity verdict on the commands
    outcome,       \* what the invocation reports
    attempt,       \* attempt[i]: rollbacks/<i> absent, empty, or with attempt.json
    receipt,       \* receipt[i]: the outcome rollbacks/<i>/receipt.json records
    fullReceipt,   \* rollback-receipt.json exists
    tree,          \* tree[p]: the state of p
    head,          \* HEAD: "start" as at session start, or "moved"
    edits,         \* edits by outsiders so far
    edited         \* what outsiders changed since this run last looked at it

request == <<id, selected>>
evidence == <<planned, frozen, recovery, checkpoint, fenceMoved, progress>>
verdicts == <<clean, execution, before, integrity>>
history == <<attempt, receipt, fullReceipt>>
repository == <<tree, head>>
outside == <<edits, edited>>
vars == <<pc, request, evidence, transaction, verdicts, outcome, history,
          repository, outside>>

States == {"before", "after", "other"}
Heads == {"start", "moved"}
Snapshots == [tree : [Paths -> States], head : Heads]

TransactionSteps == {"capture", "capture_head", "recovery", "validate", "oracle",
                     "prepare", "fence", "fence_head", "publish", "execute",
                     "verify", "observe_before", "commands", "observe_after"}
FullSteps == {"full_plan", "full_emergency", "full_restore", "full_receipt"}
Steps == TransactionSteps \cup FullSteps
             \cup {"admit", "plan", "classify", "inspect", "finalize", "release"}

BeforeRecovery == {"capture_failed", "stabilize_failed", "stabilization_changed"}
AfterRecovery == {"validate_failed", "handle_mismatch", "open_failed",
                  "evidence_failed", "missing_evidence", "fence_changed"}
DirectReceipt == {"verification_failed", "post_marker_failed", "settled",
                  "observation_failed", "observation_torn"}
Transactions == {"none", "recovery_failed", "gate_failed"}
                    \cup BeforeRecovery \cup AfterRecovery \cup DirectReceipt

Outcomes == {"none", "refused", "not_attempted", "recovery_unavailable",
             "publication_indeterminate", "internal_mapping_failure", "succeeded",
             "failed", "not_written", "unreadable_receipt", "full", "threw"}

TypeOK ==
    /\ pc \in Steps \cup {"idle", "stale"}
    /\ id \in Ids \cup {NoId}
    /\ selected \in SUBSET Paths
    /\ planned \in [Paths -> States]
    /\ frozen \in Snapshots
    /\ recovery \in {"not_created", "created", "failed", "indeterminate"}
    /\ checkpoint \in Snapshots
    /\ fenceMoved \in BOOLEAN
    /\ progress \in [Paths -> {"none", "pending", "attempted", "completed"}]
    /\ transaction \in Transactions
    /\ clean \in BOOLEAN
    /\ execution \in {"not_configured", "skipped", "passed", "not_passed"}
    /\ before \in Snapshots
    /\ integrity \in {"not_run", "clean", "not_clean"}
    /\ outcome \in Outcomes
    /\ attempt \in [Ids -> {"absent", "empty", "marker"}]
    /\ receipt \in [Ids -> {"none", "succeeded", "failed"}]
    /\ fullReceipt \in BOOLEAN
    /\ tree \in [Paths -> States]
    /\ head \in Heads
    /\ edits \in 0..MaxEdits
    /\ edited \in SUBSET (Paths \cup {HEAD})

Now == [tree |-> tree, head |-> head]
AtEnd == [tree |-> [p \in Paths |-> "after"], head |-> "start"]

Init == /\ pc = "idle"
        /\ id = NoId
        /\ selected = {}
        /\ planned = AtEnd.tree
        /\ frozen = AtEnd
        /\ recovery = "not_created"
        /\ checkpoint = AtEnd
        /\ fenceMoved = FALSE
        /\ progress = [p \in Paths |-> "none"]
        /\ transaction = "none"
        /\ clean = FALSE
        /\ execution = "not_configured"
        /\ before = AtEnd
        /\ integrity = "not_run"
        /\ outcome = "none"
        /\ attempt = [i \in Ids |-> "absent"]
        /\ receipt = [i \in Ids |-> "none"]
        /\ fullReceipt = FALSE
        /\ tree = AtEnd.tree
        /\ head = AtEnd.head
        /\ edits = 0
        /\ edited = {}

-----------------------------------------------------------------------------
(* The lock holder.  A refused contender changes nothing.                  *)

Goto(step) == pc' = step

(* The run reports result and goes on to release the lock.                 *)
Report(result) == /\ outcome' = result
                  /\ Goto("release")

Fresh(i, paths) == /\ pc = "idle"
                   /\ Goto("admit")
                   /\ id' = i
                   /\ selected' = paths
                   /\ planned' = AtEnd.tree
                   /\ frozen' = AtEnd
                   /\ recovery' = "not_created"
                   /\ checkpoint' = AtEnd
                   /\ fenceMoved' = FALSE
                   /\ progress' = [p \in Paths |-> "none"]
                   /\ transaction' = "none"
                   /\ clean' = FALSE
                   /\ execution' = "not_configured"
                   /\ before' = AtEnd
                   /\ integrity' = "not_run"
                   /\ outcome' = "none"
                   /\ edited' = {}
                   /\ UNCHANGED <<history, repository, edits>>

BeginSelective == \E i \in Ids, paths \in (SUBSET Paths) \ {{}} :
                      /\ attempt[i] = "absent"
                      /\ Fresh(i, paths)

BeginFull == Fresh(NoId, Paths)

Release == /\ pc = "release"
           /\ Goto("idle")
           /\ UNCHANGED <<request, evidence, transaction, verdicts, outcome,
                          history, repository, outside>>

(* rm of the lock directory failed, or the process died at this step.      *)
LeaveLock == /\ pc \in Steps
             /\ Goto("stale")
             /\ UNCHANGED <<request, evidence, transaction, verdicts, outcome,
                            history, repository, outside>>

(* The user removes the lock directory of a run that is gone.              *)
RemoveStaleLock == /\ pc = "stale"
                   /\ Goto("idle")
                   /\ UNCHANGED <<request, evidence, transaction, verdicts, outcome,
                                  history, repository, outside>>

-----------------------------------------------------------------------------
(* Admission, from the history scanned under the lock.                     *)

(* Fault: a marker without a receipt is taken for an attempt never made.   *)
BlockingOnlyFailed(i) == attempt[i] = "marker" /\ receipt[i] = "failed"

(* The scan's blocking invocations: unfinalized, or finalized as failed.   *)
Blocking(i) == attempt[i] = "marker" /\ receipt[i] # "succeeded"

Succeeded(i) == attempt[i] = "marker" /\ receipt[i] = "succeeded"

Admit == /\ pc = "admit"
         /\ \A i \in Ids : ~Blocking(i)
         /\ id = NoId => \A i \in Ids : ~Succeeded(i)
         /\ ~fullReceipt
         /\ Goto(IF id = NoId THEN "full_plan" ELSE "plan")
         /\ UNCHANGED <<request, evidence, transaction, verdicts, outcome,
                        history, repository, outside>>

(* Besides the history: the session is active, HEAD differs, it has no     *)
(* after-status, unrelated paths are dirty, or an artifact is unreadable.  *)
Refuse == /\ pc = "admit"
          /\ Report("refused")
          /\ UNCHANGED <<request, evidence, transaction, verdicts,
                         history, repository, outside>>

-----------------------------------------------------------------------------
(* The selective plan and the steps before anything is created.            *)

(* prepareBoundSelectiveRestore: every selected path is observed.          *)
Plan == /\ pc = "plan"
        /\ planned' = [p \in Paths |-> IF p \in selected THEN tree[p] ELSE "after"]
        /\ Goto("capture")
        /\ UNCHANGED <<request, frozen, recovery, checkpoint, fenceMoved, progress,
                       transaction, verdicts, outcome, history, repository, outside>>

(* The contribution does not verify, the report does not parse, ...        *)
PlanThrows == /\ pc = "plan"
              /\ Report("threw")
              /\ UNCHANGED <<request, evidence, transaction, verdicts,
                             history, repository, outside>>

(* No conflict, and something to restore.                                  *)
Eligible == /\ \A p \in selected : planned[p] # "other"
            /\ \E p \in selected : planned[p] = "after"

(* The transaction ends here with this outcome.                            *)
Stop(result) == /\ transaction' = result
                /\ Goto("classify")

(* A plan that is not eligible cannot be captured for.                     *)
Capture == /\ pc = "capture"
           /\ Eligible
           /\ frozen' = [frozen EXCEPT !.tree = tree]
           /\ Goto("capture_head")
           /\ UNCHANGED <<request, planned, recovery, checkpoint, fenceMoved, progress,
                          transaction, verdicts, outcome, history, repository, outside>>

(* HEAD is read and the plan is stabilized against S.                      *)
CaptureHead == /\ pc = "capture_head"
               /\ frozen' = [frozen EXCEPT !.head = head]
               /\ \A p \in selected : frozen.tree[p] = planned[p]
               /\ Goto("recovery")
               /\ UNCHANGED <<request, planned, recovery, checkpoint, fenceMoved,
                              progress, transaction, verdicts, outcome, history,
                              repository, outside>>

(* S contradicts the plan, also in its topology, or one of the two throws. *)
CaptureFails == /\ \/ pc \in {"capture", "capture_head"} /\ Stop("capture_failed")
                   \/ /\ pc = "capture_head"
                      /\ Stop("stabilize_failed") \/ Stop("stabilization_changed")
                /\ UNCHANGED <<request, evidence, verdicts, outcome, history,
                               repository, outside>>

-----------------------------------------------------------------------------
(* The emergency checkpoint, and what must hold before the gate.           *)

CreateRecovery == /\ pc = "recovery"
                  /\ checkpoint' = Now
                  /\ recovery' = "created"
                  /\ Goto("validate")
                  /\ UNCHANGED <<request, planned, frozen, fenceMoved, progress,
                                 transaction, verdicts, outcome, history,
                                 repository, outside>>

(* A typed failure, or any other throw (a failed lock release included).   *)
CreateRecoveryFails == /\ pc = "recovery"
                       /\ recovery' \in {"failed", "indeterminate"}
                       /\ Stop("recovery_failed")
                       /\ UNCHANGED <<request, planned, frozen, checkpoint, fenceMoved,
                                      progress, verdicts, outcome, history,
                                      repository, outside>>

(* Materialized in a worktree of its own, the checkpoint must equal S.     *)
Validate == /\ pc = "validate"
            /\ checkpoint = frozen
            /\ Goto("oracle")
            /\ UNCHANGED <<request, evidence, transaction, verdicts, outcome,
                           history, repository, outside>>

ValidateFails == /\ pc = "validate"
                 /\ Stop(IF checkpoint = frozen THEN "validate_failed"
                                                ELSE "handle_mismatch")
                 /\ UNCHANGED <<request, evidence, verdicts, outcome, history,
                                repository, outside>>

(* The session-start oracle opens and holds every selected before-state.   *)
OpenOracle == /\ pc = "oracle"
              /\ Goto("prepare")
              /\ UNCHANGED <<request, evidence, transaction, verdicts, outcome,
                             history, repository, outside>>

OpenOracleFails == /\ pc = "oracle"
                   /\ Stop("open_failed") \/ Stop("evidence_failed")
                          \/ Stop("missing_evidence")
                   /\ UNCHANGED <<request, evidence, verdicts, outcome, history,
                                  repository, outside>>

-----------------------------------------------------------------------------
(* The transplant gate: everything decided, the fence, the marker, then    *)
(* the mutation.                                                           *)

Prepare == /\ pc = "prepare"
           /\ progress' = [p \in Paths |->
                  IF p \in selected /\ planned[p] = "after" THEN "pending" ELSE "none"]
           /\ Goto("fence")
           /\ UNCHANGED <<request, planned, frozen, recovery, checkpoint, fenceMoved,
                          transaction, verdicts, outcome, history, repository, outside>>

(* The schedule, the fence's captures or the marker's binding throws.      *)
GateThrows == /\ pc \in {"prepare", "fence", "fence_head"}
              /\ Stop("gate_failed")
              /\ UNCHANGED <<request, evidence, verdicts, outcome, history,
                             repository, outside>>

(* The protected domain is captured again ...                              *)
Fence == /\ pc = "fence"
         /\ fenceMoved' = (tree # frozen.tree)
         /\ edited' = {}
         /\ Goto("fence_head")
         /\ UNCHANGED <<request, planned, frozen, recovery, checkpoint, progress,
                        transaction, verdicts, outcome, history, repository, edits>>

(* Fault: only HEAD is compared with S.                                    *)
FenceHeadOnly == /\ pc = "fence_head"
                 /\ edited' = edited \ {HEAD}
                 /\ IF head # frozen.head
                    THEN Stop("fence_changed")
                    ELSE Goto("publish") /\ UNCHANGED transaction
                 /\ UNCHANGED <<request, evidence, verdicts, outcome, history,
                                repository, edits>>

(* ... and then HEAD; any difference from S refuses.                       *)
FenceHead == /\ pc = "fence_head"
             /\ edited' = edited \ {HEAD}
             /\ IF fenceMoved \/ head # frozen.head
                THEN Stop("fence_changed")
                ELSE Goto("publish") /\ UNCHANGED transaction
             /\ UNCHANGED <<request, evidence, verdicts, outcome, history,
                            repository, edits>>

(* mkdir of rollbacks/<id>, then attempt.json.                             *)
Publish == /\ pc = "publish"
           /\ attempt' = [attempt EXCEPT ![id] = "marker"]
           /\ Goto("execute")
           /\ UNCHANGED <<request, evidence, transaction, verdicts, outcome, receipt,
                          fullReceipt, repository, outside>>

(* It throws before, between or after its two writes.                      *)
PublishFails == /\ pc = "publish"
                /\ \E left \in {"absent", "empty", "marker"} :
                       attempt' = [attempt EXCEPT ![id] = left]
                /\ Stop("gate_failed")
                /\ UNCHANGED <<request, evidence, verdicts, outcome, receipt,
                               fullReceipt, repository, outside>>

(* A primitive is marked attempted first and may mutate before it returns. *)
Attempt(p) == /\ pc = "execute"
              /\ progress[p] = "pending"
              /\ \A q \in Paths : progress[q] # "attempted"
              /\ progress' = [progress EXCEPT ![p] = "attempted"]
              /\ \E v \in {tree[p], "other"} : tree' = [tree EXCEPT ![p] = v]
              /\ UNCHANGED <<pc, request, planned, frozen, recovery, checkpoint,
                             fenceMoved, transaction, verdicts, outcome, history,
                             head, outside>>

Complete(p) == /\ pc = "execute"
               /\ progress[p] = "attempted"
               /\ progress' = [progress EXCEPT ![p] = "completed"]
               /\ tree' = [tree EXCEPT ![p] = "before"]
               /\ UNCHANGED <<pc, request, planned, frozen, recovery, checkpoint,
                              fenceMoved, transaction, verdicts, outcome, history,
                              head, outside>>

(* All is completed, or the primitive under way throws; then taking the    *)
(* progress snapshot may throw, and the gate reports no result.            *)
ExecuteEnds == /\ pc = "execute"
               /\ \/ \A p \in Paths : progress[p] \in {"none", "completed"}
                  \/ \E p \in Paths : progress[p] = "attempted"
               /\ \/ Goto("verify") /\ UNCHANGED transaction
                  \/ Stop("gate_failed")
               /\ UNCHANGED <<request, evidence, verdicts, outcome, history,
                              repository, outside>>

-----------------------------------------------------------------------------
(* Verification of the transplant, then of the project.                    *)

(* A selected path was restored, or was at its before-state all along.     *)
Settled(p) == CASE progress[p] = "completed" -> tree[p] = "before"
                []  progress[p] = "none" -> tree[p] = frozen.tree[p]
                [] OTHER -> FALSE

(* Fault: only the selected paths are looked at again.                     *)
ConsistentUnchecked == head = frozen.head

Consistent == /\ \A p \in Paths \ selected : tree[p] = frozen.tree[p]
              /\ head = frozen.head

Skipped == IF Commands THEN "skipped" ELSE "not_configured"

Verify == /\ pc = "verify"
          /\ edited' = {}
          /\ LET isClean == Consistent /\ \A p \in selected : Settled(p)
             IN  /\ clean' = isClean
                 /\ IF isClean /\ Commands
                    THEN Goto("observe_before") /\ UNCHANGED <<transaction, execution>>
                    ELSE Stop("settled") /\ execution' = Skipped
          /\ UNCHANGED <<request, evidence, before, integrity, outcome, history,
                         repository, edits>>

(* The observation throws, or judging what it found does.                  *)
VerifyThrows == /\ pc = "verify"
                /\ Stop("verification_failed") \/ Stop("post_marker_failed")
                /\ execution' = Skipped
                /\ UNCHANGED <<request, evidence, clean, before, integrity, outcome,
                               history, repository, outside>>

ObserveBefore == /\ pc = "observe_before"
                 /\ before' = Now
                 /\ Goto("commands")
                 /\ UNCHANGED <<request, evidence, transaction, clean, execution,
                                integrity, outcome, history, repository, outside>>

ObserveBeforeFails == /\ pc = "observe_before"
                      /\ Stop("observation_failed") \/ Stop("observation_torn")
                      /\ execution' = "skipped"
                      /\ integrity' = "not_clean"
                      /\ UNCHANGED <<request, evidence, clean, before, outcome,
                                     history, repository, outside>>

(* The project's own commands may change any path, or commit.              *)
CommandWrites(p) == /\ pc = "commands"
                    /\ tree' = [tree EXCEPT ![p] = "other"]
                    /\ UNCHANGED <<pc, request, evidence, transaction, verdicts,
                                   outcome, history, head, outside>>

CommandCommits == /\ pc = "commands"
                  /\ head' = "moved"
                  /\ UNCHANGED <<pc, request, evidence, transaction, verdicts,
                                 outcome, history, tree, outside>>

RunCommands == /\ pc = "commands"
               /\ execution' \in {"passed", "not_passed"}
               /\ Goto("observe_after")
               /\ UNCHANGED <<request, evidence, transaction, clean, before,
                              integrity, outcome, history, repository, outside>>

ObserveAfter == /\ pc = "observe_after"
                /\ integrity' = IF Now = before THEN "clean" ELSE "not_clean"
                /\ Stop("settled")
                /\ UNCHANGED <<request, evidence, clean, execution, before, outcome,
                               history, repository, outside>>

(* It throws, tears, or the two observations cannot be compared.           *)
ObserveAfterFails == /\ pc = "observe_after"
                     /\ integrity' = "not_clean"
                     /\ Stop("observation_torn") \/ Stop("settled")
                     /\ UNCHANGED <<request, evidence, clean, execution, before,
                                    outcome, history, repository, outside>>

-----------------------------------------------------------------------------
(* What the invocation makes of the transaction's outcome.                 *)

(* Fault: a gate that failed is taken to have published nothing.           *)
VerdictOptimistic ==
    CASE recovery = "created" /\ transaction \in DirectReceipt -> "finalize"
      [] recovery \in {"failed", "indeterminate"} -> "recovery_unavailable"
      [] OTHER -> "not_attempted"

(* The next step, or the outcome when there is none.                       *)
Verdict ==
    CASE recovery = "not_created" /\ transaction \in BeforeRecovery -> "not_attempted"
      [] recovery \in {"failed", "indeterminate"} /\ transaction = "recovery_failed"
             -> "recovery_unavailable"
      [] recovery = "created" /\ transaction \in AfterRecovery -> "not_attempted"
      [] recovery = "created" /\ transaction \in DirectReceipt -> "finalize"
      [] recovery = "created" /\ transaction = "gate_failed" -> "inspect"
      [] OTHER -> "internal_mapping_failure"

Classify == /\ pc = "classify"
            /\ IF Verdict \in {"finalize", "inspect"}
               THEN Goto(Verdict) /\ UNCHANGED outcome
               ELSE Report(Verdict)
            /\ UNCHANGED <<request, evidence, transaction, verdicts, history,
                           repository, outside>>

(* Fault: an unpublished attempt is classified anew.                       *)
InspectAgain == /\ pc = "inspect"
                /\ IF attempt[id] = "marker" THEN Goto("finalize") ELSE Goto("classify")
                /\ UNCHANGED <<request, evidence, transaction, verdicts, outcome,
                               history, repository, outside>>

(* Only this invocation's directory is read back.                          *)
Inspect == /\ pc = "inspect"
           /\ IF attempt[id] = "marker" THEN Goto("finalize") /\ UNCHANGED outcome
                                        ELSE Report("not_attempted")
           /\ UNCHANGED <<request, evidence, transaction, verdicts, history,
                          repository, outside>>

(* It cannot be read, or does not describe this attempt.                   *)
InspectFails == /\ pc = "inspect"
                /\ Report("publication_indeterminate")
                /\ UNCHANGED <<request, evidence, transaction, verdicts, history,
                               repository, outside>>

Result == IF /\ clean
             /\ execution \in {"not_configured", "passed"}
             /\ integrity \in {"not_run", "clean"}
          THEN "succeeded" ELSE "failed"

(* receipt.json is linked into place, or already holds the same bytes.     *)
Finalize == /\ pc = "finalize"
            /\ receipt' = [receipt EXCEPT ![id] = Result]
            /\ Report(Result)
            /\ UNCHANGED <<request, evidence, transaction, verdicts, attempt,
                           fullReceipt, repository, outside>>

(* It cannot be mapped or written, or not be read back after a rejection.  *)
FinalizeFails == /\ pc = "finalize"
                 /\ \/ Report("not_written") /\ UNCHANGED receipt
                    \/ /\ Report("unreadable_receipt")
                       /\ receipt' \in {receipt, [receipt EXCEPT ![id] = Result]}
                 /\ UNCHANGED <<request, evidence, transaction, verdicts, attempt,
                                fullReceipt, repository, outside>>

-----------------------------------------------------------------------------
(* The whole-session engine: emergency checkpoint, restore, receipt.       *)

FullPlan == /\ pc = "full_plan"
            /\ Goto("full_emergency")
            /\ UNCHANGED <<request, evidence, transaction, verdicts, outcome,
                           history, repository, outside>>

(* The plan throws, no emergency checkpoint is made, or no receipt.        *)
FullThrows == /\ pc \in {"full_plan", "full_emergency", "full_receipt"}
              /\ Report("threw")
              /\ UNCHANGED <<request, evidence, transaction, verdicts, history,
                             repository, outside>>

FullEmergency == /\ pc = "full_emergency"
                 /\ checkpoint' = Now
                 /\ recovery' = "created"
                 /\ edited' = {}
                 /\ Goto("full_restore")
                 /\ UNCHANGED <<request, planned, frozen, fenceMoved, progress,
                                transaction, verdicts, outcome, history,
                                repository, edits>>

(* git reset --hard: tracked paths are as in HEAD, untracked ones remain.  *)
FullReset == /\ pc = "full_restore"
             /\ \A p \in Paths : progress[p] = "none"
             /\ progress' = [p \in Paths |-> "attempted"]
             /\ tree' \in [Paths -> States]
             /\ \A p \in Paths : tree'[p] \in {tree[p], "before", "other"}
             /\ UNCHANGED <<pc, request, planned, frozen, recovery, checkpoint,
                            fenceMoved, transaction, verdicts, outcome, history,
                            head, outside>>

(* Patches, captured bytes, the delete sweep and the archive.              *)
FullReplay(p) == /\ pc = "full_restore"
                 /\ progress[p] = "attempted"
                 /\ progress' = [progress EXCEPT ![p] = "completed"]
                 /\ tree' = [tree EXCEPT ![p] = "before"]
                 /\ UNCHANGED <<pc, request, planned, frozen, recovery, checkpoint,
                                fenceMoved, transaction, verdicts, outcome,
                                history, head, outside>>

(* Done or failed, here or at any point before: there will be a receipt.   *)
FullRestoreEnds == /\ pc = "full_restore"
                   /\ Goto("full_receipt")
                   /\ UNCHANGED <<request, evidence, transaction, verdicts, outcome,
                                  history, repository, outside>>

FullReceipt == /\ pc = "full_receipt"
               /\ fullReceipt' = TRUE
               /\ Report("full")
               /\ UNCHANGED <<request, evidence, transaction, verdicts, attempt,
                              receipt, repository, outside>>

-----------------------------------------------------------------------------
(* Everybody else.                                                         *)

Edit(p) == /\ edits < MaxEdits
           /\ edits' = edits + 1
           /\ \E v \in States \ {tree[p]} : tree' = [tree EXCEPT ![p] = v]
           /\ edited' = edited \cup {p}
           /\ UNCHANGED <<pc, request, evidence, transaction, verdicts, outcome,
                          history, head>>

(* A commit or a checkout moves HEAD, or moves it back.                    *)
MoveHead == /\ edits < MaxEdits
            /\ edits' = edits + 1
            /\ head' \in Heads \ {head}
            /\ edited' = edited \cup {HEAD}
            /\ UNCHANGED <<pc, request, evidence, transaction, verdicts, outcome,
                           history, tree>>

-----------------------------------------------------------------------------
Decide == Admit \/ Refuse \/ Plan \/ PlanThrows

Transaction ==
    \/ Capture \/ CaptureHead \/ CaptureFails
    \/ CreateRecovery \/ CreateRecoveryFails
    \/ Validate \/ ValidateFails \/ OpenOracle \/ OpenOracleFails
    \/ Prepare \/ GateThrows \/ Fence \/ FenceHead \/ Publish \/ PublishFails
    \/ \E p \in Paths : Attempt(p) \/ Complete(p)
    \/ ExecuteEnds \/ Verify \/ VerifyThrows
    \/ ObserveBefore \/ ObserveBeforeFails \/ RunCommands
    \/ ObserveAfter \/ ObserveAfterFails

Settle == Classify \/ Inspect \/ InspectFails \/ Finalize \/ FinalizeFails

FullApply == \/ FullPlan \/ FullThrows \/ FullEmergency \/ FullReset
             \/ \E p \in Paths : FullReplay(p)
             \/ FullRestoreEnds \/ FullReceipt

Advance == Decide \/ Transaction \/ Settle \/ FullApply \/ Release

Next == \/ BeginSelective \/ BeginFull \/ Advance \/ LeaveLock \/ RemoveStaleLock
        \/ \E p \in Paths : CommandWrites(p)
        \/ CommandCommits
        \/ \E p \in Paths : Edit(p)
        \/ MoveHead

Spec == Init /\ [][Next]_vars

(* A running process keeps executing its statements, and the git and       *)
(* verification commands it waits for end or are timed out.                *)
FairSpec == Spec /\ WF_vars(Advance)

-----------------------------------------------------------------------------
(* The records on disk follow RollbackJournal: mutation is authorized only *)
(* when every earlier apply succeeded and none was whole-session, and each *)
(* authorization is finalized at most once, whatever crashed in between.   *)
Journal(i) == IF attempt[i] # "marker" THEN "none"
              ELSE IF receipt[i] = "none" THEN "authorized" ELSE receipt[i]

Store == INSTANCE RollbackJournal WITH journal <- [i \in Ids |-> Journal(i)],
                                       full <- fullReceipt

ImplementsJournal == Store!Spec

(* No engine overwrites a path whose state the emergency checkpoint does   *)
(* not hold, unless an outsider changed it after the engine's last look;   *)
(* the transplant also never writes onto another HEAD than the recorded    *)
(* one.                                                                    *)
FirstTouched(p) == /\ pc \in {"execute", "full_restore"}
                   /\ progress[p] \in {"none", "pending"}
                   /\ progress'[p] \in {"attempted", "completed"}

SavedBeforeOverwritten ==
    [][\A p \in Paths : FirstTouched(p) =>
           /\ recovery = "created"
           /\ p \in edited \/ checkpoint.tree[p] = tree[p]
           /\ HEAD \in edited \/ checkpoint.head = head]_vars

(* After a selective apply reported as succeeded, every selected path is   *)
(* in its pre-session state and every other one as the transaction found   *)
(* it, HEAD too, except for what outsiders changed since verification.     *)
SucceededIsRestored ==
    outcome = "succeeded" =>
        /\ \A p \in selected : p \in edited \/ tree[p] = "before"
        /\ \A p \in Paths \ selected : p \in edited \/ tree[p] = frozen.tree[p]
        /\ HEAD \in edited \/ head = frozen.head

(* What a selective apply reports is what it left: nothing was touched or  *)
(* authorized when it says so, and a final outcome is on disk as reported. *)
NothingDone == /\ attempt[id] # "marker"
               /\ \A p \in Paths : progress[p] \in {"none", "pending"}

ReportMatchesDisk ==
    id # NoId =>
        /\ outcome \in {"not_attempted", "recovery_unavailable", "refused", "threw"}
               => NothingDone
        /\ outcome \in {"succeeded", "failed"}
               => attempt[id] = "marker" /\ receipt[id] = outcome
        /\ outcome = "not_written" => attempt[id] = "marker" /\ receipt[id] = "none"
        /\ outcome # "internal_mapping_failure"

(* Each engine mutates only a session whose history the other has left     *)
(* alone, and the transplant only under its own marker, with no receipt.   *)
EnginesDoNotMix ==
    /\ pc = "execute" => /\ attempt[id] = "marker" /\ receipt[id] = "none"
                         /\ ~fullReceipt
                         /\ \A i \in Ids \ {id} : attempt[i] = "marker"
                                                    => receipt[i] = "succeeded"
    /\ pc \in {"full_restore", "full_receipt"} =>
           /\ ~fullReceipt
           /\ \A i \in Ids : attempt[i] # "marker"

(* An invocation always ends: it reports and releases the lock, or leaves  *)
(* it behind.                                                              *)
RunsEnd == pc # "idle" ~> pc \in {"idle", "stale"}
=============================================================================

---------------------- MODULE SelectiveRollbackProofs ----------------------
(***************************************************************************)
(* SelectiveRollback for any paths, rollback ids and bound on edits, with  *)
(* and without verification commands: types, the four safety properties    *)
(* and the refinement of RollbackJournal.                                  *)
(***************************************************************************)
EXTENDS SelectiveRollback, TLAPS

SelectiveSteps == TransactionSteps \cup {"plan", "classify", "inspect", "finalize"}

(* A selective run has an id of its own; a whole-session run has none.     *)
Typed == /\ TypeOK
         /\ pc \in SelectiveSteps => id \in Ids
         /\ pc \in FullSteps => id = NoId

BeforePublish == {"plan", "capture", "capture_head", "recovery", "validate",
                  "oracle", "prepare", "fence", "fence_head", "publish"}
AfterPublish == {"execute", "verify", "observe_before", "commands",
                 "observe_after", "finalize"}

(* What the scan under the lock found of other runs stays true until the   *)
(* run ends; its own records say how far it got.                           *)
JournalInv ==
    /\ \A i \in Ids : attempt[i] # "marker" => receipt[i] = "none"
    /\ pc = "admit" /\ id # NoId => attempt[id] # "marker"
    /\ pc \in SelectiveSteps =>
          /\ ~fullReceipt
          /\ receipt[id] = "none"
          /\ \A i \in Ids \ {id} : attempt[i] = "marker" => receipt[i] = "succeeded"
    /\ pc \in BeforePublish => attempt[id] # "marker"
    /\ pc \in AfterPublish => attempt[id] = "marker"
    /\ pc = "classify" =>
          /\ transaction \in DirectReceipt => attempt[id] = "marker"
          /\ transaction \notin DirectReceipt \cup {"gate_failed"} => attempt[id] # "marker"
    /\ pc \in FullSteps =>
          /\ ~fullReceipt
          /\ \A i \in Ids : attempt[i] # "marker"

Untouched == \A p \in Paths : progress[p] \in {"none", "pending"}

(* The recovery state the callback recorded agrees with the step at which  *)
(* the transaction stopped.                                                *)
EpochInv ==
    /\ pc \in {"admit", "plan", "capture", "capture_head", "recovery"}
          => recovery = "not_created"
    /\ pc \in {"validate", "oracle", "prepare", "fence", "fence_head", "publish",
               "inspect"} \cup AfterPublish => recovery = "created"
    /\ pc = "classify" =>
          \/ recovery = "not_created" /\ transaction \in BeforeRecovery
          \/ recovery \in {"failed", "indeterminate"} /\ transaction = "recovery_failed"
          \/ /\ recovery = "created"
             /\ transaction \in AfterRecovery \cup DirectReceipt \cup {"gate_failed"}
    /\ pc \in BeforePublish \cup {"admit"} => Untouched
    /\ pc \in {"classify", "inspect"} /\ attempt[id] # "marker" => Untouched

ReportInv == /\ pc \notin {"release", "idle", "stale"} => outcome = "none"
             /\ ReportMatchesDisk

(* Since the last look at it, only outsiders changed what the emergency    *)
(* checkpoint holds.                                                       *)
Held(snapshot, p) == p \in edited \/ tree[p] = snapshot.tree[p]
HeldHead(snapshot) == HEAD \in edited \/ head = snapshot.head

SavedInv ==
    /\ pc \in {"oracle", "prepare", "fence", "fence_head", "publish", "execute"}
          => checkpoint = frozen
    /\ pc = "fence_head" /\ ~fenceMoved => \A p \in Paths : Held(frozen, p)
    /\ pc \in {"publish", "execute"} =>
          /\ HeldHead(frozen)
          /\ \A p \in Paths : progress[p] \in {"none", "pending"} => Held(frozen, p)
    /\ pc = "full_restore" =>
          /\ recovery = "created"
          /\ HeldHead(checkpoint)
          /\ \A p \in Paths : progress[p] = "attempted"
                                 \/ progress[p] = "completed" \/ Held(checkpoint, p)

(* The plan still describes S, and the obligations are the plan's.         *)
PlanInv ==
    /\ pc = "capture_head" => \A p \in selected : planned[p] # "other"
    /\ pc \in {"execute", "verify"}
              \cup (BeforePublish \ {"plan", "capture", "capture_head"}) =>
          \A p \in selected : /\ frozen.tree[p] = planned[p]
                              /\ planned[p] # "other"
    /\ pc \in {"fence", "fence_head", "publish", "execute", "verify"} =>
          \A p \in selected : progress[p] = "none" => planned[p] = "before"

(* Every selected path restored and nothing else moved: now, or when the   *)
(* commands were about to run.                                             *)
Restored == /\ \A p \in selected : p \in edited \/ tree[p] = "before"
            /\ \A p \in Paths \ selected : Held(frozen, p)
            /\ HeldHead(frozen)
RestoredBefore ==
    /\ \A p \in selected : p \in edited \/ before.tree[p] = "before"
    /\ \A p \in Paths \ selected : p \in edited \/ before.tree[p] = frozen.tree[p]
    /\ HEAD \in edited \/ before.head = frozen.head

RestoredInv ==
    /\ pc \in {"admit", "execute", "verify"} \cup BeforePublish => ~clean /\ integrity = "not_run"
    /\ pc \in {"observe_before", "commands"} => integrity = "not_run"
    /\ pc = "observe_before" => Restored
    /\ pc \in {"commands", "observe_after"} => RestoredBefore
    /\ pc \in {"classify", "inspect", "finalize"} /\ Result = "succeeded" => Restored
    /\ outcome = "succeeded" => Restored

Inv == /\ Typed
       /\ JournalInv
       /\ EpochInv
       /\ ReportInv
       /\ SavedInv
       /\ PlanInv
       /\ RestoredInv

LEMMA InitInv == Init => Inv
<1> SUFFICES ASSUME Init PROVE Inv
  OBVIOUS
<1> USE NoIdAssumption DEF Init, AtEnd
<1>1. Typed
  <2>1. 0 \in 0..MaxEdits
    BY MaxEditsAssumption
  <2>2. AtEnd \in Snapshots
    BY DEF Snapshots, States, Heads
  <2> QED
    BY <2>1, <2>2 DEF Typed, TypeOK, SelectiveSteps, Steps, TransactionSteps,
         FullSteps, Transactions, BeforeRecovery, AfterRecovery, DirectReceipt,
         Outcomes, States, Heads
<1>2. JournalInv /\ EpochInv
  BY DEF JournalInv, EpochInv, SelectiveSteps, TransactionSteps, FullSteps,
         BeforePublish, AfterPublish, Untouched
<1>3. ReportInv
  BY DEF ReportInv, ReportMatchesDisk
<1>4. SavedInv /\ PlanInv /\ RestoredInv
  BY DEF SavedInv, PlanInv, RestoredInv, BeforePublish, AfterPublish
<1> QED
  BY <1>1, <1>2, <1>3, <1>4 DEF Inv

LEMMA SnapshotType ==
    /\ AtEnd \in Snapshots /\ AtEnd.tree \in [Paths -> States]
    /\ [p \in Paths |-> "none"] \in [Paths -> {"none", "pending", "attempted", "completed"}]
BY DEF AtEnd, Snapshots, States, Heads

(* A run begins with nothing decided.                                      *)
LEMMA FreshType ==
    ASSUME TypeOK, NEW i \in Ids \cup {NoId}, NEW paths \in SUBSET Paths, Fresh(i, paths)
    PROVE  TypeOK'
<1>1. /\ planned' \in [Paths -> States]
      /\ frozen' \in Snapshots /\ checkpoint' \in Snapshots /\ before' \in Snapshots
      /\ progress' \in [Paths -> {"none", "pending", "attempted", "completed"}]
  BY SnapshotType DEF Fresh
<1>2. UNCHANGED <<attempt, receipt, fullReceipt, tree, head, edits>>
  BY DEF Fresh, history, repository
<1>3. /\ pc' = "admit" /\ id' = i /\ selected' = paths /\ recovery' = "not_created"
      /\ fenceMoved' = FALSE /\ transaction' = "none" /\ clean' = FALSE
      /\ execution' = "not_configured" /\ integrity' = "not_run" /\ outcome' = "none"
      /\ edited' = {}
  BY DEF Fresh, Goto
<1> QED
  BY <1>1, <1>2, <1>3 DEF TypeOK, Steps, TransactionSteps, FullSteps, Transactions, Outcomes

(* Types, and whose run it is.                                            *)
LEMMA TypeKeeps ==
    ASSUME Typed, [Next]_vars
    PROVE  Typed'
<1> USE NoIdAssumption, CommandsAssumption, MaxEditsAssumption DEF Typed,
        TypeOK, Now, AtEnd, Skipped, Snapshots, States, Heads, Goto, Report,
        Stop, Fresh, Steps, TransactionSteps, FullSteps, SelectiveSteps,
        Transactions, BeforeRecovery, AfterRecovery, DirectReceipt, Outcomes,
        request, evidence, verdicts, history, repository, outside
<1>1. CASE BeginSelective
  <2>1. PICK i \in Ids, paths \in (SUBSET Paths) \ {{}} : Fresh(i, paths)
    BY <1>1 DEF BeginSelective
  <2>2. pc' = "admit" /\ id' = i /\ i \in Ids
    BY <2>1
  <2>3. selected' \in SUBSET Paths
    BY <2>1
  <2>4. TypeOK'
    BY <2>1, <2>2, FreshType
  <2> QED
    BY <2>2, <2>4
<1>2. CASE BeginFull
  BY <1>2 DEF BeginFull
<1>3. CASE Admit \/ Refuse \/ Plan \/ PlanThrows
  BY <1>3 DEF Admit, Refuse, Plan, PlanThrows, Blocking, Succeeded
<1>4. CASE Capture \/ CaptureHead \/ CaptureFails
  BY <1>4 DEF Capture, CaptureHead, CaptureFails, Eligible
<1>5. CASE CreateRecovery \/ CreateRecoveryFails \/ Validate \/ ValidateFails
  BY <1>5 DEF CreateRecovery, CreateRecoveryFails, Validate, ValidateFails
<1>6. CASE OpenOracle \/ OpenOracleFails \/ Prepare \/ GateThrows
  BY <1>6 DEF OpenOracle, OpenOracleFails, Prepare, GateThrows
<1>7. CASE Fence
  BY <1>7 DEF Fence
<1>8. CASE FenceHead
  BY <1>8 DEF FenceHead
<1>9. CASE Publish
  BY <1>9 DEF Publish
<1>10. CASE PublishFails
  BY <1>10 DEF PublishFails
<1>11. CASE \E p \in Paths : Attempt(p)
  BY <1>11 DEF Attempt
<1>12. CASE \E p \in Paths : Complete(p)
  BY <1>12 DEF Complete
<1>13. CASE ExecuteEnds
  BY <1>13 DEF ExecuteEnds
<1>14. CASE Verify
  BY <1>14 DEF Verify, Consistent, Settled, Skipped
<1>15. CASE VerifyThrows
  BY <1>15 DEF VerifyThrows, Skipped
<1>16. CASE ObserveBefore \/ ObserveBeforeFails \/ RunCommands \/ ObserveAfter
          \/ ObserveAfterFails
  BY <1>16 DEF ObserveBefore, ObserveBeforeFails, RunCommands, ObserveAfter,
         ObserveAfterFails
<1>17. CASE Classify \/ Inspect \/ InspectFails
  BY <1>17 DEF Classify, Inspect, InspectFails, Verdict
<1>18. CASE Finalize
  BY <1>18 DEF Finalize, Result
<1>19. CASE FinalizeFails
  BY <1>19 DEF FinalizeFails, Result
<1>20. CASE FullPlan \/ FullThrows \/ FullRestoreEnds
  BY <1>20 DEF FullPlan, FullThrows, FullRestoreEnds
<1>21. CASE FullEmergency
  BY <1>21 DEF FullEmergency
<1>22. CASE FullReceipt
  BY <1>22 DEF FullReceipt
<1>23. CASE FullReset
  BY <1>23 DEF FullReset
<1>24. CASE \E p \in Paths : FullReplay(p)
  BY <1>24 DEF FullReplay
<1>25. CASE Release \/ LeaveLock \/ RemoveStaleLock
  BY <1>25 DEF Release, LeaveLock, RemoveStaleLock
<1>26. CASE \E p \in Paths : CommandWrites(p)
  BY <1>26 DEF CommandWrites
<1>27. CASE CommandCommits
  BY <1>27 DEF CommandCommits
<1>28. CASE \E p \in Paths : Edit(p)
  BY <1>28 DEF Edit
<1>29. CASE MoveHead
  BY <1>29 DEF MoveHead
<1>30. CASE UNCHANGED vars
  BY <1>30 DEF vars
<1> QED
  BY <1>1, <1>2, <1>3, <1>4, <1>5, <1>6, <1>7, <1>8, <1>9, <1>10, <1>11,
     <1>12, <1>13, <1>14, <1>15, <1>16, <1>17, <1>18, <1>19, <1>20, <1>21,
     <1>22, <1>23, <1>24, <1>25, <1>26, <1>27, <1>28, <1>29, <1>30
     DEF Next, Advance, Decide, Transaction, Settle, FullApply

(* Only this run's records change, and only at its publication and end.    *)
LEMMA JournalKeeps ==
    ASSUME Typed, JournalInv, [Next]_vars
    PROVE  JournalInv'
<1> USE NoIdAssumption DEF Typed, TypeOK, JournalInv, Goto, Report, Stop,
        Fresh, Steps, TransactionSteps, FullSteps, SelectiveSteps,
        BeforePublish, AfterPublish, Transactions, BeforeRecovery,
        AfterRecovery, DirectReceipt, Outcomes, request, evidence, verdicts,
        history, repository, outside
<1>1. CASE BeginSelective \/ BeginFull
  BY <1>1 DEF BeginSelective, BeginFull
<1>2. CASE Admit \/ Refuse \/ Plan \/ PlanThrows
  BY <1>2 DEF Admit, Refuse, Plan, PlanThrows, Blocking, Succeeded
<1>3. CASE Capture \/ CaptureHead \/ CaptureFails
  BY <1>3 DEF Capture, CaptureHead, CaptureFails, Eligible
<1>4. CASE CreateRecovery \/ CreateRecoveryFails \/ Validate \/ ValidateFails
  BY <1>4 DEF CreateRecovery, CreateRecoveryFails, Validate, ValidateFails
<1>5. CASE OpenOracle \/ OpenOracleFails \/ Prepare \/ GateThrows
  BY <1>5 DEF OpenOracle, OpenOracleFails, Prepare, GateThrows
<1>6. CASE Fence \/ FenceHead
  BY <1>6 DEF Fence, FenceHead
<1>7. CASE Publish \/ PublishFails
  BY <1>7 DEF Publish, PublishFails
<1>8. CASE (\E p \in Paths : Attempt(p)) \/ (\E p \in Paths : Complete(p))
  BY <1>8 DEF Attempt, Complete
<1>9. CASE ExecuteEnds \/ Verify \/ VerifyThrows
  BY <1>9 DEF ExecuteEnds, Verify, VerifyThrows, Consistent, Settled, Skipped
<1>10. CASE ObserveBefore \/ ObserveBeforeFails \/ RunCommands \/ ObserveAfter
          \/ ObserveAfterFails
  BY <1>10 DEF ObserveBefore, ObserveBeforeFails, RunCommands, ObserveAfter,
         ObserveAfterFails
<1>11. CASE Classify \/ Inspect \/ InspectFails
  BY <1>11 DEF Classify, Inspect, InspectFails, Verdict
<1>12. CASE Finalize \/ FinalizeFails
  BY <1>12 DEF Finalize, FinalizeFails, Result
<1>13. CASE FullPlan \/ FullThrows \/ FullEmergency \/ FullRestoreEnds \/
          FullReceipt
  BY <1>13 DEF FullPlan, FullThrows, FullEmergency, FullRestoreEnds,
         FullReceipt
<1>14. CASE FullReset \/ (\E p \in Paths : FullReplay(p))
  BY <1>14 DEF FullReset, FullReplay
<1>15. CASE Release \/ LeaveLock \/ RemoveStaleLock
  BY <1>15 DEF Release, LeaveLock, RemoveStaleLock
<1>16. CASE (\E p \in Paths : CommandWrites(p)) \/ CommandCommits
  BY <1>16 DEF CommandWrites, CommandCommits
<1>17. CASE (\E p \in Paths : Edit(p)) \/ MoveHead
  BY <1>17 DEF Edit, MoveHead
<1>18. CASE UNCHANGED vars
  BY <1>18 DEF vars
<1> QED
  BY <1>1, <1>2, <1>3, <1>4, <1>5, <1>6, <1>7, <1>8, <1>9, <1>10, <1>11,
     <1>12, <1>13, <1>14, <1>15, <1>16, <1>17, <1>18
     DEF Next, Advance, Decide, Transaction, Settle, FullApply

(* Recovery, transaction and progress keep step with one another.          *)
LEMMA EpochKeeps ==
    ASSUME Typed, JournalInv, EpochInv, [Next]_vars
    PROVE  EpochInv'
<1> USE DEF Typed, TypeOK, JournalInv, EpochInv, Untouched, Goto, Report,
        Stop, Fresh, Steps, TransactionSteps, FullSteps, SelectiveSteps,
        BeforePublish, AfterPublish, Transactions, BeforeRecovery,
        AfterRecovery, DirectReceipt, Outcomes, request, evidence, verdicts,
        history, repository, outside
<1>1. CASE BeginSelective \/ BeginFull
  BY <1>1 DEF BeginSelective, BeginFull
<1>2. CASE Admit \/ Refuse \/ Plan \/ PlanThrows
  BY <1>2 DEF Admit, Refuse, Plan, PlanThrows, Blocking, Succeeded
<1>3. CASE Capture \/ CaptureHead \/ CaptureFails
  BY <1>3 DEF Capture, CaptureHead, CaptureFails, Eligible
<1>4. CASE CreateRecovery \/ CreateRecoveryFails \/ Validate \/ ValidateFails
  BY <1>4 DEF CreateRecovery, CreateRecoveryFails, Validate, ValidateFails
<1>5. CASE OpenOracle \/ OpenOracleFails \/ Prepare \/ GateThrows
  BY <1>5 DEF OpenOracle, OpenOracleFails, Prepare, GateThrows
<1>6. CASE Fence \/ FenceHead
  BY <1>6 DEF Fence, FenceHead
<1>7. CASE Publish \/ PublishFails
  BY <1>7 DEF Publish, PublishFails
<1>8. CASE (\E p \in Paths : Attempt(p)) \/ (\E p \in Paths : Complete(p))
  BY <1>8 DEF Attempt, Complete
<1>9. CASE ExecuteEnds \/ Verify \/ VerifyThrows
  BY <1>9 DEF ExecuteEnds, Verify, VerifyThrows, Consistent, Settled, Skipped
<1>10. CASE ObserveBefore \/ ObserveBeforeFails \/ RunCommands \/ ObserveAfter
          \/ ObserveAfterFails
  BY <1>10 DEF ObserveBefore, ObserveBeforeFails, RunCommands, ObserveAfter,
         ObserveAfterFails
<1>11. CASE Classify \/ Inspect \/ InspectFails
  BY <1>11 DEF Classify, Inspect, InspectFails, Verdict
<1>12. CASE Finalize \/ FinalizeFails
  BY <1>12 DEF Finalize, FinalizeFails, Result
<1>13. CASE FullPlan \/ FullThrows \/ FullEmergency \/ FullRestoreEnds \/
          FullReceipt
  BY <1>13 DEF FullPlan, FullThrows, FullEmergency, FullRestoreEnds,
         FullReceipt
<1>14. CASE FullReset \/ (\E p \in Paths : FullReplay(p))
  BY <1>14 DEF FullReset, FullReplay
<1>15. CASE Release \/ LeaveLock \/ RemoveStaleLock
  BY <1>15 DEF Release, LeaveLock, RemoveStaleLock
<1>16. CASE (\E p \in Paths : CommandWrites(p)) \/ CommandCommits
  BY <1>16 DEF CommandWrites, CommandCommits
<1>17. CASE (\E p \in Paths : Edit(p)) \/ MoveHead
  BY <1>17 DEF Edit, MoveHead
<1>18. CASE UNCHANGED vars
  BY <1>18 DEF vars
<1> QED
  BY <1>1, <1>2, <1>3, <1>4, <1>5, <1>6, <1>7, <1>8, <1>9, <1>10, <1>11,
     <1>12, <1>13, <1>14, <1>15, <1>16, <1>17, <1>18
     DEF Next, Advance, Decide, Transaction, Settle, FullApply

(* A report is true when it is made, and nothing undoes it.                *)
LEMMA ReportKeeps ==
    ASSUME Typed, JournalInv, EpochInv, ReportInv, [Next]_vars
    PROVE  ReportInv'
<1> USE NoIdAssumption DEF Typed, TypeOK, JournalInv, EpochInv, ReportInv,
        ReportMatchesDisk, NothingDone, Untouched, Goto, Report, Stop, Fresh,
        Steps, TransactionSteps, FullSteps, SelectiveSteps, BeforePublish,
        AfterPublish, Transactions, BeforeRecovery, AfterRecovery,
        DirectReceipt, Outcomes, request, evidence, verdicts, history,
        repository, outside
<1>1. CASE BeginSelective \/ BeginFull
  BY <1>1 DEF BeginSelective, BeginFull
<1>2. CASE Admit \/ Refuse \/ Plan \/ PlanThrows
  BY <1>2 DEF Admit, Refuse, Plan, PlanThrows, Blocking, Succeeded
<1>3. CASE Capture \/ CaptureHead \/ CaptureFails
  BY <1>3 DEF Capture, CaptureHead, CaptureFails, Eligible
<1>4. CASE CreateRecovery \/ CreateRecoveryFails \/ Validate \/ ValidateFails
  BY <1>4 DEF CreateRecovery, CreateRecoveryFails, Validate, ValidateFails
<1>5. CASE OpenOracle \/ OpenOracleFails \/ Prepare \/ GateThrows
  BY <1>5 DEF OpenOracle, OpenOracleFails, Prepare, GateThrows
<1>6. CASE Fence \/ FenceHead
  BY <1>6 DEF Fence, FenceHead
<1>7. CASE Publish \/ PublishFails
  BY <1>7 DEF Publish, PublishFails
<1>8. CASE (\E p \in Paths : Attempt(p)) \/ (\E p \in Paths : Complete(p))
  BY <1>8 DEF Attempt, Complete
<1>9. CASE ExecuteEnds \/ Verify \/ VerifyThrows
  BY <1>9 DEF ExecuteEnds, Verify, VerifyThrows, Consistent, Settled, Skipped
<1>10. CASE ObserveBefore \/ ObserveBeforeFails \/ RunCommands \/ ObserveAfter
          \/ ObserveAfterFails
  BY <1>10 DEF ObserveBefore, ObserveBeforeFails, RunCommands, ObserveAfter,
         ObserveAfterFails
<1>11. CASE Classify \/ Inspect \/ InspectFails
  BY <1>11 DEF Classify, Inspect, InspectFails, Verdict
<1>12. CASE Finalize \/ FinalizeFails
  BY <1>12 DEF Finalize, FinalizeFails, Result
<1>13. CASE FullPlan \/ FullThrows \/ FullEmergency \/ FullRestoreEnds \/
          FullReceipt
  BY <1>13 DEF FullPlan, FullThrows, FullEmergency, FullRestoreEnds,
         FullReceipt
<1>14. CASE FullReset \/ (\E p \in Paths : FullReplay(p))
  BY <1>14 DEF FullReset, FullReplay
<1>15. CASE Release \/ LeaveLock \/ RemoveStaleLock
  BY <1>15 DEF Release, LeaveLock, RemoveStaleLock
<1>16. CASE (\E p \in Paths : CommandWrites(p)) \/ CommandCommits
  BY <1>16 DEF CommandWrites, CommandCommits
<1>17. CASE (\E p \in Paths : Edit(p)) \/ MoveHead
  BY <1>17 DEF Edit, MoveHead
<1>18. CASE UNCHANGED vars
  BY <1>18 DEF vars
<1> QED
  BY <1>1, <1>2, <1>3, <1>4, <1>5, <1>6, <1>7, <1>8, <1>9, <1>10, <1>11,
     <1>12, <1>13, <1>14, <1>15, <1>16, <1>17, <1>18
     DEF Next, Advance, Decide, Transaction, Settle, FullApply

(* Validation ties the checkpoint to S, and the fence S to the repository. *)
LEMMA SavedKeeps ==
    ASSUME Typed, EpochInv, SavedInv, [Next]_vars
    PROVE  SavedInv'
<1> USE HEADAssumption DEF Typed, TypeOK, EpochInv, SavedInv, Untouched, Held,
        HeldHead, Now, Snapshots, Goto, Report, Stop, Fresh, Steps,
        TransactionSteps, FullSteps, SelectiveSteps, BeforePublish,
        AfterPublish, request, evidence, verdicts, history, repository,
        outside
<1>1. CASE BeginSelective \/ BeginFull
  BY <1>1 DEF BeginSelective, BeginFull
<1>2. CASE Admit \/ Refuse \/ Plan \/ PlanThrows
  BY <1>2 DEF Admit, Refuse, Plan, PlanThrows, Blocking, Succeeded
<1>3. CASE Capture \/ CaptureHead \/ CaptureFails
  BY <1>3 DEF Capture, CaptureHead, CaptureFails, Eligible
<1>4. CASE CreateRecovery \/ CreateRecoveryFails \/ Validate \/ ValidateFails
  BY <1>4 DEF CreateRecovery, CreateRecoveryFails, Validate, ValidateFails
<1>5. CASE OpenOracle \/ OpenOracleFails \/ Prepare \/ GateThrows
  BY <1>5 DEF OpenOracle, OpenOracleFails, Prepare, GateThrows
<1>6. CASE Fence \/ FenceHead
  <2>1. CASE Fence
    BY <2>1 DEF Fence
  <2>2. CASE FenceHead
    BY <2>2 DEF FenceHead
  <2> QED
    BY <1>6, <2>1, <2>2
<1>7. CASE Publish \/ PublishFails
  BY <1>7 DEF Publish, PublishFails
<1>8. CASE (\E p \in Paths : Attempt(p)) \/ (\E p \in Paths : Complete(p))
  BY <1>8 DEF Attempt, Complete
<1>9. CASE ExecuteEnds \/ Verify \/ VerifyThrows
  BY <1>9 DEF ExecuteEnds, Verify, VerifyThrows, Consistent, Settled, Skipped
<1>10. CASE ObserveBefore \/ ObserveBeforeFails \/ RunCommands \/ ObserveAfter
          \/ ObserveAfterFails
  BY <1>10 DEF ObserveBefore, ObserveBeforeFails, RunCommands, ObserveAfter,
         ObserveAfterFails
<1>11. CASE Classify \/ Inspect \/ InspectFails
  BY <1>11 DEF Classify, Inspect, InspectFails, Verdict
<1>12. CASE Finalize \/ FinalizeFails
  BY <1>12 DEF Finalize, FinalizeFails, Result
<1>13. CASE FullPlan \/ FullThrows \/ FullEmergency \/ FullRestoreEnds \/
          FullReceipt
  BY <1>13 DEF FullPlan, FullThrows, FullEmergency, FullRestoreEnds,
         FullReceipt
<1>14. CASE FullReset \/ (\E p \in Paths : FullReplay(p))
  BY <1>14 DEF FullReset, FullReplay
<1>15. CASE Release \/ LeaveLock \/ RemoveStaleLock
  BY <1>15 DEF Release, LeaveLock, RemoveStaleLock
<1>16. CASE (\E p \in Paths : CommandWrites(p)) \/ CommandCommits
  BY <1>16 DEF CommandWrites, CommandCommits
<1>17. CASE (\E p \in Paths : Edit(p)) \/ MoveHead
  BY <1>17 DEF Edit, MoveHead
<1>18. CASE UNCHANGED vars
  BY <1>18 DEF vars
<1> QED
  BY <1>1, <1>2, <1>3, <1>4, <1>5, <1>6, <1>7, <1>8, <1>9, <1>10, <1>11,
     <1>12, <1>13, <1>14, <1>15, <1>16, <1>17, <1>18
     DEF Next, Advance, Decide, Transaction, Settle, FullApply

(* Stabilization ties the plan to S.                                       *)
LEMMA PlanKeeps ==
    ASSUME Typed, PlanInv, [Next]_vars
    PROVE  PlanInv'
<1> USE DEF Typed, TypeOK, PlanInv, States, Snapshots, Goto, Report, Stop,
        Fresh, Steps, TransactionSteps, FullSteps, SelectiveSteps,
        BeforePublish, AfterPublish, request, evidence, verdicts, history,
        repository, outside
<1>1. CASE BeginSelective \/ BeginFull
  BY <1>1 DEF BeginSelective, BeginFull
<1>2. CASE Admit \/ Refuse \/ Plan \/ PlanThrows
  BY <1>2 DEF Admit, Refuse, Plan, PlanThrows, Blocking, Succeeded
<1>3. CASE Capture \/ CaptureHead \/ CaptureFails
  BY <1>3 DEF Capture, CaptureHead, CaptureFails, Eligible
<1>4. CASE CreateRecovery \/ CreateRecoveryFails \/ Validate \/ ValidateFails
  BY <1>4 DEF CreateRecovery, CreateRecoveryFails, Validate, ValidateFails
<1>5. CASE OpenOracle \/ OpenOracleFails \/ Prepare \/ GateThrows
  BY <1>5 DEF OpenOracle, OpenOracleFails, Prepare, GateThrows
<1>6. CASE Fence \/ FenceHead
  BY <1>6 DEF Fence, FenceHead
<1>7. CASE Publish \/ PublishFails
  BY <1>7 DEF Publish, PublishFails
<1>8. CASE (\E p \in Paths : Attempt(p)) \/ (\E p \in Paths : Complete(p))
  BY <1>8 DEF Attempt, Complete
<1>9. CASE ExecuteEnds \/ Verify \/ VerifyThrows
  BY <1>9 DEF ExecuteEnds, Verify, VerifyThrows, Consistent, Settled, Skipped
<1>10. CASE ObserveBefore \/ ObserveBeforeFails \/ RunCommands \/ ObserveAfter
          \/ ObserveAfterFails
  BY <1>10 DEF ObserveBefore, ObserveBeforeFails, RunCommands, ObserveAfter,
         ObserveAfterFails
<1>11. CASE Classify \/ Inspect \/ InspectFails
  BY <1>11 DEF Classify, Inspect, InspectFails, Verdict
<1>12. CASE Finalize \/ FinalizeFails
  BY <1>12 DEF Finalize, FinalizeFails, Result
<1>13. CASE FullPlan \/ FullThrows \/ FullEmergency \/ FullRestoreEnds \/
          FullReceipt
  BY <1>13 DEF FullPlan, FullThrows, FullEmergency, FullRestoreEnds,
         FullReceipt
<1>14. CASE FullReset \/ (\E p \in Paths : FullReplay(p))
  BY <1>14 DEF FullReset, FullReplay
<1>15. CASE Release \/ LeaveLock \/ RemoveStaleLock
  BY <1>15 DEF Release, LeaveLock, RemoveStaleLock
<1>16. CASE (\E p \in Paths : CommandWrites(p)) \/ CommandCommits
  BY <1>16 DEF CommandWrites, CommandCommits
<1>17. CASE (\E p \in Paths : Edit(p)) \/ MoveHead
  BY <1>17 DEF Edit, MoveHead
<1>18. CASE UNCHANGED vars
  BY <1>18 DEF vars
<1> QED
  BY <1>1, <1>2, <1>3, <1>4, <1>5, <1>6, <1>7, <1>8, <1>9, <1>10, <1>11,
     <1>12, <1>13, <1>14, <1>15, <1>16, <1>17, <1>18
     DEF Next, Advance, Decide, Transaction, Settle, FullApply

(* Verification establishes it, and the two observations carry it over.    *)
LEMMA RestoredKeeps ==
    ASSUME Typed, ReportInv, PlanInv, RestoredInv, [Next]_vars
    PROVE  RestoredInv'
<1> USE HEADAssumption, CommandsAssumption DEF Typed, TypeOK, ReportInv,
        PlanInv, RestoredInv, Restored, RestoredBefore, Result, Held,
        HeldHead, Now, Snapshots, Goto, Report, Stop, Fresh, Steps,
        TransactionSteps, FullSteps, SelectiveSteps, BeforePublish,
        AfterPublish, request, evidence, verdicts, history, repository,
        outside
<1>1. CASE BeginSelective \/ BeginFull
  BY <1>1 DEF BeginSelective, BeginFull
<1>2. CASE Admit \/ Refuse \/ Plan \/ PlanThrows
  BY <1>2 DEF Admit, Refuse, Plan, PlanThrows, Blocking, Succeeded
<1>3. CASE Capture \/ CaptureHead \/ CaptureFails
  BY <1>3 DEF Capture, CaptureHead, CaptureFails, Eligible
<1>4. CASE CreateRecovery \/ CreateRecoveryFails \/ Validate \/ ValidateFails
  BY <1>4 DEF CreateRecovery, CreateRecoveryFails, Validate, ValidateFails
<1>5. CASE OpenOracle \/ OpenOracleFails \/ Prepare \/ GateThrows
  BY <1>5 DEF OpenOracle, OpenOracleFails, Prepare, GateThrows
<1>6. CASE Fence \/ FenceHead
  BY <1>6 DEF Fence, FenceHead
<1>7. CASE Publish \/ PublishFails
  BY <1>7 DEF Publish, PublishFails
<1>8. CASE (\E p \in Paths : Attempt(p)) \/ (\E p \in Paths : Complete(p))
  BY <1>8 DEF Attempt, Complete
<1>9. CASE ExecuteEnds \/ Verify \/ VerifyThrows
  BY <1>9 DEF ExecuteEnds, Verify, VerifyThrows, Consistent, Settled, Skipped
<1>10. CASE ObserveBefore \/ ObserveBeforeFails \/ RunCommands \/ ObserveAfter
          \/ ObserveAfterFails
  BY <1>10 DEF ObserveBefore, ObserveBeforeFails, RunCommands, ObserveAfter,
         ObserveAfterFails
<1>11. CASE Classify \/ Inspect \/ InspectFails
  BY <1>11 DEF Classify, Inspect, InspectFails, Verdict
<1>12. CASE Finalize \/ FinalizeFails
  BY <1>12 DEF Finalize, FinalizeFails, Result
<1>13. CASE FullPlan \/ FullThrows \/ FullEmergency \/ FullRestoreEnds \/
          FullReceipt
  BY <1>13 DEF FullPlan, FullThrows, FullEmergency, FullRestoreEnds,
         FullReceipt
<1>14. CASE FullReset \/ (\E p \in Paths : FullReplay(p))
  BY <1>14 DEF FullReset, FullReplay
<1>15. CASE Release \/ LeaveLock \/ RemoveStaleLock
  BY <1>15 DEF Release, LeaveLock, RemoveStaleLock
<1>16. CASE (\E p \in Paths : CommandWrites(p)) \/ CommandCommits
  BY <1>16 DEF CommandWrites, CommandCommits
<1>17. CASE (\E p \in Paths : Edit(p)) \/ MoveHead
  BY <1>17 DEF Edit, MoveHead
<1>18. CASE UNCHANGED vars
  BY <1>18 DEF vars
<1> QED
  BY <1>1, <1>2, <1>3, <1>4, <1>5, <1>6, <1>7, <1>8, <1>9, <1>10, <1>11,
     <1>12, <1>13, <1>14, <1>15, <1>16, <1>17, <1>18
     DEF Next, Advance, Decide, Transaction, Settle, FullApply

THEOREM Invariant == Spec => []Inv
<1>1. Inv /\ [Next]_vars => Inv'
  BY TypeKeeps, JournalKeeps, EpochKeeps, ReportKeeps, SavedKeeps, PlanKeeps,
     RestoredKeeps DEF Inv
<1> QED
  BY InitInv, <1>1, PTL DEF Spec

(* Every variable keeps its type.                                          *)
THEOREM TypeCorrect == Spec => []TypeOK
<1>1. Inv => TypeOK
  BY DEF Inv, Typed
<1> QED
  BY Invariant, <1>1, PTL

(* A selective apply reported as succeeded left every selected path in its *)
(* pre-session state and every other path and HEAD as it found them.       *)
THEOREM SuccessIsRestoration == Spec => []SucceededIsRestored
<1>1. Inv => SucceededIsRestored
  BY DEF Inv, RestoredInv, Restored, Held, HeldHead, SucceededIsRestored
<1> QED
  BY Invariant, <1>1, PTL

(* Reports of selective applies agree with the markers and receipts on     *)
(* disk, and no combination of a recovery state and a stopping point is    *)
(* left without a mapping.                                                 *)
THEOREM ReportsAreTrue == Spec => []ReportMatchesDisk
<1>1. Inv => ReportMatchesDisk
  BY DEF Inv, ReportInv
<1> QED
  BY Invariant, <1>1, PTL

(* Neither engine mutates a session the other one has a record in, and the *)
(* transplant mutates only under its own marker.                           *)
THEOREM EnginesApart == Spec => []EnginesDoNotMix
<1>1. Inv => EnginesDoNotMix
  BY DEF Inv, Typed, JournalInv, EnginesDoNotMix, SelectiveSteps, TransactionSteps,
         FullSteps, AfterPublish
<1> QED
  BY Invariant, <1>1, PTL

(* What an engine is about to overwrite is in the emergency checkpoint.    *)
THEOREM SavesFirst == Spec => SavedBeforeOverwritten
<1> DEFINE Saved == \A p \in Paths : FirstTouched(p) =>
                        /\ recovery = "created"
                        /\ p \in edited \/ checkpoint.tree[p] = tree[p]
                        /\ HEAD \in edited \/ checkpoint.head = head
<1>1. Inv /\ [Next]_vars => [Saved]_vars
  <2> SUFFICES ASSUME Inv, NEW p \in Paths, FirstTouched(p)
               PROVE  /\ recovery = "created"
                      /\ p \in edited \/ checkpoint.tree[p] = tree[p]
                      /\ HEAD \in edited \/ checkpoint.head = head
    OBVIOUS
  <2>1. CASE pc = "execute"
    BY <2>1 DEF Inv, SavedInv, EpochInv, AfterPublish, Held, HeldHead, FirstTouched
  <2>2. CASE pc = "full_restore"
    BY <2>2 DEF Inv, SavedInv, Held, HeldHead, FirstTouched
  <2> QED
    BY <2>1, <2>2 DEF FirstTouched
<1> QED
  BY Invariant, <1>1, PTL DEF Spec, SavedBeforeOverwritten

-----------------------------------------------------------------------------
(* The refinement.                                                         *)

LEMMA InitMapped == Init => Store!Init
BY NoIdAssumption DEF Init, Store!Init, Journal

(* A step that keeps the records of every id is a stutter of the journal.  *)
LEMMA KeptRecords == ASSUME UNCHANGED history PROVE UNCHANGED Store!vars
BY DEF history, Journal, Store!vars

LEMMA PublishMapped ==
    ASSUME Inv, Publish \/ PublishFails PROVE [Store!Next]_(Store!vars)
<1> USE DEF Inv, Typed, TypeOK, JournalInv
<1>1. /\ pc = "publish" /\ id \in Ids /\ ~fullReceipt /\ fullReceipt' = fullReceipt
      /\ attempt[id] # "marker" /\ receipt[id] = "none" /\ receipt' = receipt
      /\ \A i \in Ids \ {id} : attempt[i] = "marker" => receipt[i] = "succeeded"
  BY DEF Publish, PublishFails, SelectiveSteps, TransactionSteps, BeforePublish
<1>2. PICK left \in {"absent", "empty", "marker"} :
         attempt' = [attempt EXCEPT ![id] = left]
  BY DEF Publish, PublishFails
<1>3. CASE left = "marker"
  <2>1. \A i \in Ids : Journal(i)' = IF i = id THEN "authorized" ELSE Journal(i)
    BY <1>1, <1>2, <1>3 DEF Journal
  <2>2. /\ Journal(id) = "none"
        /\ \A j \in Ids : Journal(j) \in {"none", "succeeded"}
    BY <1>1 DEF Journal
  <2>3. Store!Authorize(id)
    BY <1>1, <2>1, <2>2 DEF Store!Authorize
  <2> QED
    BY <1>1, <2>3 DEF Store!Next
<1>4. CASE left # "marker"
  <2>1. \A i \in Ids : Journal(i)' = Journal(i)
    BY <1>1, <1>2, <1>4 DEF Journal
  <2> QED
    BY <1>1, <2>1 DEF Store!vars
<1> QED
  BY <1>3, <1>4

LEMMA StoreFinalizes == ASSUME NEW i \in Ids, Store!Finalize(i) PROVE Store!Next
BY DEF Store!Next

LEMMA StoreResult ==
    ASSUME NEW i \in Ids, NEW result \in {"succeeded", "failed"}, fullReceipt' = fullReceipt,
           Journal(i) = "authorized",
           \A j \in Ids : Journal(j)' = IF j = i THEN result ELSE Journal(j)
    PROVE  Store!Finalize(i)
BY DEF Store!Finalize

LEMMA FinalizeMapped ==
    ASSUME Inv, Finalize \/ FinalizeFails PROVE [Store!Next]_(Store!vars)
<1> USE DEF Inv, Typed, TypeOK, JournalInv
<1>1. /\ pc = "finalize" /\ id \in Ids /\ fullReceipt' = fullReceipt
      /\ attempt' = attempt /\ attempt[id] = "marker" /\ receipt[id] = "none"
  BY DEF Finalize, FinalizeFails, SelectiveSteps, AfterPublish
<1>2. Result \in {"succeeded", "failed"}
  BY DEF Result
<1>3. CASE receipt' = receipt
  BY <1>1, <1>3, KeptRecords DEF history
<1>4. CASE receipt' = [receipt EXCEPT ![id] = Result]
  <2>1. \A i \in Ids : Journal(i)' = IF i = id THEN Result ELSE Journal(i)
    BY <1>1, <1>2, <1>4 DEF Journal
  <2>2. Journal(id) = "authorized"
    BY <1>1 DEF Journal
  <2>3. Store!Finalize(id)
    BY <1>1, <1>2, <2>1, <2>2, StoreResult
  <2> QED
    BY <1>1, <2>3, StoreFinalizes
<1> QED
  BY <1>3, <1>4 DEF Finalize, FinalizeFails

LEMMA FullMapped == ASSUME Inv, FullReceipt PROVE [Store!Next]_(Store!vars)
<1> USE DEF Inv, Typed, TypeOK, JournalInv
<1>1. /\ ~fullReceipt /\ fullReceipt' = TRUE /\ attempt' = attempt
      /\ receipt' = receipt /\ \A i \in Ids : attempt[i] # "marker"
  BY DEF FullReceipt, FullSteps
<1>2. /\ \A i \in Ids : Journal(i) = "none"
      /\ \A i \in Ids : Journal(i)' = Journal(i)
  BY <1>1 DEF Journal
<1> QED
  BY <1>1, <1>2 DEF Store!ApplyFull, Store!Next

(* The markers and receipts of any run of the engines, with its crashes,   *)
(* are a run of RollbackJournal.                                           *)
THEOREM RefinesJournal == Spec => ImplementsJournal
<1>1. Inv /\ [Next]_vars => [Store!Next]_(Store!vars)
  <2> SUFFICES ASSUME Inv, [Next]_vars PROVE [Store!Next]_(Store!vars)
    OBVIOUS
  <2>1. CASE Publish \/ PublishFails
    BY <2>1, PublishMapped
  <2>2. CASE Finalize \/ FinalizeFails
    BY <2>2, FinalizeMapped
  <2>3. CASE FullReceipt
    BY <2>3, FullMapped
  <2>4. CASE UNCHANGED history
    BY <2>4, KeptRecords
  <2>5. \/ Publish \/ PublishFails \/ Finalize \/ FinalizeFails \/ FullReceipt
        \/ UNCHANGED history
    <3>1. BeginSelective \/ BeginFull \/ Decide => UNCHANGED history
      BY DEF BeginSelective, BeginFull, Fresh, Decide, Admit, Refuse, Plan,
             PlanThrows
    <3>2. Transaction => Publish \/ PublishFails \/ UNCHANGED history
      BY DEF Transaction, Capture, CaptureHead, CaptureFails, CreateRecovery,
             CreateRecoveryFails, Validate, ValidateFails, OpenOracle,
             OpenOracleFails, Prepare, GateThrows, Fence, FenceHead, Attempt,
             Complete, ExecuteEnds, Verify, VerifyThrows, ObserveBefore,
             ObserveBeforeFails, RunCommands, ObserveAfter, ObserveAfterFails
    <3>3. Settle => Finalize \/ FinalizeFails \/ UNCHANGED history
      BY DEF Settle, Classify, Inspect, InspectFails
    <3>4. FullApply => FullReceipt \/ UNCHANGED history
      BY DEF FullApply, FullPlan, FullThrows, FullEmergency, FullReset,
             FullReplay, FullRestoreEnds
    <3>5. Release \/ LeaveLock \/ RemoveStaleLock => UNCHANGED history
      BY DEF Release, LeaveLock, RemoveStaleLock
    <3>6. \A p \in Paths : CommandWrites(p) \/ Edit(p) => UNCHANGED history
      BY DEF CommandWrites, Edit
    <3>7. CommandCommits \/ MoveHead => UNCHANGED history
      BY DEF CommandCommits, MoveHead
    <3>8. UNCHANGED vars => UNCHANGED history
      BY DEF vars
    <3> QED
      BY <3>1, <3>2, <3>3, <3>4, <3>5, <3>6, <3>7, <3>8 DEF Next, Advance
  <2> QED
    BY <2>1, <2>2, <2>3, <2>4, <2>5
<1> QED
  BY InitMapped, Invariant, <1>1, PTL DEF Spec, ImplementsJournal, Store!Spec
=============================================================================

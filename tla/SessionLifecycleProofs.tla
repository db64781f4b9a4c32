----------------------- MODULE SessionLifecycleProofs -----------------------
(***************************************************************************)
(* SessionLifecycle for any invocations, sessions and number of captures:  *)
(* types, complete publication, no reference to an artifact that is not on *)
(* disk, what readers without the lock find, and the two refinements.      *)
(***************************************************************************)
EXTENDS SessionLifecycle, TLAPS

(* Where start has its directory under the temporary name.                 *)
TmpSteps == {"checkpoint", "recheck", "session_json", "before_status",
             "commands_log", "rename"}
(* Where end has picked its session.                                       *)
PickedSteps == {"capture", "reload", "contribution", "after_txt", "after_z",
                "ended", "deactivate"}

(* Only the holder of start.lock is inside an operation.                   *)
OneInside == \A p \in Procs : pc[p] # "idle" =>
                /\ lockDir
                /\ \A q \in Procs : pc[q] # "idle" => q = p

(* A directory that is not published is nobody's active or ended session.  *)
Unpublished == \A s \in Sessions : dir[s] # "final" =>
                  active # s /\ endedAt[s] = 0

(* Captures are numbered as they are taken.                                *)
CapturesBound == \A s \in Sessions :
    /\ endedAt[s] <= captures
    /\ contribution[s] <= captures
    /\ afterText[s] <= captures
    /\ afterZ[s] <= captures

(* What start has put into its directory when it is about to do `at'.      *)
FilesBefore(at) ==
    CASE at = "recheck" -> {"checkpoint"}
      [] at = "session_json" -> {"checkpoint"}
      [] at = "before_status" -> {"checkpoint", "session.json"}
      [] at = "commands_log" -> {"checkpoint", "session.json", "before-status.txt"}
      [] at = "rename" -> StartFiles
      [] OTHER -> {}

StartInv(p) ==
    /\ pc[p] \in TmpSteps => /\ sid[p] \in Sessions
                             /\ dir[sid[p]] = "tmp"
                             /\ FilesBefore(pc[p]) \subseteq files[sid[p]]
    /\ pc[p] \in {"session_json", "before_status", "commands_log", "rename",
                  "activate"} => active = NoSession
    /\ pc[p] = "activate" => /\ sid[p] \in Sessions
                             /\ dir[sid[p]] = "final"
                             /\ endedAt[sid[p]] = 0
    /\ pc[p] = "cleanup" => sid[p] \in Sessions

(* end works on the active session; only the manual recovery, which needs  *)
(* an end already on record, can take the pointer from under it.           *)
EndInv(p) ==
    /\ pc[p] \in PickedSteps =>
          /\ sid[p] \in Sessions
          /\ dir[sid[p]] = "final"
          /\ active = sid[p] \/ (active = NoSession /\ endedAt[sid[p]] > 0)
    /\ pc[p] \in PickedSteps \ {"capture"} => capture[p] = captures /\ captures > 0
    /\ pc[p] \in {"after_txt", "after_z", "ended", "deactivate"} =>
          contribution[sid[p]] = capture[p]
    /\ pc[p] \in {"after_z", "ended", "deactivate"} => afterText[sid[p]] = capture[p]
    /\ pc[p] \in {"ended", "deactivate"} => afterZ[sid[p]] = capture[p]
    /\ pc[p] = "deactivate" => endedAt[sid[p]] = capture[p]

Inv == /\ TypeOK
       /\ OneInside
       /\ ActiveNamesPublished
       /\ EndedHasArtifacts
       /\ Unpublished
       /\ CapturesBound
       /\ \A p \in Procs : StartInv(p) /\ EndInv(p)

LEMMA InitInv == Init => Inv
<1> SUFFICES ASSUME Init PROVE Inv
  OBVIOUS
<1>1. IdleLister \in Listers /\ IdleReader \in Contributions
  BY MaxCapturesAssumption DEF IdleLister, IdleReader, Listers, Contributions
<1>2. TypeOK
  <2>1. 0 \in 0..MaxCaptures
    BY MaxCapturesAssumption
  <2>2. /\ lockDir \in BOOLEAN /\ pc \in [Procs -> InLock \cup {"idle"}]
        /\ sid \in [Procs -> Sessions \cup {NoSession}]
        /\ captures \in 0..MaxCaptures /\ capture \in [Procs -> 0..MaxCaptures]
        /\ active \in Sessions \cup {NoSession}
        /\ lister \in Listers /\ reader \in Contributions
    BY <1>1, <2>1 DEF Init
  <2>3. /\ dir \in [Sessions -> {"none", "tmp", "removed", "final"}]
        /\ files \in [Sessions -> SUBSET StartFiles]
    BY DEF Init
  <2>4. /\ endedAt \in [Sessions -> 0..MaxCaptures]
        /\ contribution \in [Sessions -> 0..MaxCaptures]
        /\ afterText \in [Sessions -> 0..MaxCaptures]
        /\ afterZ \in [Sessions -> 0..MaxCaptures]
    BY <2>1 DEF Init
  <2> QED
    BY <2>2, <2>3, <2>4 DEF TypeOK
<1>3. OneInside /\ ActiveNamesPublished /\ EndedHasArtifacts /\ Unpublished
        /\ CapturesBound
  BY NoSessionAssumption DEF Init, OneInside, ActiveNamesPublished, EndedHasArtifacts, Unpublished,
         CapturesBound
<1>4. \A p \in Procs : StartInv(p) /\ EndInv(p)
  BY DEF Init, StartInv, EndInv, TmpSteps, PickedSteps
<1> QED
  BY <1>2, <1>3, <1>4 DEF Inv

(* Every start step keeps the invariant.                                   *)
LEMMA StartKeeps ==
    ASSUME Inv, NEW p \in Procs, StartStep(p) \/ StartThrows(p) \/ StartAcquire(p)
    PROVE  Inv'
<1> USE DEF Inv, TypeOK, OneInside, ActiveNamesPublished, EndedHasArtifacts,
            Unpublished, CapturesBound, StartInv, EndInv, InLock, StartSteps,
            EndSteps, TmpSteps, PickedSteps, StartFiles, FilesBefore,
            Step, Goto, proc, store, ended
<1>1. CASE StartAcquire(p)
  BY <1>1 DEF StartAcquire, Acquire
<1>2. CASE StartPrecheck(p)
  BY <1>2 DEF StartPrecheck
<1>3. CASE StartMakeTmp(p)
  BY <1>3 DEF StartMakeTmp
<1>4. CASE StartCheckpoint(p)
  BY <1>4 DEF StartCheckpoint, StartWrites
<1>5. CASE StartRecheck(p)
  BY <1>5 DEF StartRecheck
<1>6. CASE StartSessionJson(p)
  BY <1>6 DEF StartSessionJson, StartWrites
<1>7. CASE StartBeforeStatus(p)
  BY <1>7 DEF StartBeforeStatus, StartWrites
<1>8. CASE StartCommandsLog(p)
  BY <1>8 DEF StartCommandsLog, StartWrites
<1>9. CASE StartRename(p)
  BY <1>9 DEF StartRename
<1>10. CASE StartActivate(p)
  BY <1>10 DEF StartActivate
<1>11. CASE StartCleanup(p)
  BY <1>11 DEF StartCleanup
<1>12. CASE StartThrows(p)
  BY <1>12 DEF StartThrows
<1> QED
  BY <1>1, <1>2, <1>3, <1>4, <1>5, <1>6, <1>7, <1>8, <1>9, <1>10, <1>11, <1>12
     DEF StartStep

(* Every end step keeps the invariant.                                     *)
LEMMA EndKeeps ==
    ASSUME Inv, NEW p \in Procs, EndStep(p) \/ EndThrows(p) \/ EndAcquire(p)
    PROVE  Inv'
<1> USE DEF Inv, TypeOK, OneInside, ActiveNamesPublished, EndedHasArtifacts,
            Unpublished, CapturesBound, StartInv, EndInv, InLock, StartSteps,
            EndSteps, TmpSteps, PickedSteps, StartFiles, FilesBefore,
            Step, Goto, proc, store, ended
<1>1. CASE EndAcquire(p)
  BY <1>1 DEF EndAcquire, Acquire
<1>2. CASE EndLoad(p)
  BY <1>2 DEF EndLoad, Loadable
<1>3. CASE EndCapture(p)
  <2>1. captures' = captures + 1 /\ captures' \in 0..MaxCaptures /\ captures \in Nat
    BY <1>3, MaxCapturesAssumption DEF EndCapture
  <2>2. /\ UNCHANGED <<lockDir, sid, store, lister, reader>>
        /\ pc[p] = "capture" /\ pc' = [pc EXCEPT ![p] = "reload"]
        /\ capture' = [capture EXCEPT ![p] = captures + 1]
    BY <1>3 DEF EndCapture
  <2>3. TypeOK'
    BY <2>1, <2>2
  <2>4. (OneInside /\ ActiveNamesPublished /\ EndedHasArtifacts /\ Unpublished)'
    BY <2>2
  <2>5. CapturesBound'
    <3> SUFFICES ASSUME NEW s \in Sessions
                 PROVE  /\ endedAt[s] <= captures + 1 /\ contribution[s] <= captures + 1
                        /\ afterText[s] <= captures + 1 /\ afterZ[s] <= captures + 1
      BY <2>1, <2>2
    <3>1. /\ endedAt[s] \in Nat /\ contribution[s] \in Nat
          /\ afterText[s] \in Nat /\ afterZ[s] \in Nat
      BY MaxCapturesAssumption
    <3> QED
      BY <2>1, <3>1
  <2>6. ASSUME NEW q \in Procs PROVE (StartInv(q) /\ EndInv(q))'
    BY <2>1, <2>2
  <2> QED
    BY <2>3, <2>4, <2>5, <2>6
<1>4. CASE EndReload(p)
  BY <1>4 DEF EndReload, Loadable
<1>5. CASE EndContribution(p)
  BY <1>5 DEF EndContribution
<1>6. CASE EndAfterText(p)
  BY <1>6 DEF EndAfterText
<1>7. CASE EndAfterZ(p)
  BY <1>7 DEF EndAfterZ
<1>8. CASE EndSessionJson(p)
  BY <1>8 DEF EndSessionJson
<1>9. CASE EndDeactivate(p)
  <2>1. /\ pc[p] = "deactivate" /\ active' = NoSession
        /\ pc' = [pc EXCEPT ![p] = IF active = NoSession THEN "threw" ELSE "returned"]
        /\ UNCHANGED <<lockDir, sid, capture, captures, dir, files, ended, lister, reader>>
    BY <1>9 DEF EndDeactivate
  <2>2. TypeOK'
    BY <2>1
  <2>3. (OneInside /\ ActiveNamesPublished /\ EndedHasArtifacts /\ CapturesBound)'
    BY <2>1
  <2>4. Unpublished'
    BY <2>1, NoSessionAssumption
  <2>5. ASSUME NEW q \in Procs PROVE (StartInv(q) /\ EndInv(q))'
    BY <2>1
  <2> QED
    BY <2>2, <2>3, <2>4, <2>5
<1>10. CASE EndThrows(p)
  BY <1>10 DEF EndThrows
<1> QED
  BY <1>1, <1>2, <1>3, <1>4, <1>5, <1>6, <1>7, <1>8, <1>9, <1>10 DEF EndStep

LEMMA NamedType ==
    ASSUME NEW s \in Sessions, NEW was \in {"ended", "active", "orphan"}
    PROVE  [IdleLister EXCEPT !.at = "named", !.session = s, !.was = was] \in Listers
BY NoSessionAssumption DEF IdleLister, Listers

LEMMA PointedType ==
    ASSUME NEW l \in Listers, NEW s \in Sessions \cup {NoSession}
    PROVE  [l EXCEPT !.at = "pointed", !.seen = s] \in Listers
BY DEF Listers

(* A reader changes nothing but itself.                                    *)
LEMMA ReadersKeep == ASSUME Inv, Readers PROVE Inv'
<1> USE DEF Inv, TypeOK
<1>1. lister' \in Listers /\ reader' \in Contributions
  <2>1. CASE ListNames
    <3>1. PICK s \in Sessions, was \in {"ended", "active", "orphan"} :
            lister' = [IdleLister EXCEPT !.at = "named", !.session = s, !.was = was]
      BY <2>1 DEF ListNames
    <3> QED
      BY <2>1, <3>1, NamedType DEF ListNames
  <2>2. CASE ListPointer
    BY <2>2, PointedType DEF ListPointer
  <2>3. CASE ListSession
    BY <2>3 DEF ListSession, Listers
  <2>4. CASE ListReturn
    BY <2>4, NoSessionAssumption DEF ListReturn, Listers, IdleLister
  <2> USE DEF Contributions, IdleReader
  <2>5. CASE ReadBinding
    <3> PICK s \in Sessions :
           reader' = [IdleReader EXCEPT !.at = "bound", !.session = s,
                                        !.digest = endedAt[s]]
      BY <2>5 DEF ReadBinding
    <3>1. endedAt[s] \in 0..MaxCaptures
      OBVIOUS
    <3>2. reader' \in Contributions
      BY <3>1
    <3> QED
      BY <2>5, <3>2 DEF ReadBinding
  <2>6. CASE ReadContribution
    BY <2>6 DEF ReadContribution
  <2>7. CASE ReadReturn
    BY <2>7, MaxCapturesAssumption DEF ReadReturn
  <2> QED
    BY <2>1, <2>2, <2>3, <2>4, <2>5, <2>6, <2>7 DEF Readers
<1>2. UNCHANGED <<proc, store>>
  BY DEF Readers, ListNames, ListPointer, ListSession, ListReturn, ReadBinding,
         ReadContribution, ReadReturn
<1> QED
  BY <1>1, <1>2 DEF proc, store, ended, OneInside, ActiveNamesPublished,
     EndedHasArtifacts, Unpublished, CapturesBound, StartInv, EndInv

(* Leaving an operation and the operator keep the invariant.               *)
LEMMA OthersKeep ==
    ASSUME Inv,
           \/ \E p \in Procs : Release(p) \/ ReleaseFails(p) \/ Crash(p)
           \/ RemoveStaleLock \/ DeleteStalePointer \/ UNCHANGED vars
    PROVE  Inv'
<1> USE DEF Inv, TypeOK, OneInside, ActiveNamesPublished, EndedHasArtifacts,
            Unpublished, CapturesBound, StartInv, EndInv, InLock, StartSteps,
            EndSteps, TmpSteps, PickedSteps, StartFiles, FilesBefore,
            Goto, proc, store, ended
<1>1. ASSUME NEW p \in Procs, Release(p) \/ ReleaseFails(p) \/ Crash(p)
      PROVE  Inv'
  <2>1. pc' = [pc EXCEPT ![p] = "idle"] /\ sid' = [sid EXCEPT ![p] = NoSession]
          /\ capture' = [capture EXCEPT ![p] = 0]
          /\ UNCHANGED <<captures, store, lister, reader>>
          /\ (lockDir' = lockDir \/ lockDir' = FALSE) /\ pc[p] # "idle"
    BY <1>1 DEF Release, ReleaseFails, Crash, Exit
  <2>2. \A q \in Procs : q # p => pc[q] = "idle"
    BY <2>1
  <2>3. \A q \in Procs : pc'[q] = "idle"
    BY <2>1, <2>2
  <2>4. TypeOK'
    <3>1. 0 \in 0..MaxCaptures
      BY MaxCapturesAssumption
    <3>2. lockDir' \in BOOLEAN
      BY <2>1
    <3>3. /\ pc' \in [Procs -> InLock \cup {"idle"}]
          /\ sid' \in [Procs -> Sessions \cup {NoSession}]
          /\ capture' \in [Procs -> 0..MaxCaptures]
      BY <2>1, <3>1
    <3> QED
      BY <2>1, <3>2, <3>3
  <2>5. (\A q \in Procs : StartInv(q) /\ EndInv(q))'
    BY <2>3
  <2> QED
    BY <2>1, <2>3, <2>4, <2>5
<1>2. CASE RemoveStaleLock
  <2>1. UNCHANGED <<pc, sid, capture, captures, store, lister, reader>> /\ lockDir' = FALSE
          /\ \A p \in Procs : pc[p] = "idle"
    BY <1>2 DEF RemoveStaleLock
  <2> QED
    BY <2>1
<1>3. CASE DeleteStalePointer
  <2>1. /\ active # NoSession /\ endedAt[active] > 0 /\ active' = NoSession
        /\ UNCHANGED <<proc, dir, files, ended, lister, reader>>
    BY <1>3 DEF DeleteStalePointer
  <2>2. TypeOK'
    BY <2>1
  <2>3. (OneInside /\ ActiveNamesPublished /\ EndedHasArtifacts /\ CapturesBound)'
    BY <2>1
  <2>4. Unpublished'
    BY <2>1, NoSessionAssumption
  <2>5. ASSUME NEW q \in Procs PROVE (StartInv(q) /\ EndInv(q))'
    BY <2>1
  <2> QED
    BY <2>2, <2>3, <2>4, <2>5
<1>4. CASE UNCHANGED vars
  BY <1>4 DEF vars
<1> QED
  BY <1>1, <1>2, <1>3, <1>4

LEMMA NextInv == Inv /\ [Next]_vars => Inv'
  BY StartKeeps, EndKeeps, OthersKeep, ReadersKeep
     DEF Next, Proceed, Fail

(* The invariant holds throughout every execution.                         *)
THEOREM Invariant == Spec => []Inv
  BY InitInv, NextInv, PTL DEF Spec

(* The store's and the operations' variables keep their types.             *)
THEOREM TypeCorrect == Spec => []TypeOK
  BY Invariant, PTL DEF Inv

(* Whatever directory has its final name, and whatever active-session.json *)
(* names, is a complete session.                                           *)
THEOREM PublishedComplete == Spec => []ActiveNamesPublished
  BY Invariant, PTL DEF Inv

(* session.json never records an end whose artifacts are not on disk.      *)
THEOREM NoDanglingReference == Spec => []EndedHasArtifacts
  BY Invariant, PTL DEF Inv

-----------------------------------------------------------------------------
(* The refinements.                                                        *)

(* A step that moves no session's phase and not the pointer is a stutter.  *)
LEMMA StoreStutters ==
    ASSUME UNCHANGED <<active, dir, endedAt>>
    PROVE  UNCHANGED <<Store!vars>>
  BY DEF Store!vars, Phase

(* Each step of start, end, a reader or the operator is a step of the      *)
(* atomic store or leaves it alone.                                        *)
LEMMA StoreStep == Inv /\ [Next]_vars => [Store!Next]_(Store!vars)
<1> SUFFICES ASSUME Inv, [Next]_vars PROVE [Store!Next]_(Store!vars)
  OBVIOUS
<1> USE DEF Inv, TypeOK
<1>1. ASSUME NEW p \in Procs, StartRename(p) PROVE Store!Next
  <2> DEFINE s == sid[p]
  <2>1. s \in Sessions /\ dir[s] = "tmp" /\ active = NoSession
    BY <1>1 DEF StartRename, Step, StartInv, TmpSteps
  <2>2. dir' = [dir EXCEPT ![s] = "final"] /\ UNCHANGED <<active, endedAt>>
    BY <1>1 DEF StartRename, ended
  <2>3. endedAt[s] = 0
    BY <2>1 DEF Unpublished
  <2>4. Store!Publish(s)
    BY <2>1, <2>2, <2>3 DEF Store!Publish, Phase
  <2> QED
    BY <2>1, <2>4 DEF Store!Next
<1>2. ASSUME NEW p \in Procs, StartActivate(p) PROVE Store!Next
  <2> DEFINE s == sid[p]
  <2>1. s \in Sessions /\ dir[s] = "final" /\ active = NoSession /\ endedAt[s] = 0
    BY <1>2 DEF StartActivate, Step, StartInv
  <2>2. active' = s /\ UNCHANGED <<dir, endedAt>>
    BY <1>2 DEF StartActivate, ended
  <2>3. Store!Activate(s)
    BY <2>1, <2>2 DEF Store!Activate, Phase
  <2> QED
    BY <2>1, <2>3 DEF Store!Next
<1>3. ASSUME NEW p \in Procs, EndSessionJson(p) PROVE [Store!Next]_(Store!vars)
  <2> DEFINE s == sid[p]
  <2>1. /\ s \in Sessions /\ dir[s] = "final"
        /\ active = s \/ (active = NoSession /\ endedAt[s] > 0)
        /\ capture[p] = captures /\ captures > 0
    BY <1>3 DEF EndSessionJson, Step, EndInv, PickedSteps
  <2>2. endedAt' = [endedAt EXCEPT ![s] = capture[p]] /\ UNCHANGED <<active, dir>>
    BY <1>3 DEF EndSessionJson
  <2>3. CASE endedAt[s] = 0
    <3>a. active = s /\ Phase(s) = "open"
      BY <2>1, <2>3 DEF Phase
    <3>b. \A t \in Sessions : endedAt'[t] = IF t = s THEN captures ELSE endedAt[t]
      BY <2>1, <2>2
    <3>c. \A t \in Sessions : Phase(t)' = IF t = s THEN "ended" ELSE Phase(t)
      BY <2>1, <2>2, <3>b DEF Phase
    <3>1. Store!End(s)
      BY <2>1, <2>2, <3>a, <3>c DEF Store!End
    <3> QED
      BY <2>1, <3>1 DEF Store!Next
  <2>4. CASE endedAt[s] # 0
    <3>1. \A t \in Sessions : Phase(t)' = Phase(t)
      BY <2>1, <2>2, <2>4 DEF Phase
    <3> QED
      BY <2>2, <3>1 DEF Store!vars
  <2> QED
    BY <2>3, <2>4
<1>4. ASSUME active # NoSession, endedAt[active] > 0, active' = NoSession,
             UNCHANGED <<dir, endedAt>>
      PROVE  Store!Next
  <2>1. active \in Sessions /\ dir[active] = "final" /\ endedAt[active] # 0
    BY <1>4 DEF ActiveNamesPublished
  <2>2. Store!Deactivate(active)
    BY <1>4, <2>1 DEF Store!Deactivate, Phase
  <2> QED
    BY <2>1, <2>2 DEF Store!Next
<1>5. ASSUME NEW p \in Procs, EndDeactivate(p) PROVE [Store!Next]_(Store!vars)
  <2>1. /\ endedAt[sid[p]] > 0
        /\ active = sid[p] \/ active = NoSession
        /\ active' = NoSession /\ UNCHANGED <<dir, endedAt>>
    BY <1>5 DEF EndDeactivate, Step, EndInv, PickedSteps, ended
  <2>2. CASE active = NoSession
    BY <2>1, <2>2, StoreStutters
  <2>3. CASE active # NoSession
    BY <2>1, <2>3, <1>4
  <2> QED
    BY <2>2, <2>3
<1>6. CASE DeleteStalePointer
  BY <1>4, <1>6 DEF DeleteStalePointer, ended
<1>7. ASSUME NEW p \in Procs, StartCleanup(p) PROVE [Store!Next]_(Store!vars)
  <2>1. CASE UNCHANGED dir
    BY <1>7, <2>1, StoreStutters DEF StartCleanup, ended
  <2>2. CASE dir[sid[p]] = "tmp" /\ dir' = [dir EXCEPT ![sid[p]] = "removed"]
    <3>a. UNCHANGED <<active, endedAt>>
      BY <1>7 DEF StartCleanup, ended
    <3>b. sid[p] \in Sessions
      BY <1>7 DEF StartCleanup, Step, StartInv
    <3>c. \A t \in Sessions : dir'[t] = IF t = sid[p] THEN "removed" ELSE dir[t]
      BY <2>2, <3>b
    <3>1. \A t \in Sessions : Phase(t)' = Phase(t)
      BY <2>2, <3>a, <3>c DEF Phase
    <3> QED
      BY <1>7, <3>1 DEF Store!vars, StartCleanup
  <2> QED
    BY <1>7, <2>1, <2>2 DEF StartCleanup
<1>8. ASSUME NEW p \in Procs, StartMakeTmp(p) PROVE UNCHANGED <<Store!vars>>
  <2>1. \A t \in Sessions : Phase(t)' = Phase(t)
    BY <1>8 DEF Phase, StartMakeTmp, ended
  <2> QED
    BY <1>8, <2>1 DEF Store!vars, StartMakeTmp
<1>9. ASSUME NEW p \in Procs,
             \/ StartAcquire(p) \/ EndAcquire(p) \/ StartPrecheck(p)
             \/ StartCheckpoint(p) \/ StartRecheck(p) \/ StartSessionJson(p)
             \/ StartBeforeStatus(p) \/ StartCommandsLog(p) \/ EndLoad(p)
             \/ EndCapture(p) \/ EndReload(p) \/ EndContribution(p)
             \/ EndAfterText(p) \/ EndAfterZ(p) \/ Release(p) \/ Fail(p)
      PROVE  UNCHANGED <<active, dir, endedAt>>
  BY <1>9 DEF StartAcquire, EndAcquire, Acquire, StartPrecheck, StartCheckpoint,
     StartRecheck, StartSessionJson, StartBeforeStatus, StartCommandsLog, EndLoad,
     EndCapture, EndReload, EndContribution, EndAfterText, EndAfterZ, Release, Fail,
     StartThrows, EndThrows, ReleaseFails, Crash, Exit, StartWrites, store, ended
<1>10. ASSUME RemoveStaleLock \/ Readers \/ UNCHANGED vars
       PROVE  UNCHANGED <<active, dir, endedAt>>
  BY <1>10 DEF RemoveStaleLock, Readers, ListNames, ListPointer, ListSession,
     ListReturn, ReadBinding, ReadContribution, ReadReturn, vars, store, ended
<1> QED
  BY <1>1, <1>2, <1>3, <1>5, <1>6, <1>7, <1>8, <1>9, <1>10, StoreStutters
     DEF Next, Proceed, StartStep, EndStep

(* SessionLifecycle implements the atomic store, whatever crashes.         *)
THEOREM RefinesStore == Spec => ImplementsStore
<1>1. Init => Store!Init
  BY DEF Init, Store!Init, Phase
<1> QED
  BY <1>1, StoreStep, Invariant, PTL DEF Spec, Store!Spec, ImplementsStore

(* Every step of an operation is a step of withExclusiveLock or leaves the *)
(* lock alone.                                                             *)
LEMMA LockStep == Inv /\ [Next]_vars => [StartLock!Next]_(StartLock!vars)
<1> SUFFICES ASSUME Inv, [Next]_vars PROVE [StartLock!Next]_(StartLock!vars)
  OBVIOUS
<1> USE DEF Inv, TypeOK
<1>1. ASSUME NEW p \in Procs, StartAcquire(p) \/ EndAcquire(p) PROVE StartLock!Acquire(p)
  <2>1. PICK first \in {"precheck", "load"} : Acquire(p, first)
    BY <1>1 DEF StartAcquire, EndAcquire
  <2>2. \A q \in Procs : LockStage(q)' = IF q = p THEN "inside" ELSE LockStage(q)
    BY <2>1 DEF Acquire, Goto, LockStage
  <2>3. LockStage(p) = "idle"
    BY <2>1 DEF Acquire, LockStage
  <2> QED
    BY <2>1, <2>2, <2>3 DEF StartLock!Acquire, Acquire
<1>2. ASSUME NEW p \in Procs, Release(p) PROVE StartLock!Release(p)
  <2>1. \A q \in Procs : LockStage(q)' = IF q = p THEN "idle" ELSE LockStage(q)
    BY <1>2 DEF Release, Exit, Goto, LockStage
  <2>2. LockStage(p) \in {"threw", "returned"}
    BY <1>2 DEF Release, LockStage
  <2> QED
    BY <1>2, <2>1, <2>2 DEF StartLock!Release, Release
<1>3. ASSUME NEW p \in Procs, ReleaseFails(p) PROVE StartLock!ReleaseFails(p)
  <2>1. \A q \in Procs : LockStage(q)' = IF q = p THEN "idle" ELSE LockStage(q)
    BY <1>3 DEF ReleaseFails, Exit, Goto, LockStage
  <2>2. LockStage(p) \in {"threw", "returned"}
    BY <1>3 DEF ReleaseFails, LockStage
  <2> QED
    BY <1>3, <2>1, <2>2 DEF StartLock!ReleaseFails, ReleaseFails
<1>4. ASSUME NEW p \in Procs, Crash(p)
      PROVE  StartLock!Crash(p) \/ StartLock!ReleaseFails(p)
  <2>1. \A q \in Procs : LockStage(q)' = IF q = p THEN "idle" ELSE LockStage(q)
    BY <1>4 DEF Crash, Exit, Goto, LockStage
  <2>2. LockStage(p) \in {"inside", "threw", "returned"}
    BY <1>4 DEF Crash, LockStage
  <2> QED
    BY <1>4, <2>1, <2>2 DEF StartLock!Crash, StartLock!Holding, Crash
<1>5. CASE RemoveStaleLock
  <2>1. \A q \in Procs : LockStage(q) = "idle" /\ LockStage(q)' = "idle"
    BY <1>5 DEF RemoveStaleLock, LockStage
  <2>2. lockDir /\ lockDir' = FALSE
    BY <1>5 DEF RemoveStaleLock
  <2>3. \A q \in Procs : [t \in Procs |-> LockStage(t)][q] \notin StartLock!Holding
    BY <2>1 DEF StartLock!Holding
  <2>4. [t \in Procs |-> LockStage(t)]' = [t \in Procs |-> LockStage(t)]
    BY <2>1
  <2> QED
    BY <2>2, <2>3, <2>4 DEF StartLock!RemoveStale, StartLock!Next
<1>6. ASSUME NEW p \in Procs, NEW to \in InLock, pc[p] \in InLock \ {"threw", "returned"},
             UNCHANGED lockDir, pc' = [pc EXCEPT ![p] = to]
      PROVE  [StartLock!Next]_(StartLock!vars)
  <2>1. LockStage(p) = "inside"
    BY <1>6 DEF LockStage, InLock, StartSteps, EndSteps
  <2>2. CASE to \in {"threw", "returned"}
    <3>1. \A q \in Procs : LockStage(q)' = IF q = p THEN to ELSE LockStage(q)
      BY <1>6, <2>2 DEF LockStage
    <3>2. StartLock!Settle(p)
      BY <1>6, <2>1, <2>2, <3>1 DEF StartLock!Settle
    <3> QED
      BY <3>2 DEF StartLock!Next
  <2>3. CASE to \notin {"threw", "returned"}
    <3>1. \A q \in Procs : LockStage(q)' = LockStage(q)
      BY <1>6, <2>1, <2>3 DEF LockStage, InLock, StartSteps, EndSteps
    <3> QED
      BY <1>6, <3>1 DEF StartLock!vars
  <2> QED
    BY <2>2, <2>3
<1>7. ASSUME NEW p \in Procs, StartStep(p) \/ EndStep(p) \/ StartThrows(p) \/ EndThrows(p)
      PROVE  /\ pc[p] \in InLock \ {"threw", "returned"} /\ UNCHANGED lockDir
             /\ \E to \in InLock : pc' = [pc EXCEPT ![p] = to]
  <2> USE DEF InLock, StartSteps, EndSteps, Step, Goto
  <2>1. CASE StartStep(p)
    BY <2>1 DEF StartStep, StartPrecheck, StartMakeTmp, StartCheckpoint, StartRecheck,
       StartSessionJson, StartBeforeStatus, StartCommandsLog, StartRename,
       StartActivate, StartCleanup, StartWrites
  <2>2. CASE EndLoad(p)
    <3>1. CASE Loadable(active)
      BY <2>2, <3>1 DEF EndLoad
    <3>2. CASE ~Loadable(active)
      BY <2>2, <3>2 DEF EndLoad
    <3> QED
      BY <3>1, <3>2
  <2>4. CASE EndStep(p) /\ ~EndLoad(p)
    BY <2>4 DEF EndStep, EndCapture, EndReload, EndContribution,
       EndAfterText, EndAfterZ, EndSessionJson, EndDeactivate
  <2>3. CASE StartThrows(p) \/ EndThrows(p)
    BY <2>3 DEF StartThrows, EndThrows
  <2> QED
    BY <1>7, <2>1, <2>2, <2>3, <2>4
<1>8. ASSUME DeleteStalePointer \/ Readers \/ UNCHANGED vars
      PROVE  UNCHANGED StartLock!vars
  <2>1. UNCHANGED <<lockDir, pc>>
    BY <1>8 DEF DeleteStalePointer, Readers, ListNames, ListPointer, ListSession,
       ListReturn, ReadBinding, ReadContribution, ReadReturn, vars, proc
  <2> QED
    BY <2>1 DEF StartLock!vars, LockStage
<1> QED
  BY <1>1, <1>2, <1>3, <1>4, <1>5, <1>6, <1>7, <1>8
     DEF Next, Proceed, Fail, StartLock!Next

(* start and end take start.lock as withExclusiveLock prescribes, hence    *)
(* they exclude one another whatever stops half way.                       *)
THEOREM RefinesLock == Spec => ImplementsLock
<1>1. Init => StartLock!Init
  BY DEF Init, StartLock!Init, LockStage
<1> QED
  BY <1>1, LockStep, Invariant, PTL DEF Spec, StartLock!Spec, ImplementsLock

-----------------------------------------------------------------------------
(* The readers, who take no lock.                                          *)

(* What a step may do to a session behind a reader's back: published, it   *)
(* stays so; its end and its contribution are only replaced by later ones; *)
(* it stops being active only once it has ended.                           *)
LEMMA SessionsAdvance ==
    ASSUME Inv, [Next]_vars, NEW s \in Sessions
    PROVE  /\ endedAt[s] > 0 => endedAt'[s] > 0
           /\ \A n \in Nat : contribution[s] >= n => contribution'[s] >= n
           /\ \A n \in Nat : contribution[s] > n => contribution'[s] > n
           /\ active = s => active' = s \/ endedAt'[s] > 0
<1> USE DEF Inv, TypeOK
<1>0. /\ endedAt[s] \in Nat /\ contribution[s] \in Nat /\ captures \in Nat
      /\ s # NoSession
  BY MaxCapturesAssumption, NoSessionAssumption
<1>1. ASSUME NEW p \in Procs, EndContribution(p)
      PROVE  contribution'[s] \in Nat /\ contribution'[s] >= contribution[s]
             /\ UNCHANGED <<active, endedAt>>
  <2>1. capture[p] = captures /\ contribution' = [contribution EXCEPT ![sid[p]] = capture[p]]
    BY <1>1 DEF EndContribution, Step, EndInv, PickedSteps
  <2> QED
    BY <1>0, <1>1, <2>1 DEF EndContribution, CapturesBound
<1>2. ASSUME NEW p \in Procs, EndSessionJson(p)
      PROVE  (endedAt[s] > 0 => endedAt'[s] > 0) /\ UNCHANGED <<active, contribution>>
  <2>1. /\ capture[p] = captures /\ captures > 0
        /\ endedAt' = [endedAt EXCEPT ![sid[p]] = capture[p]]
    BY <1>2 DEF EndSessionJson, Step, EndInv, PickedSteps
  <2> QED
    BY <1>0, <1>2, <2>1 DEF EndSessionJson
<1>3. ASSUME NEW p \in Procs, EndDeactivate(p)
      PROVE  (active = s => endedAt[s] > 0) /\ UNCHANGED <<endedAt, contribution>>
  <2>1. (active = sid[p] \/ active = NoSession) /\ endedAt[sid[p]] = captures /\ captures > 0
    BY <1>3 DEF EndDeactivate, Step, EndInv, PickedSteps
  <2> QED
    BY <1>0, <1>3, <2>1 DEF EndDeactivate, ended
<1>4. ASSUME NEW p \in Procs, StartActivate(p)
      PROVE  active = NoSession /\ UNCHANGED <<endedAt, contribution>>
  BY <1>4 DEF StartActivate, Step, StartInv, ended
<1>5. CASE DeleteStalePointer
  BY <1>0, <1>5 DEF DeleteStalePointer, ended
<1>6. ASSUME NEW p \in Procs,
             \/ StartAcquire(p) \/ EndAcquire(p) \/ StartPrecheck(p) \/ StartMakeTmp(p)
             \/ StartCheckpoint(p) \/ StartRecheck(p) \/ StartSessionJson(p)
             \/ StartBeforeStatus(p) \/ StartCommandsLog(p) \/ StartRename(p)
             \/ StartCleanup(p) \/ EndLoad(p) \/ EndCapture(p) \/ EndReload(p)
             \/ EndAfterText(p) \/ EndAfterZ(p) \/ Release(p) \/ Fail(p)
      PROVE  UNCHANGED <<active, endedAt, contribution>>
  BY <1>6 DEF StartAcquire, EndAcquire, Acquire, StartPrecheck, StartMakeTmp,
     StartCheckpoint, StartRecheck, StartSessionJson, StartBeforeStatus,
     StartCommandsLog, StartRename, StartCleanup, EndLoad, EndCapture, EndReload,
     EndAfterText, EndAfterZ, Release, Fail, StartThrows, EndThrows, ReleaseFails,
     Crash, Exit, StartWrites, store, ended
<1>7. ASSUME RemoveStaleLock \/ Readers \/ UNCHANGED vars
      PROVE  UNCHANGED <<active, endedAt, contribution>>
  BY <1>7 DEF RemoveStaleLock, Readers, ListNames, ListPointer, ListSession,
     ListReturn, ReadBinding, ReadContribution, ReadReturn, vars, store, ended
<1> QED
  BY <1>0, <1>1, <1>2, <1>3, <1>4, <1>5, <1>6, <1>7
     DEF Next, Proceed, StartStep, EndStep

(* What a listing knows when it has read the directory, the pointer, and   *)
(* session.json: an end on record, unless the session is still active.     *)
ListerInv ==
    /\ lister.at # "idle" => lister.session \in Sessions
    /\ lister.at # "idle" /\ lister.was = "ended" => endedAt[lister.session] > 0
    /\ lister.at = "named" /\ lister.was = "active" =>
          active = lister.session \/ endedAt[lister.session] > 0
    /\ lister.at = "pointed" /\ lister.was = "active" =>
          lister.seen = lister.session \/ endedAt[lister.session] > 0

(* The digest a consumer has bound was on disk as the contribution, and    *)
(* nothing older replaces it.                                              *)
ReaderInv ==
    /\ reader.at # "idle" => /\ reader.session \in Sessions
                             /\ reader.digest > 0
                             /\ contribution[reader.session] >= reader.digest
    /\ reader.at # "done" => reader.result = "none"

ReadInv == ListerInv /\ ListingSound /\ ReaderInv /\ ReaderFindsContribution

LEMMA ReadersInit == Init => ReadInv
  BY DEF Init, ReadInv, ListerInv, ListingSound, ReaderInv, ReaderFindsContribution,
         IdleLister, IdleReader

LEMMA ReadersStep == Inv /\ ReadInv /\ [Next]_vars => ReadInv'
<1> SUFFICES ASSUME Inv, ReadInv, [Next]_vars PROVE ReadInv'
  OBVIOUS
<1>1. lister \in Listers /\ reader \in Contributions /\ reader.digest \in Nat
  BY MaxCapturesAssumption DEF Inv, TypeOK, Contributions
<1>2. (ListerInv /\ ListingSound)'
  <2> USE DEF ListerInv, ListingSound
  <2>1. CASE UNCHANGED lister
    <3>1. lister.at # "idle" => lister.session \in Sessions
      BY DEF ReadInv
    <3> QED
      BY <2>1, <3>1, SessionsAdvance DEF ReadInv
  <2>2. CASE ListNames
    <3>1. PICK s \in Sessions :
             lister' = [IdleLister EXCEPT
                          !.at = "named", !.session = s,
                          !.was = IF endedAt[s] > 0 THEN "ended"
                                  ELSE IF active = s THEN "active" ELSE "orphan"]
      BY <2>2 DEF ListNames
    <3>2. UNCHANGED <<active, endedAt>>
      BY <2>2 DEF ListNames, store, ended
    <3> QED
      BY <3>1, <3>2 DEF IdleLister
  <2>3. CASE ListPointer
    BY <1>1, <2>3 DEF ReadInv, ListPointer, store, ended, Listers
  <2>4. CASE ListSession
    <3>1. UNCHANGED <<active, endedAt>>
      BY <2>4 DEF ListSession, store, ended
    <3> QED
      BY <1>1, <2>4, <3>1 DEF ReadInv, ListSession, Listers
  <2>5. CASE ListReturn
    BY <2>5 DEF ListReturn, IdleLister
  <2>6. UNCHANGED lister \/ ListNames \/ ListPointer \/ ListSession \/ ListReturn
    BY DEF Next, vars, Readers, Proceed, Fail, StartStep, EndStep, StartAcquire, EndAcquire,
       Acquire, StartPrecheck, StartMakeTmp, StartCheckpoint, StartRecheck,
       StartSessionJson, StartBeforeStatus, StartCommandsLog, StartRename, StartActivate,
       StartCleanup, EndLoad, EndCapture, EndReload, EndContribution, EndAfterText,
       EndAfterZ, EndSessionJson, EndDeactivate, Release, StartThrows, EndThrows,
       ReleaseFails, Crash, Exit, StartWrites, RemoveStaleLock, DeleteStalePointer,
       ReadBinding, ReadContribution, ReadReturn
  <2> QED
    BY <2>1, <2>2, <2>3, <2>4, <2>5, <2>6
<1>3. (ReaderInv /\ ReaderFindsContribution)'
  <2> USE DEF ReaderInv, ReaderFindsContribution
  <2>1. CASE UNCHANGED reader
    <3>1. CASE reader.at = "idle"
      BY <2>1, <3>1 DEF ReadInv
    <3>2. CASE reader.at # "idle"
      <4>1. reader.session \in Sessions
        BY <3>2 DEF ReadInv
      <4> QED
        BY <1>1, <2>1, <3>2, <4>1, SessionsAdvance DEF ReadInv
    <3> QED
      BY <3>1, <3>2
  <2>2. CASE ReadBinding
    <3>1. PICK s \in Sessions :
             /\ endedAt[s] > 0
             /\ reader' = [IdleReader EXCEPT !.at = "bound", !.session = s,
                                             !.digest = endedAt[s]]
      BY <2>2 DEF ReadBinding
    <3>2. contribution[s] >= endedAt[s] /\ contribution' = contribution
      BY <2>2, <3>1 DEF ReadBinding, store, ended, Inv, EndedHasArtifacts
    <3> QED
      BY <3>1, <3>2 DEF IdleReader
  <2>3. CASE ReadContribution
    <3>1. contribution' = contribution /\ reader.at = "bound"
      BY <2>3 DEF ReadContribution, store, ended
    <3>2. /\ reader.session \in Sessions /\ reader.digest > 0
          /\ contribution[reader.session] >= reader.digest
          /\ contribution[reader.session] \in Nat
      BY <3>1, MaxCapturesAssumption DEF ReadInv, Inv, TypeOK
    <3>3. contribution[reader.session] # 0
      BY <1>1, <3>2
    <3>4. PICK r \in {"mismatch", "verified"} : reader' = [reader EXCEPT !.at = "done", !.result = r]
      BY <2>3, <3>3 DEF ReadContribution
    <3>5. /\ reader'.at = "done" /\ reader'.session = reader.session
          /\ reader'.digest = reader.digest
          /\ reader'.result \in {"mismatch", "verified"}
      BY <1>1, <3>4 DEF Contributions
    <3>6. r = "mismatch" => contribution[reader.session] # reader.digest
      BY <1>1, <2>3, <3>3, <3>4 DEF ReadContribution, Contributions
    <3> QED
      BY <1>1, <3>1, <3>2, <3>4, <3>5, <3>6 DEF Contributions
  <2>4. CASE ReadReturn
    BY <2>4 DEF ReadReturn, IdleReader
  <2>5. UNCHANGED reader \/ ReadBinding \/ ReadContribution \/ ReadReturn
    BY DEF Next, vars, Readers, Proceed, Fail, StartStep, EndStep, StartAcquire, EndAcquire,
       Acquire, StartPrecheck, StartMakeTmp, StartCheckpoint, StartRecheck,
       StartSessionJson, StartBeforeStatus, StartCommandsLog, StartRename, StartActivate,
       StartCleanup, EndLoad, EndCapture, EndReload, EndContribution, EndAfterText,
       EndAfterZ, EndSessionJson, EndDeactivate, Release, StartThrows, EndThrows,
       ReleaseFails, Crash, Exit, StartWrites, RemoveStaleLock, DeleteStalePointer,
       ListNames, ListPointer, ListSession, ListReturn
  <2> QED
    BY <2>1, <2>2, <2>3, <2>4, <2>5
<1> QED
  BY <1>2, <1>3 DEF ReadInv

(* What the readers find, throughout every execution.                      *)
LEMMA ReadersInvariant == Spec => []ReadInv
  BY ReadersInit, ReadersStep, Invariant, PTL DEF Spec

(* A consumer of an ended session's contribution finds it; another digest  *)
(* than the one bound is that of a later end.                              *)
THEOREM ContributionFound == Spec => []ReaderFindsContribution
  BY ReadersInvariant, PTL DEF ReadInv

(* listSessions never calls an active or ended session interrupted, however *)
(* an end runs between its reads.                                          *)
THEOREM ListingIsSound == Spec => []ListingSound
  BY ReadersInvariant, PTL DEF ReadInv

=============================================================================

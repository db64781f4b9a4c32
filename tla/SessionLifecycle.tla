-------------------------- MODULE SessionLifecycle --------------------------
(***************************************************************************)
(* The session lifecycle of core/src/session.ts as the operations of       *)
(* cli-commands drive it: `start` and `end` under start.lock, one durable  *)
(* file write per step, with failures and crashes between any two steps,   *)
(* beside two kinds of readers that take no lock (listSessions, and a      *)
(* consumer of the ended session's contribution).                          *)
(*                                                                         *)
(* A capture is numbered: number n stands for the contribution bytes,      *)
(* their digest and the ended_at of the n-th successful capture, which     *)
(* endSession binds to one another before it writes.                       *)
(***************************************************************************)
EXTENDS Naturals, FiniteSets

CONSTANTS Procs,       \* invocations of start and end
          NoProc,
          Sessions,    \* session ids generateSessionId can mint
          NoSession,
          MaxCaptures  \* bound on the number of contribution captures

ASSUME NoProcAssumption == NoProc \notin Procs
ASSUME NoSessionAssumption == NoSession \notin Sessions
ASSUME MaxCapturesAssumption == MaxCaptures \in Nat

VARIABLES
    lockDir,       \* .viberevert/start.lock exists
    pc,            \* pc[p]: the next step of p's start or end
    sid,           \* sid[p]: the session p works on
    capture,       \* capture[p]: the capture p publishes, 0 before it has one
    captures,      \* captures taken so far
    active,        \* what active-session.json names, or NoSession
    dir,           \* dir[s]: none yet, .tmp-<s>, removed again, or sessions/<s>
    files,         \* files[s]: the start-side files the directory holds
    endedAt,       \* endedAt[s]: the capture session.json records, 0 while open
    contribution,  \* contribution[s]: the capture contribution.json holds, or 0
    afterText,     \* afterText[s]: the capture after-status.txt is from, or 0
    afterZ,        \* afterZ[s]: the capture after-status.z is from, or 0
    lister,        \* a listSessions in progress, for one of the ids it lists
    reader         \* a loadVerifiedSessionContribution in progress

proc == <<lockDir, pc, sid, capture, captures>>
ended == <<endedAt, contribution, afterText, afterZ>>
store == <<active, dir, files, ended>>
vars == <<proc, store, lister, reader>>

StartFiles == {"checkpoint", "session.json", "before-status.txt", "commands.log"}

StartSteps == {"precheck", "mkdir_tmp", "checkpoint", "recheck", "session_json",
               "before_status", "commands_log", "rename", "activate"}
EndSteps == {"load", "capture", "reload", "contribution", "after_txt", "after_z",
             "ended", "deactivate"}
InLock == StartSteps \cup EndSteps \cup {"cleanup", "threw", "returned"}

(* One id of a listSessions: which was its state when the names were read, *)
(* the pointer seen after that, and the report.                            *)
Listers == [at : {"idle", "named", "pointed", "done"},
            session : Sessions \cup {NoSession},
            seen : Sessions \cup {NoSession},
            was : {"none", "orphan", "active", "ended"},
            report : {"none", "crash_interrupted", "active", "ended"}]

(* A read of a contribution: the digest session.json bound, and the result.*)
Contributions == [at : {"idle", "bound", "done"},
                  session : Sessions \cup {NoSession},
                  digest : 0..MaxCaptures,
                  result : {"none", "missing", "mismatch", "verified"}]

TypeOK ==
    /\ lockDir \in BOOLEAN
    /\ pc \in [Procs -> InLock \cup {"idle"}]
    /\ sid \in [Procs -> Sessions \cup {NoSession}]
    /\ captures \in 0..MaxCaptures
    /\ capture \in [Procs -> 0..MaxCaptures]
    /\ active \in Sessions \cup {NoSession}
    /\ dir \in [Sessions -> {"none", "tmp", "removed", "final"}]
    /\ files \in [Sessions -> SUBSET StartFiles]
    /\ endedAt \in [Sessions -> 0..MaxCaptures]
    /\ contribution \in [Sessions -> 0..MaxCaptures]
    /\ afterText \in [Sessions -> 0..MaxCaptures]
    /\ afterZ \in [Sessions -> 0..MaxCaptures]
    /\ lister \in Listers
    /\ reader \in Contributions

IdleLister == [at |-> "idle", session |-> NoSession, seen |-> NoSession,
               was |-> "none", report |-> "none"]
IdleReader == [at |-> "idle", session |-> NoSession, digest |-> 0,
               result |-> "none"]

Init == /\ lockDir = FALSE
        /\ pc = [p \in Procs |-> "idle"]
        /\ sid = [p \in Procs |-> NoSession]
        /\ capture = [p \in Procs |-> 0]
        /\ captures = 0
        /\ active = NoSession
        /\ dir = [s \in Sessions |-> "none"]
        /\ files = [s \in Sessions |-> {}]
        /\ endedAt = [s \in Sessions |-> 0]
        /\ contribution = [s \in Sessions |-> 0]
        /\ afterText = [s \in Sessions |-> 0]
        /\ afterZ = [s \in Sessions |-> 0]
        /\ lister = IdleLister
        /\ reader = IdleReader

-----------------------------------------------------------------------------
(* start.lock, as withExclusiveLock takes and releases it.  A refused      *)
(* contender changes nothing here (DirLock has its refusal).               *)

Goto(p, label) == pc' = [pc EXCEPT ![p] = label]

(* The step at `from' is done and the next one is `to'; only pc moves.     *)
Step(p, from, to) == /\ pc[p] = from
                     /\ Goto(p, to)
                     /\ UNCHANGED <<lockDir, sid, capture, captures>>

(* Fault: mkdir with recursive: true does not fail on a held lock.         *)
AcquireRecursive(p, first) ==
    /\ pc[p] = "idle"
    /\ lockDir' = TRUE
    /\ Goto(p, first)
    /\ UNCHANGED <<sid, capture, captures, store, lister, reader>>

Acquire(p, first) == /\ pc[p] = "idle"
                     /\ ~lockDir
                     /\ lockDir' = TRUE
                     /\ Goto(p, first)
                     /\ UNCHANGED <<sid, capture, captures, store, lister, reader>>

(* The operation is over: its locals go.                                   *)
Exit(p) == /\ Goto(p, "idle")
           /\ sid' = [sid EXCEPT ![p] = NoSession]
           /\ capture' = [capture EXCEPT ![p] = 0]
           /\ UNCHANGED <<captures, store, lister, reader>>

Release(p) == /\ pc[p] \in {"threw", "returned"}
              /\ lockDir' = FALSE
              /\ Exit(p)

(* rm of the lock directory failed: the operation is over all the same.    *)
ReleaseFails(p) == /\ pc[p] \in {"threw", "returned"}
                   /\ UNCHANGED lockDir
                   /\ Exit(p)

Crash(p) == /\ pc[p] # "idle"
            /\ UNCHANGED lockDir
            /\ Exit(p)

(* The operator removes a lock directory no running command holds.         *)
RemoveStaleLock == /\ lockDir
                   /\ \A p \in Procs : pc[p] = "idle"
                   /\ lockDir' = FALSE
                   /\ UNCHANGED <<pc, sid, capture, captures, store, lister, reader>>

(* The manual recovery endSession documents for its crash window: delete   *)
(* active-session.json when the session it names already has ended.        *)
DeleteStalePointer == /\ active # NoSession
                      /\ endedAt[active] > 0
                      /\ active' = NoSession
                      /\ UNCHANGED <<proc, dir, files, ended, lister, reader>>

-----------------------------------------------------------------------------
(* startSessionOperation and, from "recheck" on, core's startSession.      *)

StartAcquire(p) == Acquire(p, "precheck")

(* Fault: start waits for the active session to end.                       *)
StartPrecheckWaits(p) ==
    /\ Step(p, "precheck", IF active = NoSession THEN "mkdir_tmp" ELSE "precheck")
    /\ UNCHANGED <<store, lister, reader>>

StartPrecheck(p) == /\ Step(p, "precheck",
                            IF active = NoSession THEN "mkdir_tmp" ELSE "threw")
                    /\ UNCHANGED <<store, lister, reader>>

(* generateSessionId, then mkdir .tmp-<id>: an id is minted once.          *)
StartMakeTmp(p) == /\ pc[p] = "mkdir_tmp"
                   /\ \E s \in Sessions :
                         /\ dir[s] = "none"
                         /\ dir' = [dir EXCEPT ![s] = "tmp"]
                         /\ sid' = [sid EXCEPT ![p] = s]
                   /\ Goto(p, "checkpoint")
                   /\ UNCHANGED <<lockDir, capture, captures, active, files, ended,
                                  lister, reader>>

StartWrites(p, from, file, to) ==
    /\ Step(p, from, to)
    /\ files' = [files EXCEPT ![sid[p]] = @ \cup {file}]
    /\ UNCHANGED <<active, dir, ended, lister, reader>>

StartCheckpoint(p) == StartWrites(p, "checkpoint", "checkpoint", "recheck")

(* core's own look at the active lock; a refusal goes to the cleanup.      *)
StartRecheck(p) == /\ Step(p, "recheck",
                           IF active = NoSession THEN "session_json" ELSE "cleanup")
                   /\ UNCHANGED <<store, lister, reader>>

StartSessionJson(p) ==
    StartWrites(p, "session_json", "session.json", "before_status")
StartBeforeStatus(p) ==
    StartWrites(p, "before_status", "before-status.txt", "commands_log")
StartCommandsLog(p) ==
    StartWrites(p, "commands_log", "commands.log", "rename")

StartRename(p) == /\ Step(p, "rename", "activate")
                  /\ dir' = [dir EXCEPT ![sid[p]] = "final"]
                  /\ UNCHANGED <<active, files, ended, lister, reader>>

StartActivate(p) == /\ Step(p, "activate", "returned")
                    /\ active' = sid[p]
                    /\ UNCHANGED <<dir, files, ended, lister, reader>>

(* Any step of start may throw; from the temporary directory on the        *)
(* cleanup of the catch block runs first.                                  *)
StartThrows(p) == /\ pc[p] \in StartSteps
                  /\ Goto(p, IF pc[p] \in {"precheck", "mkdir_tmp"}
                             THEN "threw" ELSE "cleanup")
                  /\ UNCHANGED <<lockDir, sid, capture, captures, store, lister,
                                 reader>>

(* rm -rf of .tmp-<id>, best effort; once renamed there is nothing to      *)
(* remove and the published directory stays.                               *)
StartCleanup(p) == /\ Step(p, "cleanup", "threw")
                   /\ LET s == sid[p] IN
                      \/ /\ dir[s] = "tmp"
                         /\ dir' = [dir EXCEPT ![s] = "removed"]
                         /\ files' = [files EXCEPT ![s] = {}]
                      \/ UNCHANGED <<dir, files>>
                   /\ UNCHANGED <<active, ended, lister, reader>>

-----------------------------------------------------------------------------
(* endSessionOperation and, from "reload" on, core's endSession.           *)

EndAcquire(p) == Acquire(p, "load")

(* loadActiveSessionLock, then loadSession of the id it names.             *)
Loadable(s) == s # NoSession /\ dir[s] = "final" /\ "session.json" \in files[s]

EndLoad(p) == /\ pc[p] = "load"
              /\ IF Loadable(active)
                 THEN /\ sid' = [sid EXCEPT ![p] = active]
                      /\ Goto(p, "capture")
                 ELSE /\ Goto(p, "threw")
                      /\ UNCHANGED sid
              /\ UNCHANGED <<lockDir, capture, captures, store, lister, reader>>

(* captureContribution reached a matching fence and calls publish.         *)
EndCapture(p) == /\ pc[p] = "capture"
                 /\ captures < MaxCaptures
                 /\ captures' = captures + 1
                 /\ capture' = [capture EXCEPT ![p] = captures + 1]
                 /\ Goto(p, "reload")
                 /\ UNCHANGED <<lockDir, sid, store, lister, reader>>

(* endSession reads the active lock again and binds the contribution to    *)
(* the session it names.                                                   *)
(* Fault: session.json is written before the artifacts it names.           *)
EndReloadIndexFirst(p) ==
    /\ Step(p, "reload", IF Loadable(active) /\ active = sid[p] THEN "ended" ELSE "threw")
    /\ UNCHANGED <<store, lister, reader>>

EndReload(p) == /\ Step(p, "reload",
                        IF Loadable(active) /\ active = sid[p]
                        THEN "contribution" ELSE "threw")
                /\ UNCHANGED <<store, lister, reader>>

(* Fault: the old contribution.json is unlinked, then the write fails.     *)
EndContributionUnlinks(p) ==
    /\ \/ /\ Step(p, "contribution", "after_txt")
          /\ contribution' = [contribution EXCEPT ![sid[p]] = capture[p]]
       \/ /\ Step(p, "contribution", "threw")
          /\ contribution' = [contribution EXCEPT ![sid[p]] = 0]
    /\ UNCHANGED <<active, dir, files, endedAt, afterText, afterZ, lister, reader>>

EndContribution(p) ==
    /\ Step(p, "contribution", "after_txt")
    /\ contribution' = [contribution EXCEPT ![sid[p]] = capture[p]]
    /\ UNCHANGED <<active, dir, files, endedAt, afterText, afterZ, lister, reader>>

EndAfterText(p) ==
    /\ Step(p, "after_txt", "after_z")
    /\ afterText' = [afterText EXCEPT ![sid[p]] = capture[p]]
    /\ UNCHANGED <<active, dir, files, endedAt, contribution, afterZ, lister, reader>>

(* Fault: active-session.json is removed without session.json's ended_at.  *)
EndAfterZSkips(p) ==
    /\ Step(p, "after_z", "deactivate")
    /\ afterZ' = [afterZ EXCEPT ![sid[p]] = capture[p]]
    /\ UNCHANGED <<active, dir, files, endedAt, contribution, afterText, lister, reader>>

EndAfterZ(p) ==
    /\ Step(p, "after_z", "ended")
    /\ afterZ' = [afterZ EXCEPT ![sid[p]] = capture[p]]
    /\ UNCHANGED <<active, dir, files, endedAt, contribution, afterText, lister, reader>>

EndSessionJson(p) ==
    /\ Step(p, "ended", "deactivate")
    /\ endedAt' = [endedAt EXCEPT ![sid[p]] = capture[p]]
    /\ UNCHANGED <<active, dir, files, contribution, afterText, afterZ, lister, reader>>

(* rm without force: a pointer that is already gone is an error.           *)
EndDeactivate(p) ==
    /\ Step(p, "deactivate", IF active = NoSession THEN "threw" ELSE "returned")
    /\ active' = NoSession
    /\ UNCHANGED <<dir, files, ended, lister, reader>>

(* Fault: a failing end clears active-session.json on its way out.         *)
EndThrowsClears(p) ==
    /\ pc[p] \in EndSteps
    /\ Goto(p, "threw")
    /\ active' = NoSession
    /\ UNCHANGED <<lockDir, sid, capture, captures, dir, files, ended, lister, reader>>

(* Any step of end may throw: a capture that never reaches a matching      *)
(* fence, a write that fails.                                              *)
EndThrows(p) == /\ pc[p] \in EndSteps
                /\ Goto(p, "threw")
                /\ UNCHANGED <<lockDir, sid, capture, captures, store, lister, reader>>

-----------------------------------------------------------------------------
(* listSessions: the names, then the active lock, then each session.json.  *)
(* Each id is reported on its own, so one id stands for them all.          *)

ListNames == /\ lister.at = "idle"
             /\ \E s \in Sessions :
                   /\ dir[s] = "final"
                   /\ lister' = [IdleLister EXCEPT
                         !.at = "named", !.session = s,
                         !.was = IF endedAt[s] > 0 THEN "ended"
                                 ELSE IF active = s THEN "active" ELSE "orphan"]
             /\ UNCHANGED <<proc, store, reader>>

ListPointer == /\ lister.at = "named"
               /\ lister' = [lister EXCEPT !.at = "pointed", !.seen = active]
               /\ UNCHANGED <<proc, store, reader>>

ListSession ==
    /\ lister.at = "pointed"
    /\ lister' = [lister EXCEPT
          !.at = "done",
          !.report = IF endedAt[lister.session] > 0 THEN "ended"
                     ELSE IF lister.seen = lister.session THEN "active"
                     ELSE "crash_interrupted"]
    /\ UNCHANGED <<proc, store, reader>>

ListReturn == /\ lister.at = "done"
              /\ lister' = IdleLister
              /\ UNCHANGED <<proc, store, reader>>

(* A consumer loads an ended session, then its contribution by path and    *)
(* digest (loadVerifiedSessionContribution).                               *)
ReadBinding == /\ reader.at = "idle"
               /\ \E s \in Sessions :
                     /\ Loadable(s)
                     /\ endedAt[s] > 0
                     /\ reader' = [IdleReader EXCEPT !.at = "bound", !.session = s,
                                                     !.digest = endedAt[s]]
               /\ UNCHANGED <<proc, store, lister>>

ReadContribution ==
    /\ reader.at = "bound"
    /\ LET found == contribution[reader.session] IN
       reader' = [reader EXCEPT
          !.at = "done",
          !.result = IF found = 0 THEN "missing"
                     ELSE IF found # reader.digest THEN "mismatch" ELSE "verified"]
    /\ UNCHANGED <<proc, store, lister>>

ReadReturn == /\ reader.at = "done"
              /\ reader' = IdleReader
              /\ UNCHANGED <<proc, store, lister>>

-----------------------------------------------------------------------------
StartStep(p) == \/ StartPrecheck(p) \/ StartMakeTmp(p) \/ StartCheckpoint(p)
                \/ StartRecheck(p) \/ StartSessionJson(p) \/ StartBeforeStatus(p)
                \/ StartCommandsLog(p) \/ StartRename(p) \/ StartActivate(p)
                \/ StartCleanup(p)

EndStep(p) == \/ EndLoad(p) \/ EndCapture(p) \/ EndReload(p) \/ EndContribution(p)
              \/ EndAfterText(p) \/ EndAfterZ(p) \/ EndSessionJson(p)
              \/ EndDeactivate(p)

Proceed(p) == StartStep(p) \/ EndStep(p) \/ Release(p)

Fail(p) == StartThrows(p) \/ EndThrows(p) \/ ReleaseFails(p) \/ Crash(p)

Readers == \/ ListNames \/ ListPointer \/ ListSession \/ ListReturn
           \/ ReadBinding \/ ReadContribution \/ ReadReturn

Next == \/ \E p \in Procs : StartAcquire(p) \/ EndAcquire(p) \/ Proceed(p) \/ Fail(p)
        \/ RemoveStaleLock
        \/ DeleteStalePointer
        \/ Readers

(* A running operation is scheduled.  The steps that run out of session    *)
(* ids or of captures here throw instead of waiting; no other has to.      *)
OutOfBounds(p) == /\ pc[p] \in {"mkdir_tmp", "capture"}
                  /\ StartThrows(p) \/ EndThrows(p)

Fairness == \A p \in Procs : WF_vars(Proceed(p) \/ OutOfBounds(p))

Spec == Init /\ [][Next]_vars /\ Fairness

-----------------------------------------------------------------------------
(* What the store promises, and the lock it takes.                         *)

Phase(s) == IF dir[s] # "final" THEN "absent"
            ELSE IF endedAt[s] = 0 THEN "open" ELSE "ended"

Store == INSTANCE SessionStore WITH phase <- [s \in Sessions |-> Phase(s)]

LockStage(p) == IF pc[p] = "idle" THEN "idle"
                ELSE IF pc[p] \in {"threw", "returned"} THEN pc[p] ELSE "inside"

StartLock == INSTANCE DirLock WITH dir <- lockDir,
                                   meta <- NoProc,
                                   stage <- [p \in Procs |-> LockStage(p)],
                                   info <- [p \in Procs |-> NoProc]

(* The one-file-at-a-time store implements the atomic one: whatever is     *)
(* lost in a crash, at most one session is active, a session stops being   *)
(* active only after session.json records its end, and it never reopens    *)
(* (startSession and endSession order their writes for this).              *)
ImplementsStore == Store!Spec

(* start and end take start.lock as withExclusiveLock prescribes, so no    *)
(* two of them ever interleave their reads and writes.                     *)
ImplementsLock == StartLock!Spec

(* A directory under its final name is complete, and active-session.json   *)
(* never names anything else, whenever the starter stopped.                *)
ActiveNamesPublished ==
    /\ \A s \in Sessions : dir[s] = "final" => files[s] = StartFiles
    /\ active # NoSession => dir[active] = "final"

(* "session.json must never name an artifact that is not already on disk": *)
(* once it records an end, the contribution and both after-status forms    *)
(* exist and none of them is older than that end, even when an end is run  *)
(* again over a crash and stops half way.                                  *)
EndedHasArtifacts ==
    \A s \in Sessions : endedAt[s] > 0 =>
        /\ contribution[s] >= endedAt[s]
        /\ afterText[s] >= endedAt[s]
        /\ afterZ[s] >= endedAt[s]

(* A consumer that reads session.json and then the contribution, with no   *)
(* lock, never finds it missing; if the digest differs it is because a     *)
(* later end of the same session has overwritten it.                       *)
ReaderFindsContribution ==
    /\ reader.result # "missing"
    /\ reader.result = "mismatch" => contribution[reader.session] > reader.digest

(* listSessions takes no lock: a session that was active, or ended, when   *)
(* the directory was read is never reported as crash-interrupted, however  *)
(* an end runs between its reads; an ended one is reported ended.          *)
ListingSound ==
    lister.at = "done" =>
        /\ lister.was = "ended" => lister.report = "ended"
        /\ lister.was = "active" => lister.report # "crash_interrupted"

(* Every start and end comes to an end: it never waits for another.        *)
OperationsEnd == \A p \in Procs : pc[p] # "idle" ~> pc[p] = "idle"

(* endSession's comment on the order of its writes: "the only reachable    *)
(* inconsistency is a contribution with no reference".  An end that is run *)
(* again over the documented crash window replaces contribution.json       *)
(* before session.json, so a reference may meet another contribution.      *)
OnlyUnreferencedContributions ==
    \A s \in Sessions : endedAt[s] > 0 => contribution[s] = endedAt[s]
=============================================================================

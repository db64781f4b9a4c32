------------------------------ MODULE Installer ------------------------------
(***************************************************************************)
(* viberevert install and uninstall: apply() and uninstall() of the        *)
(* installers package, one file operation at a time.  Invocations run in   *)
(* processes of their own beside each other and beside the user's editor;  *)
(* any may fail or die between two steps.  A mutating transaction writes a *)
(* journal entry first, saves the files it replaces, writes its targets,   *)
(* commits integrations.json and removes the entry; an entry that is still *)
(* there makes every later invocation refuse.                              *)
(*                                                                         *)
(* The adapter plans before the lock is taken.  The self-backup of         *)
(* integrations.json and its history are left out: nothing reads them.     *)
(***************************************************************************)
EXTENDS ManagedFiles, Sequences

CONSTANTS Procs,
          Keys,        \* record keys of integrations.json
          Paths,       \* target files
          AdapterOf,   \* AdapterOf[k]: which adapter plans for k
          TargetsOf,   \* TargetsOf[k]: the targets of its edits, in order
          InitialFiles,\* contents a target may have at first
          EditFiles,   \* contents the user may give a target
          MaxEdits,    \* bound on the user's edits
          EditsDuringRuns,  \* the user may edit while an invocation runs
          Faults       \* invocations may fail or die

ASSUME KeysAssumption ==
    /\ AdapterOf \in [Keys -> Adapters]
    /\ TargetsOf \in [Keys -> Seq(Paths) \ {<<>>}]
    /\ \A k, l \in Keys : \A i \in DOMAIN TargetsOf[k], j \in DOMAIN TargetsOf[l] :
           TargetsOf[k][i] = TargetsOf[l][j] => k = l /\ i = j
ASSUME FilesAssumption == InitialFiles \subseteq Contents /\ EditFiles \subseteq Contents
ASSUME MaxEditsAssumption == MaxEdits \in Nat
ASSUME FlagsAssumption == EditsDuringRuns \in BOOLEAN /\ Faults \in BOOLEAN

VARIABLES
    pc,         \* pc[p]: the next step of p's invocation, "idle" for none
    run,        \* run[p]: what the invocation has in memory
    lock,       \* the transaction in whose name integrations.lock/ exists, 0: none
    journals,   \* journals[x]: integration-journal/<x>.json
    backups,    \* backups[x][q]: what transaction x saved of q
    store,      \* store[k]: the record of k in integrations.json
    files,      \* files[q]: the target q
    begun,      \* transactions begun, which also numbers them
    edits,      \* the user's edits so far
    unsettled,  \* targets a transaction replaced and has not committed
    origin,     \* origin[q]: q as the user last left it outside any record
    touched     \* targets the user edited while a record covered them

internal == <<lock, journals, backups, store>>
ghosts == <<unsettled, origin, touched>>
vars == <<pc, run, internal, files, begun, edits, ghosts>>

NoRecord == <<>>
NoEntry == [phase |-> "none", command |-> "none", planned |-> {}, recorded |-> {}, saved |-> {}]
Unsaved == [there |-> FALSE, bytes |-> Absent]

Steps == {"lock", "scan", "read", "journal", "save", "note_save", "write",
          "note_write", "phase", "commit", "done", "delete", "drop", "release"}
Phases == {"none", "writing-files", "updating-integrations", "done", "torn"}
Outcomes == {"none", "applied", "uninstalled", "noop", "pending",
             "not_installed", "no_backup", "threw"} \cup Refusals

Commands == {"none", "install", "uninstall"}
Entries == [phase : Phases, command : Commands, planned : SUBSET Paths,
            recorded : SUBSET Paths, saved : SUBSET Paths]
Runs == [command : Commands, key : Keys \cup {"none"},
         force : BOOLEAN, migrate : BOOLEAN, txn : 0..MaxTransactions,
         plan : Seq(Ops), seen : [Keys -> Seq(RecordOps)], current : Seq(Contents),
         goal : Seq(Contents), final : Seq(RecordOps), toSave : SUBSET Nat,
         toWrite : SUBSET Nat, mutates : BOOLEAN, outcome : Outcomes]

TypeOK ==
    /\ pc \in [Procs -> Steps \cup {"idle"}]
    /\ run \in [Procs -> Runs]
    /\ lock \in 0..MaxTransactions
    /\ journals \in [Transactions -> Entries]
    /\ backups \in [Transactions -> [Paths -> [there : BOOLEAN, bytes : Contents]]]
    /\ store \in [Keys -> Seq(RecordOps)]
    /\ files \in [Paths -> Contents]
    /\ begun \in 0..MaxTransactions
    /\ edits \in 0..MaxEdits
    /\ unsettled \subseteq Transactions \X Paths
    /\ origin \in [Paths -> Contents]
    /\ touched \subseteq Paths

NoRecords == [k \in Keys |-> NoRecord]
NoRun == [command |-> "none", key |-> "none", force |-> FALSE, migrate |-> FALSE,
          txn |-> 0, plan |-> <<>>, seen |-> NoRecords, current |-> <<>>,
          goal |-> <<>>, final |-> NoRecord, toSave |-> {}, toWrite |-> {},
          mutates |-> FALSE, outcome |-> "none"]

Init == /\ pc = [p \in Procs |-> "idle"]
        /\ run = [p \in Procs |-> NoRun]
        /\ lock = 0
        /\ journals = [x \in Transactions |-> NoEntry]
        /\ backups = [x \in Transactions |-> [q \in Paths |-> Unsaved]]
        /\ store = NoRecords
        /\ files \in [Paths -> InitialFiles]
        /\ begun = 0
        /\ edits = 0
        /\ unsettled = {}
        /\ origin = files
        /\ touched = {}

-----------------------------------------------------------------------------
Goto(p, step) == pc' = [pc EXCEPT ![p] = step]
Indices(k) == DOMAIN TargetsOf[k]
Target(p, i) == TargetsOf[run[p].key][i]
Targets(p, S) == {Target(p, i) : i \in S}
Current(k) == [i \in Indices(k) |-> files[TargetsOf[k][i]]]

(* The run reports result and goes on to release the lock.                 *)
Report(p, result) ==
    /\ run' = [run EXCEPT ![p].outcome = result]
    /\ Goto(p, "release")

(* A VibeRevert hook is in .git/hooks, as husky's plan() finds it on disk. *)
DirectHookThere ==
    \E k \in Keys : /\ AdapterOf[k] = "hook"
                    /\ \E i \in Indices(k) : HasManaged(files[TargetsOf[k][i]])

(* Install asks the adapter for a plan; husky has none beside a direct     *)
(* hook unless it is told to migrate.  A refused plan changes nothing.     *)
BeginInstall(p, k, force, value) ==
    LET kinds == [i \in Indices(k) |->
                    PlannedKind(AdapterOf[k], files[TargetsOf[k][i]], force)]
    IN  /\ pc[p] = "idle"
        /\ begun < MaxTransactions
        /\ \A i \in Indices(k) : kinds[i] # Refused
        /\ begun' = begun + 1
        /\ run' = [run EXCEPT ![p] =
                     [NoRun EXCEPT !.command = "install", !.key = k, !.force = force,
                                   !.migrate = AdapterOf[k] = "husky" /\ DirectHookThere,
                                   !.txn = begun',
                                   !.plan = [i \in Indices(k) |->
                                               [kind |-> kinds[i], value |-> value]]]]
        /\ Goto(p, "lock")
        /\ UNCHANGED <<internal, files, edits, ghosts>>

BeginUninstall(p, k, force) ==
    /\ pc[p] = "idle"
    /\ begun < MaxTransactions
    /\ begun' = begun + 1
    /\ run' = [run EXCEPT ![p] = [NoRun EXCEPT !.command = "uninstall", !.key = k,
                                               !.force = force, !.txn = begun']]
    /\ Goto(p, "lock")
    /\ UNCHANGED <<internal, files, edits, ghosts>>

(* acquireLock: mkdir of integrations.lock/.                               *)
AcquireLock(p) ==
    /\ pc[p] = "lock"
    /\ lock = 0
    /\ lock' = run[p].txn
    /\ Goto(p, "scan")
    /\ UNCHANGED <<run, journals, backups, store, files, begun, edits, ghosts>>

(* Fault: the invocation waits for the lock.                               *)
LockHeldWaits(p) == pc[p] = "lock" /\ lock # 0 /\ UNCHANGED vars

(* EEXIST: IntegrationsLockError, without the lock.                        *)
LockHeld(p) ==
    /\ pc[p] = "lock"
    /\ lock # 0
    /\ run' = [run EXCEPT ![p] = NoRun]
    /\ Goto(p, "idle")
    /\ UNCHANGED <<internal, files, begun, edits, ghosts>>

(* scanForPendingJournals: any entry, even one marked done, is a refusal.  *)
Scan(p) ==
    /\ pc[p] = "scan"
    /\ IF \A x \in Transactions : journals[x].phase = "none"
       THEN Goto(p, "read") /\ UNCHANGED run
       ELSE Report(p, "pending")
    /\ UNCHANGED <<internal, files, begun, edits, ghosts>>

(* What the transaction is going to do, from the files as they were read.  *)
Decide(p, goal, final, writes, saves) ==
    /\ run' = [run EXCEPT ![p].seen = store, ![p].current = Current(run[p].key),
                          ![p].goal = goal, ![p].final = final,
                          ![p].toWrite = writes, ![p].toSave = saves,
                          ![p].mutates = writes # {}]
    /\ Goto(p, IF writes # {} THEN "journal"
               ELSE IF saves # {} THEN "save" ELSE "commit")

(* Reads integrations.json and the targets and classifies every edit.      *)
ReadForInstall(p) ==
    LET k == run[p].key
        plan == run[p].plan
        now == Current(k)
        judged == [i \in Indices(k) |->
                     IF store[k] = NoRecord
                     THEN ClassifyFresh(plan[i], now[i])
                     ELSE ClassifyRecorded(plan[i], store[k][i], now[i], run[p].force)]
    IN  /\ pc[p] = "read"
        /\ run[p].command = "install"
        /\ \/ \E i \in Indices(k) : /\ judged[i] \in Refusals
                                    /\ \A j \in Indices(k) :
                                         judged[j] \in Refusals => i <= j
                                    /\ Report(p, judged[i])
           \/ /\ \A i \in Indices(k) : judged[i] = "noop"
              /\ Report(p, "noop")
           \/ /\ \A i \in Indices(k) : judged[i] \notin Refusals
              /\ \E i \in Indices(k) : judged[i] # "noop"
              /\ Decide(p, [i \in Indices(k) |-> Leaves(plan[i], now[i], judged[i])],
                        [i \in Indices(k) |->
                           IF judged[i] = "noop" THEN store[k][i]
                           ELSE RecordOf(plan[i], now[i], run[p].txn)],
                        {i \in Indices(k) : judged[i] \in Mutations},
                        {i \in Indices(k) : NeedsBackup(plan[i], judged[i])})
        /\ UNCHANGED <<internal, files, begun, edits, ghosts>>

Backup(k, i) ==
    IF store[k][i].backup = 0 THEN Unsaved
                              ELSE backups[store[k][i].backup][TargetsOf[k][i]]

(* Reads the record, the targets and their backups and plans the reversal. *)
ReadForUninstall(p) ==
    LET k == run[p].key
        now == Current(k)
        judged == [i \in Indices(k) |->
                     ClassifyReverse(store[k][i], now[i], Backup(k, i).there,
                                     run[p].force)]
        writes == {i \in Indices(k) : judged[i] # "skip"}
        refused == {i \in Indices(k) : judged[i] \in {"no_backup", "drift"}}
    IN  /\ pc[p] = "read"
        /\ run[p].command = "uninstall"
        /\ IF store[k] = NoRecord THEN Report(p, "not_installed")
           ELSE IF refused # {}
           THEN \E i \in refused : /\ \A j \in refused : i <= j
                                   /\ Report(p, judged[i])
           ELSE Decide(p, [i \in Indices(k) |->
                             IF i \in writes
                             THEN Reversed(store[k][i], now[i], Backup(k, i).bytes)
                             ELSE now[i]],
                       NoRecord, writes, {})
        /\ UNCHANGED <<internal, files, begun, edits, ghosts>>

-----------------------------------------------------------------------------
(* The transaction.                                                        *)

UpdateEntry(p, field, value) ==
    journals' = [journals EXCEPT ![run[p].txn] =
                   [journals[run[p].txn] EXCEPT ![field] = value]]

AfterSave(r) == IF r.toSave # {} THEN "save"
                ELSE IF r.mutates THEN "write" ELSE "commit"
(* Fault: uninstall removes the backups before integrations.json is written.*)
AfterWriteDrops(r) == IF r.toWrite # {} THEN "write"
                      ELSE IF r.command = "uninstall" THEN "drop" ELSE "phase"
AfterWrite(r) == IF r.toWrite # {} THEN "write" ELSE "phase"

(* install works through the edits in order, uninstall in reverse.         *)
IsNext(p, i, S) ==
    /\ i \in S
    /\ \A j \in S : IF run[p].command = "install" THEN i <= j ELSE j <= i

(* writeJournal, before any target is replaced.                            *)
WriteJournal(p) ==
    /\ pc[p] = "journal"
    /\ journals' = [journals EXCEPT ![run[p].txn] =
         [phase |-> "writing-files", command |-> run[p].command,
          planned |-> Targets(p, run[p].toWrite),
          recorded |-> IF run[p].command = "install" THEN {}
                       ELSE Targets(p, Indices(run[p].key)),
          saved |-> {}]]
    /\ Goto(p, AfterSave(run[p]))
    /\ UNCHANGED <<run, lock, backups, store, files, begun, edits, ghosts>>

(* A backup of a target that was not there when it was read: an exception  *)
(* the code calls unreachable.                                             *)
NothingToSave(p, i) == run[p].current[i] = Absent

(* Writes the backup of one target, from the bytes read before.            *)
SaveTarget(p, i) ==
    LET left == [run[p] EXCEPT !.toSave = @ \ {i}]
    IN  /\ pc[p] = "save"
        /\ IsNext(p, i, run[p].toSave)
        /\ ~NothingToSave(p, i)
        /\ backups' = [backups EXCEPT ![run[p].txn][Target(p, i)] =
                         [there |-> TRUE, bytes |-> run[p].current[i]]]
        /\ run' = [run EXCEPT ![p] = left]
        /\ Goto(p, IF left.mutates THEN "note_save" ELSE AfterSave(left))
        /\ UNCHANGED <<lock, journals, store, files, begun, edits, ghosts>>

(* updateJournal: backupPaths.                                             *)
NoteSave(p) ==
    /\ pc[p] = "note_save"
    /\ UpdateEntry(p, "saved", {q \in Paths : backups[run[p].txn][q].there})
    /\ Goto(p, AfterSave(run[p]))
    /\ UNCHANGED <<run, lock, backups, store, files, begun, edits, ghosts>>

(* The unlink of a target that is not there any more.                      *)
UnlinkFails(p, i) == run[p].goal[i] = Absent /\ files[Target(p, i)] = Absent

(* Replaces or removes one target.                                         *)
WriteTarget(p, i) ==
    LET left == [run[p] EXCEPT !.toWrite = @ \ {i}]
    IN  /\ pc[p] = "write"
        /\ IsNext(p, i, run[p].toWrite)
        /\ ~UnlinkFails(p, i)
        /\ files' = [files EXCEPT ![Target(p, i)] = run[p].goal[i]]
        /\ unsettled' = unsettled \cup {<<run[p].txn, Target(p, i)>>}
        /\ run' = [run EXCEPT ![p] = left]
        /\ Goto(p, IF left.command = "install" THEN "note_write" ELSE AfterWrite(left))
        /\ UNCHANGED <<internal, begun, edits, origin, touched>>

(* Fault: the edits are all listed after the first.                        *)
NoteWriteAll(p) ==
    /\ pc[p] = "note_write"
    /\ UpdateEntry(p, "recorded", journals[run[p].txn].planned)
    /\ Goto(p, AfterWrite(run[p]))
    /\ UNCHANGED <<run, lock, backups, store, files, begun, edits, ghosts>>

(* chmod, then updateJournal: recordedOps.                                 *)
NoteWrite(p) ==
    /\ pc[p] = "note_write"
    /\ UpdateEntry(p, "recorded",
                   journals[run[p].txn].planned \ Targets(p, run[p].toWrite))
    /\ Goto(p, AfterWrite(run[p]))
    /\ UNCHANGED <<run, lock, backups, store, files, begun, edits, ghosts>>

(* Fault: the entry is marked done before integrations.json is written.    *)
SetPhaseDone(p) ==
    /\ pc[p] = "phase"
    /\ UpdateEntry(p, "phase", "done")
    /\ Goto(p, "commit")
    /\ UNCHANGED <<run, lock, backups, store, files, begun, edits, ghosts>>

(* updateJournal: phase updating-integrations.                             *)
SetPhase(p) ==
    /\ pc[p] = "phase"
    /\ UpdateEntry(p, "phase", "updating-integrations")
    /\ Goto(p, "commit")
    /\ UNCHANGED <<run, lock, backups, store, files, begun, edits, ghosts>>

Drops(r) == {i \in DOMAIN r.seen[r.key] : r.seen[r.key][i].kind = "backup-and-write"}

(* Fault: an uninstall writes the record back.                             *)
CommitKeepsRecord(p) ==
    /\ pc[p] = "commit"
    /\ store' = IF run[p].command = "uninstall" THEN run[p].seen
                ELSE [run[p].seen EXCEPT ![run[p].key] = run[p].final]
    /\ unsettled' = {u \in unsettled : u[1] # run[p].txn}
    /\ Goto(p, IF run[p].mutates THEN "done" ELSE "release")
    /\ run' = [run EXCEPT ![p].outcome = "applied"]
    /\ UNCHANGED <<lock, journals, backups, files, begun, edits, origin, touched>>

(* writeIntegrationsFile: the file read before, with this record replaced. *)
Commit(p) ==
    /\ pc[p] = "commit"
    /\ store' = [run[p].seen EXCEPT ![run[p].key] = run[p].final]
    /\ unsettled' = {u \in unsettled : u[1] # run[p].txn}
    /\ Goto(p, IF run[p].mutates THEN "done" ELSE "release")
    /\ run' = [run EXCEPT ![p].outcome =
                 IF run[p].command = "install" THEN "applied" ELSE "uninstalled"]
    /\ UNCHANGED <<lock, journals, backups, files, begun, edits, origin, touched>>

(* updateJournal: phase done.                                              *)
MarkDone(p) ==
    /\ pc[p] = "done"
    /\ UpdateEntry(p, "phase", "done")
    /\ Goto(p, "delete")
    /\ UNCHANGED <<run, lock, backups, store, files, begun, edits, ghosts>>

(* deleteJournal, at best: a failure is a warning.                         *)
DeleteJournal(p) ==
    /\ pc[p] = "delete"
    /\ journals' \in {[journals EXCEPT ![run[p].txn] = NoEntry]}
                        \cup (IF Faults THEN {journals} ELSE {})
    /\ Goto(p, IF run[p].command = "install" THEN "release" ELSE "drop")
    /\ UNCHANGED <<run, lock, backups, store, files, begun, edits, ghosts>>

(* uninstall removes the backups it restored, at best each.                *)
DropBackups(p) ==
    LET drops == Drops(run[p])
    IN  /\ pc[p] = "drop"
        /\ \E gone \in (IF Faults THEN SUBSET drops ELSE {drops}) :
             backups' = [x \in Transactions |-> [q \in Paths |->
               IF \E i \in gone : /\ x = run[p].seen[run[p].key][i].backup
                                  /\ q = Target(p, i)
               THEN Unsaved ELSE backups[x][q]]]
        /\ Goto(p, "release")
        /\ UNCHANGED <<run, lock, journals, store, files, begun, edits, ghosts>>

(* Fault: the direct hook goes whatever became of husky's.                 *)
MigratesAlways(p) == run[p].command = "install" /\ run[p].migrate

(* A migration goes on with the removal of the direct hook's record, once  *)
(* husky's is there.                                                       *)
Migrates(p) == /\ run[p].command = "install"
               /\ run[p].migrate
               /\ run[p].outcome \in {"applied", "noop"}

EndRun(p) ==
    \/ /\ ~Migrates(p) \/ begun = MaxTransactions
       /\ run' = [run EXCEPT ![p] = NoRun]
       /\ Goto(p, "idle")
       /\ UNCHANGED begun
    \/ /\ Migrates(p) /\ begun < MaxTransactions
       /\ \E k \in Keys :
            /\ AdapterOf[k] = "hook"
            /\ run' = [run EXCEPT ![p] = [NoRun EXCEPT !.command = "uninstall", !.key = k,
                                                       !.migrate = TRUE, !.txn = begun + 1]]
       /\ Goto(p, "lock")
       /\ begun' = begun + 1

(* releaseLock in the finally block.                                       *)
Release(p) ==
    /\ pc[p] = "release"
    /\ lock' = 0
    /\ EndRun(p)
    /\ UNCHANGED <<journals, backups, store, files, edits, ghosts>>

(* A failing releaseLock is a warning; the directory stays.                *)
ReleaseFails(p) ==
    /\ Faults
    /\ pc[p] = "release"
    /\ EndRun(p)
    /\ UNCHANGED <<internal, files, edits, ghosts>>

-----------------------------------------------------------------------------
(* Failures, the user and the operator.                                    *)

Throwing == {"scan", "read", "journal", "save", "note_save", "write", "note_write",
             "phase", "commit", "done"}

(* A file operation fails before it has any effect: the lock is released,  *)
(* the journal entry stays as it is.                                       *)
Throw(p) ==
    /\ pc[p] \in Throwing
    /\ \/ Faults
       \/ /\ pc[p] = "save"
          /\ \E i \in run[p].toSave : IsNext(p, i, run[p].toSave) /\ NothingToSave(p, i)
       \/ /\ pc[p] = "write"
          /\ \E i \in run[p].toWrite : IsNext(p, i, run[p].toWrite) /\ UnlinkFails(p, i)
    /\ Report(p, "threw")
    /\ UNCHANGED <<internal, files, begun, edits, ghosts>>

(* writeJournal is a plain writeFile: it may leave half an entry.          *)
TearJournal(p) ==
    /\ Faults
    /\ pc[p] = "journal"
    /\ journals' = [journals EXCEPT ![run[p].txn] = [NoEntry EXCEPT !.phase = "torn"]]
    /\ Report(p, "threw")
    /\ UNCHANGED <<lock, backups, store, files, begun, edits, ghosts>>

(* The process dies; what it has on disk stays.                            *)
Crash(p) ==
    /\ Faults
    /\ pc[p] # "idle"
    /\ run' = [run EXCEPT ![p] = NoRun]
    /\ Goto(p, "idle")
    /\ UNCHANGED <<internal, files, begun, edits, ghosts>>

Owns(p, x) == run[p].txn = x /\ pc[p] \notin {"idle", "lock"}

(* The operator removes the lock directory of a process that is gone.      *)
RemoveStaleLock ==
    /\ lock # 0
    /\ \A p \in Procs : ~Owns(p, lock)
    /\ lock' = 0
    /\ UNCHANGED <<pc, run, journals, backups, store, files, begun, edits, ghosts>>

(* "the pending journal entry can be safely removed manually"              *)
RemoveDoneJournal(x) ==
    /\ journals[x].phase = "done"
    /\ \A p \in Procs : ~Owns(p, x)
    /\ journals' = [journals EXCEPT ![x] = NoEntry]
    /\ UNCHANGED <<pc, run, lock, backups, store, files, begun, edits, ghosts>>

(* A record or an unfinished transaction accounts for q.                   *)
Covered(q) ==
    \/ \E k \in Keys : store[k] # NoRecord /\ \E i \in Indices(k) : TargetsOf[k][i] = q
    \/ \E x \in Transactions : <<x, q>> \in unsettled

UserEdits(q, c) ==
    /\ edits < MaxEdits
    /\ EditsDuringRuns \/ \A p \in Procs : pc[p] = "idle"
    /\ c # files[q]
    /\ files' = [files EXCEPT ![q] = c]
    /\ edits' = edits + 1
    /\ IF Covered(q) THEN touched' = touched \cup {q} /\ UNCHANGED origin
                     ELSE /\ touched' = touched \ {q}
                          /\ origin' = [origin EXCEPT ![q] = c]
    /\ UNCHANGED <<pc, run, internal, begun, unsettled>>

-----------------------------------------------------------------------------
Transact(p) ==
    \/ WriteJournal(p)
    \/ \E i \in run[p].toSave : SaveTarget(p, i)
    \/ \E i \in run[p].toWrite : WriteTarget(p, i)
    \/ NoteSave(p) \/ NoteWrite(p) \/ SetPhase(p) \/ Commit(p) \/ MarkDone(p)
    \/ DeleteJournal(p) \/ DropBackups(p)

Proceed(p) == \/ AcquireLock(p) \/ LockHeld(p) \/ Scan(p)
              \/ ReadForInstall(p) \/ ReadForUninstall(p)
              \/ Transact(p) \/ Throw(p) \/ Release(p)

Next ==
    \/ \E p \in Procs :
         \/ \E k \in Keys, force \in BOOLEAN :
              (\E v \in Values : BeginInstall(p, k, force, v)) \/ BeginUninstall(p, k, force)
         \/ Proceed(p) \/ ReleaseFails(p) \/ TearJournal(p) \/ Crash(p)
    \/ RemoveStaleLock
    \/ \E x \in Transactions : RemoveDoneJournal(x)
    \/ \E q \in Paths, c \in EditFiles : UserEdits(q, c)

Spec == Init /\ [][Next]_vars
FairSpec == Spec /\ \A p \in Procs : WF_vars(Proceed(p))

-----------------------------------------------------------------------------
(* What the installer promises.                                            *)

Inside(p) == pc[p] \notin {"idle", "lock"}
Deciding == {"journal", "save", "note_save", "write", "note_write", "phase",
             "commit", "done", "delete", "drop"}

(* The journal's reason to exist: whatever files a transaction has replaced*)
(* and not committed, after any failure or death, an entry that lists them *)
(* is still there and is not marked done, so the next invocation refuses   *)
(* and the operator may remove an entry marked done without looking.       *)
JournalCovers ==
    \A u \in unsettled : /\ u[2] \in journals[u[1]].planned
                         /\ journals[u[1]].phase \notin {"none", "torn", "done"}

(* An install's entry lists the edits it has completed: the list lags the  *)
(* disk by at most the one edit that was being made when the process died, *)
(* and names no edit that was not made.                                    *)
JournalKeepsUp ==
    \A x \in Transactions :
        LET replaced == {q \in Paths : <<x, q>> \in unsettled}
            entry == journals[x]
        IN  entry.phase = "writing-files" /\ entry.command = "install" =>
              \/ entry.recorded = replaced
              \/ \E q \in replaced : entry.recorded = replaced \ {q}

(* One invocation at a time is past acquireLock, and it goes on past the   *)
(* scan only when no other transaction has left an entry.                  *)
OneTransaction ==
    /\ \A p, r \in Procs : Inside(p) /\ Inside(r) => p = r
    /\ \A p \in Procs : pc[p] \in Deciding =>
         \A x \in Transactions : journals[x].phase # "none" => x = run[p].txn

(* A record never names a backup that is gone, and the backup holds the    *)
(* bytes the user's file had before VibeRevert replaced it, so that unin-  *)
(* stall can give them back: backups are written before the record and     *)
(* removed after it.                                                       *)
BackupsKept ==
    \A k \in Keys : store[k] # NoRecord => \A i \in Indices(k) :
        store[k][i].kind = "backup-and-write" =>
            /\ Backup(k, i).there
            /\ TargetsOf[k][i] \notin touched =>
                  Backup(k, i).bytes = origin[TargetsOf[k][i]]

(* integrations.json and the disk agree on every file that no unfinished   *)
(* transaction accounts for and the user has left alone.                   *)
RecordsMatchFiles ==
    \A k \in Keys : store[k] # NoRecord => \A i \in Indices(k) :
        LET q == TargetsOf[k][i]
        IN  \/ q \in touched
            \/ \E x \in Transactions : <<x, q>> \in unsettled
            \/ Matches(store[k][i].kind, files[q], store[k][i].value)

(* The adapter of q merges into the file instead of replacing it.          *)
Merged(q) == \E k \in Keys : /\ AdapterOf[k] \in {"json", "block", "husky"}
                             /\ \E i \in Indices(k) : TargetsOf[k][i] = q

(* Install and uninstall are a round trip of bytes: a file no record       *)
(* accounts for, which the user has not edited under one, is there or not  *)
(* and has the bytes as the user left it.  Two things a merge does stay:   *)
(* the empty document where there was no file, and in a file that was there*)
(* the frame around the user's text.  Modes are no part of it.             *)
RoundTrip ==
    \A q \in Paths : q \notin touched /\ ~Covered(q) /\ ~HasManaged(origin[q]) =>
        \/ files[q] = origin[q]
        \/ Merged(q) /\ files[q] = IF origin[q] = Absent THEN Empty
                                   ELSE Merge(origin[q], Nothing)

(* A commit writes the whole of integrations.json back; it changes no      *)
(* record but its own, whatever other invocations have committed.          *)
OwnRecordOnly ==
    [][\A k \in Keys : store'[k] # store[k] =>
          \E p \in Procs : pc[p] = "commit" /\ run[p].key = k]_vars

(* Without force no engine write destroys text of the user's: what is in   *)
(* the file is still in it or in a backup.                                 *)
UserTextKept ==
    [][\A q \in Paths : \A p \in Procs :
          /\ pc[p] = "write" /\ ~run[p].force
          /\ files'[q] # files[q]
          /\ files[q] # Absent /\ files[q].text # Nothing
          => \/ files'[q] # Absent /\ files'[q].text = files[q].text
             \/ \E x \in Transactions : backups[x][q] = [there |-> TRUE,
                                                         bytes |-> files[q]]]_vars

(* A migration to husky takes the direct hook away only when husky's hook  *)
(* is on record: no commit goes unchecked in between.                      *)
MigrationKeepsHook ==
    [][\A k \in Keys :
          /\ AdapterOf[k] = "hook" /\ store[k] # NoRecord /\ store'[k] = NoRecord
          /\ \E p \in Procs : pc[p] = "commit" /\ run[p].key = k /\ run[p].migrate
          => \E h \in Keys : AdapterOf[h] = "husky" /\ store[h] # NoRecord]_vars

(* Every invocation ends, whatever the others and the user do.             *)
InvocationsEnd == \A p \in Procs : pc[p] # "idle" ~> pc[p] = "idle"
=============================================================================

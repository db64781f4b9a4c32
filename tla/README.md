# Verification of VibeRevert

VibeRevert records what a coding session changes in a git repository and can
take it back. `viberevert start` saves a checkpoint, `viberevert end` captures
the session's contribution (which paths changed, from which state to which),
`viberevert check` reports on the change, and `viberevert rollback` restores
the pre-session state, of everything or of selected change groups. All state is
files under `.viberevert/`, written by short-lived processes; there is no
server that could serialize them, except for the optional MCP server.

This directory models the parts where several processes, failures and crashes
meet: the lock directories, checkpoints and their names, the life of a session
on disk, the capture of its contribution, the rollback with the transplant or
the whole-session restore that it executes, the installation of integrations
into the user's files, the interception of shell commands, and the MCP server.
Paths below are relative to `packages/`.

## 1. Inventory

| part | state it keeps | operations | talks to |
|---|---|---|---|
| Directory locks (`cli-commands/src/locks.ts`, `rollback-lock.ts`) | `.viberevert/{start,rollback,checkpoint-name}.lock/`, `lock.json` inside | `withExclusiveLock`, `withRollbackLockCapturingRelease`, refusal texts | every mutating operation runs inside one |
| Sessions (`core/src/session.ts`, `cli-commands/src/operations/{start,end}-session.ts`) | `active-session.json`, `sessions/<id>/{session.json, contribution.json, after-status.*, ...}` | start, end, load, list, load a verified contribution | checkpoint, contribution capture, start lock; readers take no lock |
| Checkpoints (`git/src/checkpoint.ts`, `emergency-checkpoint.ts`, `operations/create-checkpoint.ts`) | `checkpoints/<id>/`, names | create under a free name, list, restore from | start, rollback |
| Contribution capture (`git/src/contribution.ts`, `snapshots.ts`, `checkpoint-oracle.ts`) | temporary mirrors, the object store | two passes and a fence, at most three attempts | end |
| Object store (`core/src/object-store.ts`) | `objects/<digest>` | put, get, has | capture, rollback |
| Rollback (`cli-commands/src/rollback-*.ts`, `selective-*.ts`, `git/src/selective-*.ts`, `transplant-*.ts`, `restore.ts`) | `rollbacks/<id>/{attempt,receipt}.json`, `rollback-receipt.json`, the worktree and the index | dry run, selective apply, full apply | sessions, checkpoints, object store, verification commands, rollback lock |
| Installers (`installers/src/`) | `integrations.json`, `integration-journal/`, `backups/`, `integrations.lock/`, the edited files | preview, install, uninstall | adapters' plans |
| MCP server (`mcp/src/`) | in-flight requests, the audit chain, the shutdown controller | dispatch, time out, audit, shut down | runs the commands in process |
| PTY interception (`cli-commands/src/commands/pty-interception-*.ts`, `shell-pty.ts`) | the accept loop, the active connection, `stopped` | accept, decide, audit, answer, stop | the hook in the user's shell |
| Checks (`checks/src/`), reporters, adapters, formats, command line | none between calls | pure functions and one-file writes | each other |

`PROJECT.json` lists these parts with the module that models each, or the
reason that none does.

### What is hard, and what makes each part correct

* **Locks.** The lock is the directory, its `lock.json` is advisory; contenders
  are refused, never queued; nobody recovers a stale lock. Correct: at most one
  process inside; a directory disappears only in its holder's own release or,
  by hand, when nobody is inside; a refusal names the right holder; every call
  ends.
* **Sessions.** Each operation is a sequence of file writes, any of which may
  fail or be the last. Correct: what `active-session.json` names is published
  and complete; an end is never recorded before its artifacts exist; readers
  without the lock never report an active or ended session as interrupted,
  never miss an artifact `session.json` names; a session ends once.
* **Rollback.** It overwrites the user's files, beside editors that do not know
  of it, and runs the project's commands on the result. Correct: nothing is
  overwritten that the emergency checkpoint does not hold; a marker is on disk
  before the first mutation; what is reported is what the disk shows; success
  means that the selected paths are restored and the others untouched; a run
  that may have left a half-restored tree blocks every later one; the two
  engines never work over one another's records; every run ends.
* **Transplant.** A selection of the session's paths is put back in place, in a
  tree that is still being edited. Correct: nothing of the user's is overwritten
  that was there when the fence looked; the schedule can be executed in its
  order; the receipt says of each path what the disk shows, and raises no alarm
  over the program's own work.
* **Whole-session restore.** A reset discards the session's work, and patches and
  archives put the start back, phase by phase, each of which may meet a shape it
  cannot handle. Correct: what it destroys is saved first; success is the
  session's start, index included; it does not break off half way for anything a
  session may legally do; its receipt says what was done; a run that died can be
  run again.
* **Capture.** The user keeps editing while the end of a session is observed.
  Correct: what is published was true at one moment between the passes; the
  retries are bounded; a failed end leaves the session active.
* **Installers.** Several files and `integrations.json` change in one
  transaction without a file system that has any. Correct: after a death at any
  point the journal names every file that may differ from what
  `integrations.json` says, the backups exist before the overwrites, and the
  next command refuses to continue; a commit undoes nobody else's; records
  agree with the files; install followed by uninstall gives back the bytes of
  the user's files, but for the frame a merge puts around them; a migration
  between hooks leaves no moment without one.
* **Checkpoint names.** Two checkpoints never share a name, whoever makes them
  and whatever has been spoiled since; what a call answers is on disk; a lookup
  without the lock finds the one checkpoint of the name, or says that it cannot
  know.
* **Object store.** Processes that store the same bytes race for one file.
  Correct: a digest that was stored stays readable; a damaged object is never
  taken for a stored one.
* **MCP server.** Correct: every answered call has its audit record; a
  side-effecting tool is never abandoned; commands that change the working
  directory run alone; the log closes after the last record; one shutdown
  decision wins, and the server ends.
* **PTY interception.** Correct: no command is allowed without its audit
  record, and none after `stop`; `stop` ends once pending work does; the
  session the shell opened is closed after the last record.

The hazards are listed at their lines in `PROJECT.json`, each with the
properties that would catch it or the reason why none does.

## 2. Modules

| module | models | kind |
|---|---|---|
| `DirLock` | `withExclusiveLock` | component |
| `SessionStore` | what the session store promises | abstract specification |
| `SessionLifecycle` | start, end and the readers, one file operation a step | component; uses `DirLock`, implements `SessionStore` |
| `RollbackJournal` | what markers and receipts promise | abstract specification |
| `SelectiveRollback` | both apply engines of rollback | component; implements `RollbackJournal` |
| `Transplant` | one selective rollback path by path, over a tree with an index | component; details what `SelectiveRollback` treats as opaque |
| `PathTree`, `GitWorktree` | paths and the orders in which they are walked; a checkout, and what git reads from it and does to it | operators |
| `CheckpointRestore` | checkpoints captured, and a whole-session rollback phase by phase, over a checkout | component; uses `GitWorktree`, details the full engine of `SelectiveRollback` |
| `CheckpointNaming` | checkpoints made and looked up by name | component; extends `DirLock` |
| `ContributionCapture`, `ObjectStore` | the capture of a contribution beside an editing user; the store it puts evidence into | component, and the part it extends |
| `Interception`, `PtyShell` | the interception channel; the shell around it | a component and the one that extends it |
| `AuditLog`, `CommandHarness`, `McpServer` | the audit chain; the lock of in-process commands; the server | two parts and the component that extends them |
| `ManagedFiles` | the files the installer manages, the adapters' plans, `classifyOp`, `planReverse` | operators |
| `Installer` | install, uninstall and migration, one file operation a step | component; uses `ManagedFiles` |
| `MC...` | constants and symmetry for TLC | one per component |
| `...Proofs` | theorems and their proofs | one per component; `CheckpointProofs` has those of `DirLock`, `CheckpointNaming` and `CheckpointRestore` |

Each component holds, beside every operation that a property is about, one
faulty version of it, marked "Fault:" and used by no action. They document what
the property is able to notice: replacing the operation by its fault makes TLC
report the property.

### DirLock

`dir` is the lock directory, `meta` the process its `lock.json` names (or that
nothing readable is there), `stage[p]` where a call of `withExclusiveLock`
stands and `info[p]` whom a refusal named.

| action | code |
|---|---|
| `Acquire`, `Refuse` | `mkdir(lockDir, {recursive: false})`, then the best-effort write of `lock.json`; on EEXIST `tryReadLockInfo` and `ConcurrentOperationError` |
| `Dismiss` | the caller prints the refusal |
| `Settle` | `fn()` resolves or rejects |
| `Release`, `ReleaseFails` | `rm` on both paths; its failure is swallowed after a rejection and propagates after a success, and either way the directory may stay |
| `Crash`, `RemoveStale` | a process that dies; the manual removal that the refusal text asks for, under the condition that the text states |

### CheckpointNaming

`checkpoints` are the published directories with the name each manifest gives,
`damaged` those of which an artifact is gone. Of a process, `call` is what it
was asked for, `step` where it stands, `entries` the directories its scan has
read and `outcome` how its call ended. The inner lock is the whole of
`DirLock`, whose variables and actions are used as they are. A name is a
number: the k-th of the emergency series (`pre-rollback-<id>`,
`pre-rollback-<id>-2`, ...), which a user may type too.

| action | code |
|---|---|
| `BeginNamed`, `BeginNameless`, `BeginEmergency`, `BeginLookup` | `createCheckpointOperation` with and without a name, `createEmergencyCheckpoint`, `findCheckpointByName` |
| `EnterLock`, `LockRefused`, `LeaveNameLock`, `LeaveFails` | `withExclusiveLock` on `checkpoint-name.lock`; a release failure after a success is the outcome |
| `List`, `LoadCorrupt`, `IoFails` | `listCheckpoints` and `loadCheckpoint` of each entry, and what makes them fail |
| `Collide`, `TakeAsked`, `TakeFree`, `Answer` | the decision of each caller over the loaded names |
| `Draw`, `Make`, `CreateFails`, `Publish`, `RenameFails` | `createCheckpoint`: the id, the temporary directory with its manifest last, the rename |
| `Report`, `Forget`, `Die`, `CleanUp`, `Damage` | the answer, the end of the call; a death, what is removed by hand after it, a checkpoint spoiled from outside |

### ContributionCapture and ObjectStore

`repo` is HEAD, the index and the worktree: every path has a content in each. A
git command reads in one step, files are observed one by one. `reading` is what
the present pass has read and `first` what Pass A read; `flight` and `sink` are
the observations of `mapWithConcurrency` in progress and the payloads waiting
at `serializeCalls`; `mirrors` are the files of the derived diff.

| action | code |
|---|---|
| `Write`, `Stage`, `Commit`, `Move` (of `User`) | the user, in the session and during the capture |
| `Begin` | `captureContribution` is called; the checkpoint has saved the three contents of each path |
| `ReadHead` ... `ReadIndex`, `GitFails` | the git commands of a pass, in their order |
| `Observe`, `ObserveFails`, `StoreNext`, `StoreEnds`, `ListEnds` | the inventory scan: at most `Limit` observations at a time, one `putObject` at a time, in the order of arrival; the first error wins after everything begun has settled |
| `Derive` | renames, entries and their evidence |
| `Compare`, `Retry`, `Fail` | the fence of Pass B against Pass A, the next attempt, `ContributionCaptureError` |
| `Look`, `Publish`, `Settles`, `PublishFails`, `Recover` (of `ObjectStore`) | `putObject`: the first look, the temporary file and the rename, a rename that the other writer's has made fail, the bounded reading of what won |

`witness`, `left` and `returned` are history: the repository at the moment
between the passes, what the user changed away from during the attempt, and
whether something came back. The program reads none of them.

### Interception and PtyShell

`Interception` holds three groups of variables: `channel` (the trap of each
command, its socket, what it sent and was answered, the listener), `service`
(the accept loop with the connection in its hands, `stopped`, `stop`) and
`session` (whose session is active, `commands.log`, reported failures).

| action | code |
|---|---|
| `Ask`, `LineArrives`, `SocketCloses`, `HookRuns`, `HookBlocks` | the DEBUG trap: it connects, sends one line, and runs or blocks the command by the frame it reads; the transport's side of the socket |
| `Take`, `ReadTimesOut`, `Handle`, `CheckOwnership`, `Record`, `ReleaseUncleared`, `Release`, `ServeNext` | one turn of the accept loop: the line, `handleRequestLine`, the audit gate of `runPtyShell` with its check of `active-session.json`, the answer, and the release of the connection |
| `StopBegins`, `StopCloses`, `StopEnds`, `ListenerFails` | `stop()`: stop accepting, close the active connection, wait for the loop |
| `Prepare` ... `Spawn`, `Attach`, `ChildExits`, `SignalArrives`, `DriveEnds` | `runPtyShell` and `installPtyInterception`, one step each, any of which may fail |
| `DisposeService`, `DisposeTransport`, `DisposeFile`, `CloseSession`, `EndSession` | the way back, in the reverse order, of what was installed |
| `OtherTerminal` | `viberevert end` and `start` elsewhere |

The kind of a request is what the handling of its line tells apart, the policy's
verdict included.

### AuditLog, CommandHarness and McpServer

The server is one JavaScript thread: what happens without waiting is one
action. `AuditLog` is the promise chain of `record()`, the one failure that
poisons it and the close; `CommandHarness` the first-in first-out lock of
`runCommandInProcess`, with the working directory it saves and puts back.

| action | code |
|---|---|
| `Call`, `List`, `Refuse`, `Invoke` | a request arrives: `tools/list`, an unknown tool, or a handler that becomes in flight |
| `Returns`, `DirectReturns`, `Begins`, `NotBegun`, `CheckEnds`, `MetadataRead`, `MarkdownRead`, `ReportFails` | the tools, by what they wait for: an operation, one command, or two |
| `Timeout` | `withTimeout` of the class A tools: the answer is a timeout and the tool goes on |
| `RecordWritten`, `RecordFails`, `Respond` | the record is on disk, or cannot be; then the answer |
| `StdinCloses`, `ImmediateFires`, `TimerFires`, `SignalArrives`, `TransportReports` | what ends the server: the end of the input (once no handler is in flight, looked at in a `setImmediate`), a failed record (reported in a `setTimeout(0)`), signals, the transport |
| `Boot`, `Connect`, `CloseTransport`, `CloseAudit`, `End` | `startServer` before and after its wait |

`Progress` is what the program owes, `Outside` what clients and the operating
system may do.

### SessionStore and SessionLifecycle

`SessionStore` has four steps: a session is published, made active, ended, made
inactive. `SessionLifecycle` writes one file a step. `active` is
`active-session.json`; `dir[s]` and `files[s]` are the session directory (as
`.tmp-<id>` or published) and the start-side files in it; `endedAt`,
`contribution`, `afterText`, `afterZ` are the end-side files, each the number
of the capture it is from. That number stands for the contribution bytes, their
digest and `ended_at`, which `endSession` binds together before it writes.

`StartAcquire` ... `StartActivate` follow `startSessionOperation` down to
core's `startSession`, with both looks at the active session (`StartPrecheck`,
`StartRecheck`), the temporary directory, `renameDirAtomic` and the final
write; `StartThrows` and `StartCleanup` are the catch block. `EndAcquire` ...
`EndDeactivate` follow `endSessionOperation` and `endSession`: load, capture,
reload, three artifacts, `session.json`, removal of the pointer. Any step of
either may throw (`StartThrows`, `EndThrows`) or be the last (`Crash`).
`DeleteStalePointer` is the manual recovery that `endSession`'s comment
documents. `ListNames`, `ListPointer`, `ListSession` are the three reads of
`listSessions` for one id of its listing; `ReadBinding` and `ReadContribution`
are a consumer of `loadVerifiedSessionContribution`. Neither takes a lock.

### RollbackJournal and SelectiveRollback

`RollbackJournal` reduces an apply to the records it leaves. A selective one is
authorized (`rollbacks/<id>/attempt.json`) and then finalized (`receipt.json`),
a full one leaves `rollback-receipt.json`.

`SelectiveRollback` runs one invocation at a time, since all of it happens
under `rollback.lock`; `DirLock` has the lock. `pc` is the holder's next step.

| steps | code |
|---|---|
| `BeginSelective`, `BeginFull`, `Admit`, `Refuse` | the lock, `scanSelectiveHistory`, `evaluateRollbackAdmission` |
| `Plan`, `PlanThrows` | `prepareBoundSelectiveRestore` |
| `Capture`, `CaptureHead`, `CaptureFails` | capture of the protected state S and of HEAD, `stabilizePlan` |
| `CreateRecovery`, `Validate`, `OpenOracle` and their failures | the emergency checkpoint, its validation against S, evidence for every obligation |
| `Prepare`, `Fence`, `FenceHead`, `Publish`, `GateThrows`, `PublishFails` | `runSelectiveTransplantGate`: schedule, final fence (domain, then HEAD), marker; the marker may or may not be on disk when it throws |
| `Attempt`, `Complete`, `ExecuteEnds` | `executePreparedSelectiveTransplant`: `markAttempted`, the primitive, `markCompleted` |
| `Verify`, `ObserveBefore`, `RunCommands`, `ObserveAfter` and their failures | `verifyPostTransplant`, the two observations around the verification commands, `classifyPostCommandIntegrity` |
| `Classify`, `Inspect`, `InspectFails` | `classifySelectiveApply`, `inspectPublication`, `resolveAfterInspection` |
| `Finalize`, `FinalizeFails` | `mapSelectiveReceipt`, `finalizeSelectiveReceipt` |
| `FullPlan` ... `FullReceipt` | `runFullRollback`, `restoreCheckpoint`, `buildReceiptForApply` |
| `LeaveLock`, `RemoveStaleLock` | the process dies at any step, or the lock cannot be removed; the user removes it |
| `CommandWrites`, `CommandCommits`, `Edit`, `MoveHead` | verification commands; users, editors, other git commands |

Data is abstracted to what the properties tell apart. Each path is in its
"before", "after" or some "other" state, one value for the worktree and index
side of a `PathState`, and each path is its own change group. Reasons to refuse
that do not come from the history (an active session, another HEAD, no
after-status, dirty paths, unreadable artifacts) are one nondeterministic
`Refuse`. Capturing the emergency checkpoint is one step, since validation
materializes it and compares all of it. Observing all paths at verification is
one step; edits between the reads of a real run appear as edits just before or
after it. `git reset --hard` is an attempt at every path whose result may be
anything of "as it was", "before" or "other", so that its failure half way is
included. `edited` is history kept for the properties: what outsiders changed
since the run last looked. Nothing in the actions of the program reads it.

### Transplant

`SelectiveRollback` knows each path as "before", "after" or "other" and gives
all of its attention to the journal. `Transplant` is the other half: paths are
sequences of segments, `repo` is a tree of files, links and directories with an
index over it, and the plan, the schedule and the verdict are computed as the
code computes them. `oracle` is the checkpoint checked out, `ended` what the
session left, `selected` the paths asked for, `plan` what the planner decided,
`frozen` the snapshot S, `states` the obligations of the schedule with what has
become of each, `report` the receipt.

| action | code |
|---|---|
| `PlanSelectiveRestore` | `planSelectiveRestore` with `classify` (`Verdict`) and `deriveSelectiveTopology` (`Topology`): what is to be written, which parents are relied on or made, what would be lost, index collisions |
| `Freeze` | `captureProtectedDomain` and `stabilizeSelectiveRestorePlan` |
| `Prepare` | `prepareSelectiveTransplant`: the schedule (`Obligations`, `Precedes`) or its refusal |
| `FinalFence` | `finalProtectedDomainFence`: domain, watched memberships, HEAD |
| `Execute` | one obligation with its primitive: `removeWorktreePath`, `createWorktreeDirectory`, `materializeWorktreeLeaf`, `transplantIndexPath`; it succeeds (`Effect`), refuses (`~Able`), or stops half way (`Halfway`) |
| `VerifyPostTransplantState` | the outcomes and violations against S |
| `UserEdits`, `UserCommits` | one change at a path or in its index entry; a commit |

Each observation of the repository is one step: what changes between the reads
of a real one appears just before or after it. Contents and link targets are
opaque, modes are part of a content, ignored and excluded paths are a constant.
The recovery checkpoint and the marker, which come between `Freeze` and
`Execute`, are in `SelectiveRollback`. Evidence that contradicts itself (a
contribution that disagrees with its own objects) does not occur here.

### PathTree, GitWorktree and CheckpointRestore

The full engine (`viberevert rollback <session> --apply`) is git commands around
file operations, so its correctness is that of a tree, an index and a commit
under them. `GitWorktree` says what the commands do: a checkout is a record of
HEAD's number, its content, the index and the tree; `TrackedDirty`, `Untracked`,
`StatusItems` are what `git diff --name-only`, `ls-files --others` and `status`
list (a directory nothing of which is tracked is shown whole), `ResetHard` and
`Apply` what `reset --hard` and `apply` (with and without `--index`) leave,
where they refuse and where they stop half way. These are git's and not the
repository's, and were compared with git 2.39 over small checkouts.

`repo` is the checkout, `started` what it was when the session started,
`checkpoint` the session's, `saved` the emergency checkpoints, `after` the
status recorded by the end. A checkpoint holds HEAD, the two patches (each by
the version it applies to and the one it makes), the dirty paths, the contents
of all tracked regular files and of the untracked ones that are neither ignored
nor excluded, and the exclusions.

| action | code |
|---|---|
| `StartSession`, `EndSession`, `AbandonSession` | the checkpoint of the start; the after-status of the end, or none |
| `Admit` | `runLockedRollbackPhase`: the reads, `collectRollbackRefusals`, `bypassableByForce` |
| `PlanRestore` | `planRestoreCheckpoint`, before anything is touched |
| `CaptureDiffs` | `createCheckpoint` for the emergency checkpoint: HEAD and the patches |
| `ListTracked`, `ListUntracked`, `Archive` | `snapshotTrackedDirty` and `snapshotUntracked` beside each other: each asks git for its paths, then archives the regular files among them |
| `CompleteCheckpoint` | both have come back: the manifest, the rename |
| `Restore` | one phase of `restoreCheckpoint` (`Phases`): preflight, reset, the staged and the unstaged patch, the bytes of tracked files, the sweep, the clearing of the way, the extraction, the comparison of dirty paths, the hashes; the first that fails is the last |
| `WriteReceipt` | `buildReceiptForApply`, with the plan as its results or the failure |
| `ProcessDies`, `Configure` | the process dies; `rollback.exclude` is edited between runs |
| `Work` | the user or an agent writes, deletes, adds, unstages, removes from the index or commits a path, at any time |

The user may act between any two of these steps, so also between the lists and
the archives of the emergency checkpoint, in either order of the lists; the
session's own checkpoint is taken while nobody else writes (`StartSession`). Two
things of the capture are one step. `git diff --name-only`, whose answer only
the comparison of dirty paths reads, comes with the list of the tracked paths.
An archive is read path by path in the code: what someone does to a path
meanwhile comes before or after that path is read, and so before or after the
step, as far as one path goes. A file that goes, or changes, between the two
readings of it (the archive and the hash) makes the capture fail or its
checkpoint worthless for that path; a failure there stops the run before
anything is touched, and the path has been touched, of which `NothingLost`
claims nothing.

`Materialized` is `materializeCheckpointIntoFreshWorktree`, the same phases
without reset and sweep in a worktree of its own, from which the capture and the
selective engine read the session's start. Contents of different versions have
nothing in common, so git finds no renames and a patch matches exactly or not at
all; links lead nowhere in the checkout; modes, line ending filters and nested
repositories are left out, and so is the refusal while the session is active.

### ManagedFiles and Installer

A target is `Absent` or a document with a text of the user's and a managed
region, each possibly `Nothing`; the digests that the code compares stand for
equality of regions. A document is `framed` when it has what a merge leaves
around its region and no uninstall takes away: for JSON the `mcpServers` object
(`deleteAtKeyPath` removes the key in it) and the layout of `prettyJson`, for a
block the line break before it, and one kind of line ending. `Merge` is what
every merge and its reversal write: the user's text, the region, the frame. A
document is the bytes of a file; its mode is not in the model (section 3 says
what becomes of it). `PlannedKind` is the one decision of each adapter's
`plan()`, `ClassifyFresh` and `ClassifyRecorded` are `classifyOp`, `Desired` is
`computeDesiredFullFileBytes`, `RecordOf` what goes into `integrations.json`,
`ClassifyReverse` and `Reversed` the plan of uninstall and what it leaves.

`Installer` has one invocation per process. `run[p]` is what it has in memory,
`lock`, `journals`, `backups` and `store` are `integrations.lock/`,
`integration-journal/`, the backups and `integrations.json`. The transaction
number is at once the number in the names of its entry and backups and the
bound `MaxTransactions` on how many begin.

| action | code |
|---|---|
| `BeginInstall`, `BeginUninstall` | the commands up to `apply()` and `uninstall()`: the adapter plans here, without the lock |
| `AcquireLock`, `LockHeld`, `Release`, `ReleaseFails` | `acquireLock`, `releaseLock` in the finally block, whose failure is a warning |
| `Scan` | `scanForPendingJournals` and the refusal |
| `ReadForInstall`, `ReadForUninstall` | the reads and the classification of all edits: refusal, no-op, or a decision of what to write and what to save first |
| `WriteJournal`, `TearJournal` | `writeJournal`, a plain `writeFile` that may stop half way |
| `SaveTarget`, `NoteSave` | one backup, then `updateJournal` of `backupPaths` |
| `WriteTarget`, `NoteWrite` | one target, then (install only) `updateJournal` of `recordedOps` |
| `SetPhase`, `Commit`, `MarkDone`, `DeleteJournal` | `updating-integrations`, `writeIntegrationsFile` of the whole file with one record replaced, `done`, removal, whose failure is a warning |
| `DropBackups` | uninstall removes the backups it used, each at best |
| `EndRun` | the command ends, or the husky migration goes on to uninstall the direct hook |
| `Throw`, `Crash` | any file operation fails, any step is the last |
| `RemoveStaleLock`, `RemoveDoneJournal` | what the messages tell the operator to do, under their condition |
| `UserEdits` | the user changes a target |

Reading `integrations.json` and the targets is one step: the lock keeps other
invocations out and the runs let the user edit between invocations only (see
section 3). `unsettled`, `origin` and `touched` are history for the properties:
targets replaced and not committed, what the user last had outside any record,
and what the user changed under one. No action of the program reads them.

## 3. What the runs check

| run | instance | asks |
|---|---|---|
| `checkpoint_naming` | a rollback and 2 other processes, 3 checkpoint ids, a user name that is the first of the emergency series, one checkpoint spoiled | names are unique |
| `session_lifecycle` | 2 processes, 2 sessions, 2 captures, fairness | sound readers, the refinement, every start and end ends |
| `contribution_capture` | 2 paths, 3 digests of which one is a link, 2 attempts, 2 changes by the user, 1 rival put, fairness | what is published was one state, resolvable and complete; the capture ends |
| `selective_rollback` | 2 paths, 2 rollback ids, commands, 1 outside edit, fairness | success restores, reports match the disk, saved before overwritten, the refinement, every apply ends |
| `transplant` | 5 paths in 3 levels, one ignored; the trees a checkpoint may hold with those a session may leave; 1 or 2 edits | only the session's work is destroyed, what refuses after the fence, the receipt is true, no false alarm |
| `transplant_refusal` | as above | expected to fail, see below |
| `checkpoint_restore` | 5 paths in 3 levels, one ignored and two that may be excluded; 2 contents and a link; three initial commits; 3 events | success is the session's start, failures after the reset are the known ones, the receipt is true, a dead run can be repeated, the oracle is the start, nothing unsaved is lost |
| `installer` | 2 processes, a direct hook and a merged JSON file, framed at first or not, 3 transactions, faults | the journal covers what is uncommitted, backups outlive records, records match files, the round trip of bytes |
| `installer_wide` | 1 process, a hook of 2 targets and husky, 2 generated values, 4 transactions, 1 edit between invocations, faults, fairness | partial writes: the journal lags by one edit at most and never leads; no text of the user's is destroyed without force; a migration never leaves the repository without a hook on record; every invocation ends |
| `pty_shell` | 2 requests of four kinds, one command at a time, fairness | no command without its record, reported failures did not run, the exit code, the shell ends |
| `mcp_server` | 2 calls of any of 6 tools, an earlier report, fairness | answers are recorded, commands run alone, the end of input drains, the server ends |
| `mcp_audit_failure` | as above | expected to fail, see below |

The type invariants and further safety properties of these components are
proved for every instance (section 4), and so are not run here.

**Bounds.** Three processes are needed for a lock to pass from one to another
while a third holds an old refusal, and three ids for a scan to meet one name
taken and one spoiled; a spoiled checkpoint is never repaired, so one is enough
to spoil a scan. Two processes and two sessions let an end and a start, or two
ends, interleave, and a second session begin after a first was interrupted; a
second capture is what tells the artifacts of a repeated end from those of the
first. Two paths make a selection with an unselected rest, a transplant that
stops half way, a rename, and two observations that settle in either order. Two
attempts of a capture are a retry and giving up; the third of the code adds no
state, since nothing is carried from one attempt to the next but the store. Two
rollback ids allow an apply over the remains of a previous one, in all
combinations with the full engine, which can run any number of times. One
outside edit in a rollback is a change at any point of it; its safety is proved
for every number. In the installer three transactions are an install, a rerun
and an uninstall, or two that race and the third that finds what they left; no
shipped adapter edits two targets at once, but the engine accepts it, and one
record of two targets is the least that can stop between two writes. Two
requests on a channel, and two calls of a server, are one in hand and one
behind it. The
five paths of a transplant are a directory in a directory, each with a file, and
an ignored file: the least with removals and parents two deep, a directory that
an unselected one lies in, and one that goes and holds what git does not list;
every pair of such trees with files on both sides is there, with the index
following the tree, or not, on either side. One edit of the user's can fall
between any two steps; two are allowed where the session left the deepest tree.
A restore has the same five paths. `MaxEvents` is 3, where what is done to the
checkout before or after a run, a crash, an edit of the configuration and an
abandoned session cost one and a change during a run costs two: every three
changes by a session, a change before it with two in it, a crash and a second
run over what the first left, or one change at any point of a run with one
before it. That two conditions explain every failure after the reset was
compared once more with all pairs of a start and an end of this tree.
The bounds only limit how often outsiders act and how many ids
exist; the program's own steps are not bounded. `MaxCaptures`, `MaxEdits`, `MaxEvents`,
`MaxTransactions`, `MaxDamages`, `MaxRequests`, `MaxAsking` and the `edits` of a
scenario are the bounds in guards; `Limit`, `MaxCaptureAttempts` and `MaxReads` are numbers of the code,
made smaller. Symmetry is over processes, sessions, paths and ids where the
constants are used alike, and in no run with liveness.

**Fairness.** A process that runs keeps running: the next step of an operation
is eventually taken or throws (`WF` of the steps of a holder, of `Capture`, of
`Progress`). Git, the verification commands and the guarded shell are child
processes with a timeout or an exit, or that a signal ends. Nobody is obliged to
start an operation, to crash, to edit, to send a request or to remove a stale
lock, so `OperationsEnd`, `RunsEnd`, `InvocationsEnd`, `CaptureEnds`,
`ShellEnds` and `ServerEnds` speak of a call, not of success. Deadlock is
checked except where the system really stops: in the installer every
transaction has a number of its own and `MaxTransactions` of them have begun; a
capture, a shell, a server and a transplant end once; a restore may have used up
its events and be refused for good.

**Two disagreements.** `mcp_audit_failure`: a record that could not be written
is to end the server with an error. It is reported from a `setTimeout(0)`, so that the refusing
answer is written first; when the input has ended and this was the last call in
flight, the `setImmediate` that closes the server can run before, and the server
exits with 0.

`transplant_refusal`: removals are scheduled for selected paths only. A directory
that is to become a file may hold a directory that is nobody's, around files that
are selected; the planner accepts the shape (and its test wants it accepted).
The files go, and then the outer directory cannot be removed, because the inner
one is still in it: after the marker, with part of the tree gone and nobody else
involved, where `transplant-schedule.ts` says that such a failure is a race. The
rollback reports `failed` for these paths and blocks every later one, which is
what it promises of a half-restored tree.

**Observations that are not disagreements.**

* Sessions: the comment at `core/src/session.ts:596` says that the only reachable
  inconsistency is a contribution without a reference. When a process died
  between writing `session.json` and removing `active-session.json`, the code
  lets `end` run again; the second run replaces `contribution.json` before
  `session.json`, and if it stops there, `session.json` names another digest than
  the file has (`OnlyUnreferencedContributions` of `SessionLifecycle` does not
  hold). A reader detects it (`ReaderFindsContribution` holds: a mismatch only
  after a later end), so evidence is refused, not misread.
* Whole-session restore. Two shapes make it break off after its reset, with
  neither state in the tree, nobody else involved, and a receipt that refuses
  every second attempt (`FailuresExplained`). An untracked file of the checkpoint
  became a directory with a directory in it: the sweep deletes files and leaves
  the inner directory, so the outer one is not empty and the file cannot be put
  back (`extraction_conflict`; the comment at `restore.ts:484` expects a
  directory of uncaptured files to be removable by then). A path that was newly
  added when the session started is no longer in the index: the reset leaves the
  file, and `git apply --index` refuses to make it. `restoreCheckpoint` refusing
  because `rollback.exclude` has changed leaves a receipt, too.
* An excluded or ignored file in the way of a tracked path is destroyed by the
  reset and is in no checkpoint; an excluded one is reported `skipped_excluded`
  (`InTheWay`, the exception of `NothingLost` and `ReceiptIsTrue`). An excluded
  symbolic link where a directory held an untracked file of the checkpoint is
  unlinked by `clearExtractionPathConflicts`, although the receipt has it under
  `skipped_excluded` (`LinkInTheWay`). A symbolic link that is untracked is in no
  checkpoint either; the other properties speak of files. When a tracked directory has become a file, the plan fails with ENOTDIR
  before anything is touched, and so does the emergency checkpoint.
* The emergency checkpoint of a full apply lists tracked and untracked paths by
  two git processes beside each other (`checkpoint.ts:248`, `snapshots.ts:157`
  and `:202`), after the patches. A file that is staged after the tracked paths
  were listed and before the untracked ones are is in neither list, so in neither
  archive, and in no patch either; `git reset --hard` then deletes it. One that is
  taken out of the index between the lists in the other order is in neither as
  well, and the sweep deletes it. `docs/rollback-contract.md:190` says "We never
  mutate without a recoverable pre-state snapshot". `NothingLost` is about every
  path that nobody has touched since the first list was asked for; touched means
  written, or moved into the index or out of it. Excuse changes of the tree alone
  during the capture and TLC finds the first of these losses. An edit of a file's
  bytes during or after the capture is lost as well, as with every program that
  replaces files by name; the whole-session restore has no fence.
* After a crash `git status` may show whole a directory it had shown by its
  files, or by its files what it had shown by one entry above them (a directory,
  or nothing at all while that directory's own name was in the index and the
  reset has brought the commit's back); the second run then refuses with
  `dirty_tree` and needs `--force`. A file it shows is always one that was
  accounted for, or below one (`CrashIsRepeatable`), except after a run that was
  forced over a moved HEAD, whose patches may break off over another commit
  and leave files of the session's that nothing accounts for. For the same reason a file of the
  user's in a directory that the after-status has as a whole is taken for the
  session's.
* Installer: `docs/installers-contract.md` says that install and reinstall share
  the kind `write-new`. The github-action adapter plans `backup-and-write` to
  replace a foreign workflow by force and `write-new` once its own is there;
  `classifyOp` refuses a kind that is not the recorded one, so every later rerun
  is refused until an uninstall. A JSON file that the merge created should be
  absent after uninstall; an update recomputes `targetWasAbsentBeforeApply` from
  the file as it is then, and uninstall leaves the empty document. An edit that
  the user saves while an invocation is between reading a target and replacing
  it is lost; nothing claims otherwise, and no program that replaces a file by
  name can avoid it, so the installer runs let the user edit only while no
  invocation runs (`EditsDuringRuns`). The plan is made before the lock: with two
  versions of VibeRevert side by side, a plan that saw the user's hook may be
  executed after the other version has replaced it; kinds and digests agree, the
  update records a new backup, of the generated hook, and no record names the
  user's any more. With one generated value the edit is a no-op, and
  `BackupsKept` holds in `installer`. Uninstall gives bytes back and no modes:
  every write is `writeFileAtomic` (`atomic.ts:60`), a new file with the default
  mode, and the only `chmod` follows the write of a `write-new` or
  `backup-and-write` by install (`engine-apply.ts:1158`). So a user's executable
  hook that install replaced comes back not executable
  (`engine-uninstall.ts:1183`), and a file that is merged into loses its mode
  with the install (husky's `pre-commit`); git skips a hook that is not
  executable. A merge into a JSON file that had no `mcpServers` leaves
  `"mcpServers": {}` in it, laid out by `prettyJson`. `RoundTrip` is a claim
  about bytes and names the frame; the contract promises as much
  (`docs/installers-contract.md:226`: "Preserves the original bytes").
* Rollback: a selective plan that is a conflict or has nothing to restore goes
  on to the transaction and stops at its first capture, as `not_attempted`. A
  full apply that dies between its reset and its receipt leaves no record;
  `session-format/src/rollback-attempt.ts` says so too. A full restore that
  fails before it changed anything leaves a receipt all the same, and with it
  the refusal of every later apply.
* Transplant: index writes are ordered by path alone. When `a` was a file of the
  index and the session replaced it by `a/b`, the entry `a` is written while `a/b`
  is still there and git refuses, after the marker; this and the shape of
  `transplant_refusal` are the only two (`RefusalsExplained`). When a directory
  became a file, the plan finds the file's path eligible and preparing it throws,
  since its earlier state is a directory: a refusal before anything is touched.
  Cut short between removing one kind of node and making the other, the
  transplant is reported with an `unauthorized_topology_change` at that path
  (`AlarmsExplained`).
* Capture: the fence compares readings of HEAD, of the index and of `git status`,
  each taken at its own moment. A file moved after Pass A's status and committed
  between Pass B's reading of HEAD and of the status answers both statuses alike;
  what is published lacks the removed path, under a HEAD that had already gone.
  `PublishedIsSnapshot` claims nothing when a content or an answer came back. A
  symbolic link, or an excluded file, that was there untracked before
  the session and is tracked later gets an "added" entry, since the checkpoint
  keeps regular files only. A deletion that is not staged is "modified" with no
  facets. A renamed entry whose destination is gone has no content delta.
* MCP: `explain_diff` of the session's report may read its two halves from two
  checks (`AdHocReportExplained` speaks of the others).
  `docs/mcp-contract.md` says that the audit failure is deferred by
  `setImmediate`, the code by `setTimeout(0)`. SIGINT during a class B call ends
  the process with the call unrecorded and unanswered.

## 4. What is proved

The theorems hold for any set of processes, sessions, paths, ids, digests and
requests and for any value of the bounds; they assume only what the modules name
as assumptions: the "no such" constants are outside their sets, bounds are
naturals, `Commands` is a Boolean. All use `Init`, `Next` and no fairness. Five
theorems of `InstallerProofs` have a hypothesis more, which their statements
carry and the installer runs satisfy.

* **`CheckpointProofs`**, of `DirLock`: `TypeCorrect`, `Mutex`, `HolderRemoves`,
  `NamesHolder`.
  Mutual exclusion alone is not inductive: that somebody is inside must imply
  that the directory exists (`HolderHasDir`), or a second `mkdir` could succeed.
* **`CheckpointProofs`**, of the names: `RefinesLock` (every step is one of
  the lock's or leaves it alone, whence all of the above holds here),
  `OneOfAName`, `AnswersAreTrue`, `LookupsAreRight`, `NamingTypes`. The
  invariant says what the scan of the one inside has already read: every
  published name it may still decide about is in `entries`, because the lock
  keeps other named creations out and a nameless one adds no name.
* **`CheckpointProofs`**, of a whole-session restore, for any finite or infinite
  set of paths closed under prefixes, any contents and links, any commits to
  begin with and any exclusions: `RollbackRestores`, `ReceiptsAreTrue`,
  `NothingIsLost`, `CrashesAreRepeatable`, `FailuresAreExplained`,
  `OracleRestores`. They assume that a path is a sequence of segments
  (`PathsAssumption`), that a node is of one kind (`NodesAssumption`) and that
  `None` is no failure, no checkout, no list and no archive (`ConstantsAssumption`).
  The program compares dirty paths and hashes, never trees; that this is enough
  rests on what each phase leaves. First come lemmas about the operators: a tree
  stays one in which nothing lies below what is no directory (`RemovedTree`,
  `WrittenTree`, `ClearedTree`, `PatchTree`), what a patch that applied has left
  of the index and the tree, and how far one that did not (`ApplyOutcome`,
  `ApplyKeeps`, `ApplyDone`), when a patch applies (`ApplySucceeds`), and for each phase which
  paths it can touch and what it takes from them or puts there (`ResetTouches` to
  `ExtractTouches`).
  `RestoreInv` has two parts. `Grounded`: the checkpoint is of `started`, and HEAD
  has only moved on, so that an equal number means an equal commit. `Underway`:
  over a checkout nobody else touches, after the reset the tree agrees with HEAD
  where HEAD has anything (`Pinned`), after the staged patch the index is the
  session's and the tree has it (`Staged`), after the unstaged one the tree has
  what was tracked as it was (`Followed`), after the sweep no file is left that the
  checkpoint does not know (`Swept`), and with the hashes right its untracked files
  are there (`Given`); the phases that come later disturb none of these.
  `Accounted` says of the plan, made before anything was touched, that each phase
  spared what it does not name (`Spares`), and that the checkout has not changed
  between the plan and the reset. `Secured` holds with people at work at any time:
  before the first phase the emergency checkpoint holds every file it should, but
  for those somebody touched since its first list (`Archived`), and at
  each phase a file nobody has written since is one that stood there then, or came
  with the restore (`Origin`); until the staged patch the index has nothing but what
  it had then, or what HEAD has, without which the reset could drop a new file of
  which no archive has a copy. `Collecting` carries the capture there: of a path
  nobody has touched, what is already listed and archived agrees with the tree
  and the index (`Collected`).
  `Repeatable` is about a run that dies between any two phases: as long as HEAD
  stays, every path that `git status` could show (`Shown`: it differs from HEAD or
  the index, or is untracked) is one that was accounted for or lies below one
  (`Quiet`). It was so when the run was admitted (`QuietStatus`), and each phase
  shows nothing new but what the checkpoint lists (`ResetShows` to
  `FollowedShows`), half-applied patches included.
  `Unbroken` is what keeps a phase from breaking off. `Based`: after the reset,
  every file the index does not know, and every directory that holds nothing of
  it, was there before the emergency checkpoint was complete. So if nothing stood
  then where the session's start had a new path (`Vacant`), the staged patch finds
  its place free (`StagedWorks`; the unstaged one makes no path), and if no
  untracked file's place was taken (`Yields`), the way can be cleared and the archive
  unpacked (`ClearWorks`, `ClearOpens`). With the bytes in place the
  verification has nothing to find (`ParityWorks`, `VerifyWorks`).
  `OracleRestores` uses the same lemmas: a fresh worktree is a reset of nothing
  (`FreshReset`), of which both conditions hold, and what is in it is known to the
  index or to the checkpoint (`Sound`), so that the missing sweep is not missed.
* **`SessionLifecycleProofs`**: `TypeCorrect`, `PublishedComplete`,
  `NoDanglingReference`, `RefinesStore`, `RefinesLock`, and, of those who read
  without the lock, `ContributionFound`, `ListingIsSound`. The invariant says, per
  program counter, what the holder has already written: which files the
  temporary directory has at each step of start, and, at each step of end, that
  the artifacts written so far carry the holder's capture, which is newer than
  everything on disk. It also says that only one process is past its
  acquisition, and that the operation's session is the one the pointer names.
  `ListerInv` and `ReaderInv` say what stays true between the reads of a listing
  and of a consumer: an end once on record stays, a session that was active when
  the directory was read is still the one the pointer names or has its end on
  record, and of a session's contributions none is replaced by an older one.
* **`SelectiveRollbackProofs`**: `TypeCorrect`, `SuccessIsRestoration`,
  `ReportsAreTrue`, `EnginesApart`, `SavesFirst`, `RefinesJournal`. The
  invariant has seven parts: `Typed`; `JournalInv`, what the history looks like
  while an engine is past admission (admission is checked once, much earlier
  than the marker); `EpochInv`, which recovery states belong to which step and
  stopping point, so that no unmapped combination is classified; `ReportInv`,
  what each reported outcome implies about marker, receipt and progress;
  `PlanInv` and `SavedInv`, which tie the states that were planned, frozen,
  held by the checkpoint and seen by the fence to the tree, except for what
  outsiders changed since; `RestoredInv`, which carries the result of
  verification over the two observations to the report.
* **`TransplantProofs`**: `TypeCorrect`, `ReceiptIsTrue`,
  `OnlySessionWorkDestroyed`, for any finite or infinite set of paths closed
  under prefixes (`PathsAssumption`), any coherent trees and any number of edits
  (`ScenariosAssumption`). What holds at the fence must be carried through an
  execution beside which the user edits: `Planned`, what is to be written was
  seen as the session left it, and parents are none of the selected paths;
  `Frozen`, S agrees with the plan; `Scheduled`, the obligations are those of the
  plan, and none has begun at the fence; `Unharmed`, what an obligation still to
  come will find at its path, unless it was edited since; `Untouched`, a path none
  of whose obligations has begun is as the session left it, or was edited since.
  `OrderSuits` and `NoFalseAlarm` prove `RefusalsExplained` and `AlarmsExplained`.
  They are about the shape of the tree, so they assume that a path is a sequence
  of segments, each given by its place in the order of names, and that a node is
  of one kind (`NodesAssumption`). `CourseKept` is their invariant: `Solid`,
  nothing is below what is no directory; `Judged`, what is written is what the
  verdict lets through; `Stabilized`, S shows the same of a path that is both
  protected and watched, and (`Foreseen`) accounts for what goes with a directory,
  for the directories above what is written and for the index entries around it,
  which the planner checked and the stabilization checked again on S; `InOrder`,
  the schedule is executed in its total order and ends with the first failure;
  `OnSchedule`, while nobody edits, every protected path is where the completed
  obligations took it from S, or half-way through the one attempted, and
  everything else that is watched or indexed is as S has it. From these, the
  primitive of a due obligation finds what it asks, outside the two shapes, and
  each difference between S and the last observation has its obligation.
* **`InstallerProofs`**, for any adapters and targets that `KeysAssumption`
  allows and with faults: `TypeCorrect`, `OneAtATime`, `Covers`,
  `CommitsOwnRecord`, `EntriesKeepUp`, with edits at any time. Their invariant:
  `TypeOK`; `Numbered`, a transaction has its number alone; `Shaped`, what a
  record and a transaction hold is indexed by the targets of its key, without
  which indexing them has no type. `Exclusive`: the lock is in the name of the
  one inside, past the scan only its own entry exists, and until the commit
  `integrations.json` is as it was read. It needs that an entry is changed by its
  own transaction only, and that the operator removes what nobody owns.
  `Covering`: beside `JournalCovers`, while a transaction replaces files its
  entry lists what is still to be replaced, and after the commit nothing of its
  own is uncommitted, which is why the entry may then go. `KeepingUp`: an entry
  names what was replaced, but for the one target between `WriteTarget` and
  `NoteWrite`, and nothing is replaced before the entry exists.
  `RecordsMatch`, `TextIsKept`, under `~EditsDuringRuns` (an edit between the
  read of a target and its replacement is lost, section 3), and `BackupsStay`,
  `GivenBack`, with `OneVersion \/ OneProcess` beside (section 3 has the
  counterexample of two versions; a merge needs neither). What an uninstall must
  know of a file is known to the install that first wrote it and has to survive
  every update, failure and death since. `Recorded`: a record and the disk agree
  where no unfinished transaction accounts for the file, and from the record,
  its backup and the file the origin can be given back (`Returns`). `Staged`:
  within a transaction, what is written is the goal and the rest is as read,
  what is going to be recorded is fit to be a record of the goal, and the text
  it replaces is saved or still to be saved. `Settled`: a file without a record is
  what a round trip leaves of it, frame included. `Timely`: where one process runs, the plan made
  before the lock still takes the user's file for the user's after it; this is
  what fails for two. `MigrationChecked`, under `OneProcess`: another process
  may uninstall husky between the two halves of a migration. `Migrations`: the
  second half begins only with husky's hook on record.
* **`ContributionCaptureProofs`**: `TypeCorrect`, `StoredIsKept`,
  `EvidenceStays`, `NothingAfter`, `Resolvable`, `Reconstructible`,
  `ProvenSnapshot`. The fence compares readings and never the repository, so the
  invariant says what each reading still tells of it. `LastingInv`: what Pass A
  found is there, or the user has changed away from it and, if it comes back,
  that is counted. `WitnessInv` carries this to the moment between the passes,
  and `AgainInv`: what Pass B finds as Pass A did was so at that moment, for else
  it had gone before and come back since. `Acquired` and `ReadInv` say how far a
  reading is, `StoreInv`, `FlowInv` and `KeptInv` that everything observed is in
  the store and in the mirrors, `FirstInv` that Pass A's reading is whole.
* **`PtyShellProofs`**: `Typing`, `RanAfterRecord`, `ReportsAreTrue`,
  `LogHasNoRepeats`, `StopSilences`, `CloseEndsRecords`, `ExitLeavesNothing`. `Routed`: a connection
  is in one place, the queue or the loop's hands; `Staged` and `Answered`: what
  the loop has done for it depends on where it stands; `Phased`: the loop runs
  only between its creation and the end of the stop, which comes before the
  session is closed. `Ending`: what the install has not yet made, that the
  listener and its sockets are gone when the later steps of the teardown run,
  whichever failed before, and that without a failure so are the child and the
  raw mode.
* **`McpServerProofs`**: `TypeCorrect`, `AnswersRecorded`, `EffectAwaited`,
  `RunAlone`, `InputDrained`, `RecordsKept`, `NoGap`, `AdHoc`. `Counted`: the
  counter is the number of calls in flight; `Chained` and `Logged`: each of them
  that waits for its record is in the chain once, and the log has what was
  accepted; `Serial` and `Worked`: the running command is that of the head of
  the queue; `Ended`: nothing begins once the end is decided; `Explained`.

Only model-checked: the six liveness properties, because liveness under fairness
is outside what the prover handles. Every other property of the runs that hold is
proved.

## 5. Plan

In this order, the most important behaviour first.

1. `DirLock`; `SessionStore`, `SessionLifecycle`; `RollbackJournal`,
   `SelectiveRollback`; `ManagedFiles`, `Installer`, with their proofs.
2. `CheckpointNaming` over `DirLock`, with proofs.
3. `ContributionCapture` over `ObjectStore`, with `mapWithConcurrency` and
   `serializeCalls` as it uses them, with proofs.
4. `PtyShell` over `Interception`; `McpServer` over `AuditLog` and
   `CommandHarness`, with proofs.
5. `Transplant`: plan, schedule, execution and verdict over a small tree of
   paths, with proofs.
6. `CheckpointRestore` over `GitWorktree`: capture, plan, phases, receipt.
7. Proofs of the reader properties of sessions, of the end of a shell, of the
   installer's remaining properties, and of the schedule's order against the
   shape of the tree; of what success, the receipt and each step of a whole-session
   restore promise, of what a failure, a crash and the oracle of later steps may show.

All of it is done; section 6 says what is left out.

## 6. Not modelled

The formats, the reporters, the detectors and classifiers of the check engine,
configuration, redaction and the command line are sequential and hold
no state between calls; they are left out except where a rule of theirs decides
something above. Git itself and the file system are external: a rename, a
`mkdir` and a link are atomic, other writes go through a temporary name and a
rename in the code and are atomic for that reason. Dry runs write only a
preview. Durability below the file system (power loss) is not modelled: a crash
is the death of a process.

* Installers: preview (which only reads), path preflight, the history and
  self-backup of `integrations.json` (nothing reads them), the edit kind
  `sentinel-block-replace` (no adapter plans it), the detection of hook managers
  and the stand-alone hook commands; file modes, and what of a layout a merge
  changes beyond there being a frame (line endings, indentation).
* Restore: the checks of preflight over damaged or foreign archives, file modes,
  renames and inexact patches, and dry runs.
* Capture: file modes, unmerged and gitlink entries, the contents of hunks, the
  binding to the checkpoint's manifest. Conflicting renames cannot arise with two
  paths.
* MCP server: what happens after `startServer` has returned, a record that
  cannot be serialized, SIGINT while connecting, output caps, the envelopes and
  the drift guard of the tool list.
* PTY: the text of the hook and the choice of the host's shell.

## 7. Running

`tlc -config MCCheckpointNaming.cfg MCCheckpointNaming` and so on for each
`.cfg`; `MCTransplantRefusal.cfg` belongs to `MCTransplant`,
`MCMcpAuditFailure.cfg` to `MCMcpServer`, `MCInstallerWide.cfg` to `MCInstaller`.
`tlapm CheckpointProofs.tla` and so on for the proofs.

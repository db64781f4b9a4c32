--------------------------- MODULE InstallerProofs ---------------------------
(***************************************************************************)
(* Installer for any processes, records, targets, contents and bounds:     *)
(* types, one transaction at a time, the journal's coverage, that a commit *)
(* changes one record only, that an install's entry keeps up with its      *)
(* writes, and what integrations.json and the backups promise of the files:*)
(* records that match them, the bytes an uninstall gives back and the      *)
(* user's own text.                                                        *)
(***************************************************************************)
EXTENDS Installer, SequenceTheorems, TLAPS

Active(p) == pc[p] # "idle"

(* A transaction has a number of its own.                                  *)
Numbered ==
    /\ \A p \in Procs : Active(p) => /\ run[p].txn \in 1..begun
                                     /\ run[p].key \in Keys
                                     /\ run[p].command \in {"install", "uninstall"}
    /\ \A p, r \in Procs : Active(p) /\ Active(r) /\ run[p].txn = run[r].txn => p = r

(* Records and what a transaction decides are about the targets of the key.*)
Shaped ==
    /\ \A k \in Keys : store[k] # NoRecord => DOMAIN store[k] = Indices(k)
    /\ \A p \in Procs : Active(p) /\ run[p].command = "install" =>
          DOMAIN run[p].plan = Indices(run[p].key)
    /\ \A p \in Procs : pc[p] \in Deciding =>
          /\ run[p].toWrite \subseteq Indices(run[p].key)
          /\ run[p].toSave \subseteq Indices(run[p].key)
          /\ DOMAIN run[p].current = Indices(run[p].key)
          /\ DOMAIN run[p].goal = Indices(run[p].key)
          /\ run[p].final # NoRecord => DOMAIN run[p].final = Indices(run[p].key)

Typed == TypeOK /\ Numbered /\ Shaped

BeforeCommit == Deciding \ {"done", "delete", "drop"}

(* integrations.lock/ is in the name of the transaction inside; the entries*)
(* it found are its own; what it read of integrations.json is still there. *)
Exclusive ==
    /\ \A p \in Procs : Inside(p) => lock = run[p].txn
    /\ \A x \in Transactions : journals[x].phase # "none" => x \in 1..begun
    /\ \A p \in Procs : pc[p] \in {"read", "journal"} =>
          \A x \in Transactions : journals[x].phase = "none"
    /\ \A p \in Procs : pc[p] \in Deciding =>
          \A x \in Transactions : journals[x].phase # "none" => x = run[p].txn
    /\ \A p \in Procs : pc[p] \in BeforeCommit => run[p].seen = store

(* The steps at which a transaction that replaces files has its entry.     *)
Journalled(p) ==
    \/ pc[p] \in {"note_save", "write", "note_write", "phase"}
    \/ pc[p] \in {"save", "commit"} /\ run[p].mutates

(* Its entry lists what is still to be replaced; after the commit nothing  *)
(* is uncommitted.                                                         *)
Covering ==
    /\ JournalCovers
    /\ \A p \in Procs : Journalled(p) =>
          /\ journals[run[p].txn].phase \in {"writing-files", "updating-integrations"}
          /\ Targets(p, run[p].toWrite) \subseteq journals[run[p].txn].planned
    /\ \A p \in Procs : pc[p] \in {"done", "delete", "drop"} =>
          \A u \in unsettled : u[1] # run[p].txn

Inv == Typed /\ Exclusive /\ Covering

-----------------------------------------------------------------------------
(* Sequences indexed by the targets of a key.                              *)
LEMMA IndexedBy ==
    ASSUME NEW k \in Keys, NEW S, NEW f \in [Indices(k) -> S]
    PROVE  f \in Seq(S) /\ DOMAIN f = Indices(k)
<1>1. TargetsOf[k] \in Seq(Paths)
  BY KeysAssumption
<1>2. Indices(k) = 1..Len(TargetsOf[k]) /\ Len(TargetsOf[k]) \in Nat
  BY <1>1 DEF Indices
<1> QED
  BY <1>2, SeqDef

LEMMA Indexed == ASSUME NEW k \in Keys PROVE Indices(k) \subseteq Nat
<1>1. TargetsOf[k] \in Seq(Paths)
  BY KeysAssumption
<1> QED
  BY <1>1 DEF Indices

LEMMA Targeted == ASSUME NEW k \in Keys, NEW i \in Indices(k) PROVE TargetsOf[k][i] \in Paths
<1>1. TargetsOf[k] \in Seq(Paths)
  BY KeysAssumption
<1> QED
  BY <1>1 DEF Indices

LEMMA Element == ASSUME NEW S, NEW s \in Seq(S), NEW i \in DOMAIN s PROVE s[i] \in S
OBVIOUS

(* What edits leave and record has its type.                               *)
LEMMA DesiredType ==
    ASSUME NEW op \in Ops, NEW c \in Contents PROVE Desired(op, c) \in Contents
<1>1. c # Absent => c \in Documents
  BY DEF Contents
<1>2. op.value \in Values
  BY DEF Ops
<1> QED
  BY <1>1, <1>2 DEF Contents, Documents, Desired, Generated, Merge

LEMMA RecordType ==
    ASSUME NEW op \in Ops, NEW c \in Contents, NEW txn \in Transactions
    PROVE  RecordOf(op, c, txn) \in RecordOps
BY MaxTransactionsAssumption DEF Ops, RecordOf, RecordOps, Transactions

LEMMA ReversedType ==
    ASSUME NEW r \in RecordOps, NEW c \in Contents, NEW bytes \in Contents,
           NEW there, NEW force, ClassifyReverse(r, c, there, force) = "reverse"
    PROVE  Reversed(r, c, bytes) \in Contents
<1>1. r.kind \in {"write-new", "backup-and-write", "sentinel-block-insert", "json-key-merge"}
  BY DEF RecordOps, Kinds, WholeKinds, MergeKinds
<1>2. r.kind \in MergeKinds => c \in Documents
  BY AbsentAssumption, <1>1 DEF ClassifyReverse, Missing, HasManaged, Matches, Contents,
     WholeKinds, MergeKinds
<1> QED
  BY <1>1, <1>2 DEF Reversed, Merge, Contents, Documents, MergeKinds

-----------------------------------------------------------------------------
LEMMA NoRunType == NoRun \in Runs
<1>1. \A S : <<>> \in Seq(S)
  BY EmptySeq
<1>2. NoRecords \in [Keys -> Seq(RecordOps)]
  BY <1>1 DEF NoRecords, NoRecord
<1> QED
  BY <1>1, <1>2, MaxTransactionsAssumption DEF NoRun, Runs, Commands, Outcomes, NoRecord

(* A transaction with one thing less to do, or with a result.              *)
LEMMA RunType ==
    ASSUME NEW r \in Runs
    PROVE  /\ \A i : [r EXCEPT !.toSave = @ \ {i}] \in Runs
           /\ \A i : [r EXCEPT !.toWrite = @ \ {i}] \in Runs
           /\ \A result \in Outcomes : [r EXCEPT !.outcome = result] \in Runs
BY DEF Runs

LEMMA InitInv == Init => Inv
<1> SUFFICES ASSUME Init PROVE Inv
  OBVIOUS
<1> USE DEF Init
<1>1. TypeOK
  <2>1. run \in [Procs -> Runs]
    BY NoRunType
  <2>2. journals \in [Transactions -> Entries]
    BY DEF Entries, NoEntry, Phases, Commands
  <2>3. files \in [Paths -> Contents] /\ origin \in [Paths -> Contents]
    BY FilesAssumption
  <2>4. backups \in [Transactions -> [Paths -> [there : BOOLEAN, bytes : Contents]]]
    BY DEF Unsaved, Contents
  <2>5. store \in [Keys -> Seq(RecordOps)]
    BY EmptySeq DEF NoRecords, NoRecord
  <2> QED
    BY <2>1, <2>2, <2>3, <2>4, <2>5, MaxTransactionsAssumption, MaxEditsAssumption DEF TypeOK
<1>2. Numbered /\ Shaped
  BY DEF Numbered, Shaped, Active, Deciding, NoRecords
<1>3. Exclusive
  BY DEF Exclusive, Inside, Deciding, BeforeCommit, NoEntry
<1>4. Covering
  BY DEF Covering, JournalCovers, Journalled
<1> QED
  BY <1>1, <1>2, <1>3, <1>4 DEF Inv, Typed

(* The frame of a step of p that only moves on and reports.                *)
LEMMA ReportTyped ==
    ASSUME TypeOK, NEW p \in Procs, NEW result \in Outcomes, Report(p, result)
    PROVE  /\ pc' \in [Procs -> Steps \cup {"idle"}]
           /\ run' \in [Procs -> Runs]
<1>1. run[p] \in Runs
  BY DEF TypeOK
<1>2. [run[p] EXCEPT !.outcome = result] \in Runs
  BY <1>1 DEF Runs
<1> QED
  BY <1>2 DEF TypeOK, Report, Goto, Steps

LEMMA DecideTyped ==
    ASSUME TypeOK, NEW p \in Procs, run[p].key \in Keys,
           NEW goal \in Seq(Contents), NEW final \in Seq(RecordOps),
           NEW writes \in SUBSET Nat, NEW saves \in SUBSET Nat,
           Decide(p, goal, final, writes, saves)
    PROVE  /\ pc' \in [Procs -> Steps \cup {"idle"}]
           /\ run' \in [Procs -> Runs]
<1> DEFINE new == [run[p] EXCEPT !.seen = store, !.current = Current(run[p].key),
                                 !.goal = goal, !.final = final, !.toWrite = writes,
                                 !.toSave = saves, !.mutates = writes # {}]
<1>1. run[p] \in Runs /\ store \in [Keys -> Seq(RecordOps)]
  BY DEF TypeOK
<1>2. Current(run[p].key) \in Seq(Contents)
  <2>1. Current(run[p].key) \in [Indices(run[p].key) -> Contents]
    BY Targeted DEF Current, TypeOK
  <2> QED
    BY <2>1, IndexedBy
<1>3. new \in Runs
  <2>1. (writes # {}) \in BOOLEAN
    OBVIOUS
  <2> QED
    BY <1>1, <1>2, <2>1 DEF Runs
<1>4. run' = [run EXCEPT ![p] = new]
  BY DEF Decide, TypeOK, Runs
<1>5. pc' \in [Procs -> Steps \cup {"idle"}]
  BY DEF Decide, Goto, TypeOK, Steps
<1> HIDE DEF new
<1> QED
  BY <1>3, <1>4, <1>5 DEF TypeOK

(* A transaction has its number, its targets and an entry of its own.      *)
LEMMA DecidingTyped ==
    ASSUME TypeOK, Numbered, Shaped, NEW p \in Procs, pc[p] \in Deciding
    PROVE  /\ run[p] \in Runs
           /\ run[p].txn \in Transactions
           /\ run[p].key \in Keys
           /\ \A i \in Indices(run[p].key) : Target(p, i) \in Paths
           /\ Targets(p, run[p].toWrite) \subseteq Paths
           /\ Targets(p, Indices(run[p].key)) \subseteq Paths
<1>1. Active(p)
  BY DEF Active, Deciding
<1>2. run[p].txn \in 1..begun /\ run[p].key \in Keys
  BY <1>1 DEF Numbered
<1>3. run[p].txn \in Transactions
  BY <1>2, MaxTransactionsAssumption DEF TypeOK, Transactions
<1>4. \A i \in Indices(run[p].key) : Target(p, i) \in Paths
  BY <1>2, Targeted DEF Target
<1>5. run[p].toWrite \subseteq Indices(run[p].key)
  BY DEF Shaped
<1> QED
  BY <1>2, <1>3, <1>4, <1>5 DEF TypeOK, Targets

LEMMA EntryTyped ==
    ASSUME TypeOK, NEW p \in Procs, run[p].txn \in Transactions, NEW field, NEW value,
           \/ field = "phase" /\ value \in Phases
           \/ field \in {"recorded", "saved"} /\ value \in SUBSET Paths,
           UpdateEntry(p, field, value)
    PROVE  journals' \in [Transactions -> Entries]
<1> DEFINE old == journals[run[p].txn]
           new == [old EXCEPT ![field] = value]
<1>1. old \in Entries
  BY DEF TypeOK
<1>2. new \in Entries
  BY <1>1 DEF Entries
<1>3. journals' = [journals EXCEPT ![run[p].txn] = new]
  BY DEF UpdateEntry
<1> QED
  BY <1>2, <1>3 DEF TypeOK

(* Types, one step at a time.                                              *)
LEMMA TypeKeeps ==
    ASSUME TypeOK, Numbered, Shaped, [Next]_vars
    PROVE  TypeOK'
<1> USE MaxTransactionsAssumption DEF TypeOK, internal, ghosts, Goto, Steps
<1>1. ASSUME NEW p \in Procs, NEW k \in Keys, NEW force \in BOOLEAN, NEW v \in Values,
             BeginInstall(p, k, force, v)
      PROVE  TypeOK'
  <2> DEFINE kinds == [i \in Indices(k) |->
                         PlannedKind(AdapterOf[k], files[TargetsOf[k][i]], force)]
             ops == [i \in Indices(k) |-> [kind |-> kinds[i], value |-> v]]
             migrate == AdapterOf[k] = "husky" /\ DirectHookThere
             new == [NoRun EXCEPT !.command = "install", !.key = k, !.force = force,
                                  !.migrate = migrate, !.txn = begun + 1, !.plan = ops]
  <2>1. \A i \in Indices(k) : kinds[i] \in Kinds
    BY <1>1, KeysAssumption DEF BeginInstall, PlannedKind, Adapters, Kinds, WholeKinds,
       MergeKinds
  <2>2. ops \in Seq(Ops)
    <3>1. ops \in [Indices(k) -> Ops]
      BY <2>1 DEF Ops
    <3> QED
      BY <3>1, IndexedBy
  <2>3. begun + 1 \in 0..MaxTransactions
    BY <1>1 DEF BeginInstall
  <2>4. new \in Runs
    <3> HIDE DEF ops, migrate
    <3>1. migrate \in BOOLEAN
      BY DEF migrate
    <3> QED
      BY <2>2, <2>3, <3>1, NoRunType DEF Runs, Commands
  <2>5. run' = [run EXCEPT ![p] = new] /\ begun' = begun + 1
    BY <1>1 DEF BeginInstall
  <2> HIDE DEF new
  <2> QED
    BY <1>1, <2>3, <2>4, <2>5 DEF BeginInstall
<1>2. ASSUME NEW p \in Procs, NEW k \in Keys, NEW force \in BOOLEAN,
             BeginUninstall(p, k, force)
      PROVE  TypeOK'
  <2> DEFINE new == [NoRun EXCEPT !.command = "uninstall", !.key = k,
                                  !.force = force, !.txn = begun + 1]
  <2>1. begun + 1 \in 0..MaxTransactions
    BY <1>2 DEF BeginUninstall
  <2>2. new \in Runs
    BY <2>1, NoRunType DEF Runs, Commands
  <2> QED
    BY <1>2, <2>1, <2>2 DEF BeginUninstall
<1>3. ASSUME NEW p \in Procs, AcquireLock(p) PROVE TypeOK'
  <2>1. run[p].txn \in 0..MaxTransactions
    BY DEF Runs
  <2> QED
    BY <1>3, <2>1 DEF AcquireLock
<1>4. ASSUME NEW p \in Procs, LockHeld(p) \/ Crash(p) PROVE TypeOK'
  BY <1>4, NoRunType DEF LockHeld, Crash
<1>5. ASSUME NEW p \in Procs, Scan(p) PROVE TypeOK'
  <2>1. CASE \A x \in Transactions : journals[x].phase = "none"
    BY <1>5, <2>1 DEF Scan
  <2>2. CASE ~\A x \in Transactions : journals[x].phase = "none"
    BY <1>5, <2>2, ReportTyped DEF Scan, Outcomes
  <2> QED
    BY <2>1, <2>2
<1>6. ASSUME NEW p \in Procs, ReadForInstall(p) PROVE TypeOK'
  <2> DEFINE k == run[p].key
             plan == run[p].plan
             now == Current(k)
             judged == [i \in Indices(k) |->
                          IF store[k] = NoRecord
                          THEN ClassifyFresh(plan[i], now[i])
                          ELSE ClassifyRecorded(plan[i], store[k][i], now[i], run[p].force)]
             goal == [i \in Indices(k) |-> Leaves(plan[i], now[i], judged[i])]
             final == [i \in Indices(k) |->
                         IF judged[i] = "noop" THEN store[k][i]
                         ELSE RecordOf(plan[i], now[i], run[p].txn)]
             writes == {i \in Indices(k) : judged[i] \in Mutations}
             saves == {i \in Indices(k) : NeedsBackup(plan[i], judged[i])}
  <2>1. /\ k \in Keys /\ run[p].txn \in Transactions
        /\ plan \in Seq(Ops) /\ DOMAIN plan = Indices(k)
    <3>1. Active(p) /\ run[p].command = "install" /\ run[p] \in Runs
      BY <1>6 DEF ReadForInstall, Active
    <3>2. k \in Keys /\ run[p].txn \in 1..begun
      BY <3>1 DEF Numbered
    <3>3. plan \in Seq(Ops)
      BY <3>1 DEF Runs
    <3>4. DOMAIN plan = Indices(k)
      BY <3>1 DEF Shaped
    <3>5. run[p].txn \in Transactions
      BY <3>2 DEF Transactions
    <3> QED
      BY <3>2, <3>3, <3>4, <3>5
  <2>2. \A i \in Indices(k) : now[i] \in Contents
    BY <2>1, Targeted DEF Current
  <2>3. \A i \in Indices(k) : plan[i] \in Ops
    BY <2>1, Element
  <2>4. goal \in Seq(Contents)
    <3>1. goal \in [Indices(k) -> Contents]
      BY <2>2, <2>3, DesiredType DEF Leaves
    <3> QED
      BY <2>1, <3>1, IndexedBy
  <2>5. \A i \in Indices(k) : judged[i] = "noop" => store[k][i] \in RecordOps
    <3> SUFFICES ASSUME NEW i \in Indices(k), judged[i] = "noop"
                 PROVE  store[k][i] \in RecordOps
      OBVIOUS
    <3>1. store[k] # NoRecord
      BY DEF ClassifyFresh
    <3> QED
      BY <2>1, <3>1, Element DEF Shaped
  <2>6. final \in Seq(RecordOps)
    <3>1. final \in [Indices(k) -> RecordOps]
      BY <2>1, <2>2, <2>3, <2>5, RecordType
    <3> QED
      BY <2>1, <3>1, IndexedBy
  <2>7. writes \subseteq Nat /\ saves \subseteq Nat
    BY <2>1, Indexed
  <2>8. CASE Report(p, "noop") \/ \E r \in Refusals : Report(p, r)
    BY <1>6, <2>8, ReportTyped DEF ReadForInstall, Outcomes
  <2>9. CASE Decide(p, goal, final, writes, saves)
    <3> HIDE DEF goal, final, writes, saves
    <3> QED
      BY <1>6, <2>1, <2>4, <2>6, <2>7, <2>9, DecideTyped DEF ReadForInstall
  <2> QED
    BY <1>6, <2>8, <2>9 DEF ReadForInstall
<1>7. ASSUME NEW p \in Procs, ReadForUninstall(p) PROVE TypeOK'
  <2> DEFINE k == run[p].key
             now == Current(k)
             judged == [i \in Indices(k) |->
                          ClassifyReverse(store[k][i], now[i], Backup(k, i).there,
                                          run[p].force)]
             writes == {i \in Indices(k) : judged[i] # "skip"}
             refused == {i \in Indices(k) : judged[i] \in {"no_backup", "drift"}}
             goal == [i \in Indices(k) |->
                        IF i \in writes
                        THEN Reversed(store[k][i], now[i], Backup(k, i).bytes)
                        ELSE now[i]]
  <2>1. k \in Keys
    BY <1>7 DEF ReadForUninstall, Numbered, Active
  <2>2. \A i \in Indices(k) : now[i] \in Contents
    BY <2>1, Targeted DEF Current
  <2>3. CASE store[k] = NoRecord
    BY <1>7, <2>3, ReportTyped DEF ReadForUninstall, Outcomes
  <2>4. CASE store[k] # NoRecord /\ refused # {}
    <3>1. PICK r \in {"no_backup", "drift"} : Report(p, r)
      BY <1>7, <2>4 DEF ReadForUninstall
    <3>2. r \in Outcomes
      BY <3>1 DEF Outcomes, Refusals
    <3> QED
      BY <1>7, <3>1, <3>2, ReportTyped DEF ReadForUninstall
  <2>5. CASE store[k] # NoRecord /\ refused = {}
    <3>1. \A i \in Indices(k) : store[k][i] \in RecordOps
      BY <2>1, <2>5, Element DEF Shaped
    <3>2. \A i \in Indices(k) : Backup(k, i).bytes \in Contents
      <4> SUFFICES ASSUME NEW i \in Indices(k) PROVE Backup(k, i).bytes \in Contents
        OBVIOUS
      <4>1. CASE store[k][i].backup = 0
        BY <4>1 DEF Backup, Unsaved, Contents
      <4>2. CASE store[k][i].backup # 0
        <5>1. store[k][i].backup \in Transactions
          BY <3>1, <4>2 DEF RecordOps, Transactions
        <5>2. TargetsOf[k][i] \in Paths
          BY <2>1, Targeted
        <5> QED
          BY <4>2, <5>1, <5>2 DEF Backup
      <4> QED
        BY <4>1, <4>2
    <3>3. \A i \in writes : judged[i] = "reverse"
      BY <2>5 DEF ClassifyReverse
    <3>4. \A i \in writes : Reversed(store[k][i], now[i], Backup(k, i).bytes) \in Contents
      BY <2>2, <3>1, <3>2, <3>3, ReversedType
    <3>5. goal \in Seq(Contents)
      <4>1. goal \in [Indices(k) -> Contents]
        BY <2>2, <3>4
      <4> QED
        BY <2>1, <4>1, IndexedBy
    <3>6. writes \subseteq Nat
      BY <2>1, Indexed
    <3>7. Decide(p, goal, NoRecord, writes, {})
      BY <1>7, <2>5 DEF ReadForUninstall
    <3>8. NoRecord \in Seq(RecordOps)
      BY EmptySeq DEF NoRecord
    <3> HIDE DEF goal, writes
    <3> QED
      BY <1>7, <2>1, <3>5, <3>6, <3>7, <3>8, DecideTyped DEF ReadForUninstall
  <2> QED
    BY <2>3, <2>4, <2>5
<1>8. ASSUME NEW p \in Procs, WriteJournal(p) PROVE TypeOK'
  <2>1. pc[p] \in Deciding
    BY <1>8 DEF WriteJournal, Deciding
  <2> DEFINE entry == [phase |-> "writing-files", command |-> run[p].command,
                       planned |-> Targets(p, run[p].toWrite),
                       recorded |-> IF run[p].command = "install" THEN {}
                                    ELSE Targets(p, Indices(run[p].key)),
                       saved |-> {}]
  <2>2. entry \in Entries
    BY <2>1, DecidingTyped DEF Entries, Phases, Runs
  <2>3. journals' = [journals EXCEPT ![run[p].txn] = entry]
    BY <1>8 DEF WriteJournal
  <2> HIDE DEF entry
  <2> QED
    BY <1>8, <2>2, <2>3 DEF WriteJournal, AfterSave
<1>9. ASSUME NEW p \in Procs, NEW i \in run[p].toSave, SaveTarget(p, i) PROVE TypeOK'
  <2> DEFINE left == [run[p] EXCEPT !.toSave = @ \ {i}]
             copy == [there |-> TRUE, bytes |-> run[p].current[i]]
  <2>1. pc[p] \in Deciding
    BY <1>9 DEF SaveTarget, Deciding
  <2>2. left \in Runs
    BY <2>1, DecidingTyped, RunType
  <2>3. i \in Indices(run[p].key) /\ i \in DOMAIN run[p].current
    BY <2>1 DEF Shaped
  <2>4. copy \in [there : BOOLEAN, bytes : Contents]
    <3>1. run[p].current \in Seq(Contents)
      BY DEF Runs
    <3> QED
      BY <2>3, <3>1, Element
  <2>5. run[p].txn \in Transactions /\ Target(p, i) \in Paths
    BY <2>1, <2>3, DecidingTyped
  <2>6. /\ run' = [run EXCEPT ![p] = left]
        /\ backups' = [backups EXCEPT ![run[p].txn][Target(p, i)] = copy]
    BY <1>9 DEF SaveTarget
  <2>7. backups' \in [Transactions -> [Paths -> [there : BOOLEAN, bytes : Contents]]]
    <3> HIDE DEF copy
    <3> QED
      BY <2>4, <2>5, <2>6
  <2>8. pc' \in [Procs -> Steps \cup {"idle"}]
    BY <1>9 DEF SaveTarget, AfterSave
  <2>9. run' \in [Procs -> Runs]
    <3> HIDE DEF left
    <3> QED
      BY <2>2, <2>6
  <2> QED
    BY <1>9, <2>7, <2>8, <2>9 DEF SaveTarget
<1>10. ASSUME NEW p \in Procs, NoteSave(p) PROVE TypeOK'
  <2>1. pc[p] \in Deciding
    BY <1>10 DEF NoteSave, Deciding
  <2>2. journals' \in [Transactions -> Entries]
    BY <1>10, <2>1, DecidingTyped, EntryTyped DEF NoteSave
  <2> QED
    BY <1>10, <2>2 DEF NoteSave, AfterSave
<1>11. ASSUME NEW p \in Procs, NEW i \in run[p].toWrite, WriteTarget(p, i) PROVE TypeOK'
  <2> DEFINE left == [run[p] EXCEPT !.toWrite = @ \ {i}]
  <2>1. pc[p] \in Deciding
    BY <1>11 DEF WriteTarget, Deciding
  <2>2. left \in Runs
    BY <2>1, DecidingTyped, RunType
  <2>3. i \in Indices(run[p].key) /\ i \in DOMAIN run[p].goal
    BY <2>1 DEF Shaped
  <2>4. run[p].goal[i] \in Contents
    <3>1. run[p].goal \in Seq(Contents)
      BY DEF Runs
    <3> QED
      BY <2>3, <3>1, Element
  <2>5. run[p].txn \in Transactions /\ Target(p, i) \in Paths
    BY <2>1, <2>3, DecidingTyped
  <2>6. run' = [run EXCEPT ![p] = left]
    BY <1>11 DEF WriteTarget
  <2>7. /\ files' \in [Paths -> Contents]
        /\ unsettled' \subseteq Transactions \X Paths
    BY <1>11, <2>4, <2>5 DEF WriteTarget
  <2>8. pc' \in [Procs -> Steps \cup {"idle"}]
    BY <1>11 DEF WriteTarget, AfterWrite
  <2>9. run' \in [Procs -> Runs]
    <3> HIDE DEF left
    <3> QED
      BY <2>2, <2>6
  <2> QED
    BY <1>11, <2>7, <2>8, <2>9 DEF WriteTarget
<1>12. ASSUME NEW p \in Procs, NoteWrite(p) PROVE TypeOK'
  <2>1. pc[p] \in Deciding
    BY <1>12 DEF NoteWrite, Deciding
  <2>2. journals[run[p].txn].planned \ Targets(p, run[p].toWrite) \in SUBSET Paths
    BY <2>1, DecidingTyped DEF Entries
  <2>3. journals' \in [Transactions -> Entries]
    BY <1>12, <2>1, <2>2, DecidingTyped, EntryTyped DEF NoteWrite
  <2> QED
    BY <1>12, <2>3 DEF NoteWrite, AfterWrite
<1>13. ASSUME NEW p \in Procs, SetPhase(p) \/ MarkDone(p) PROVE TypeOK'
  <2>1. pc[p] \in Deciding
    BY <1>13 DEF SetPhase, MarkDone, Deciding
  <2>2. journals' \in [Transactions -> Entries]
    BY <1>13, <2>1, DecidingTyped, EntryTyped DEF SetPhase, MarkDone, Phases
  <2> QED
    BY <1>13, <2>2 DEF SetPhase, MarkDone
<1>14. ASSUME NEW p \in Procs, Commit(p) PROVE TypeOK'
  <2>1. pc[p] \in Deciding
    BY <1>14 DEF Commit, Deciding
  <2> DEFINE result == IF run[p].command = "install" THEN "applied" ELSE "uninstalled"
             left == [run[p] EXCEPT !.outcome = result]
  <2>2. left \in Runs
    <3>1. result \in Outcomes
      BY DEF Outcomes
    <3> HIDE DEF result
    <3> QED
      BY <2>1, <3>1, DecidingTyped, RunType
  <2>3. run' = [run EXCEPT ![p] = left]
    BY <1>14 DEF Commit
  <2>4. store' \in [Keys -> Seq(RecordOps)]
    BY <1>14, <2>1, DecidingTyped DEF Commit, Runs
  <2> HIDE DEF left
  <2> QED
    BY <1>14, <2>2, <2>3, <2>4 DEF Commit
<1>15. ASSUME NEW p \in Procs, DeleteJournal(p) PROVE TypeOK'
  <2>1. NoEntry \in Entries
    BY DEF NoEntry, Entries, Phases, Commands
  <2> QED
    BY <1>15, <2>1 DEF DeleteJournal
<1>16. ASSUME NEW p \in Procs, DropBackups(p) PROVE TypeOK'
  <2>1. Unsaved \in [there : BOOLEAN, bytes : Contents]
    BY DEF Unsaved, Contents
  <2>2. backups' \in [Transactions -> [Paths -> [there : BOOLEAN, bytes : Contents]]]
    BY <1>16, <2>1 DEF DropBackups
  <2> QED
    BY <1>16, <2>2 DEF DropBackups
<1>17. ASSUME NEW p \in Procs, Release(p) \/ ReleaseFails(p) PROVE TypeOK'
  <2>1. CASE run' = [run EXCEPT ![p] = NoRun] /\ UNCHANGED begun
    <3>1. run' \in [Procs -> Runs]
      BY <2>1, NoRunType
    <3>2. pc' \in [Procs -> Steps \cup {"idle"}]
      BY <1>17 DEF Release, ReleaseFails, EndRun
    <3> QED
      BY <1>17, <2>1, <3>1, <3>2 DEF Release, ReleaseFails
  <2>2. CASE begun < MaxTransactions /\ begun' = begun + 1
    <3>1. begun' \in 0..MaxTransactions
      BY <2>2
    <3>2. PICK k \in Keys :
            run' = [run EXCEPT ![p] = [NoRun EXCEPT !.command = "uninstall", !.key = k,
                                                    !.migrate = TRUE, !.txn = begun + 1]]
      <4>1. EndRun(p) /\ begun' # begun
        BY <1>17, <2>2 DEF Release, ReleaseFails
      <4> QED
        BY <4>1 DEF EndRun
    <3> DEFINE new == [NoRun EXCEPT !.command = "uninstall", !.key = k,
                                    !.migrate = TRUE, !.txn = begun + 1]
    <3>3. new \in Runs
      BY <2>2, <3>1, NoRunType DEF Runs, Commands
    <3>4. run' \in [Procs -> Runs]
      <4> HIDE DEF new
      <4> QED
        BY <3>2, <3>3 DEF new
    <3>5. pc' \in [Procs -> Steps \cup {"idle"}]
      BY <1>17, <2>2 DEF Release, ReleaseFails, EndRun
    <3> QED
      BY <1>17, <3>1, <3>4, <3>5 DEF Release, ReleaseFails
  <2> QED
    BY <1>17, <2>1, <2>2 DEF Release, ReleaseFails, EndRun
<1>18. ASSUME NEW p \in Procs, Throw(p) \/ TearJournal(p) PROVE TypeOK'
  <2>1. Report(p, "threw")
    BY <1>18 DEF Throw, TearJournal
  <2>2. journals' \in [Transactions -> Entries]
    <3>1. [NoEntry EXCEPT !.phase = "torn"] \in Entries
      BY DEF NoEntry, Entries, Phases, Commands
    <3>2. CASE Throw(p)
      BY <3>2 DEF Throw
    <3>3. CASE TearJournal(p)
      BY <3>1, <3>3 DEF TearJournal
    <3> QED
      BY <1>18, <3>2, <3>3
  <2> QED
    BY <1>18, <2>1, <2>2, ReportTyped DEF Throw, TearJournal, Outcomes
<1>19. ASSUME RemoveStaleLock \/ \E x \in Transactions : RemoveDoneJournal(x) PROVE TypeOK'
  <2>1. NoEntry \in Entries
    BY DEF NoEntry, Entries, Phases, Commands
  <2>2. CASE RemoveStaleLock
    BY <2>2 DEF RemoveStaleLock
  <2>3. CASE \E x \in Transactions : RemoveDoneJournal(x)
    BY <2>1, <2>3 DEF RemoveDoneJournal
  <2> QED
    BY <1>19, <2>2, <2>3
<1>20. ASSUME NEW q \in Paths, NEW c \in EditFiles, UserEdits(q, c) PROVE TypeOK'
  <2>1. c \in Contents
    BY FilesAssumption
  <2>2. edits' \in 0..MaxEdits
    BY <1>20, MaxEditsAssumption DEF UserEdits
  <2> QED
    BY <1>20, <2>1, <2>2 DEF UserEdits
<1>21. ASSUME UNCHANGED vars PROVE TypeOK'
  BY <1>21 DEF vars
<1> QED
  BY <1>1, <1>2, <1>3, <1>4, <1>5, <1>6, <1>7, <1>8, <1>9, <1>10, <1>11, <1>12, <1>13,
     <1>14, <1>15, <1>16, <1>17, <1>18, <1>19, <1>20, <1>21 DEF Next, Proceed, Transact
-----------------------------------------------------------------------------
(* A step is one process's: it goes on with its transaction or ends it, or *)
(* it begins the next transaction.                                         *)
Others(p) == \A r \in Procs \ {p} : pc'[r] = pc[r] /\ run'[r] = run[r]

Continues(p) ==
    /\ Others(p)
    /\ begun' = begun
    /\ pc'[p] # "idle" => /\ Active(p)
                          /\ run'[p].txn = run[p].txn
                          /\ run'[p].key = run[p].key
                          /\ run'[p].command = run[p].command
                          /\ run'[p].plan = run[p].plan

Begins(p) ==
    /\ Others(p)
    /\ begun < MaxTransactions
    /\ begun' = begun + 1
    /\ pc'[p] = "lock"
    /\ run'[p].txn = begun + 1
    /\ run'[p].key \in Keys
    /\ run'[p].command \in {"install", "uninstall"}
    /\ run'[p].command = "install" => DOMAIN run'[p].plan = Indices(run'[p].key)

LEMMA Beginning ==
    ASSUME TypeOK, NEW p \in Procs,
           \/ \E k \in Keys, force \in BOOLEAN :
                (\E v \in Values : BeginInstall(p, k, force, v)) \/ BeginUninstall(p, k, force)
           \/ EndRun(p) /\ begun' # begun
    PROVE  Begins(p)
<1>1. ASSUME NEW k \in Keys, NEW force \in BOOLEAN, NEW v \in Values,
             BeginInstall(p, k, force, v)
      PROVE  Begins(p)
  <2> DEFINE ops == [i \in Indices(k) |->
                       [kind |-> PlannedKind(AdapterOf[k], files[TargetsOf[k][i]], force),
                        value |-> v]]
             migrate == AdapterOf[k] = "husky" /\ DirectHookThere
             new == [NoRun EXCEPT !.command = "install", !.key = k, !.force = force,
                                  !.migrate = migrate, !.txn = begun + 1, !.plan = ops]
  <2>1. run' = [run EXCEPT ![p] = new] /\ begun' = begun + 1 /\ begun < MaxTransactions
    BY <1>1 DEF BeginInstall
  <2>2. pc' = [pc EXCEPT ![p] = "lock"]
    BY <1>1 DEF BeginInstall, Goto
  <2>3. DOMAIN ops = Indices(k)
    OBVIOUS
  <2> HIDE DEF ops, migrate
  <2>4. /\ new.command = "install" /\ new.key = k /\ new.txn = begun + 1 /\ new.plan = ops
    BY DEF NoRun
  <2> HIDE DEF new
  <2> QED
    BY <2>1, <2>2, <2>3, <2>4 DEF Begins, Others, TypeOK
<1>2. ASSUME NEW k \in Keys, NEW force \in BOOLEAN, BeginUninstall(p, k, force)
      PROVE  Begins(p)
  BY <1>2 DEF BeginUninstall, Begins, Others, TypeOK, NoRun, Goto
<1>3. ASSUME EndRun(p), begun' # begun PROVE Begins(p)
  <2>1. begun \in Nat /\ run \in [Procs -> Runs] /\ pc \in [Procs -> Steps \cup {"idle"}]
    BY MaxTransactionsAssumption DEF TypeOK
  <2>2. begun < MaxTransactions /\ begun' = begun + 1 /\ pc' = [pc EXCEPT ![p] = "lock"]
    BY <1>3 DEF EndRun, Goto
  <2>3. PICK k \in Keys :
          run' = [run EXCEPT ![p] = [NoRun EXCEPT !.command = "uninstall", !.key = k,
                                                  !.migrate = TRUE, !.txn = begun + 1]]
    BY <1>3 DEF EndRun
  <2>4. Others(p) /\ pc'[p] = "lock"
    BY <2>1, <2>2, <2>3 DEF Others
  <2>5. run'[p].txn = begun + 1 /\ run'[p].key = k /\ run'[p].command = "uninstall"
    BY <2>1, <2>3 DEF NoRun
  <2> QED
    BY <2>2, <2>4, <2>5 DEF Begins
<1> QED
  BY <1>1, <1>2, <1>3

(* What a process does.                                                    *)
StepOf(p) ==
    \/ \E k \in Keys, force \in BOOLEAN :
         (\E v \in Values : BeginInstall(p, k, force, v)) \/ BeginUninstall(p, k, force)
    \/ Proceed(p) \/ ReleaseFails(p) \/ TearJournal(p) \/ Crash(p)

Outside == \/ RemoveStaleLock
           \/ \E x \in Transactions : RemoveDoneJournal(x)
           \/ \E q \in Paths, c \in EditFiles : UserEdits(q, c)

LEMMA NextSteps == Next <=> (\E p \in Procs : StepOf(p)) \/ Outside
BY DEF Next, StepOf, Outside

LEMMA Stepping ==
    ASSUME TypeOK, NEW p \in Procs, StepOf(p)
    PROVE  Continues(p) \/ Begins(p)
<1>1. ASSUME NEW k \in Keys, NEW force \in BOOLEAN,
             (\E v \in Values : BeginInstall(p, k, force, v)) \/ BeginUninstall(p, k, force)
      PROVE  Begins(p)
  BY <1>1, Beginning
<1>2. ASSUME Release(p) \/ ReleaseFails(p)
      PROVE  Continues(p) \/ Begins(p)
  <2>1. EndRun(p)
    BY <1>2 DEF Release, ReleaseFails
  <2>2. CASE begun' # begun
    BY <2>1, <2>2, Beginning
  <2>3. CASE begun' = begun
    <3>1. pc' = [pc EXCEPT ![p] = "idle"] /\ run' = [run EXCEPT ![p] = NoRun]
      <4>1. begun \in Nat
        BY MaxTransactionsAssumption DEF TypeOK
      <4>2. begun' # begun + 1
        BY <2>3, <4>1
      <4> QED
        BY <2>1, <4>2 DEF EndRun, Goto
    <3> QED
      BY <2>3, <3>1 DEF Continues, Others, TypeOK
  <2> QED
    BY <2>2, <2>3
<1>3. ASSUME AcquireLock(p) \/ LockHeld(p) \/ Scan(p) \/ Crash(p)
                              \/ Throw(p) \/ TearJournal(p)
      PROVE  Continues(p)
  BY <1>3 DEF AcquireLock, LockHeld, Scan, Crash, Throw, Throwing, TearJournal, Report, Goto,
     Continues, Others, Active, TypeOK, Runs
<1>4. ASSUME ReadForInstall(p) \/ ReadForUninstall(p)
      PROVE  Continues(p)
  <2>1. pc[p] = "read" /\ begun' = begun
    BY <1>4 DEF ReadForInstall, ReadForUninstall
  <2>2. \/ \E result : Report(p, result)
        \/ \E goal, final, writes, saves : Decide(p, goal, final, writes, saves)
    BY <1>4 DEF ReadForInstall, ReadForUninstall
  <2>3. run[p] \in Runs
    BY DEF TypeOK
  <2>4. CASE \E result : Report(p, result)
    BY <2>1, <2>3, <2>4 DEF Report, Goto, Continues, Others, Active, TypeOK, Runs
  <2>5. CASE \E goal, final, writes, saves : Decide(p, goal, final, writes, saves)
    <3>1. PICK goal, final, writes, saves : Decide(p, goal, final, writes, saves)
      BY <2>5
    <3>2. /\ run'[p].txn = run[p].txn /\ run'[p].key = run[p].key
          /\ run'[p].command = run[p].command /\ run'[p].plan = run[p].plan
          /\ \A r \in Procs \ {p} : run'[r] = run[r]
      BY <2>3, <3>1 DEF Decide, TypeOK, Runs
    <3>3. \A r \in Procs \ {p} : pc'[r] = pc[r]
      BY <3>1 DEF Decide, Goto, TypeOK
    <3> QED
      BY <2>1, <3>2, <3>3 DEF Continues, Others, Active
  <2> QED
    BY <2>2, <2>4, <2>5
<1>5. ASSUME Transact(p) PROVE Continues(p)
  <2>1. CASE WriteJournal(p) \/ NoteSave(p) \/ NoteWrite(p) \/ SetPhase(p) \/ MarkDone(p)
             \/ DeleteJournal(p) \/ DropBackups(p)
    <3>1. run' = run /\ begun' = begun /\ Active(p) /\ \E s : Goto(p, s)
      BY <2>1 DEF WriteJournal, NoteSave, NoteWrite, SetPhase, MarkDone, DeleteJournal,
         DropBackups, Active
    <3> QED
      BY <3>1 DEF Goto, Continues, Others, TypeOK
  <2>2. CASE \/ \E i \in run[p].toSave : SaveTarget(p, i)
             \/ \E i \in run[p].toWrite : WriteTarget(p, i)
             \/ Commit(p)
    <3>1. begun' = begun /\ Active(p) /\ \E s : Goto(p, s)
      BY <2>2 DEF SaveTarget, WriteTarget, Commit, Active
    <3>2. \A r \in Procs \ {p} : pc'[r] = pc[r]
      BY <3>1 DEF Goto, TypeOK
    <3>3. run[p] \in Runs
      BY DEF TypeOK
    <3>4. /\ run'[p].txn = run[p].txn /\ run'[p].key = run[p].key
          /\ run'[p].command = run[p].command /\ run'[p].plan = run[p].plan
          /\ \A r \in Procs \ {p} : run'[r] = run[r]
      <4>1. CASE \E i \in run[p].toSave : SaveTarget(p, i)
        BY <3>3, <4>1 DEF SaveTarget, TypeOK, Runs
      <4>2. CASE \E i \in run[p].toWrite : WriteTarget(p, i)
        BY <3>3, <4>2 DEF WriteTarget, TypeOK, Runs
      <4>3. CASE Commit(p)
        BY <3>3, <4>3 DEF Commit, TypeOK, Runs
      <4> QED
        BY <2>2, <4>1, <4>2, <4>3
    <3> QED
      BY <3>1, <3>2, <3>4 DEF Continues, Others
  <2> QED
    BY <1>5, <2>1, <2>2 DEF Transact
<1> QED
  BY <1>1, <1>2, <1>3, <1>4, <1>5 DEF StepOf, Proceed

LEMMA OutsideKeeps == Outside => UNCHANGED <<pc, run, begun, store, backups, unsettled>>
BY DEF Outside, RemoveStaleLock, RemoveDoneJournal, UserEdits, internal, ghosts

LEMMA NumberedKeeps == ASSUME Typed, [Next]_vars PROVE Numbered'
<1> USE DEF Typed
<1>1. CASE UNCHANGED <<pc, run, begun>>
  BY <1>1 DEF Numbered, Active
<1>2. ASSUME NEW p \in Procs, Continues(p) PROVE Numbered'
  BY <1>2 DEF Numbered, Active, Continues, Others
<1>3. ASSUME NEW p \in Procs, Begins(p) PROVE Numbered'
  <2>1. begun \in Nat
    BY MaxTransactionsAssumption DEF TypeOK
  <2>2. \A r \in Procs \ {p} : Active(r)' => Active(r) /\ run'[r].txn \in 1..begun
    BY <1>3 DEF Numbered, Active, Begins, Others
  <2>3. ASSUME NEW r \in Procs, Active(r)'
        PROVE  /\ run'[r].txn \in 1..begun'
               /\ run'[r].key \in Keys
               /\ run'[r].command \in {"install", "uninstall"}
    BY <1>3, <2>1, <2>2, <2>3 DEF Numbered, Begins, Others
  <2>4. ASSUME NEW q \in Procs, NEW r \in Procs, Active(q)', Active(r)',
               run'[q].txn = run'[r].txn
        PROVE  q = r
    <3>1. CASE q # p /\ r # p
      BY <1>3, <2>2, <2>4, <3>1 DEF Numbered, Begins, Others
    <3>2. CASE (q = p /\ r # p) \/ (q # p /\ r = p)
      BY <1>3, <2>1, <2>2, <2>4, <3>2 DEF Begins
    <3> QED
      BY <3>1, <3>2
  <2> QED
    BY <2>3, <2>4 DEF Numbered
<1> QED
  BY <1>1, <1>2, <1>3, Stepping, NextSteps, OutsideKeeps DEF vars

(* A process that decides what to do or does it has just read the files,   *)
(* or goes on with less of the same to do.                                 *)
GoesOn(p) ==
    /\ pc[p] \in Deciding
    /\ run'[p].key = run[p].key
    /\ run'[p].toWrite \subseteq run[p].toWrite
    /\ run'[p].toSave \subseteq run[p].toSave
    /\ run'[p].current = run[p].current
    /\ run'[p].goal = run[p].goal
    /\ run'[p].final = run[p].final
    /\ run'[p].seen = run[p].seen
    /\ run'[p].mutates = run[p].mutates

HasDecided(p) ==
    /\ pc[p] = "read"
    /\ run'[p].key = run[p].key
    /\ run'[p].key \in Keys
    /\ run'[p].toWrite \subseteq Indices(run[p].key)
    /\ run'[p].toSave \subseteq Indices(run[p].key)
    /\ DOMAIN run'[p].current = Indices(run[p].key)
    /\ DOMAIN run'[p].goal = Indices(run[p].key)
    /\ run'[p].final # NoRecord => DOMAIN run'[p].final = Indices(run[p].key)
    /\ run'[p].seen = store
    /\ run'[p].mutates <=> pc'[p] = "journal"
    /\ pc'[p] \in {"journal", "save", "commit"}

LEMMA Decided ==
    ASSUME Typed, NEW p \in Procs, ReadForInstall(p) \/ ReadForUninstall(p),
           pc'[p] \in Deciding
    PROVE  HasDecided(p)
<1> USE DEF Typed
<1>1. pc[p] = "read" /\ run[p].key \in Keys /\ run[p] \in Runs
  BY DEF ReadForInstall, ReadForUninstall, Numbered, Active, TypeOK
<1>2. ~\E result : Report(p, result)
  BY DEF Report, Goto, TypeOK, Deciding
<1>3. \E goal, final, writes, saves :
        /\ Decide(p, goal, final, writes, saves)
        /\ DOMAIN goal = Indices(run[p].key)
        /\ final = NoRecord \/ DOMAIN final = Indices(run[p].key)
        /\ writes \subseteq Indices(run[p].key)
        /\ saves \subseteq Indices(run[p].key)
  <2>1. CASE ReadForInstall(p)
    <3> DEFINE k == run[p].key
               plan == run[p].plan
               now == Current(k)
               judged == [i \in Indices(k) |->
                            IF store[k] = NoRecord
                            THEN ClassifyFresh(plan[i], now[i])
                            ELSE ClassifyRecorded(plan[i], store[k][i], now[i], run[p].force)]
               goal == [i \in Indices(k) |-> Leaves(plan[i], now[i], judged[i])]
               final == [i \in Indices(k) |->
                           IF judged[i] = "noop" THEN store[k][i]
                           ELSE RecordOf(plan[i], now[i], run[p].txn)]
               writes == {i \in Indices(k) : judged[i] \in Mutations}
               saves == {i \in Indices(k) : NeedsBackup(plan[i], judged[i])}
    <3>1. Decide(p, goal, final, writes, saves)
      BY <1>2, <2>1 DEF ReadForInstall
    <3>2. DOMAIN goal = Indices(k) /\ DOMAIN final = Indices(k)
      OBVIOUS
    <3>3. writes \subseteq Indices(k) /\ saves \subseteq Indices(k)
      OBVIOUS
    <3> HIDE DEF goal, final, writes, saves
    <3> QED
      BY <3>1, <3>2, <3>3
  <2>2. CASE ReadForUninstall(p)
    <3> DEFINE k == run[p].key
               now == Current(k)
               judged == [i \in Indices(k) |->
                            ClassifyReverse(store[k][i], now[i], Backup(k, i).there,
                                            run[p].force)]
               writes == {i \in Indices(k) : judged[i] # "skip"}
               goal == [i \in Indices(k) |->
                          IF i \in writes
                          THEN Reversed(store[k][i], now[i], Backup(k, i).bytes)
                          ELSE now[i]]
    <3>1. Decide(p, goal, NoRecord, writes, {})
      BY <1>2, <2>2 DEF ReadForUninstall
    <3>2. DOMAIN goal = Indices(k) /\ writes \subseteq Indices(k)
      OBVIOUS
    <3> HIDE DEF goal, writes
    <3> QED
      BY <3>1, <3>2
  <2> QED
    BY <2>1, <2>2
<1>4. PICK goal, final, writes, saves :
        /\ Decide(p, goal, final, writes, saves)
        /\ DOMAIN goal = Indices(run[p].key)
        /\ final = NoRecord \/ DOMAIN final = Indices(run[p].key)
        /\ writes \subseteq Indices(run[p].key)
        /\ saves \subseteq Indices(run[p].key)
  BY <1>3
<1>5. /\ run'[p].key = run[p].key /\ run'[p].toWrite = writes /\ run'[p].toSave = saves
      /\ run'[p].current = Current(run[p].key) /\ run'[p].goal = goal
      /\ run'[p].final = final /\ run'[p].seen = store /\ run'[p].mutates = (writes # {})
  BY <1>1, <1>4 DEF Decide, TypeOK, Runs
<1>6. pc'[p] = IF writes # {} THEN "journal" ELSE IF saves # {} THEN "save" ELSE "commit"
  BY <1>4 DEF Decide, Goto, TypeOK
<1>7. DOMAIN Current(run[p].key) = Indices(run[p].key)
  BY DEF Current
<1> QED
  BY <1>1, <1>4, <1>5, <1>6, <1>7 DEF HasDecided

LEMMA DecidingStep ==
    ASSUME Typed, Next, NEW r \in Procs, pc'[r] \in Deciding
    PROVE  \/ GoesOn(r)
           \/ HasDecided(r) /\ (ReadForInstall(r) \/ ReadForUninstall(r))
<1> USE DEF Typed, Deciding
<1>1. CASE pc'[r] = pc[r] /\ run'[r] = run[r]
  BY <1>1 DEF GoesOn
<1>2. ASSUME NEW p \in Procs, p # r, Continues(p) \/ Begins(p)
      PROVE  pc'[r] = pc[r] /\ run'[r] = run[r]
  BY <1>2 DEF Continues, Begins, Others
<1>3. CASE \/ \E k \in Keys, force \in BOOLEAN :
                (\E v \in Values : BeginInstall(r, k, force, v)) \/ BeginUninstall(r, k, force)
           \/ AcquireLock(r) \/ LockHeld(r) \/ Scan(r) \/ Throw(r) \/ Release(r)
           \/ ReleaseFails(r) \/ TearJournal(r) \/ Crash(r)
  <2>1. ASSUME NEW k \in Keys, NEW force \in BOOLEAN,
               (\E v \in Values : BeginInstall(r, k, force, v)) \/ BeginUninstall(r, k, force)
        PROVE  FALSE
    BY <2>1 DEF BeginInstall, BeginUninstall, Goto, TypeOK
  <2>2. CASE AcquireLock(r) \/ LockHeld(r) \/ Crash(r)
    BY <2>2 DEF AcquireLock, LockHeld, Crash, Goto, TypeOK
  <2>3. CASE Scan(r) \/ Throw(r) \/ TearJournal(r)
    BY <2>3 DEF Scan, Throw, TearJournal, Report, Goto, TypeOK
  <2>4. CASE Release(r) \/ ReleaseFails(r)
    BY <2>4 DEF Release, ReleaseFails, EndRun, Goto, TypeOK
  <2> QED
    BY <1>3, <2>1, <2>2, <2>3, <2>4
<1>4. CASE ReadForInstall(r) \/ ReadForUninstall(r)
  BY <1>4, Decided
<1>5. CASE Transact(r)
  <2>1. run[r] \in Runs
    BY DEF TypeOK
  <2>2. CASE WriteJournal(r) \/ NoteSave(r) \/ NoteWrite(r) \/ SetPhase(r) \/ MarkDone(r)
             \/ DeleteJournal(r) \/ DropBackups(r)
    BY <2>2 DEF WriteJournal, NoteSave, NoteWrite, SetPhase, MarkDone, DeleteJournal,
       DropBackups, GoesOn
  <2>3. CASE \E i \in run[r].toSave : SaveTarget(r, i)
    BY <2>1, <2>3 DEF SaveTarget, TypeOK, Runs, GoesOn
  <2>4. CASE \E i \in run[r].toWrite : WriteTarget(r, i)
    BY <2>1, <2>4 DEF WriteTarget, TypeOK, Runs, GoesOn
  <2>5. CASE Commit(r)
    BY <2>1, <2>5 DEF Commit, TypeOK, Runs, GoesOn
  <2> QED
    BY <1>5, <2>2, <2>3, <2>4, <2>5 DEF Transact
<1>6. CASE StepOf(r)
  BY <1>3, <1>4, <1>5, <1>6 DEF StepOf, Proceed
<1>7. ASSUME NEW p \in Procs, p # r, StepOf(p) PROVE pc'[r] = pc[r] /\ run'[r] = run[r]
  BY <1>2, <1>7, Stepping
<1> QED
  BY <1>1, <1>6, <1>7, NextSteps, OutsideKeeps

(* Who changes the lock, the journal and integrations.json.                *)
LEMMA QuietStep ==
    ASSUME NEW p \in Procs,
           \/ \E k \in Keys, force \in BOOLEAN :
                (\E v \in Values : BeginInstall(p, k, force, v)) \/ BeginUninstall(p, k, force)
           \/ LockHeld(p) \/ Scan(p) \/ ReadForInstall(p) \/ ReadForUninstall(p)
           \/ (\E i \in run[p].toSave : SaveTarget(p, i))
           \/ (\E i \in run[p].toWrite : WriteTarget(p, i))
           \/ DropBackups(p) \/ Throw(p) \/ ReleaseFails(p) \/ Crash(p)
    PROVE  UNCHANGED <<lock, journals, store>>
<1> USE DEF internal
<1>1. ASSUME NEW k \in Keys, NEW force \in BOOLEAN,
             (\E v \in Values : BeginInstall(p, k, force, v)) \/ BeginUninstall(p, k, force)
      PROVE  UNCHANGED <<lock, journals, store>>
  BY <1>1 DEF BeginInstall, BeginUninstall
<1>2. CASE LockHeld(p) \/ Scan(p) \/ Throw(p) \/ ReleaseFails(p) \/ Crash(p)
  BY <1>2 DEF LockHeld, Scan, Throw, ReleaseFails, Crash
<1>3. CASE ReadForInstall(p) \/ ReadForUninstall(p)
  BY <1>3 DEF ReadForInstall, ReadForUninstall
<1>4. ASSUME NEW i, SaveTarget(p, i) \/ WriteTarget(p, i)
      PROVE  UNCHANGED <<lock, journals, store>>
  BY <1>4 DEF SaveTarget, WriteTarget
<1>5. CASE DropBackups(p)
  BY <1>5 DEF DropBackups
<1> QED
  BY <1>1, <1>2, <1>3, <1>4, <1>5

JournalWrite(p) == WriteJournal(p) \/ NoteSave(p) \/ NoteWrite(p) \/ SetPhase(p)
                   \/ MarkDone(p) \/ DeleteJournal(p)

LEMMA Writers ==
    ASSUME NEW p \in Procs, StepOf(p)
    PROVE  \/ UNCHANGED <<lock, journals, store>>
           \/ (AcquireLock(p) \/ Release(p)) /\ UNCHANGED <<journals, store>>
           \/ (JournalWrite(p) \/ TearJournal(p)) /\ UNCHANGED <<lock, store>>
           \/ Commit(p) /\ UNCHANGED <<lock, journals>>
<1>1. AcquireLock(p) \/ Release(p) => UNCHANGED <<journals, store>>
  BY DEF AcquireLock, Release
<1>2. JournalWrite(p) \/ TearJournal(p) => UNCHANGED <<lock, store>>
  BY DEF JournalWrite, WriteJournal, NoteSave, NoteWrite, SetPhase, MarkDone,
     DeleteJournal, TearJournal
<1>3. Commit(p) => UNCHANGED <<lock, journals>>
  BY DEF Commit
<1> QED
  BY <1>1, <1>2, <1>3, QuietStep DEF StepOf, Proceed, Transact, JournalWrite

LEMMA OutsideWriters ==
    ASSUME Outside
    PROVE  /\ store' = store
           /\ lock' = lock \/ RemoveStaleLock
           /\ journals' = journals \/ \E x \in Transactions : RemoveDoneJournal(x)
BY DEF Outside, RemoveStaleLock, RemoveDoneJournal, UserEdits, internal

LEMMA ShapedKeeps == ASSUME Typed, Exclusive, [Next]_vars PROVE Shaped'
<1> USE DEF Typed
<1>1. CASE UNCHANGED vars
  BY <1>1 DEF vars, internal, Shaped, Active, Deciding
<1>2. CASE Next
  <2>1. ASSUME NEW k \in Keys, store'[k] # NoRecord
        PROVE  DOMAIN store'[k] = Indices(k)
    <3>1. CASE store' = store
      BY <2>1, <3>1 DEF Shaped
    <3>2. ASSUME NEW p \in Procs, Commit(p) PROVE DOMAIN store'[k] = Indices(k)
      <4>1. pc[p] \in Deciding /\ pc[p] \in BeforeCommit
        BY <3>2 DEF Commit, Deciding, BeforeCommit
      <4>2. run[p].seen = store /\ run[p].key \in Keys
        BY <4>1, DecidingTyped DEF Exclusive
      <4>3. store' = [store EXCEPT ![run[p].key] = run[p].final]
        BY <3>2, <4>2 DEF Commit
      <4> QED
        BY <2>1, <4>1, <4>2, <4>3 DEF Shaped, TypeOK
    <3> QED
      BY <1>2, <3>1, <3>2, NextSteps, Writers, OutsideWriters
  <2>2. ASSUME NEW r \in Procs, Active(r)', run'[r].command = "install"
        PROVE  DOMAIN run'[r].plan = Indices(run'[r].key)
    <3>1. CASE UNCHANGED <<pc, run, begun>>
      BY <2>2, <3>1 DEF Shaped, Active
    <3>2. ASSUME NEW p \in Procs, Continues(p) \/ Begins(p)
          PROVE  DOMAIN run'[r].plan = Indices(run'[r].key)
      BY <2>2, <3>2 DEF Shaped, Active, Continues, Begins, Others
    <3> QED
      BY <1>2, <3>1, <3>2, Stepping, NextSteps, OutsideKeeps
  <2>3. ASSUME NEW r \in Procs, pc'[r] \in Deciding
        PROVE  /\ run'[r].toWrite \subseteq Indices(run'[r].key)
               /\ run'[r].toSave \subseteq Indices(run'[r].key)
               /\ DOMAIN run'[r].current = Indices(run'[r].key)
               /\ DOMAIN run'[r].goal = Indices(run'[r].key)
               /\ run'[r].final # NoRecord => DOMAIN run'[r].final = Indices(run'[r].key)
    BY <1>2, <2>3, DecidingStep DEF GoesOn, HasDecided, Shaped
  <2> QED
    BY <2>1, <2>2, <2>3 DEF Shaped, Deciding
<1> QED
  BY <1>1, <1>2

-----------------------------------------------------------------------------
LEMMA Alone ==
    ASSUME Typed, Exclusive, NEW p \in Procs, NEW r \in Procs, Inside(p), Inside(r)
    PROVE  p = r
<1>1. run[p].txn = run[r].txn
  BY DEF Exclusive
<1>2. Active(p) /\ Active(r)
  BY DEF Inside, Active
<1>3. \A q, s \in Procs : Active(q) /\ Active(s) /\ run[q].txn = run[s].txn => q = s
  BY DEF Typed, Numbered
<1> QED
  BY <1>1, <1>2, <1>3

(* The order of a transaction's steps.                                     *)
LEMMA Flow ==
    ASSUME TypeOK, NEW p \in Procs, StepOf(p)
    PROVE  /\ Inside(p)' => Inside(p) \/ AcquireLock(p)
           /\ pc'[p] = "read" => Scan(p) /\ \A x \in Transactions : journals[x].phase = "none"
           /\ pc'[p] = "journal" => ReadForInstall(p) \/ ReadForUninstall(p)
           /\ pc'[p] \in BeforeCommit => \/ pc[p] \in BeforeCommit /\ ~Commit(p)
                                         \/ ReadForInstall(p) \/ ReadForUninstall(p)
           /\ pc'[p] \in {"done", "delete", "drop"} =>
                Commit(p) \/ pc[p] \in {"done", "delete", "drop"}
<1> USE DEF TypeOK, Goto, Inside, BeforeCommit, Deciding
<1>1. ASSUME NEW k \in Keys, NEW force \in BOOLEAN,
             (\E v \in Values : BeginInstall(p, k, force, v)) \/ BeginUninstall(p, k, force)
      PROVE  pc'[p] = "lock"
  BY <1>1 DEF BeginInstall, BeginUninstall
<1>2. AcquireLock(p) => pc'[p] = "scan"
  BY DEF AcquireLock
<1>3. LockHeld(p) \/ Crash(p) => pc'[p] = "idle"
  BY DEF LockHeld, Crash
<1>4. Scan(p) => \/ pc[p] = "scan" /\ pc'[p] = "release"
                 \/ /\ pc[p] = "scan" /\ pc'[p] = "read"
                    /\ \A x \in Transactions : journals[x].phase = "none"
  BY DEF Scan, Report
<1>5. Throw(p) \/ TearJournal(p) => pc[p] \notin {"idle", "lock"} /\ pc'[p] = "release"
  BY DEF Throw, Throwing, TearJournal, Report
<1>6. Release(p) \/ ReleaseFails(p) => pc'[p] \in {"idle", "lock"}
  BY DEF Release, ReleaseFails, EndRun
<1>7. ReadForInstall(p) \/ ReadForUninstall(p) =>
        pc[p] = "read" /\ pc'[p] \in {"release", "journal", "save", "commit"}
  <2>1. ReadForInstall(p) \/ ReadForUninstall(p) =>
          /\ pc[p] = "read"
          /\ \/ \E result : Report(p, result)
             \/ \E goal, final, writes, saves : Decide(p, goal, final, writes, saves)
    BY DEF ReadForInstall, ReadForUninstall
  <2>2. (\E result : Report(p, result)) => pc'[p] = "release"
    BY DEF Report
  <2>3. ASSUME NEW goal, NEW final, NEW writes, NEW saves,
               Decide(p, goal, final, writes, saves)
        PROVE  pc'[p] \in {"journal", "save", "commit"}
    BY <2>3 DEF Decide
  <2> QED
    BY <2>1, <2>2, <2>3
<1>8. WriteJournal(p) => pc[p] = "journal" /\ pc'[p] \in {"save", "write", "commit"}
  BY DEF WriteJournal, AfterSave
<1>9. ASSUME NEW i, SaveTarget(p, i)
      PROVE  pc[p] = "save" /\ pc'[p] \in {"note_save", "save", "write", "commit"}
  BY <1>9 DEF SaveTarget, AfterSave
<1>10. NoteSave(p) => pc[p] = "note_save" /\ pc'[p] \in {"save", "write", "commit"}
  BY DEF NoteSave, AfterSave
<1>11. ASSUME NEW i, WriteTarget(p, i)
       PROVE  pc[p] = "write" /\ pc'[p] \in {"note_write", "write", "phase"}
  BY <1>11 DEF WriteTarget, AfterWrite
<1>12. NoteWrite(p) => pc[p] = "note_write" /\ pc'[p] \in {"write", "phase"}
  BY DEF NoteWrite, AfterWrite
<1>13. SetPhase(p) => pc[p] = "phase" /\ pc'[p] = "commit"
  BY DEF SetPhase
<1>14. Commit(p) => pc[p] = "commit" /\ pc'[p] \in {"done", "release"}
  BY DEF Commit
<1>15. MarkDone(p) => pc[p] = "done" /\ pc'[p] = "delete"
  BY DEF MarkDone
<1>16. DeleteJournal(p) => pc[p] = "delete" /\ pc'[p] \in {"release", "drop"}
  BY DEF DeleteJournal
<1>17. DropBackups(p) => pc[p] = "drop" /\ pc'[p] = "release"
  BY DEF DropBackups
<1>18. CASE Transact(p)
  <2>1. CASE WriteJournal(p) \/ NoteSave(p) \/ NoteWrite(p) \/ SetPhase(p)
             \/ (\E i \in run[p].toSave : SaveTarget(p, i))
             \/ (\E i \in run[p].toWrite : WriteTarget(p, i))
    <3>1. /\ pc[p] \in {"journal", "save", "note_save", "write", "note_write", "phase"}
          /\ pc'[p] \in {"save", "note_save", "write", "note_write", "phase", "commit"}
      BY <2>1, <1>8, <1>9, <1>10, <1>11, <1>12, <1>13
    <3>2. ~Commit(p)
      BY <3>1, <1>14
    <3> QED
      BY <3>1, <3>2
  <2>2. CASE MarkDone(p) \/ DeleteJournal(p) \/ DropBackups(p)
    BY <2>2, <1>15, <1>16, <1>17
  <2>3. CASE Commit(p)
    BY <2>3, <1>14
  <2> QED
    BY <1>18, <2>1, <2>2, <2>3 DEF Transact
<1> QED
  BY <1>1, <1>2, <1>3, <1>4, <1>5, <1>6, <1>7, <1>18 DEF StepOf, Proceed

(* Only its own entry is changed by a transaction.                         *)
LEMMA OwnEntry ==
    ASSUME Typed, NEW p \in Procs, JournalWrite(p) \/ TearJournal(p)
    PROVE  /\ pc[p] \in Deciding
           /\ Inside(p)
           /\ run[p].txn \in 1..begun
           /\ \A x \in Transactions : x # run[p].txn => journals'[x] = journals[x]
<1>1. pc[p] \in Deciding /\ Inside(p) /\ Active(p)
  BY DEF JournalWrite, WriteJournal, NoteSave, NoteWrite, SetPhase, MarkDone,
     DeleteJournal, TearJournal, Deciding, Inside, Active
<1>2. journals' = journals \/ \E e : journals' = [journals EXCEPT ![run[p].txn] = e]
  BY DEF JournalWrite, WriteJournal, NoteSave, NoteWrite, SetPhase, MarkDone,
     DeleteJournal, TearJournal, UpdateEntry
<1> QED
  BY <1>1, <1>2 DEF Typed, TypeOK, Numbered

LEMMA ExclusiveOutside == ASSUME Typed, Exclusive, Outside PROVE Exclusive'
<1>1. UNCHANGED <<pc, run, begun, store>>
  BY OutsideKeeps
<1>2. lock' = lock \/ RemoveStaleLock
  BY OutsideWriters
<1>3. \A x \in Transactions : journals'[x] = journals[x] \/ journals'[x].phase = "none"
  BY OutsideWriters DEF RemoveDoneJournal, NoEntry, Typed, TypeOK
<1>4. \A p \in Procs : Inside(p)' => lock' = run'[p].txn
  BY <1>1, <1>2 DEF RemoveStaleLock, Owns, Inside, Exclusive
<1> QED
  BY <1>1, <1>3, <1>4 DEF Exclusive

LEMMA ExclusiveStep ==
    ASSUME Typed, Exclusive, NEW p \in Procs, StepOf(p)
    PROVE  Exclusive'
<1> USE DEF Typed
<1>1. Continues(p) \/ Begins(p)
  BY Stepping
<1>2. \A r \in Procs \ {p} : pc'[r] = pc[r] /\ run'[r] = run[r]
  BY <1>1 DEF Continues, Begins, Others
<1>3. \A r \in Procs \ {p} : Inside(r) => ~Inside(p)
  BY Alone
<1>4. begun' \in Nat /\ begun \in Nat /\ begun <= begun'
  BY <1>1, MaxTransactionsAssumption DEF Continues, Begins, TypeOK
<1>5. \/ journals' = journals
      \/ JournalWrite(p) \/ TearJournal(p)
  BY Writers
<1>6. ASSUME NEW r \in Procs, Inside(r)' PROVE lock' = run'[r].txn
  <2>1. CASE r # p
    <3>1. Inside(r) /\ ~Inside(p) /\ lock = run'[r].txn /\ run[r].txn # 0
      BY <1>2, <1>3, <1>6, <2>1 DEF Inside, Exclusive, Numbered, Active
    <3>2. lock' = lock
      BY <1>2, <2>1, <3>1, Writers DEF AcquireLock, Release, Inside
    <3> QED
      BY <3>1, <3>2
  <2>2. CASE r = p
    <3>1. run'[p].txn = run[p].txn
      BY <1>1, <1>6, <2>2 DEF Continues, Begins, Inside
    <3>2. CASE AcquireLock(p)
      BY <2>2, <3>1, <3>2 DEF AcquireLock
    <3>3. CASE Inside(p) /\ ~AcquireLock(p)
      <4>1. ~Release(p)
        BY <1>6, <2>2 DEF Release, EndRun, Goto, Inside, TypeOK
      <4> QED
        BY <2>2, <3>1, <3>3, <4>1, Writers DEF Exclusive
    <3> QED
      BY <1>6, <2>2, <3>2, <3>3, Flow
  <2> QED
    BY <2>1, <2>2
<1>7. ASSUME NEW x \in Transactions, journals'[x].phase # "none" PROVE x \in 1..begun'
  <2>1. x \in 1..begun
    BY <1>5, <1>7, OwnEntry DEF Exclusive
  <2> QED
    BY <1>4, <2>1
<1>8. ASSUME NEW r \in Procs, pc'[r] \in {"read", "journal"}, NEW x \in Transactions
      PROVE  journals'[x].phase = "none"
  <2>1. CASE r # p
    <3>1. Inside(r) /\ ~Inside(p) /\ journals[x].phase = "none"
      BY <1>2, <1>3, <1>8, <2>1 DEF Inside, Exclusive
    <3> QED
      BY <1>5, <3>1, OwnEntry
  <2>2. CASE r = p
    <3>1. Scan(p) \/ ReadForInstall(p) \/ ReadForUninstall(p)
      BY <1>8, <2>2, Flow
    <3>2. journals' = journals
      BY <3>1, QuietStep
    <3>3. journals[x].phase = "none"
      <4>1. CASE pc'[p] = "read"
        BY <4>1, Flow
      <4>2. CASE pc'[p] = "journal"
        BY <4>2, Flow DEF ReadForInstall, ReadForUninstall, Exclusive
      <4> QED
        BY <1>8, <2>2, <4>1, <4>2
    <3> QED
      BY <3>2, <3>3
  <2> QED
    BY <2>1, <2>2
<1>9. ASSUME NEW r \in Procs, pc'[r] \in Deciding, NEW x \in Transactions,
             journals'[x].phase # "none"
      PROVE  x = run'[r].txn
  <2>1. CASE r # p
    <3>1. Inside(r) /\ ~Inside(p) /\ pc[r] \in Deciding /\ run'[r] = run[r]
      BY <1>2, <1>3, <1>9, <2>1 DEF Inside, Deciding
    <3> QED
      BY <1>5, <1>9, <3>1, OwnEntry DEF Exclusive
  <2>2. CASE r = p
    <3>1. run'[p].txn = run[p].txn
      BY <1>1, <1>9, <2>2 DEF Continues, Begins, Deciding
    <3>2. CASE GoesOn(p)
      BY <1>5, <1>9, <2>2, <3>1, <3>2, OwnEntry DEF Exclusive, GoesOn
    <3>3. CASE HasDecided(p) /\ (ReadForInstall(p) \/ ReadForUninstall(p))
      BY <1>9, <3>3, QuietStep DEF Exclusive, HasDecided
    <3> QED
      BY <1>9, <2>2, <3>2, <3>3, DecidingStep, NextSteps
  <2> QED
    BY <2>1, <2>2
<1>10. ASSUME NEW r \in Procs, pc'[r] \in BeforeCommit PROVE run'[r].seen = store'
  <2>1. CASE r # p
    <3>1. Inside(r) /\ ~Inside(p) /\ run'[r] = run[r] /\ run[r].seen = store
      BY <1>2, <1>3, <1>10, <2>1 DEF Inside, Exclusive, BeforeCommit, Deciding
    <3>2. ~Commit(p)
      BY <3>1 DEF Commit, Inside
    <3>3. store' = store
      BY <3>2, Writers
    <3> QED
      BY <3>1, <3>3
  <2>2. CASE r = p
    <3>1. CASE pc[p] \in BeforeCommit /\ ~Commit(p)
      <4>1. store' = store
        BY <3>1, Writers
      <4>2. GoesOn(p)
        BY <1>10, <2>2, <3>1, DecidingStep, NextSteps DEF HasDecided, BeforeCommit, Deciding
      <4> QED
        BY <2>2, <3>1, <4>1, <4>2 DEF GoesOn, Exclusive
    <3>2. CASE ReadForInstall(p) \/ ReadForUninstall(p)
      BY <1>10, <2>2, <3>2, Decided, QuietStep DEF HasDecided, BeforeCommit
    <3> QED
      BY <1>10, <2>2, <3>1, <3>2, Flow
  <2> QED
    BY <2>1, <2>2
<1> QED
  BY <1>6, <1>7, <1>8, <1>9, <1>10 DEF Exclusive

LEMMA ExclusiveKeeps == ASSUME Typed, Exclusive, [Next]_vars PROVE Exclusive'
<1>1. CASE UNCHANGED vars
  BY <1>1 DEF vars, internal, Exclusive, Inside, Deciding, BeforeCommit
<1> QED
  BY <1>1, ExclusiveStep, ExclusiveOutside, NextSteps

-----------------------------------------------------------------------------
(* A step of p leaves the entries and the uncommitted targets of the       *)
(* others alone.                                                           *)
LEMMA UnsettledStep ==
    ASSUME NEW p \in Procs, StepOf(p)
    PROVE  \/ unsettled' = unsettled
           \/ \E i \in run[p].toWrite : WriteTarget(p, i)
           \/ Commit(p)
<1>1. ASSUME NEW k \in Keys, NEW force \in BOOLEAN,
             (\E v \in Values : BeginInstall(p, k, force, v)) \/ BeginUninstall(p, k, force)
      PROVE  unsettled' = unsettled
  BY <1>1 DEF BeginInstall, BeginUninstall, ghosts
<1>2. ASSUME AcquireLock(p) \/ LockHeld(p) \/ Scan(p) \/ ReadForInstall(p)
             \/ ReadForUninstall(p) \/ Throw(p) \/ Release(p) \/ ReleaseFails(p)
             \/ TearJournal(p) \/ Crash(p)
      PROVE  unsettled' = unsettled
  BY <1>2 DEF AcquireLock, LockHeld, Scan, ReadForInstall, ReadForUninstall, Throw,
     Release, ReleaseFails, TearJournal, Crash, ghosts
<1>3. ASSUME JournalWrite(p) \/ DropBackups(p) \/ \E i \in run[p].toSave : SaveTarget(p, i)
      PROVE  unsettled' = unsettled
  BY <1>3 DEF JournalWrite, WriteJournal, NoteSave, NoteWrite, SetPhase, MarkDone,
     DeleteJournal, DropBackups, SaveTarget, ghosts
<1> QED
  BY <1>1, <1>2, <1>3 DEF StepOf, Proceed, Transact, JournalWrite

(* What a step of a journalled transaction leaves in its entry.            *)
LEMMA EntryStep ==
    ASSUME Typed, Exclusive, NEW p \in Procs,
           NoteSave(p) \/ NoteWrite(p) \/ SetPhase(p) \/ MarkDone(p)
    PROVE  /\ journals'[run[p].txn].planned = journals[run[p].txn].planned
           /\ NoteSave(p) \/ NoteWrite(p) =>
                journals'[run[p].txn].phase = journals[run[p].txn].phase
           /\ SetPhase(p) => journals'[run[p].txn].phase = "updating-integrations"
<1> USE DEF Typed
<1>1. pc[p] \in Deciding
  BY DEF NoteSave, NoteWrite, SetPhase, MarkDone, Deciding
<1>2. run[p].txn \in Transactions
  BY <1>1, DecidingTyped
<1>3. journals \in [Transactions -> Entries]
  BY DEF TypeOK
<1>4. journals[run[p].txn] \in Entries
  BY <1>2, <1>3
<1>5. ASSUME NEW field \in {"saved", "recorded", "phase"}, NEW value,
             UpdateEntry(p, field, value)
      PROVE  /\ journals'[run[p].txn].planned = journals[run[p].txn].planned
             /\ field # "phase" =>
                  journals'[run[p].txn].phase = journals[run[p].txn].phase
             /\ field = "phase" => journals'[run[p].txn].phase = value
  BY <1>2, <1>3, <1>4, <1>5 DEF UpdateEntry, Entries
<1> QED
  <2>1. CASE NoteSave(p)
    BY <1>5, <2>1 DEF NoteSave, SetPhase
  <2>2. CASE NoteWrite(p)
    BY <1>5, <2>2 DEF NoteWrite, SetPhase
  <2>3. CASE SetPhase(p)
    BY <1>5, <2>3 DEF NoteSave, NoteWrite, SetPhase
  <2>4. CASE MarkDone(p)
    BY <1>5, <2>4 DEF NoteSave, NoteWrite, SetPhase, MarkDone
  <2> QED
    BY <2>1, <2>2, <2>3, <2>4

LEMMA Journalling ==
    ASSUME Typed, Exclusive, NEW p \in Procs, StepOf(p), Journalled(p)'
    PROVE  /\ GoesOn(p)
           /\ run'[p].txn = run[p].txn
           /\ WriteJournal(p) \/ Journalled(p)
           /\ ~TearJournal(p) /\ ~MarkDone(p) /\ ~DeleteJournal(p)
<1> USE DEF Typed
<1>1. pc'[p] \in Deciding /\ pc'[p] \in BeforeCommit
  BY DEF Journalled, Deciding, BeforeCommit
<1>2. run'[p].txn = run[p].txn
  BY <1>1, Stepping DEF Continues, Begins, Deciding
<1>3. ~TearJournal(p) /\ ~MarkDone(p) /\ ~DeleteJournal(p)
  BY DEF TearJournal, MarkDone, DeleteJournal, Report, Goto, TypeOK, Journalled
<1>4. GoesOn(p)
  BY <1>1, DecidingStep, NextSteps DEF HasDecided, Journalled
<1>5. pc[p] \in BeforeCommit
  <2>1. ~ReadForInstall(p) /\ ~ReadForUninstall(p)
    BY <1>4 DEF GoesOn, ReadForInstall, ReadForUninstall, Deciding
  <2> QED
    BY <1>1, <2>1, Flow
<1>6. CASE pc[p] \in {"note_save", "write", "note_write", "phase"}
  BY <1>2, <1>3, <1>4, <1>6 DEF Journalled
<1>7. CASE pc[p] \in {"save", "commit"} /\ run[p].mutates
  BY <1>2, <1>3, <1>4, <1>7 DEF Journalled
<1>8. CASE pc[p] = "journal"
  <2>1. Transact(p)
    <3>1. ASSUME NEW k \in Keys, NEW force \in BOOLEAN,
                 (\E v \in Values : BeginInstall(p, k, force, v)) \/ BeginUninstall(p, k, force)
          PROVE  FALSE
      BY <1>8, <3>1 DEF BeginInstall, BeginUninstall
    <3>2. ~Throw(p) /\ ~Crash(p)
      BY <1>1 DEF Throw, Crash, Report, Goto, TypeOK, Deciding
    <3> QED
      BY <1>3, <1>8, <3>1, <3>2 DEF StepOf, Proceed, AcquireLock, LockHeld, Scan,
         ReadForInstall, ReadForUninstall, Release, ReleaseFails
  <2>2. WriteJournal(p)
    BY <1>8, <2>1 DEF Transact, WriteJournal, SaveTarget, WriteTarget, NoteSave, NoteWrite,
       SetPhase, Commit, MarkDone, DeleteJournal, DropBackups
  <2> QED
    BY <1>2, <1>3, <1>4, <2>2
<1>9. CASE pc[p] \in {"save", "commit"} /\ ~run[p].mutates
  <2>1. ~run'[p].mutates
    BY <1>4, <1>9 DEF GoesOn
  <2>2. pc'[p] \in {"note_save", "write", "note_write", "phase"}
    BY <2>1 DEF Journalled
  <2>3. CASE \E i \in run[p].toSave : SaveTarget(p, i)
    <3>1. PICK i \in run[p].toSave : SaveTarget(p, i)
      BY <2>3
    <3>2. run[p] \in Runs
      BY DEF TypeOK
    <3>3. [run[p] EXCEPT !.toSave = @ \ {i}].mutates = run[p].mutates
      BY <3>2 DEF Runs
    <3>4. pc'[p] \in {"save", "commit"}
      BY <1>9, <3>1, <3>3 DEF SaveTarget, AfterSave, Goto, TypeOK
    <3> QED
      BY <2>2, <3>4
  <2>4. CASE Commit(p)
    BY <1>9, <2>2, <2>4 DEF Commit, Goto, TypeOK
  <2>5. CASE Throw(p) \/ Crash(p)
    BY <1>1, <2>5 DEF Throw, Crash, Report, Goto, TypeOK, Deciding
  <2>6. ASSUME NEW k \in Keys, NEW force \in BOOLEAN,
               (\E v \in Values : BeginInstall(p, k, force, v)) \/ BeginUninstall(p, k, force)
        PROVE  FALSE
    BY <1>9, <2>6 DEF BeginInstall, BeginUninstall
  <2>7. Transact(p) => Commit(p) \/ \E i \in run[p].toSave : SaveTarget(p, i)
    BY <1>9 DEF Transact, WriteJournal, WriteTarget, NoteSave, NoteWrite, SetPhase, MarkDone,
       DeleteJournal, DropBackups
  <2> QED
    BY <1>3, <1>9, <2>3, <2>4, <2>5, <2>6, <2>7 DEF StepOf, Proceed, AcquireLock,
       LockHeld, Scan, ReadForInstall, ReadForUninstall, Release, ReleaseFails
<1> QED
  BY <1>5, <1>6, <1>7, <1>8, <1>9 DEF BeforeCommit, Deciding

LEMMA CoveringOutside == ASSUME Typed, Covering, Outside PROVE Covering'
<1> USE DEF Typed
<1>1. UNCHANGED <<pc, run, unsettled>>
  BY OutsideKeeps
<1>2. CASE journals' = journals
  BY <1>1, <1>2 DEF Covering, JournalCovers, Journalled, Targets, Target
<1>3. ASSUME NEW x \in Transactions, RemoveDoneJournal(x) PROVE Covering'
  <2>1. journals[x].phase = "done" /\ journals' = [journals EXCEPT ![x] = NoEntry]
    BY <1>3 DEF RemoveDoneJournal
  <2>2. \A y : y # x => journals'[y] = journals[y]
    BY <2>1 DEF TypeOK
  <2>3. \A u \in unsettled : u[1] # x
    BY <2>1 DEF Covering, JournalCovers
  <2>4. \A p \in Procs : Journalled(p) => run[p].txn # x
    BY <1>3 DEF RemoveDoneJournal, Owns, Journalled
  <2> QED
    <3>1. JournalCovers'
      BY <1>1, <2>2, <2>3 DEF Covering, JournalCovers
    <3>2. ASSUME NEW p \in Procs, Journalled(p)'
          PROVE  /\ journals'[run'[p].txn].phase \in {"writing-files", "updating-integrations"}
                 /\ Targets(p, run[p].toWrite)' \subseteq journals'[run'[p].txn].planned
      <4>1. Journalled(p)
        BY <1>1, <3>2 DEF Journalled
      <4>2. journals'[run'[p].txn] = journals[run[p].txn]
        BY <1>1, <2>2, <2>4, <4>1
      <4> QED
        BY <1>1, <4>1, <4>2 DEF Covering, Targets, Target
    <3>3. ASSUME NEW p \in Procs, pc'[p] \in {"done", "delete", "drop"}, NEW u \in unsettled'
          PROVE  u[1] # run'[p].txn
      BY <1>1, <3>3 DEF Covering
    <3> QED
      BY <3>1, <3>2, <3>3 DEF Covering
<1> QED
  BY <1>2, <1>3, OutsideWriters

LEMMA CoveringStep ==
    ASSUME Typed, Exclusive, Covering, NEW p \in Procs, StepOf(p)
    PROVE  Covering'
<1> USE DEF Typed
<1>1. Continues(p) \/ Begins(p)
  BY Stepping
<1>2. \A r \in Procs \ {p} : pc'[r] = pc[r] /\ run'[r] = run[r]
  BY <1>1 DEF Continues, Begins, Others
<1>3. \A r \in Procs \ {p} : Inside(r) => ~Inside(p)
  BY Alone
<1>4. journals' = journals \/ JournalWrite(p) \/ TearJournal(p)
  BY Writers
<1>5. Inside(p) \/ (journals' = journals /\ unsettled' = unsettled)
  <2>1. journals' = journals \/ Inside(p)
    BY <1>4, OwnEntry
  <2>2. (\E i \in run[p].toWrite : WriteTarget(p, i)) \/ Commit(p) => Inside(p)
    BY DEF WriteTarget, Commit, Inside
  <2> QED
    BY <2>1, <2>2, UnsettledStep
<1>6. ASSUME NEW u \in unsettled', u \in unsettled, journals' # journals
      PROVE  /\ u[2] \in journals'[u[1]].planned
             /\ journals'[u[1]].phase \notin {"none", "torn", "done"}
  <2>1. /\ u[2] \in journals[u[1]].planned
        /\ journals[u[1]].phase \notin {"none", "torn", "done"}
    BY <1>6 DEF Covering, JournalCovers
  <2>2. u[1] \in Transactions
    BY <1>6 DEF TypeOK
  <2>3. CASE u[1] # run[p].txn
    BY <1>4, <1>6, <2>1, <2>2, <2>3, OwnEntry
  <2>4. CASE u[1] = run[p].txn
    <3>1. ~WriteJournal(p) /\ ~TearJournal(p)
      BY <2>1, <2>2 DEF WriteJournal, TearJournal, Exclusive
    <3>2. ~MarkDone(p) /\ ~DeleteJournal(p)
      BY <1>6, <2>4 DEF MarkDone, DeleteJournal, Covering
    <3>3. NoteSave(p) \/ NoteWrite(p) \/ SetPhase(p)
      BY <1>4, <1>6, <3>1, <3>2 DEF JournalWrite
    <3> QED
      BY <2>1, <2>4, <3>3, EntryStep
  <2> QED
    BY <2>3, <2>4
<1>7. ASSUME NEW u \in unsettled'
      PROVE  /\ u[2] \in journals'[u[1]].planned
             /\ journals'[u[1]].phase \notin {"none", "torn", "done"}
  <2>1. CASE u \in unsettled
    BY <1>6, <1>7, <2>1 DEF Covering, JournalCovers
  <2>2. CASE u \notin unsettled
    <3>1. PICK i \in run[p].toWrite : WriteTarget(p, i)
      BY <1>7, <2>2, UnsettledStep DEF Commit
    <3>2. u = <<run[p].txn, Target(p, i)>>
      BY <1>7, <2>2, <3>1 DEF WriteTarget
    <3>3. Journalled(p) /\ journals' = journals
      BY <3>1, QuietStep DEF WriteTarget, Journalled
    <3>4. Target(p, i) \in Targets(p, run[p].toWrite)
      BY DEF Targets
    <3> QED
      BY <3>2, <3>3, <3>4 DEF Covering
  <2> QED
    BY <2>1, <2>2
<1>8. ASSUME NEW r \in Procs, Journalled(r)'
      PROVE  /\ journals'[run'[r].txn].phase \in {"writing-files", "updating-integrations"}
             /\ Targets(r, run[r].toWrite)' \subseteq journals'[run'[r].txn].planned
  <2>1. CASE r # p
    <3>1. run'[r] = run[r] /\ Journalled(r)
      BY <1>2, <1>8, <2>1 DEF Journalled
    <3>2. journals' = journals
      BY <1>3, <1>5, <2>1, <3>1 DEF Journalled, Inside
    <3> QED
      BY <3>1, <3>2 DEF Covering, Targets, Target
  <2>2. CASE r = p
    <3>1. /\ GoesOn(p) /\ run'[p].txn = run[p].txn
          /\ WriteJournal(p) \/ Journalled(p)
          /\ ~TearJournal(p) /\ ~MarkDone(p) /\ ~DeleteJournal(p)
      BY <1>8, <2>2, Journalling
    <3>2. Targets(p, run[p].toWrite)' \subseteq Targets(p, run[p].toWrite)
      BY <3>1 DEF GoesOn, Targets, Target
    <3>3. run[p].txn \in Transactions
      BY <3>1, DecidingTyped DEF GoesOn
    <3>4. CASE WriteJournal(p)
      <4>1. /\ journals'[run[p].txn].phase = "writing-files"
            /\ journals'[run[p].txn].planned = Targets(p, run[p].toWrite)
        BY <3>3, <3>4 DEF WriteJournal, TypeOK
      <4> QED
        BY <2>2, <3>1, <3>2, <4>1
    <3>5. CASE Journalled(p) /\ ~WriteJournal(p)
      <4>1. /\ journals[run[p].txn].phase \in {"writing-files", "updating-integrations"}
            /\ Targets(p, run[p].toWrite) \subseteq journals[run[p].txn].planned
        BY <3>5 DEF Covering
      <4>2. journals' = journals \/ NoteSave(p) \/ NoteWrite(p) \/ SetPhase(p)
        BY <1>4, <3>1, <3>5 DEF JournalWrite
      <4> QED
        BY <2>2, <3>1, <3>2, <4>1, <4>2, EntryStep
    <3> QED
      BY <3>1, <3>4, <3>5
  <2> QED
    BY <2>1, <2>2
<1>9. ASSUME NEW r \in Procs, pc'[r] \in {"done", "delete", "drop"}, NEW u \in unsettled'
      PROVE  u[1] # run'[r].txn
  <2>1. CASE r # p
    <3>1. run'[r] = run[r] /\ pc[r] = pc'[r]
      BY <1>2, <2>1
    <3>2. unsettled' = unsettled
      BY <1>3, <1>5, <1>9, <2>1, <3>1 DEF Inside
    <3> QED
      BY <1>9, <3>1, <3>2 DEF Covering
  <2>2. CASE r = p
    <3>1. run'[p].txn = run[p].txn
      BY <1>1, <1>9, <2>2 DEF Continues, Begins
    <3>2. CASE Commit(p)
      BY <1>9, <2>2, <3>1, <3>2 DEF Commit
    <3>3. CASE pc[p] \in {"done", "delete", "drop"}
      <4>1. unsettled' = unsettled
        BY <3>3, UnsettledStep DEF WriteTarget, Commit
      <4> QED
        BY <1>9, <2>2, <3>1, <3>3, <4>1 DEF Covering
    <3> QED
      BY <1>9, <2>2, <3>2, <3>3, Flow
  <2> QED
    BY <2>1, <2>2
<1> QED
  BY <1>7, <1>8, <1>9 DEF Covering, JournalCovers

LEMMA CoveringKeeps == ASSUME Typed, Exclusive, Covering, [Next]_vars PROVE Covering'
<1>1. CASE UNCHANGED vars
  BY <1>1 DEF vars, internal, ghosts, Covering, JournalCovers, Journalled, Targets, Target
<1> QED
  BY <1>1, CoveringStep, CoveringOutside, NextSteps

-----------------------------------------------------------------------------
(* Whatever fails, dies or is edited, every state of every execution has   *)
(* its types, one transaction inside and an entry for what is uncommitted. *)
THEOREM Invariant == Spec => []Inv
<1>1. Inv /\ [Next]_vars => Inv'
  <2> SUFFICES ASSUME Inv, [Next]_vars PROVE Inv'
    OBVIOUS
  <2>1. Typed /\ Exclusive /\ Covering
    BY DEF Inv
  <2>2. TypeOK'
    BY <2>1, TypeKeeps DEF Typed
  <2>3. Numbered' /\ Shaped'
    BY <2>1, NumberedKeeps, ShapedKeeps
  <2>4. Exclusive' /\ Covering'
    BY <2>1, ExclusiveKeeps, CoveringKeeps
  <2> QED
    BY <2>2, <2>3, <2>4 DEF Inv, Typed
<1> QED
  BY <1>1, InitInv, PTL DEF Spec

(* What the files, the records and the invocations hold keeps its type.    *)
THEOREM TypeCorrect == Spec => []TypeOK
<1>1. Inv => TypeOK
  BY DEF Inv, Typed
<1> QED
  BY <1>1, Invariant, PTL

(* The lock and the scan admit one transaction at a time: nobody writes    *)
(* beside another, or over what another has left unfinished.               *)
THEOREM OneAtATime == Spec => []OneTransaction
<1>1. Inv => OneTransaction
  <2> SUFFICES ASSUME Inv PROVE OneTransaction
    OBVIOUS
  <2>1. \A p, r \in Procs : Inside(p) /\ Inside(r) => p = r
    BY Alone DEF Inv
  <2> QED
    BY <2>1 DEF Inv, Exclusive, OneTransaction
<1> QED
  BY <1>1, Invariant, PTL

(* A target replaced and not committed is listed by an entry the next      *)
(* invocation refuses at, after any failure, death or removal of locks and *)
(* of entries marked done.                                                 *)
THEOREM Covers == Spec => []JournalCovers
<1>1. Inv => JournalCovers
  BY DEF Inv, Covering
<1> QED
  BY <1>1, Invariant, PTL

(* Although a commit writes back a file it read long before, it changes    *)
(* its own record and no other.                                            *)
THEOREM CommitsOwnRecord == Spec => OwnRecordOnly
<1>1. Inv /\ [Next]_vars =>
        [\A k \in Keys : store'[k] # store[k] =>
           \E p \in Procs : pc[p] = "commit" /\ run[p].key = k]_vars
  <2> SUFFICES ASSUME Inv, Next, NEW k \in Keys, store'[k] # store[k]
               PROVE  \E p \in Procs : pc[p] = "commit" /\ run[p].key = k
    BY DEF vars, internal
  <2>1. PICK p \in Procs : Commit(p)
    BY NextSteps, Writers, OutsideWriters
  <2>2. pc[p] = "commit" /\ run[p].seen = store
    BY <2>1 DEF Commit, Inv, Exclusive, BeforeCommit, Deciding
  <2>3. store' = [store EXCEPT ![run[p].key] = run[p].final]
    BY <2>1, <2>2 DEF Commit
  <2>4. run[p].key = k
    BY <2>3 DEF Inv, Typed, TypeOK
  <2> QED
    BY <2>2, <2>4
<1> QED
  BY <1>1, Invariant, PTL DEF Spec, OwnRecordOnly

-----------------------------------------------------------------------------
(* The order of a transaction's work: the backups, then the targets.       *)
InOrder(p) ==
    /\ pc[p] \in {"journal", "note_save", "write", "note_write", "phase"} => run[p].mutates
    /\ pc[p] \in {"write", "note_write", "phase", "commit"} => run[p].toSave = {}
    /\ pc[p] \in {"phase", "commit"} => run[p].toWrite = {}
    /\ pc[p] \in BeforeCommit /\ ~run[p].mutates => run[p].toWrite = {}

Ordered == \A p \in Procs : InOrder(p)

(* The steps that lead up to a commit.                                     *)
LEMMA Works ==
    ASSUME TypeOK, NEW p \in Procs, StepOf(p), pc'[p] \in BeforeCommit
    PROVE  \/ ReadForInstall(p) \/ ReadForUninstall(p)
           \/ WriteJournal(p) \/ NoteSave(p) \/ NoteWrite(p) \/ SetPhase(p)
           \/ \E i \in run[p].toSave : SaveTarget(p, i)
           \/ \E i \in run[p].toWrite : WriteTarget(p, i)
<1> USE DEF TypeOK, Goto, BeforeCommit, Deciding
<1>1. ASSUME NEW k \in Keys, NEW force \in BOOLEAN,
             (\E v \in Values : BeginInstall(p, k, force, v)) \/ BeginUninstall(p, k, force)
      PROVE  FALSE
  BY <1>1 DEF BeginInstall, BeginUninstall
<1>2. ~AcquireLock(p) /\ ~LockHeld(p) /\ ~Crash(p) /\ ~Scan(p)
  BY DEF AcquireLock, LockHeld, Crash, Scan, Report
<1>3. ~Throw(p) /\ ~TearJournal(p) /\ ~Release(p) /\ ~ReleaseFails(p)
  BY DEF Throw, TearJournal, Report, Release, ReleaseFails, EndRun
<1>4. ~Commit(p) /\ ~MarkDone(p) /\ ~DeleteJournal(p) /\ ~DropBackups(p)
  BY DEF Commit, MarkDone, DeleteJournal, DropBackups
<1> QED
  BY <1>1, <1>2, <1>3, <1>4 DEF StepOf, Proceed, Transact

(* Where a step of the transaction leads, and what is left to do then.     *)
LEMMA WorkLeft ==
    ASSUME TypeOK, NEW p \in Procs
    PROVE  /\ WriteJournal(p) \/ NoteSave(p) =>
                run' = run /\ pc'[p] = AfterSave(run[p])
           /\ NoteWrite(p) => run' = run /\ pc'[p] = AfterWrite(run[p])
           /\ SetPhase(p) => run' = run /\ pc'[p] = "commit"
           /\ \A i : SaveTarget(p, i) =>
                /\ run'[p] = [run[p] EXCEPT !.toSave = @ \ {i}]
                /\ pc'[p] = IF run'[p].mutates THEN "note_save" ELSE AfterSave(run'[p])
           /\ \A i : WriteTarget(p, i) =>
                /\ run'[p] = [run[p] EXCEPT !.toWrite = @ \ {i}]
                /\ pc'[p] = IF run'[p].command = "install" THEN "note_write"
                            ELSE AfterWrite(run'[p])
<1> USE DEF TypeOK, Goto
<1>1. WriteJournal(p) \/ NoteSave(p) \/ NoteWrite(p) \/ SetPhase(p) => run' = run
  BY DEF WriteJournal, NoteSave, NoteWrite, SetPhase
<1>2. /\ WriteJournal(p) \/ NoteSave(p) => pc'[p] = AfterSave(run[p])
      /\ NoteWrite(p) => pc'[p] = AfterWrite(run[p])
      /\ SetPhase(p) => pc'[p] = "commit"
  BY DEF WriteJournal, NoteSave, NoteWrite, SetPhase
<1>3. ASSUME NEW i, SaveTarget(p, i)
      PROVE  /\ run'[p] = [run[p] EXCEPT !.toSave = @ \ {i}]
             /\ pc'[p] = IF run'[p].mutates THEN "note_save" ELSE AfterSave(run'[p])
  <2> DEFINE left == [run[p] EXCEPT !.toSave = @ \ {i}]
  <2>1. run' = [run EXCEPT ![p] = left]
    BY <1>3 DEF SaveTarget
  <2>2. pc' = [pc EXCEPT ![p] = IF left.mutates THEN "note_save" ELSE AfterSave(left)]
    BY <1>3 DEF SaveTarget
  <2> HIDE DEF left
  <2>3. run'[p] = left
    BY <2>1
  <2> QED
    BY <2>2, <2>3 DEF left
<1>4. ASSUME NEW i, WriteTarget(p, i)
      PROVE  /\ run'[p] = [run[p] EXCEPT !.toWrite = @ \ {i}]
             /\ pc'[p] = IF run'[p].command = "install" THEN "note_write"
                         ELSE AfterWrite(run'[p])
  <2> DEFINE left == [run[p] EXCEPT !.toWrite = @ \ {i}]
  <2>1. run' = [run EXCEPT ![p] = left]
    BY <1>4 DEF WriteTarget
  <2>2. pc' = [pc EXCEPT ![p] = IF left.command = "install" THEN "note_write"
                                ELSE AfterWrite(left)]
    BY <1>4 DEF WriteTarget
  <2> HIDE DEF left
  <2>3. run'[p] = left
    BY <2>1
  <2> QED
    BY <2>2, <2>3 DEF left
<1> QED
  BY <1>1, <1>2, <1>3, <1>4

LEMMA OrderedStep ==
    ASSUME Typed, Ordered, NEW p \in Procs, StepOf(p), pc'[p] \in BeforeCommit
    PROVE  InOrder(p)'
<1> USE DEF Typed
<1>1. InOrder(p) /\ run[p] \in Runs
  BY DEF Ordered, TypeOK
<1>2. CASE ReadForInstall(p) \/ ReadForUninstall(p)
  <2>1. ~\E result : Report(p, result)
    BY DEF Report, Goto, TypeOK, BeforeCommit, Deciding
  <2>2. PICK goal, final, writes, saves : Decide(p, goal, final, writes, saves)
    BY <1>2, <2>1 DEF ReadForInstall, ReadForUninstall
  <2>3. /\ run'[p].toWrite = writes /\ run'[p].toSave = saves
        /\ run'[p].mutates = (writes # {})
    BY <1>1, <2>2 DEF Decide, TypeOK
  <2>4. pc'[p] = IF writes # {} THEN "journal" ELSE IF saves # {} THEN "save" ELSE "commit"
    BY <2>2 DEF Decide, Goto, TypeOK
  <2> QED
    BY <2>3, <2>4 DEF InOrder
<1>3. CASE WriteJournal(p) \/ NoteSave(p)
  <2>1. run[p].mutates
    BY <1>1, <1>3 DEF WriteJournal, NoteSave, InOrder
  <2> QED
    BY <1>3, <2>1, WorkLeft DEF AfterSave, InOrder
<1>4. CASE \E i \in run[p].toSave : SaveTarget(p, i)
  <2>1. PICK i : SaveTarget(p, i)
    BY <1>4
  <2>2. pc[p] = "save" /\ (~run[p].mutates => run[p].toWrite = {})
    BY <1>1, <2>1 DEF SaveTarget, InOrder, BeforeCommit, Deciding
  <2>3. /\ run'[p].mutates = run[p].mutates
        /\ run'[p].toWrite = run[p].toWrite
    <3>1. run'[p] = [run[p] EXCEPT !.toSave = @ \ {i}]
      BY <2>1, WorkLeft
    <3> QED
      BY <1>1, <3>1 DEF Runs
  <2>4. pc'[p] = IF run'[p].mutates THEN "note_save" ELSE AfterSave(run'[p])
    BY <2>1, WorkLeft
  <2> QED
    BY <2>2, <2>3, <2>4 DEF AfterSave, InOrder
<1>5. CASE \E i \in run[p].toWrite : WriteTarget(p, i)
  <2>1. PICK i \in run[p].toWrite : WriteTarget(p, i)
    BY <1>5
  <2>2. run[p].toSave = {} /\ run[p].mutates
    BY <1>1, <2>1 DEF WriteTarget, InOrder, BeforeCommit, Deciding
  <2>3. /\ run'[p].mutates = run[p].mutates
        /\ run'[p].toSave = run[p].toSave
    <3>1. run'[p] = [run[p] EXCEPT !.toWrite = @ \ {i}]
      BY <2>1, WorkLeft
    <3> QED
      BY <1>1, <3>1 DEF Runs
  <2>4. pc'[p] = IF run'[p].command = "install" THEN "note_write" ELSE AfterWrite(run'[p])
    BY <2>1, WorkLeft
  <2> QED
    BY <2>2, <2>3, <2>4 DEF AfterWrite, InOrder
<1>6. CASE NoteWrite(p)
  BY <1>1, <1>6, WorkLeft DEF NoteWrite, AfterWrite, InOrder, BeforeCommit, Deciding
<1>7. CASE SetPhase(p)
  BY <1>1, <1>7, WorkLeft DEF SetPhase, InOrder, BeforeCommit, Deciding
<1> QED
  BY <1>2, <1>3, <1>4, <1>5, <1>6, <1>7, Works

LEMMA OrderedKeeps == ASSUME Typed, Ordered, [Next]_vars PROVE Ordered'
<1> USE DEF Typed
<1>1. ASSUME NEW r \in Procs, pc'[r] = pc[r], run'[r] = run[r]
      PROVE  InOrder(r)'
  BY <1>1 DEF Ordered, InOrder
<1>2. ASSUME NEW r \in Procs, pc'[r] \notin BeforeCommit
      PROVE  InOrder(r)'
  BY <1>2 DEF InOrder, BeforeCommit, Deciding
<1>3. ASSUME NEW p \in Procs, NEW r \in Procs, p # r, StepOf(p)
      PROVE  pc'[r] = pc[r] /\ run'[r] = run[r]
  BY <1>3, Stepping DEF Continues, Begins, Others
<1>4. CASE UNCHANGED <<pc, run>>
  BY <1>1, <1>4 DEF Ordered
<1>5. ASSUME NEW p \in Procs, StepOf(p) PROVE Ordered'
  BY <1>1, <1>2, <1>3, <1>5, OrderedStep DEF Ordered
<1> QED
  BY <1>4, <1>5, NextSteps, OutsideKeeps DEF vars

(* The targets a transaction has replaced and not committed.               *)
Replaced(x) == {q \in Paths : <<x, q>> \in unsettled}

(* The entry of a transaction lists what has been replaced, but for the    *)
(* target it has just written.                                             *)
EntryKeepsUp(x) ==
    journals[x].phase = "writing-files" /\ journals[x].command = "install" =>
      \/ journals[x].recorded = Replaced(x)
      \/ \E q \in Replaced(x) : journals[x].recorded = Replaced(x) \ {q}

Noted(p) ==
    LET entry == journals[run[p].txn]
        replaced == Replaced(run[p].txn)
    IN  /\ entry.command = run[p].command
        /\ replaced = entry.planned \ Targets(p, run[p].toWrite)
        /\ run[p].command = "install" =>
              IF pc[p] = "note_write" THEN \E q \in replaced : entry.recorded = replaced \ {q}
                                      ELSE entry.recorded = replaced
        /\ pc[p] = "commit" => entry.phase = "updating-integrations"

(* A transaction that replaces nothing has no entry.                       *)
Unlisted(p) ==
    pc[p] \in {"save", "commit"} /\ ~run[p].mutates =>
      \A x \in Transactions : journals[x].phase = "none"

KeepingUp == /\ \A x \in Transactions : EntryKeepsUp(x)
             /\ \A p \in Procs : (Journalled(p) => Noted(p)) /\ Unlisted(p)

LEMMA KeepingUpIsEnough == KeepingUp => JournalKeepsUp
BY DEF KeepingUp, EntryKeepsUp, Replaced, JournalKeepsUp

(* A target written is one target less to write.                           *)
LEMMA OneLess ==
    ASSUME NEW p \in Procs, run[p].key \in Keys,
           NEW S \in SUBSET Indices(run[p].key), NEW i \in S
    PROVE  Targets(p, S \ {i}) = Targets(p, S) \ {Target(p, i)}
<1>1. \A j \in S : Target(p, j) = Target(p, i) => j = i
  BY KeysAssumption DEF Target, Indices
<1> QED
  BY <1>1 DEF Targets

LEMMA NothingUnsettled ==
    ASSUME Covering, TypeOK, \A x \in Transactions : journals[x].phase = "none"
    PROVE  unsettled = {}
BY DEF Covering, JournalCovers, TypeOK

(* What the steps of a transaction change of its entry.                    *)
LEMMA EntryChange ==
    ASSUME TypeOK, NEW p \in Procs, run[p].txn \in Transactions
    PROVE  LET old == journals[run[p].txn]
               new == journals'[run[p].txn]
           IN  /\ NoteSave(p) => /\ new.phase = old.phase /\ new.command = old.command
                                 /\ new.planned = old.planned
                                 /\ new.recorded = old.recorded
               /\ NoteWrite(p) =>
                     /\ new.phase = old.phase /\ new.command = old.command
                     /\ new.planned = old.planned
                     /\ new.recorded = old.planned \ Targets(p, run[p].toWrite)
               /\ SetPhase(p) => /\ new.phase = "updating-integrations"
                                 /\ new.command = old.command
                                 /\ new.planned = old.planned
                                 /\ new.recorded = old.recorded
               /\ MarkDone(p) => new.phase = "done"
               /\ DeleteJournal(p) => new = old \/ new.phase = "none"
               /\ TearJournal(p) => new.phase = "torn"
               /\ WriteJournal(p) =>
                     /\ new.phase = "writing-files" /\ new.command = run[p].command
                     /\ new.planned = Targets(p, run[p].toWrite)
                     /\ run[p].command = "install" => new.recorded = {}
<1> DEFINE x == run[p].txn
<1>1. journals[x] \in Entries /\ journals \in [Transactions -> Entries]
  BY DEF TypeOK
<1>2. ASSUME NEW field \in {"saved", "recorded", "phase"}, NEW value,
             UpdateEntry(p, field, value)
      PROVE  journals'[x] = [journals[x] EXCEPT ![field] = value]
  BY <1>1, <1>2 DEF UpdateEntry
<1>3. CASE NoteSave(p)
  <2>1. \E value : journals'[x] = [journals[x] EXCEPT !["saved"] = value]
    BY <1>2, <1>3 DEF NoteSave
  <2> QED
    BY <1>1, <1>3, <2>1 DEF Entries, NoteSave, NoteWrite, SetPhase, MarkDone, DeleteJournal,
       TearJournal, WriteJournal
<1>4. CASE NoteWrite(p)
  <2>1. journals'[x] = [journals[x] EXCEPT !["recorded"] =
                          journals[x].planned \ Targets(p, run[p].toWrite)]
    BY <1>2, <1>4 DEF NoteWrite
  <2> QED
    BY <1>1, <1>4, <2>1 DEF Entries, NoteSave, NoteWrite, SetPhase, MarkDone, DeleteJournal,
       TearJournal, WriteJournal
<1>5. CASE SetPhase(p)
  <2>1. journals'[x] = [journals[x] EXCEPT !["phase"] = "updating-integrations"]
    BY <1>2, <1>5 DEF SetPhase
  <2> QED
    BY <1>1, <1>5, <2>1 DEF Entries, NoteSave, NoteWrite, SetPhase, MarkDone, DeleteJournal,
       TearJournal, WriteJournal
<1>6. CASE MarkDone(p)
  <2>1. journals'[x] = [journals[x] EXCEPT !["phase"] = "done"]
    BY <1>2, <1>6 DEF MarkDone
  <2> QED
    BY <1>1, <1>6, <2>1 DEF Entries, NoteSave, NoteWrite, SetPhase, MarkDone, DeleteJournal,
       TearJournal, WriteJournal
<1>7. CASE DeleteJournal(p)
  <2>1. journals'[x] = journals[x] \/ journals'[x] = NoEntry
    BY <1>1, <1>7 DEF DeleteJournal
  <2> QED
    BY <1>7, <2>1 DEF NoEntry, NoteSave, NoteWrite, SetPhase, MarkDone, DeleteJournal,
       TearJournal, WriteJournal
<1>8. CASE TearJournal(p)
  BY <1>1, <1>8 DEF NoEntry, NoteSave, NoteWrite, SetPhase, MarkDone, DeleteJournal,
     TearJournal, WriteJournal, Report, Goto, TypeOK, AfterSave
<1>9. CASE WriteJournal(p)
  BY <1>1, <1>9 DEF NoteSave, NoteWrite, SetPhase, MarkDone, DeleteJournal, WriteJournal,
     TearJournal, Report, Goto, TypeOK, AfterSave
<1> QED
  BY <1>3, <1>4, <1>5, <1>6, <1>7, <1>8, <1>9

(* The entry of x and what x has replaced stay, unless x itself works.     *)
LEMMA OthersKeepUp ==
    ASSUME Typed, Exclusive, NEW p \in Procs, StepOf(p), NEW x \in Transactions,
           x # run[p].txn \/ ~Inside(p)
    PROVE  journals'[x] = journals[x] /\ Replaced(x)' = Replaced(x)
<1>1. journals'[x] = journals[x]
  <2>1. journals' = journals \/ JournalWrite(p) \/ TearJournal(p)
    BY Writers
  <2> QED
    BY <2>1, OwnEntry
<1>2. CASE unsettled' = unsettled
  BY <1>1, <1>2 DEF Replaced
<1>3. ASSUME NEW i \in run[p].toWrite, WriteTarget(p, i)
      PROVE  Replaced(x)' = Replaced(x)
  <2>1. Inside(p) /\ unsettled' = unsettled \cup {<<run[p].txn, Target(p, i)>>}
    BY <1>3 DEF WriteTarget, Inside
  <2> QED
    BY <2>1 DEF Replaced
<1>4. CASE Commit(p)
  <2>1. Inside(p) /\ unsettled' = {u \in unsettled : u[1] # run[p].txn}
    BY <1>4 DEF Commit, Inside
  <2>2. \A q \in Paths : <<x, q>> \in unsettled' <=> <<x, q>> \in unsettled
    BY <2>1
  <2>3. Replaced(x)' = {q \in Paths : <<x, q>> \in unsettled'}
    BY DEF Replaced
  <2>4. Replaced(x) = {q \in Paths : <<x, q>> \in unsettled}
    BY DEF Replaced
  <2> QED
    BY <1>1, <2>2, <2>3, <2>4
<1> QED
  BY <1>1, <1>2, <1>3, <1>4, UnsettledStep

LEMMA NotedStep ==
    ASSUME Inv, Ordered, KeepingUp, NEW p \in Procs, StepOf(p), Journalled(p)'
    PROVE  Noted(p)'
<1> USE DEF Inv, Typed
<1>1. /\ GoesOn(p) /\ run'[p].txn = run[p].txn
      /\ WriteJournal(p) \/ Journalled(p)
  BY Journalling
<1>2. pc[p] \in Deciding /\ Active(p) /\ pc'[p] \in BeforeCommit
  BY <1>1 DEF GoesOn, Active, Journalled, BeforeCommit, Deciding
<1>3. /\ run[p] \in Runs /\ run[p].txn \in Transactions /\ run[p].key \in Keys
      /\ run[p].toWrite \in SUBSET Indices(run[p].key)
  BY <1>2, DecidingTyped DEF Shaped
<1>4. run'[p].command = run[p].command /\ run'[p].key = run[p].key
  BY <1>2, Stepping DEF Continues, Begins, Journalled
<1> DEFINE x == run[p].txn
           T == Targets(p, run[p].toWrite)
<1>5. Targets(p, run[p].toWrite)' = {TargetsOf[run[p].key][i] : i \in run'[p].toWrite}
  BY <1>4 DEF Targets, Target
<1>6. CASE WriteJournal(p)
  <2>1. unsettled = {} /\ unsettled' = unsettled
    BY <1>6, NothingUnsettled DEF WriteJournal, Exclusive, ghosts
  <2>2. Replaced(x) = {} /\ Replaced(x)' = {}
    BY <2>1 DEF Replaced
  <2>3. run' = run /\ pc'[p] \in {"save", "write"}
    BY <1>3, <1>6, WorkLeft DEF AfterSave, Ordered, InOrder, WriteJournal
  <2>4. T' = T
    BY <2>3 DEF Targets, Target
  <2> QED
    BY <1>3, <1>6, <2>2, <2>3, <2>4, EntryChange DEF Noted
<1>7. CASE Journalled(p)
  <2>1. /\ journals[x].command = run[p].command
        /\ Replaced(x) = journals[x].planned \ T
        /\ run[p].command = "install" =>
             IF pc[p] = "note_write"
             THEN \E q \in Replaced(x) : journals[x].recorded = Replaced(x) \ {q}
             ELSE journals[x].recorded = Replaced(x)
    BY <1>7 DEF KeepingUp, Noted
  <2>2. CASE NoteSave(p) \/ NoteWrite(p) \/ SetPhase(p)
    <3>1. run' = run /\ unsettled' = unsettled
      BY <2>2, WorkLeft DEF NoteSave, NoteWrite, SetPhase, ghosts
    <3>2. T' = T /\ Replaced(x)' = Replaced(x)
      BY <3>1 DEF Targets, Target, Replaced
    <3>3. /\ NoteSave(p) => pc[p] = "note_save" /\ pc'[p] \in {"save", "write"}
          /\ NoteWrite(p) => pc'[p] \in {"write", "phase"}
          /\ SetPhase(p) => pc[p] = "phase" /\ pc'[p] = "commit"
      BY WorkLeft DEF AfterSave, AfterWrite, Ordered, InOrder, NoteSave, NoteWrite, SetPhase
    <3>4. CASE NoteSave(p)
      BY <1>3, <2>1, <3>1, <3>2, <3>3, <3>4, EntryChange DEF Noted
    <3>5. CASE NoteWrite(p)
      BY <1>3, <2>1, <3>1, <3>2, <3>3, <3>5, EntryChange DEF Noted
    <3>6. CASE SetPhase(p)
      BY <1>3, <2>1, <3>1, <3>2, <3>3, <3>6, EntryChange DEF Noted
    <3> QED
      BY <2>2, <3>4, <3>5, <3>6
  <2>3. CASE \E i \in run[p].toSave : SaveTarget(p, i)
    <3>1. PICK i : SaveTarget(p, i)
      BY <2>3
    <3>2. journals' = journals /\ unsettled' = unsettled /\ pc[p] = "save"
      BY <3>1 DEF SaveTarget, ghosts
    <3>3. run'[p] = [run[p] EXCEPT !.toSave = @ \ {i}]
      BY <3>1, WorkLeft
    <3>4. run'[p].toWrite = run[p].toWrite /\ run'[p].mutates = run[p].mutates
      BY <1>3, <3>3 DEF Runs
    <3>5. pc'[p] = "note_save"
      BY <1>7, <3>1, <3>2, <3>4, WorkLeft DEF Journalled
    <3>6. T' = T /\ Replaced(x)' = Replaced(x)
      <4>1. T' = T
        BY <1>5, <3>4 DEF Targets, Target
      <4>2. Replaced(x)' = Replaced(x)
        BY <1>1, <3>2 DEF Replaced
      <4> QED
        BY <4>1, <4>2
    <3> QED
      BY <1>1, <1>4, <2>1, <3>2, <3>5, <3>6 DEF Noted
  <2>4. CASE \E i \in run[p].toWrite : WriteTarget(p, i)
    <3>1. PICK i \in run[p].toWrite : WriteTarget(p, i)
      BY <2>4
    <3>2. /\ journals' = journals /\ pc[p] = "write"
          /\ unsettled' = unsettled \cup {<<x, Target(p, i)>>}
      BY <3>1 DEF WriteTarget, internal
    <3>3. run'[p] = [run[p] EXCEPT !.toWrite = @ \ {i}]
      BY <3>1, WorkLeft
    <3>4. run'[p].toWrite = run[p].toWrite \ {i}
      BY <1>3, <3>3 DEF Runs
    <3>5. T' = T \ {Target(p, i)}
      <4>1. T' = Targets(p, run[p].toWrite \ {i})
        BY <1>5, <3>4 DEF Targets, Target
      <4> QED
        BY <1>3, <4>1, OneLess
    <3>6. Target(p, i) \in Paths /\ Target(p, i) \in T /\ T \subseteq journals[x].planned
      BY <1>2, <1>3, <1>7, DecidingTyped DEF Targets, Covering
    <3>7. Replaced(x)' = Replaced(x) \cup {Target(p, i)}
      <4>1. \A q \in Paths : <<x, q>> \in unsettled'
                              <=> <<x, q>> \in unsettled \/ q = Target(p, i)
        BY <3>2
      <4>2. Replaced(x)' = {q \in Paths : <<x, q>> \in unsettled'}
        BY <1>1 DEF Replaced
      <4> QED
        BY <3>6, <4>1, <4>2 DEF Replaced
    <3>8. Replaced(x)' = journals[x].planned \ T' /\ Target(p, i) \notin Replaced(x)
      BY <2>1, <3>5, <3>6, <3>7
    <3>9. run[p].command = "install" =>
            pc'[p] = "note_write" /\ journals[x].recorded = Replaced(x)' \ {Target(p, i)}
      BY <1>4, <2>1, <3>1, <3>2, <3>7, <3>8, WorkLeft
    <3>10. pc'[p] # "commit"
      BY <3>1, WorkLeft DEF AfterWrite
    <3> QED
      BY <1>1, <1>4, <2>1, <3>2, <3>7, <3>8, <3>9, <3>10 DEF Noted
  <2>5. ~ReadForInstall(p) /\ ~ReadForUninstall(p)
    BY <1>2 DEF ReadForInstall, ReadForUninstall, Deciding
  <2> QED
    BY <1>2, <1>6, <2>2, <2>3, <2>4, <2>5, Works
<1> QED
  BY <1>1, <1>6, <1>7

LEMMA KeepingUpStep ==
    ASSUME Inv, Ordered, KeepingUp, NEW p \in Procs, StepOf(p)
    PROVE  KeepingUp'
<1> USE DEF Inv, Typed
<1>1. \A r \in Procs \ {p} : pc'[r] = pc[r] /\ run'[r] = run[r]
  BY Stepping DEF Continues, Begins, Others
<1>2. ASSUME NEW x \in Transactions, x # run[p].txn \/ ~Inside(p)
      PROVE  EntryKeepsUp(x)'
  <2>1. journals'[x] = journals[x] /\ Replaced(x)' = Replaced(x)
    BY <1>2, OthersKeepUp
  <2> QED
    BY <2>1 DEF KeepingUp, EntryKeepsUp
<1>3. ASSUME NEW x \in Transactions, x = run[p].txn, Inside(p)
      PROVE  EntryKeepsUp(x)'
  <2>1. EntryKeepsUp(x)
    BY DEF KeepingUp
  <2>2. CASE journals' = journals /\ unsettled' = unsettled
    BY <2>1, <2>2 DEF EntryKeepsUp, Replaced
  <2>3. CASE WriteJournal(p)
    <3>1. unsettled = {} /\ unsettled' = unsettled
      BY <2>3, NothingUnsettled DEF WriteJournal, Exclusive, ghosts
    <3>2. Replaced(x)' = {}
      BY <3>1 DEF Replaced
    <3> QED
      BY <1>3, <2>3, <3>2, EntryChange DEF EntryKeepsUp
  <2>4. CASE NoteSave(p)
    <3>1. unsettled' = unsettled
      BY <2>4 DEF NoteSave, ghosts
    <3> QED
      BY <1>3, <2>1, <2>4, <3>1, EntryChange DEF EntryKeepsUp, Replaced
  <2>5. CASE NoteWrite(p)
    <3>1. unsettled' = unsettled /\ Journalled(p)
      BY <2>5 DEF NoteWrite, Journalled, ghosts
    <3>2. Replaced(x) = journals[x].planned \ Targets(p, run[p].toWrite)
      BY <1>3, <3>1 DEF KeepingUp, Noted
    <3>3. Replaced(x)' = Replaced(x)
      BY <3>1 DEF Replaced
    <3> QED
      BY <1>3, <2>5, <3>2, <3>3, EntryChange DEF EntryKeepsUp
  <2>6. CASE SetPhase(p) \/ MarkDone(p) \/ TearJournal(p)
    BY <1>3, <2>6, EntryChange DEF EntryKeepsUp
  <2>7. CASE DeleteJournal(p)
    <3>1. unsettled' = unsettled
      BY <2>7 DEF DeleteJournal, ghosts
    <3> QED
      BY <1>3, <2>1, <2>7, <3>1, EntryChange DEF EntryKeepsUp, Replaced
  <2>8. CASE \E i \in run[p].toWrite : WriteTarget(p, i)
    <3>1. PICK i \in run[p].toWrite : WriteTarget(p, i)
      BY <2>8
    <3>2. /\ journals' = journals /\ Journalled(p) /\ pc[p] = "write"
          /\ unsettled' = unsettled \cup {<<x, Target(p, i)>>}
      BY <1>3, <3>1 DEF WriteTarget, Journalled, internal
    <3>3. /\ Replaced(x) = journals[x].planned \ Targets(p, run[p].toWrite)
          /\ journals[x].command = run[p].command
          /\ run[p].command = "install" => journals[x].recorded = Replaced(x)
      BY <1>3, <3>2 DEF KeepingUp, Noted
    <3>4. Target(p, i) \in Paths /\ Target(p, i) \notin Replaced(x)
      <4>1. pc[p] \in Deciding
        BY <3>2 DEF Deciding
      <4>2. Target(p, i) \in Paths
        BY <4>1, DecidingTyped DEF Shaped
      <4> QED
        BY <3>3, <4>2 DEF Targets
    <3>5. Replaced(x)' = Replaced(x) \cup {Target(p, i)}
      <4>1. \A q \in Paths : <<x, q>> \in unsettled'
                              <=> <<x, q>> \in unsettled \/ q = Target(p, i)
        BY <3>2
      <4>2. Replaced(x)' = {q \in Paths : <<x, q>> \in unsettled'}
        BY DEF Replaced
      <4> QED
        BY <3>4, <4>1, <4>2 DEF Replaced
    <3>6. Replaced(x) = Replaced(x)' \ {Target(p, i)} /\ Target(p, i) \in Replaced(x)'
      BY <3>4, <3>5
    <3> QED
      BY <3>2, <3>3, <3>6 DEF EntryKeepsUp
  <2>9. CASE Commit(p)
    <3>1. pc[p] = "commit" /\ journals' = journals
      BY <2>9 DEF Commit
    <3>2. CASE run[p].mutates
      BY <1>3, <3>1, <3>2 DEF KeepingUp, Noted, Journalled, EntryKeepsUp
    <3>3. CASE ~run[p].mutates
      BY <3>1, <3>3 DEF KeepingUp, Unlisted, EntryKeepsUp
    <3> QED
      BY <3>2, <3>3
  <2> QED
    BY <2>2, <2>3, <2>4, <2>5, <2>6, <2>7, <2>8, <2>9, UnsettledStep, Writers
       DEF JournalWrite
<1>4. \A x \in Transactions : EntryKeepsUp(x)'
  BY <1>2, <1>3
<1>5. ASSUME NEW r \in Procs, r # p
      PROVE  (Journalled(r) => Noted(r))' /\ Unlisted(r)'
  <2>1. run'[r] = run[r] /\ pc'[r] = pc[r]
    BY <1>1, <1>5
  <2>2. CASE Inside(r)
    <3>1. ~Inside(p)
      BY <1>5, <2>2, Alone
    <3>2. \A x \in Transactions : journals'[x] = journals[x] /\ Replaced(x)' = Replaced(x)
      BY <3>1, OthersKeepUp
    <3>3. run[r].txn \in Transactions \/ ~Journalled(r)
      BY DecidingTyped DEF Journalled, Deciding
    <3>4. Unlisted(r)'
      BY <2>1, <3>2 DEF KeepingUp, Unlisted
    <3>5. ASSUME Journalled(r)' PROVE Noted(r)'
      <4>1. Journalled(r) /\ Noted(r)
        BY <2>1, <3>5 DEF Journalled, KeepingUp
      <4>2. Targets(r, run[r].toWrite)' = Targets(r, run[r].toWrite)
        BY <2>1 DEF Targets, Target
      <4>3. /\ journals'[run'[r].txn] = journals[run[r].txn]
            /\ Replaced(run[r].txn)' = Replaced(run[r].txn)
        <5>1. PICK x \in Transactions : x = run[r].txn /\ x = run'[r].txn
          BY <2>1, <3>3, <4>1
        <5> QED
          BY <3>2, <5>1
      <4> QED
        BY <2>1, <4>1, <4>2, <4>3 DEF Noted
    <3> QED
      BY <3>4, <3>5
  <2>3. CASE ~Inside(r)
    BY <2>1, <2>3 DEF Inside, Journalled, Unlisted
  <2> QED
    BY <2>2, <2>3
<1>6. Unlisted(p)'
  <2>1. SUFFICES ASSUME pc'[p] \in {"save", "commit"}, ~run'[p].mutates
                 PROVE  \A x \in Transactions : journals'[x].phase = "none"
    BY DEF Unlisted
  <2>2. pc'[p] \in BeforeCommit
    BY <2>1 DEF BeforeCommit, Deciding
  <2>3. CASE ReadForInstall(p) \/ ReadForUninstall(p)
    BY <2>3 DEF ReadForInstall, ReadForUninstall, internal, Exclusive
  <2>4. CASE WriteJournal(p) \/ NoteSave(p)
    BY <2>1, <2>4, WorkLeft DEF WriteJournal, NoteSave, Ordered, InOrder
  <2>5. CASE \E i \in run[p].toSave : SaveTarget(p, i)
    <3>1. PICK i : SaveTarget(p, i)
      BY <2>5
    <3>2. journals' = journals /\ pc[p] = "save"
      BY <3>1 DEF SaveTarget
    <3>3. ~run[p].mutates
      <4>1. run'[p] = [run[p] EXCEPT !.toSave = @ \ {i}] /\ run[p] \in Runs
        BY <3>1, WorkLeft DEF TypeOK
      <4> QED
        BY <2>1, <4>1 DEF Runs
    <3> QED
      BY <3>2, <3>3 DEF KeepingUp, Unlisted
  <2>6. CASE \E i \in run[p].toWrite : WriteTarget(p, i)
    <3>1. PICK i : WriteTarget(p, i)
      BY <2>6
    <3> QED
      BY <2>1, <3>1, WorkLeft DEF AfterWrite
  <2>7. CASE NoteWrite(p)
    BY <2>1, <2>7, WorkLeft DEF AfterWrite
  <2>8. CASE SetPhase(p)
    BY <2>1, <2>8, WorkLeft DEF SetPhase, Ordered, InOrder
  <2> QED
    BY <2>2, <2>3, <2>4, <2>5, <2>6, <2>7, <2>8, Works
<1> QED
  BY <1>4, <1>5, <1>6, NotedStep DEF KeepingUp

LEMMA KeepingUpOutside ==
    ASSUME Inv, KeepingUp, Outside
    PROVE  KeepingUp'
<1> USE DEF Inv, Typed
<1>1. UNCHANGED <<pc, run, unsettled>>
  BY OutsideKeeps
<1>2. \A x : Replaced(x)' = Replaced(x)
  BY <1>1 DEF Replaced
<1>3. ASSUME NEW x \in Transactions
      PROVE  \/ journals'[x] = journals[x]
             \/ journals[x].phase = "done" /\ journals'[x] = NoEntry
  <2>1. CASE journals' = journals
    BY <2>1
  <2>2. ASSUME NEW y \in Transactions, RemoveDoneJournal(y)
        PROVE  \/ journals'[x] = journals[x]
               \/ journals[x].phase = "done" /\ journals'[x] = NoEntry
    <3>1. /\ journals[y].phase = "done"
          /\ journals' = [journals EXCEPT ![y] = NoEntry]
      BY <2>2 DEF RemoveDoneJournal
    <3>2. journals \in [Transactions -> Entries]
      BY DEF TypeOK
    <3>3. CASE x = y
      BY <3>1, <3>2, <3>3
    <3>4. CASE x # y
      BY <3>1, <3>2, <3>4
    <3> QED
      BY <3>3, <3>4
  <2> QED
    BY <2>1, <2>2, OutsideWriters
<1>4. \A x \in Transactions : EntryKeepsUp(x)'
  BY <1>2, <1>3 DEF KeepingUp, EntryKeepsUp, NoEntry
<1>5. ASSUME NEW p \in Procs PROVE Unlisted(p)'
  BY <1>1, <1>3 DEF KeepingUp, Unlisted, NoEntry
<1>6. ASSUME NEW p \in Procs, Journalled(p)' PROVE Noted(p)'
  <2>1. Journalled(p) /\ Noted(p)
    BY <1>1, <1>6 DEF Journalled, KeepingUp
  <2>2. run[p].txn \in Transactions
    BY <2>1, DecidingTyped DEF Journalled, Deciding
  <2>3. journals'[run[p].txn] = journals[run[p].txn]
    BY <1>3, <2>1, <2>2 DEF Covering
  <2>4. Targets(p, run[p].toWrite)' = Targets(p, run[p].toWrite)
    BY <1>1 DEF Targets, Target
  <2>5. Replaced(run[p].txn)' = Replaced(run[p].txn)
    BY <1>1 DEF Replaced
  <2> QED
    BY <1>1, <2>1, <2>3, <2>4, <2>5 DEF Noted
<1> QED
  BY <1>4, <1>5, <1>6 DEF KeepingUp

(* An install's entry names what has been replaced and nothing else, one   *)
(* target behind at most, whatever fails or dies: the operator can trust   *)
(* what it says of an install that never ended.                            *)
THEOREM EntriesKeepUp == Spec => []JournalKeepsUp
<1>1. Init => Ordered /\ KeepingUp
  BY DEF Init, Ordered, InOrder, BeforeCommit, Deciding, KeepingUp, EntryKeepsUp, NoEntry,
     Journalled, Unlisted
<1>2. Inv /\ Ordered /\ KeepingUp /\ [Next]_vars => (Ordered /\ KeepingUp)'
  <2> SUFFICES ASSUME Inv, Ordered, KeepingUp, [Next]_vars PROVE (Ordered /\ KeepingUp)'
    OBVIOUS
  <2>1. Ordered'
    BY OrderedKeeps DEF Inv
  <2>2. CASE UNCHANGED vars
    <3>1. UNCHANGED <<pc, run, journals, unsettled>>
      BY <2>2 DEF vars, internal, ghosts
    <3>2. \A x : Replaced(x)' = Replaced(x)
      BY <3>1 DEF Replaced
    <3>3. \A p \in Procs : Journalled(p)' = Journalled(p) /\ Unlisted(p)' = Unlisted(p)
      BY <3>1 DEF Journalled, Unlisted
    <3>4. \A p \in Procs : Noted(p) => Noted(p)'
      BY <3>1, <3>2 DEF Noted, Targets, Target
    <3>5. \A x \in Transactions : EntryKeepsUp(x) => EntryKeepsUp(x)'
      BY <3>1, <3>2 DEF EntryKeepsUp
    <3> QED
      BY <2>1, <3>3, <3>4, <3>5 DEF KeepingUp
  <2>3. CASE Next
    BY <2>1, <2>3, NextSteps, KeepingUpStep, KeepingUpOutside
  <2> QED
    BY <2>1, <2>2, <2>3
<1> QED
  BY <1>1, <1>2, Invariant, KeepingUpIsEnough, PTL DEF Spec

-----------------------------------------------------------------------------
(* Records, backups and files, when the user leaves the targets alone while*)
(* an invocation runs (~EditsDuringRuns).                                  *)

(* One version of VibeRevert is in use, or one invocation at a time.  Of   *)
(* two versions that install beside each other the later one takes the     *)
(* earlier one's hook for the user's.                                      *)
OneVersion == \A v, w \in Values : v = w
OneProcess == \A p, r \in Procs : p = r

Merges(k) == AdapterOf[k] \in {"json", "block", "husky"}

(* What VibeRevert knows of q's origin it can rely on.                     *)
Traced(q) == q \notin touched /\ (OneVersion \/ OneProcess \/ Merged(q))

Untold(q) == \A x \in Transactions : <<x, q>> \notin unsettled

(* With record r and content c of q its origin can be given back.          *)
Returns(q, r, c) ==
    Traced(q) /\ ~HasManaged(origin[q]) =>
      /\ r.kind = "write-new" => origin[q] = Absent
      /\ r.kind \in MergeKinds =>
           /\ c # Absent
           /\ c.text = IF origin[q] = Absent THEN Nothing ELSE origin[q].text
           /\ r.created => origin[q] = Absent

(* c is what a round trip leaves of the origin.                            *)
Settles(q, c) ==
    \/ c = origin[q]
    \/ Merged(q) /\ \/ HasManaged(origin[q])
                    \/ origin[q] = Absent /\ c = Empty
                    \/ origin[q] # Absent /\ c = Merge(origin[q], Nothing)
    \/ ~Merged(q) /\ HasManaged(origin[q]) /\ c = Absent

Preparing == {"lock", "scan", "read"} \cup BeforeCommit

(* A record is of its adapter's kind, names a backup of an earlier transac-*)
(* tion, kept as the origin of q, and agrees with q once q is committed.   *)
Recorded(k, i) ==
    LET q == TargetsOf[k][i]
        r == store[k][i]
    IN  /\ r.kind \in MergeKinds <=> Merges(k)
        /\ r.backup <= begun
        /\ \A p \in Procs : pc[p] \in Preparing => r.backup # run[p].txn
        /\ r.kind = "backup-and-write" =>
              /\ Backup(k, i).there
              /\ Traced(q) => Backup(k, i).bytes = origin[q]
        /\ q \notin touched /\ Untold(q) => Matches(r.kind, files[q], r.value)
        /\ Untold(q) => Returns(q, r, files[q])

Records == \A k \in Keys : store[k] # NoRecord => \A i \in Indices(k) : Recorded(k, i)

Settled == \A q \in Paths : Traced(q) /\ ~Covered(q) => Settles(q, files[q])

(* Of an install: it merges exactly where its adapter does.                *)
Plans(p) == Active(p) /\ run[p].command = "install" =>
    \A i \in Indices(run[p].key) : run[p].plan[i].kind \in MergeKinds <=> Merges(run[p].key)

(* It never takes VibeRevert's own file for the user's: what it has found  *)
(* is still there when it reads, as long as nobody else installs.          *)
Timely(p) ==
    /\ OneProcess
    /\ pc[p] \in {"lock", "scan", "read"}
    /\ run[p].command = "install"
    => \A i \in Indices(run[p].key) :
         run[p].plan[i].kind = "backup-and-write" => ~HasManaged(files[Target(p, i)])

(* What a transaction has read and written is what is there.               *)
OnDisk(p) ==
    /\ \A i \in Indices(run[p].key) : files[Target(p, i)] =
         IF i \in run[p].toWrite THEN run[p].current[i] ELSE run[p].goal[i]
    /\ \A u \in unsettled : u[2] \in Targets(p, Indices(run[p].key) \ run[p].toWrite)

(* The backup of target i is to be written, or is there.                   *)
Saved(p, i) ==
    \/ i \in run[p].toSave
    \/ backups[run[p].txn][Target(p, i)] = [there |-> TRUE, bytes |-> run[p].current[i]]

(* What an install is going to record of target i.                         *)
Final(p, i) ==
    LET q == Target(p, i)
        r == run[p]
        f == run[p].final[i]
    IN  /\ f.kind \in MergeKinds <=> Merges(r.key)
        /\ Matches(f.kind, r.goal[i], f.value)
        /\ Returns(q, f, r.goal[i])
        /\ \/ f.backup = 0 /\ f.kind # "backup-and-write"
           \/ /\ f.backup = r.txn
              /\ f.kind = "backup-and-write"
              /\ Saved(p, i)
              /\ Traced(q) => r.current[i] = origin[q]
           \/ store[r.key] # NoRecord /\ f = store[r.key][i]

(* Text of the user's in target i survives or is saved first.              *)
Spared(p, i) ==
    LET r == run[p]
        c == run[p].current[i]
    IN  ~r.force /\ c # Absent /\ c.text # Nothing =>
          \/ r.goal[i] # Absent /\ r.goal[i].text = c.text
          \/ r.command = "install" /\ Saved(p, i)

Staged(p) ==
    /\ OnDisk(p)
    /\ run[p].command = "install" => /\ run[p].final # NoRecord
                                     /\ \A i \in Indices(run[p].key) : Final(p, i)
    /\ run[p].command = "uninstall" =>
          /\ run[p].final = NoRecord
          /\ \A i \in Indices(run[p].key) :
               Traced(Target(p, i)) => Settles(Target(p, i), run[p].goal[i])
    /\ \A i \in run[p].toWrite : Spared(p, i)

(* The backups an uninstall removes are of records that are gone.          *)
Dropping(p) ==
    /\ pc[p] = "drop" => run[p].command = "uninstall"
    /\ pc[p] \in {"done", "delete", "drop"} /\ run[p].command = "uninstall" =>
         /\ store[run[p].key] = NoRecord
         /\ DOMAIN run[p].seen[run[p].key] \subseteq Indices(run[p].key)

Working == \A p \in Procs : /\ Plans(p)
                            /\ Timely(p)
                            /\ pc[p] \in BeforeCommit => Staged(p)
                            /\ Dropping(p)

Kept == Records /\ Settled /\ Working

-----------------------------------------------------------------------------
LEMMA GeneratedType ==
    ASSUME NEW v \in Values PROVE Generated(v) \in Documents /\ Generated(v) # Absent
<1>1. Generated(v) \in Documents
  BY DEF Generated, Documents
<1> QED
  BY <1>1, AbsentAssumption

(* What an edit leaves in a file.                                          *)
LEMMA DesiredMatches ==
    ASSUME NEW op \in Ops, NEW c \in Contents
    PROVE  /\ Matches(op.kind, Desired(op, c), op.value)
           /\ Desired(op, c) # Absent
           /\ op.kind \notin WholeKinds =>
                Desired(op, c).text = IF c = Absent THEN Nothing ELSE c.text
<1>1. op.value \in Values /\ Absent \notin Documents
  BY AbsentAssumption DEF Ops
<1>2. Generated(op.value) \in Documents /\ Generated(op.value) # Absent
  BY <1>1, GeneratedType
<1>3. CASE op.kind \in WholeKinds
  BY <1>2, <1>3 DEF Matches, Desired
<1>4. CASE op.kind \notin WholeKinds /\ c = Absent
  BY <1>2, <1>4 DEF Matches, Desired, Generated
<1>5. CASE op.kind \notin WholeKinds /\ c # Absent
  <2>1. c \in Documents
    BY <1>5 DEF Contents
  <2>2. Desired(op, c) = Merge(c, op.value)
    BY <1>5 DEF Desired
  <2>3. Desired(op, c) \in Documents /\ Desired(op, c).managed = op.value
        /\ Desired(op, c).text = c.text
    BY <1>1, <2>1, <2>2 DEF Documents, Merge
  <2> QED
    BY <1>1, <1>5, <2>3 DEF Matches
<1> QED
  BY <1>3, <1>4, <1>5

(* Carried out or not, an edit leaves what it is about and spares the rest.*)
LEMMA LeavesMatches ==
    ASSUME NEW op \in Ops, NEW c \in Contents, NEW assessment,
           assessment \in Mutations \/ Matches(op.kind, c, op.value)
    PROVE  /\ Matches(op.kind, Leaves(op, c, assessment), op.value)
           /\ Leaves(op, c, assessment) # Absent
           /\ op.kind \notin WholeKinds =>
                Leaves(op, c, assessment).text = IF c = Absent THEN Nothing ELSE c.text
<1>1. CASE assessment \in Mutations
  BY <1>1, DesiredMatches DEF Leaves
<1>2. CASE assessment \notin Mutations
  <2>1. Matches(op.kind, c, op.value) /\ Leaves(op, c, assessment) = c
    BY <1>2 DEF Leaves
  <2>2. op.kind \in Kinds /\ op.value \in Values
    BY DEF Ops
  <2>3. Generated(op.value) # Absent
    BY <2>2, GeneratedType
  <2> QED
    BY <2>1, <2>3 DEF Matches
<1> QED
  BY <1>1, <1>2

(* The managed part of a file that matches a record is there.              *)
LEMMA MatchIsManaged ==
    ASSUME NEW kind \in Kinds, NEW c \in Contents, NEW v \in Values, Matches(kind, c, v)
    PROVE  /\ c # Absent
           /\ HasManaged(c)
           /\ ~Missing(kind, c)
           /\ kind \in WholeKinds => c.text = Nothing
<1>1. Generated(v) \in Documents /\ Generated(v).managed = v /\ Generated(v).text = Nothing
  BY DEF Generated, Documents
<1>2. v # Nothing /\ Absent \notin Documents
  BY NothingAssumption, AbsentAssumption
<1> QED
  BY <1>1, <1>2 DEF Matches, Missing, HasManaged

LEMMA KindsApart == \A kind \in Kinds : kind \in WholeKinds <=> kind \notin MergeKinds
BY DEF Kinds, WholeKinds, MergeKinds

(* What is decided for an edit nothing is recorded for.                    *)
LEMMA FreshRecord ==
    ASSUME NEW op \in Ops, NEW c \in Contents, NEW q \in Paths, NEW txn \in Transactions,
           origin \in [Paths -> Contents],
           op.kind \in MergeKinds <=> Merged(q),
           Traced(q) => Settles(q, c),
           ClassifyFresh(op, c) \notin Refusals
    PROVE  /\ ClassifyFresh(op, c) \in Mutations \/ Matches(op.kind, c, op.value)
           /\ Returns(q, RecordOf(op, c, txn), Leaves(op, c, ClassifyFresh(op, c)))
           /\ op.kind = "backup-and-write" /\ Traced(q) => c = origin[q]
<1> DEFINE goal == Leaves(op, c, ClassifyFresh(op, c))
           new == RecordOf(op, c, txn)
<1>1. ClassifyFresh(op, c) \in Mutations \/ Matches(op.kind, c, op.value)
  BY DEF ClassifyFresh, Refusals, Mutations
<1>2. /\ goal # Absent
      /\ op.kind \notin WholeKinds => goal.text = IF c = Absent THEN Nothing ELSE c.text
  BY <1>1, LeavesMatches
<1> HIDE DEF goal
<1>3. op.kind \in Kinds /\ op.value \in Values
  BY DEF Ops
<1>4. /\ new.kind = op.kind
      /\ new.created => op.kind \in MergeKinds /\ c = Absent
  BY DEF RecordOf, MergeKinds
<1> HIDE DEF new
<1>5. op.kind = "backup-and-write" => c # Absent
  BY DEF ClassifyFresh, Refusals
<1>6. op.kind = "write-new" => c = Absent \/ HasManaged(c)
  <2>1. op.kind = "write-new" => c = Absent \/ Matches(op.kind, c, op.value)
    BY DEF ClassifyFresh, Refusals
  <2> QED
    BY <1>3, <2>1, MatchIsManaged
<1>7. ASSUME Traced(q), ~HasManaged(origin[q]), op.kind \in MergeKinds
      PROVE  /\ goal.text = IF origin[q] = Absent THEN Nothing ELSE origin[q].text
             /\ c = Absent => origin[q] = Absent
  <2>1. \/ c = origin[q]
        \/ origin[q] = Absent /\ c = Empty
        \/ origin[q] # Absent /\ c = Merge(origin[q], Nothing)
    BY <1>7 DEF Settles
  <2>2. Empty \in Documents /\ Empty.text = Nothing
    BY DEF Empty, Documents
  <2>3. origin[q] # Absent => /\ Merge(origin[q], Nothing) \in Documents
                              /\ Merge(origin[q], Nothing).text = origin[q].text
    BY DEF Merge, Contents, Documents
  <2> QED
    BY <1>2, <1>3, <1>7, <2>1, <2>2, <2>3, KindsApart, AbsentAssumption
<1>8. op.kind \notin MergeKinds /\ Traced(q) =>
        c = origin[q] \/ (HasManaged(origin[q]) /\ c = Absent)
  BY DEF Settles
<1>9. op.kind = "write-new" \/ op.kind = "backup-and-write" => op.kind \notin MergeKinds
  BY DEF MergeKinds
<1>10. Traced(q) /\ ~HasManaged(origin[q]) =>
         /\ op.kind = "write-new" => origin[q] = Absent
         /\ op.kind \in MergeKinds =>
              /\ goal # Absent
              /\ goal.text = IF origin[q] = Absent THEN Nothing ELSE origin[q].text
              /\ c = Absent => origin[q] = Absent
  BY <1>2, <1>6, <1>7, <1>8, <1>9
<1>11. Returns(q, new, goal)
  BY <1>4, <1>10 DEF Returns
<1>12. op.kind = "backup-and-write" /\ Traced(q) => c = origin[q]
  BY <1>5, <1>8, <1>9
<1> QED
  BY <1>1, <1>11, <1>12 DEF goal, new

(* What is decided for an edit recorded as r.                              *)
LEMMA NextRecord ==
    ASSUME NEW op \in Ops, NEW c \in Contents, NEW q \in Paths, NEW txn \in Transactions,
           NEW r \in RecordOps, NEW force \in BOOLEAN,
           op.kind \in MergeKinds <=> Merged(q),
           q \notin touched => Matches(r.kind, c, r.value),
           Returns(q, r, c),
           OneProcess /\ op.kind = "backup-and-write" => ~HasManaged(c),
           ClassifyRecorded(op, r, c, force) \notin Refusals
    PROVE  LET judged == ClassifyRecorded(op, r, c, force)
           IN  /\ judged \in Mutations \/ Matches(op.kind, c, op.value)
               /\ IF judged = "noop"
                  THEN /\ Leaves(op, c, judged) = c
                       /\ Matches(r.kind, c, r.value)
                       /\ Returns(q, r, c)
                  ELSE /\ Returns(q, RecordOf(op, c, txn), Leaves(op, c, judged))
                       /\ op.kind = "backup-and-write" => ~Traced(q)
<1>1. op.kind \in Kinds /\ op.value \in Values /\ r.value \in Values
  BY DEF Ops, RecordOps
<1>2. r.kind = op.kind
  BY DEF ClassifyRecorded, Refusals
<1>3. CASE ClassifyRecorded(op, r, c, force) = "noop"
  <2>1. Matches(op.kind, c, op.value) /\ op.value = r.value
    BY <1>3 DEF ClassifyRecorded, Refusals
  <2>2. Leaves(op, c, ClassifyRecorded(op, r, c, force)) = c
    BY <1>3 DEF Leaves, Mutations
  <2> QED
    BY <1>2, <1>3, <2>1, <2>2
<1>4. CASE ClassifyRecorded(op, r, c, force) # "noop"
  <2>1. /\ RecordOf(op, c, txn).kind = op.kind
        /\ RecordOf(op, c, txn).created => c = Absent
    BY DEF RecordOf
  <2>0. ClassifyRecorded(op, r, c, force) \in Mutations
    BY <1>4 DEF ClassifyRecorded, Refusals, Mutations
  <2>2. Returns(q, RecordOf(op, c, txn), Leaves(op, c, ClassifyRecorded(op, r, c, force)))
    <3> DEFINE goal == Leaves(op, c, ClassifyRecorded(op, r, c, force))
    <3>1. op.kind \in MergeKinds => op.kind \notin WholeKinds
      BY <1>1, KindsApart
    <3>2. /\ goal # Absent
          /\ op.kind \notin WholeKinds => goal.text = IF c = Absent THEN Nothing ELSE c.text
      BY <2>0, LeavesMatches
    <3> HIDE DEF goal
    <3>3. ASSUME Traced(q), ~HasManaged(origin[q])
          PROVE  /\ op.kind = "write-new" => origin[q] = Absent
                 /\ op.kind \in MergeKinds =>
                      /\ goal # Absent
                      /\ goal.text = IF origin[q] = Absent THEN Nothing ELSE origin[q].text
                      /\ c # Absent
      BY <1>2, <3>1, <3>2, <3>3 DEF Returns
    <3> QED
      BY <2>1, <3>3 DEF Returns, goal
  <2>3. ASSUME op.kind = "backup-and-write" PROVE ~Traced(q)
    <3>1. ~Merged(q)
      BY <2>3 DEF MergeKinds
    <3>2. ASSUME Traced(q) PROVE FALSE
      <4>1. Matches(op.kind, c, r.value)
        BY <1>2, <3>2 DEF Traced
      <4>2. HasManaged(c)
        BY <1>1, <4>1, MatchIsManaged
      <4>3. op.value = r.value
        BY <1>1, <2>3, <3>1, <3>2, <4>2 DEF Traced, OneVersion
      <4> QED
        BY <1>2, <1>4, <4>1, <4>3 DEF ClassifyRecorded
    <3> QED
      BY <3>2
  <2> QED
    BY <1>4, <2>0, <2>2, <2>3
<1> QED
  BY <1>3, <1>4

(* An uninstall gives the origin back.                                     *)
LEMMA ReversedSettles ==
    ASSUME NEW r \in RecordOps, NEW c \in Contents, NEW q \in Paths, NEW bytes,
           NEW there, NEW force, origin \in [Paths -> Contents],
           r.kind \in MergeKinds <=> Merged(q),
           Matches(r.kind, c, r.value), Returns(q, r, c), Traced(q),
           r.kind = "backup-and-write" => bytes = origin[q]
    PROVE  /\ ClassifyReverse(r, c, there, force) # "skip"
           /\ Settles(q, Reversed(r, c, bytes))
<1>1. r.kind \in Kinds /\ r.value \in Values
  BY DEF RecordOps
<1>2. c # Absent /\ ~Missing(r.kind, c) /\ c \in Documents
  BY <1>1, MatchIsManaged DEF Contents
<1>3. CASE r.kind = "write-new"
  <2>1. ~Merged(q) /\ Reversed(r, c, bytes) = Absent
    BY <1>3 DEF MergeKinds, Reversed
  <2> QED
    BY <1>2, <1>3, <2>1 DEF Returns, Settles, ClassifyReverse
<1>4. CASE r.kind = "backup-and-write"
  <2>1. Reversed(r, c, bytes) = bytes
    BY <1>4 DEF Reversed
  <2> QED
    BY <1>2, <1>4, <2>1 DEF Settles, ClassifyReverse
<1>5. CASE r.kind \in MergeKinds
  <2>1. \/ Reversed(r, c, bytes) = Merge(c, Nothing)
        \/ Reversed(r, c, bytes) = Absent /\ r.created
    BY <1>5 DEF Reversed, MergeKinds
  <2>2. ASSUME ~HasManaged(origin[q])
        PROVE  \/ Reversed(r, c, bytes) = origin[q]
               \/ origin[q] = Absent /\ Reversed(r, c, bytes) = Empty
               \/ origin[q] # Absent /\ Reversed(r, c, bytes) = Merge(origin[q], Nothing)
    <3>1. /\ c.text = IF origin[q] = Absent THEN Nothing ELSE origin[q].text
          /\ r.created => origin[q] = Absent
      BY <1>5, <2>2 DEF Returns
    <3>2. CASE origin[q] = Absent
      BY <2>1, <3>1, <3>2 DEF Merge, Empty
    <3>3. CASE origin[q] # Absent
      BY <2>1, <3>1, <3>3 DEF Merge
    <3> QED
      BY <3>2, <3>3
  <2> QED
    BY <1>2, <1>5, <2>2 DEF Settles, ClassifyReverse
<1> QED
  BY <1>1, <1>3, <1>4, <1>5 DEF Kinds, WholeKinds

(* No edit that is not forced destroys text of the user's it does not save.*)
LEMMA InstallSpares ==
    ASSUME NEW op \in Ops, NEW c \in Contents, NEW assessment \in Mutations,
           \/ assessment = ClassifyFresh(op, c)
           \/ \E r \in RecordOps : assessment = ClassifyRecorded(op, r, c, FALSE),
           c # Absent, c.text # Nothing
    PROVE  \/ Desired(op, c) # Absent /\ Desired(op, c).text = c.text
           \/ NeedsBackup(op, assessment)
<1>1. op.kind \in Kinds /\ op.value \in Values
  BY DEF Ops
<1>2. CASE op.kind \in MergeKinds
  BY <1>1, <1>2, DesiredMatches, KindsApart
<1>3. CASE op.kind = "backup-and-write"
  BY <1>3 DEF NeedsBackup
<1>4. CASE op.kind = "write-new"
  <2>1. assessment # ClassifyFresh(op, c)
    BY <1>4 DEF ClassifyFresh, Mutations
  <2>2. PICK r \in RecordOps : assessment = ClassifyRecorded(op, r, c, FALSE)
    BY <2>1
  <2>3. Matches(op.kind, c, r.value) /\ r.value \in Values
    BY <2>2 DEF ClassifyRecorded, Mutations, RecordOps
  <2> QED
    BY <1>1, <1>4, <2>3, MatchIsManaged DEF WholeKinds
<1> QED
  BY <1>1, <1>2, <1>3, <1>4 DEF Kinds, WholeKinds

LEMMA UninstallSpares ==
    ASSUME NEW r \in RecordOps, NEW c \in Contents, NEW bytes, NEW there,
           ClassifyReverse(r, c, there, FALSE) = "reverse",
           c # Absent, c.text # Nothing
    PROVE  Reversed(r, c, bytes) # Absent /\ Reversed(r, c, bytes).text = c.text
<1>1. r.kind \in Kinds /\ r.value \in Values /\ c \in Documents
  BY DEF RecordOps, Contents
<1>2. Matches(r.kind, c, r.value)
  BY DEF ClassifyReverse
<1>3. r.kind \in MergeKinds
  BY <1>1, <1>2, MatchIsManaged DEF Kinds
<1>4. r.kind = "json-key-merge" \/ r.kind = "sentinel-block-insert"
  BY <1>3 DEF MergeKinds
<1>5. Reversed(r, c, bytes) = Merge(c, Nothing)
  BY <1>4 DEF Reversed
<1>6. Merge(c, Nothing) \in Documents /\ Merge(c, Nothing).text = c.text
  BY <1>1 DEF Merge, Documents
<1> QED
  BY <1>5, <1>6, AbsentAssumption

(* A target is of one edit of one key.                                     *)
LEMMA OneTarget ==
    ASSUME NEW k \in Keys, NEW l \in Keys, NEW i \in Indices(k), NEW j \in Indices(l),
           TargetsOf[k][i] = TargetsOf[l][j]
    PROVE  k = l /\ i = j
BY KeysAssumption DEF Indices

LEMMA MergedTarget ==
    ASSUME NEW k \in Keys, NEW i \in Indices(k)
    PROVE  Merged(TargetsOf[k][i]) <=> Merges(k)
BY OneTarget DEF Merged, Merges

LEMMA CoveredTarget ==
    ASSUME NEW k \in Keys, NEW i \in Indices(k)
    PROVE  Covered(TargetsOf[k][i]) <=> store[k] # NoRecord \/ ~Untold(TargetsOf[k][i])
BY OneTarget DEF Covered, Untold

LEMMA SomeTarget == ASSUME NEW k \in Keys PROVE Indices(k) # {}
<1>1. TargetsOf[k] \in Seq(Paths) /\ TargetsOf[k] # <<>>
  BY KeysAssumption
<1>2. Len(TargetsOf[k]) \in Nat /\ Len(TargetsOf[k]) # 0
  BY <1>1, EmptySeq
<1>3. DOMAIN TargetsOf[k] = 1..Len(TargetsOf[k])
  BY <1>1
<1> QED
  BY <1>2, <1>3 DEF Indices

(* What an install decides of each target, by what it has read.            *)
InstallJudged(p, i) ==
    IF store[run[p].key] = NoRecord
    THEN ClassifyFresh(run[p].plan[i], files[Target(p, i)])
    ELSE ClassifyRecorded(run[p].plan[i], store[run[p].key][i], files[Target(p, i)],
                          run[p].force)

LEMMA InstallDecides ==
    ASSUME TypeOK, Numbered, Shaped, NEW p \in Procs, ReadForInstall(p), pc'[p] \in Deciding
    PROVE  /\ run[p].key \in Keys /\ run'[p].key = run[p].key
           /\ run'[p].command = "install" /\ run'[p].txn = run[p].txn
           /\ run'[p].force = run[p].force
           /\ run'[p].final # NoRecord
           /\ \A i \in Indices(run[p].key) :
                LET op == run[p].plan[i]
                    c == files[Target(p, i)]
                IN  /\ InstallJudged(p, i) \notin Refusals
                    /\ run'[p].current[i] = c
                    /\ run'[p].goal[i] = Leaves(op, c, InstallJudged(p, i))
                    /\ run'[p].final[i] = IF InstallJudged(p, i) = "noop"
                                          THEN store[run[p].key][i]
                                          ELSE RecordOf(op, c, run[p].txn)
                    /\ i \in run'[p].toWrite <=> InstallJudged(p, i) \in Mutations
                    /\ i \in run'[p].toSave <=> NeedsBackup(op, InstallJudged(p, i))
<1> DEFINE k == run[p].key
           plan == run[p].plan
           now == Current(k)
           judged == [i \in Indices(k) |->
                        IF store[k] = NoRecord
                        THEN ClassifyFresh(plan[i], now[i])
                        ELSE ClassifyRecorded(plan[i], store[k][i], now[i], run[p].force)]
           goal == [i \in Indices(k) |-> Leaves(plan[i], now[i], judged[i])]
           final == [i \in Indices(k) |->
                       IF judged[i] = "noop" THEN store[k][i]
                       ELSE RecordOf(plan[i], now[i], run[p].txn)]
           writes == {i \in Indices(k) : judged[i] \in Mutations}
           saves == {i \in Indices(k) : NeedsBackup(plan[i], judged[i])}
<1>1. pc[p] = "read" /\ run[p] \in Runs /\ run[p].command = "install" /\ k \in Keys
  BY DEF ReadForInstall, TypeOK, Numbered, Active
<1>2. ~\E result : Report(p, result)
  BY DEF Report, Goto, TypeOK, Deciding
<1>3. Decide(p, goal, final, writes, saves) /\ \A i \in Indices(k) : judged[i] \notin Refusals
  BY <1>2 DEF ReadForInstall
<1>4. \A i \in Indices(k) : now[i] = files[Target(p, i)] /\ judged[i] = InstallJudged(p, i)
  BY DEF Current, Target, InstallJudged
<1>5. final # NoRecord
  <2>1. DOMAIN final = Indices(k)
    OBVIOUS
  <2>2. DOMAIN NoRecord = {}
    BY DEF NoRecord
  <2> QED
    BY <1>1, <2>1, <2>2, SomeTarget
<1>6. /\ run'[p].key = k /\ run'[p].command = run[p].command /\ run'[p].txn = run[p].txn
      /\ run'[p].force = run[p].force /\ run'[p].current = now /\ run'[p].goal = goal
      /\ run'[p].final = final /\ run'[p].toWrite = writes /\ run'[p].toSave = saves
  <2> HIDE DEF now, goal, final, writes, saves
  <2> QED
    BY <1>1, <1>3 DEF Decide, TypeOK, Runs, now
<1>7. ASSUME NEW i \in Indices(k)
      PROVE  /\ goal[i] = Leaves(plan[i], now[i], judged[i])
             /\ final[i] = IF judged[i] = "noop" THEN store[k][i]
                           ELSE RecordOf(plan[i], now[i], run[p].txn)
             /\ i \in writes <=> judged[i] \in Mutations
             /\ i \in saves <=> NeedsBackup(plan[i], judged[i])
  OBVIOUS
<1> HIDE DEF now, judged, goal, final, writes, saves
<1>8. ASSUME NEW i \in Indices(k)
      PROVE  LET op == plan[i]
                 c == files[Target(p, i)]
             IN  /\ InstallJudged(p, i) \notin Refusals
                 /\ run'[p].current[i] = c
                 /\ run'[p].goal[i] = Leaves(op, c, InstallJudged(p, i))
                 /\ run'[p].final[i] = IF InstallJudged(p, i) = "noop" THEN store[k][i]
                                       ELSE RecordOf(op, c, run[p].txn)
                 /\ i \in run'[p].toWrite <=> InstallJudged(p, i) \in Mutations
                 /\ i \in run'[p].toSave <=> NeedsBackup(op, InstallJudged(p, i))
  BY <1>3, <1>4, <1>6, <1>7
<1> QED
  BY <1>1, <1>5, <1>6, <1>8

(* What an uninstall decides.                                              *)
UninstallJudged(p, i) ==
    ClassifyReverse(store[run[p].key][i], files[Target(p, i)],
                    Backup(run[p].key, i).there, run[p].force)

LEMMA UninstallDecides ==
    ASSUME TypeOK, Numbered, Shaped, NEW p \in Procs, ReadForUninstall(p),
           pc'[p] \in Deciding
    PROVE  /\ run[p].key \in Keys /\ run'[p].key = run[p].key
           /\ run'[p].command = "uninstall" /\ run'[p].txn = run[p].txn
           /\ run'[p].force = run[p].force
           /\ store[run[p].key] # NoRecord /\ run'[p].final = NoRecord
           /\ \A i \in Indices(run[p].key) :
                LET c == files[Target(p, i)]
                IN  /\ UninstallJudged(p, i) \in {"skip", "reverse"}
                    /\ run'[p].current[i] = c
                    /\ i \in run'[p].toWrite <=> UninstallJudged(p, i) # "skip"
                    /\ run'[p].goal[i] =
                         IF UninstallJudged(p, i) # "skip"
                         THEN Reversed(store[run[p].key][i], c, Backup(run[p].key, i).bytes)
                         ELSE c
<1> DEFINE k == run[p].key
           now == Current(k)
           judged == [i \in Indices(k) |->
                        ClassifyReverse(store[k][i], now[i], Backup(k, i).there,
                                        run[p].force)]
           writes == {i \in Indices(k) : judged[i] # "skip"}
           refused == {i \in Indices(k) : judged[i] \in {"no_backup", "drift"}}
           goal == [i \in Indices(k) |->
                      IF i \in writes
                      THEN Reversed(store[k][i], now[i], Backup(k, i).bytes)
                      ELSE now[i]]
<1>1. pc[p] = "read" /\ run[p] \in Runs /\ run[p].command = "uninstall" /\ k \in Keys
  BY DEF ReadForUninstall, TypeOK, Numbered, Active
<1>2. ~\E result : Report(p, result)
  BY DEF Report, Goto, TypeOK, Deciding
<1>3. /\ Decide(p, goal, NoRecord, writes, {})
      /\ store[k] # NoRecord
      /\ refused = {}
  BY <1>2 DEF ReadForUninstall
<1>4. \A i \in Indices(k) : now[i] = files[Target(p, i)] /\ judged[i] = UninstallJudged(p, i)
  BY DEF Current, Target, UninstallJudged
<1>5. \A i \in Indices(k) : judged[i] \in {"skip", "reverse"}
  BY <1>3 DEF ClassifyReverse
<1>6. /\ run'[p].key = k /\ run'[p].command = run[p].command /\ run'[p].txn = run[p].txn
      /\ run'[p].force = run[p].force /\ run'[p].current = now /\ run'[p].goal = goal
      /\ run'[p].final = NoRecord /\ run'[p].toWrite = writes
  <2> HIDE DEF now, goal, writes
  <2> QED
    BY <1>1, <1>3 DEF Decide, TypeOK, Runs, now
<1>7. \A i \in Indices(k) : /\ i \in writes <=> judged[i] # "skip"
                            /\ goal[i] = IF i \in writes
                                         THEN Reversed(store[k][i], now[i], Backup(k, i).bytes)
                                         ELSE now[i]
  OBVIOUS
<1> HIDE DEF now, judged, writes, refused, goal
<1> QED
  BY <1>1, <1>3, <1>4, <1>5, <1>6, <1>7

-----------------------------------------------------------------------------
(* Who changes the files, the backups and the records.                     *)
LEMMA DiskStep ==
    ASSUME NEW p \in Procs, StepOf(p)
    PROVE  /\ origin' = origin /\ touched' = touched
           /\ \/ UNCHANGED <<store, backups, files, unsettled>>
              \/ \E i \in run[p].toSave : SaveTarget(p, i)
              \/ \E i \in run[p].toWrite : WriteTarget(p, i)
              \/ Commit(p) \/ DropBackups(p)
<1>1. ASSUME NEW k \in Keys, NEW force \in BOOLEAN,
             (\E v \in Values : BeginInstall(p, k, force, v)) \/ BeginUninstall(p, k, force)
      PROVE  UNCHANGED <<store, backups, files, unsettled, origin, touched>>
  BY <1>1 DEF BeginInstall, BeginUninstall, internal, ghosts
<1>2. ASSUME AcquireLock(p) \/ LockHeld(p) \/ Scan(p) \/ ReadForInstall(p)
             \/ ReadForUninstall(p) \/ Throw(p) \/ Release(p) \/ ReleaseFails(p)
             \/ TearJournal(p) \/ Crash(p)
      PROVE  UNCHANGED <<store, backups, files, unsettled, origin, touched>>
  BY <1>2 DEF AcquireLock, LockHeld, Scan, ReadForInstall, ReadForUninstall, Throw,
     Release, ReleaseFails, TearJournal, Crash, internal, ghosts
<1>3. ASSUME JournalWrite(p)
      PROVE  UNCHANGED <<store, backups, files, unsettled, origin, touched>>
  BY <1>3 DEF JournalWrite, WriteJournal, NoteSave, NoteWrite, SetPhase, MarkDone,
     DeleteJournal, ghosts
<1>4. ASSUME Commit(p) \/ DropBackups(p) \/ (\E i \in run[p].toSave : SaveTarget(p, i))
             \/ (\E i \in run[p].toWrite : WriteTarget(p, i))
      PROVE  origin' = origin /\ touched' = touched
  BY <1>4 DEF Commit, DropBackups, SaveTarget, WriteTarget, ghosts
<1> QED
  BY <1>1, <1>2, <1>3, <1>4 DEF StepOf, Proceed, Transact, JournalWrite

LEMMA OutsideDisk ==
    Outside => \/ UNCHANGED <<pc, run, begun, store, backups, unsettled, files, origin, touched>>
               \/ \E q \in Paths, c \in EditFiles : UserEdits(q, c)
BY DEF Outside, RemoveStaleLock, RemoveDoneJournal, ghosts, internal

(* A transaction that prepares its commit was doing so, or has just begun. *)
LEMMA PreparingStep ==
    ASSUME TypeOK, NEW p \in Procs, StepOf(p), pc'[p] \in Preparing
    PROVE  Begins(p) \/ (pc[p] \in Preparing /\ run'[p].txn = run[p].txn /\ begun' = begun)
<1> USE DEF TypeOK, Goto, Preparing, BeforeCommit, Deciding
<1>1. ASSUME NEW k \in Keys, NEW force \in BOOLEAN,
             (\E v \in Values : BeginInstall(p, k, force, v)) \/ BeginUninstall(p, k, force)
      PROVE  Begins(p)
  BY <1>1, Beginning
<1>2. ~LockHeld(p) /\ ~Crash(p) /\ ~Throw(p) /\ ~TearJournal(p)
  BY DEF LockHeld, Crash, Throw, TearJournal, Report
<1>3. ~Commit(p) /\ ~MarkDone(p) /\ ~DeleteJournal(p) /\ ~DropBackups(p)
  BY DEF Commit, MarkDone, DeleteJournal, DropBackups
<1>4. ASSUME Release(p) \/ ReleaseFails(p) PROVE Begins(p)
  <2>1. EndRun(p)
    BY <1>4 DEF Release, ReleaseFails
  <2>2. begun' # begun
    <3>1. begun \in Nat
      BY MaxTransactionsAssumption
    <3>2. pc' # [pc EXCEPT ![p] = "idle"]
      OBVIOUS
    <3>3. pc' = [pc EXCEPT ![p] = "idle"] \/ begun' = begun + 1
      BY <2>1, Zenon DEF EndRun
    <3> QED
      BY <3>1, <3>2, <3>3
  <2> QED
    BY <2>1, <2>2, Beginning
<1>5. AcquireLock(p) \/ Scan(p) \/ ReadForInstall(p) \/ ReadForUninstall(p) =>
        pc[p] \in Preparing
  BY DEF AcquireLock, Scan, ReadForInstall, ReadForUninstall
<1>6. WriteJournal(p) \/ NoteSave(p) \/ NoteWrite(p) \/ SetPhase(p) => pc[p] \in Preparing
  BY DEF WriteJournal, NoteSave, NoteWrite, SetPhase
<1>7. \A i : SaveTarget(p, i) \/ WriteTarget(p, i) => pc[p] \in Preparing
  BY DEF SaveTarget, WriteTarget
<1>8. Begins(p) \/ pc[p] \in Preparing
  BY <1>1, <1>2, <1>3, <1>4, <1>5, <1>6, <1>7 DEF StepOf, Proceed, Transact
<1>9. Continues(p) => run'[p].txn = run[p].txn /\ begun' = begun
  BY DEF Continues
<1> QED
  BY <1>8, <1>9, Stepping

(* A record goes on to name an earlier transaction.                        *)
LEMMA EarlierStays ==
    ASSUME TypeOK, NEW p \in Procs, StepOf(p), NEW x \in Nat, x <= begun,
           \A r \in Procs : pc[r] \in Preparing => x # run[r].txn
    PROVE  /\ x <= begun'
           /\ \A r \in Procs : pc'[r] \in Preparing => x # run'[r].txn
<1>1. begun \in Nat
  BY MaxTransactionsAssumption DEF TypeOK
<1>2. begun' = begun \/ begun' = begun + 1
  BY Stepping DEF Continues, Begins
<1>3. ASSUME NEW r \in Procs, r # p, pc'[r] \in Preparing PROVE x # run'[r].txn
  BY <1>3, Stepping DEF Continues, Begins, Others
<1>4. ASSUME pc'[p] \in Preparing PROVE x # run'[p].txn
  <2>1. CASE Begins(p)
    BY <1>1, <2>1 DEF Begins
  <2> QED
    BY <1>4, <2>1, PreparingStep
<1> QED
  BY <1>1, <1>2, <1>3, <1>4

LEMMA RecordedStays ==
    ASSUME Typed, NEW p \in Procs, StepOf(p), NEW k \in Keys, NEW i \in Indices(k),
           store[k] # NoRecord, Recorded(k, i), store'[k] = store[k],
           store[k][i].kind = "backup-and-write" => Backup(k, i)' = Backup(k, i),
           Untold(TargetsOf[k][i])' =>
             /\ Untold(TargetsOf[k][i])
             /\ files'[TargetsOf[k][i]] = files[TargetsOf[k][i]]
    PROVE  Recorded(k, i)'
<1> USE DEF Typed
<1> DEFINE q == TargetsOf[k][i]
           r == store[k][i]
<1>1. touched' = touched /\ origin' = origin
  BY DiskStep
<1>2. store'[k][i] = r /\ r \in RecordOps
  BY Element DEF Shaped, TypeOK
<1>3. r.backup \in Nat
  BY <1>2, MaxTransactionsAssumption DEF RecordOps
<1>4. r.backup <= begun /\ \A s \in Procs : pc[s] \in Preparing => r.backup # run[s].txn
  BY DEF Recorded
<1>5. r.backup <= begun' /\ \A s \in Procs : pc'[s] \in Preparing => r.backup # run'[s].txn
  BY <1>3, <1>4, EarlierStays
<1>6. Merges(k)' = Merges(k) /\ Traced(q)' = Traced(q)
  BY <1>1 DEF Merges, Traced, Merged
<1>7. r.kind = "backup-and-write" => /\ Backup(k, i)'.there
                                     /\ Traced(q)' => Backup(k, i)'.bytes = origin'[q]
  BY <1>1, <1>6 DEF Recorded
<1>8. Untold(q)' => /\ q \notin touched' => Matches(r.kind, files'[q], r.value)
                    /\ Returns(q, r, files'[q])
  BY <1>1 DEF Recorded
<1>9. ASSUME NEW c, Returns(q, r, c)
      PROVE  Traced(q)' /\ ~HasManaged(origin'[q]) =>
               /\ r.kind = "write-new" => origin'[q] = Absent
               /\ r.kind \in MergeKinds =>
                    /\ c # Absent
                    /\ c.text = IF origin'[q] = Absent THEN Nothing ELSE origin'[q].text
                    /\ r.created => origin'[q] = Absent
  BY <1>1, <1>6, <1>9 DEF Returns
<1> QED
  <2>1. r.kind \in MergeKinds <=> Merges(k)
    BY DEF Recorded
  <2> HIDE DEF q, r
  <2> QED
    BY <1>2, <1>5, <1>6, <1>7, <1>8, <1>9, <2>1 DEF Recorded, Returns, q, r

(* What a transaction at work can rely on.                                 *)
LEMMA AtWork ==
    ASSUME Inv, Kept, NEW p \in Procs, pc[p] \in BeforeCommit
    PROVE  /\ Staged(p) /\ Plans(p) /\ Active(p) /\ Inside(p)
           /\ pc[p] \in Deciding /\ pc[p] \in Preparing
           /\ run[p] \in Runs /\ run[p].key \in Keys /\ run[p].txn \in Transactions
           /\ run[p].txn \in 1..begun /\ run[p].seen = store
           /\ run[p].command \in {"install", "uninstall"}
           /\ run[p].toWrite \subseteq Indices(run[p].key)
           /\ run[p].toSave \subseteq Indices(run[p].key)
<1>1. pc[p] \in Deciding /\ pc[p] \in Preparing /\ Active(p) /\ Inside(p)
  BY DEF BeforeCommit, Preparing, Active, Deciding, Inside
<1>2. /\ run[p].txn \in 1..begun /\ run[p].key \in Keys
      /\ run[p].command \in {"install", "uninstall"}
  BY <1>1 DEF Inv, Typed, Numbered
<1>3. /\ run[p].toWrite \subseteq Indices(run[p].key)
      /\ run[p].toSave \subseteq Indices(run[p].key)
  BY <1>1 DEF Inv, Typed, Shaped
<1>4. Staged(p) /\ Plans(p)
  BY DEF Kept, Working
<1>5. run[p].seen = store
  BY DEF Inv, Exclusive
<1>6. run[p] \in Runs /\ run[p].txn \in Transactions
  BY <1>1, DecidingTyped DEF Inv, Typed
<1> QED
  BY <1>1, <1>2, <1>3, <1>4, <1>5, <1>6

(* A commit settles what its transaction has replaced, and nothing else.   *)
LEMMA CommitSettles ==
    ASSUME Inv, Kept, NEW p \in Procs, Commit(p)
    PROVE  /\ store' = [store EXCEPT ![run[p].key] = run[p].final]
           /\ backups' = backups /\ files' = files /\ begun' = begun
           /\ pc'[p] \in {"done", "release"}
           /\ run'[p] = [run[p] EXCEPT !.outcome = IF run[p].command = "install"
                                                   THEN "applied" ELSE "uninstalled"]
           /\ \A q \in Paths : Untold(q) => Untold(q)'
           /\ \A k \in Keys : \A i \in Indices(k) :
                k # run[p].key => Untold(TargetsOf[k][i])
<1>1. pc[p] \in BeforeCommit
  BY DEF Commit, BeforeCommit, Deciding
<1>2. run[p].seen = store /\ OnDisk(p) /\ run[p].key \in Keys
      /\ run[p].toWrite \subseteq Indices(run[p].key)
  BY <1>1, AtWork DEF Staged
<1>3. unsettled' \subseteq unsettled
  BY DEF Commit
<1>4. \A q \in Paths : Untold(q) => Untold(q)'
  BY <1>3 DEF Untold
<1>5. ASSUME NEW k \in Keys, NEW i \in Indices(k), k # run[p].key
      PROVE  Untold(TargetsOf[k][i])
  <2>1. SUFFICES ASSUME NEW x \in Transactions, <<x, TargetsOf[k][i]>> \in unsettled
                 PROVE  FALSE
    BY DEF Untold
  <2>2. TargetsOf[k][i] \in Targets(p, Indices(run[p].key) \ run[p].toWrite)
    BY <1>2, <2>1 DEF OnDisk
  <2>3. PICK j \in Indices(run[p].key) : TargetsOf[k][i] = TargetsOf[run[p].key][j]
    BY <2>2 DEF Targets, Target
  <2> QED
    BY <1>2, <1>5, <2>3, OneTarget
<1>6. /\ store' = [run[p].seen EXCEPT ![run[p].key] = run[p].final]
      /\ backups' = backups /\ files' = files /\ begun' = begun
  BY DEF Commit
<1>7. pc'[p] \in {"done", "release"}
  BY DEF Commit, Goto, Inv, Typed, TypeOK
<1>8. run'[p] = [run[p] EXCEPT !.outcome = IF run[p].command = "install"
                                           THEN "applied" ELSE "uninstalled"]
  BY DEF Commit, Inv, Typed, TypeOK
<1> QED
  BY <1>2, <1>4, <1>5, <1>6, <1>7, <1>8

(* The record an install commits.                                          *)
LEMMA CommitRecords ==
    ASSUME Inv, Ordered, Kept, NEW p \in Procs, Commit(p), StepOf(p),
           run[p].command = "install", NEW i \in Indices(run[p].key)
    PROVE  \A k \in Keys : k = run[p].key => Recorded(k, i)'
<1> SUFFICES ASSUME NEW k \in Keys, k = run[p].key PROVE Recorded(k, i)'
  OBVIOUS
<1> DEFINE q == TargetsOf[k][i]
           f == run[p].final[i]
<1>1. pc[p] = "commit" /\ pc[p] \in BeforeCommit
  BY DEF Commit, BeforeCommit, Deciding
<1>2. run[p].toSave = {} /\ run[p].toWrite = {}
  BY <1>1 DEF Ordered, InOrder
<1>3. /\ Final(p, i) /\ run[p].final # NoRecord /\ OnDisk(p)
      /\ run[p].txn \in 1..begun /\ run[p].txn \in Transactions /\ run[p] \in Runs
  BY <1>1, AtWork DEF Staged
<1>4. f \in RecordOps
  <2>1. DOMAIN run[p].final = Indices(run[p].key)
    BY <1>1, <1>3 DEF Inv, Typed, Shaped, Deciding
  <2>2. run[p].final \in Seq(RecordOps)
    BY <1>3 DEF Runs
  <2> QED
    BY <2>1, <2>2, Element
<1>5. q = Target(p, i) /\ files[q] = run[p].goal[i] /\ q \in Paths
  BY <1>2, <1>3, Targeted DEF OnDisk, Target
<1>6. /\ f.kind \in MergeKinds <=> Merges(k)
      /\ Matches(f.kind, files[q], f.value)
      /\ Returns(q, f, files[q])
  BY <1>3, <1>5 DEF Final
<1>7. /\ f.backup \in Nat /\ f.backup <= begun
      /\ \A r \in Procs \ {p} : pc[r] \in Preparing => f.backup # run[r].txn
      /\ f.kind = "backup-and-write" =>
           LET b == IF f.backup = 0 THEN Unsaved ELSE backups[f.backup][q]
           IN  b.there /\ (Traced(q) => b.bytes = origin[q])
  <2>0. begun \in Nat /\ \A r \in Procs : pc[r] \in Preparing => Active(r) /\ run[r].txn \in 1..begun
    BY MaxTransactionsAssumption DEF Preparing, BeforeCommit, Active, Deciding, Inv, Typed,
       Numbered, TypeOK
  <2>1. CASE f.backup = 0 /\ f.kind # "backup-and-write"
    BY <2>0, <2>1
  <2>2. CASE /\ f.backup = run[p].txn
             /\ f.kind = "backup-and-write"
             /\ Saved(p, i)
             /\ Traced(q) => run[p].current[i] = origin[q]
    <3>1. backups[f.backup][q] = [there |-> TRUE, bytes |-> run[p].current[i]]
      BY <1>2, <1>5, <2>2 DEF Saved
    <3>2. Active(p) /\ \A r \in Procs \ {p} : Active(r) => run[r].txn # run[p].txn
      BY <1>1, AtWork DEF Inv, Typed, Numbered
    <3>3. f.backup \in 1..begun
      BY <1>3, <2>2
    <3> QED
      BY <2>0, <2>2, <3>1, <3>2, <3>3
  <2>3. CASE store[k] # NoRecord /\ f = store[k][i]
    <3>1. Recorded(k, i)
      BY <2>3 DEF Kept, Records
    <3>2. Backup(k, i) = IF f.backup = 0 THEN Unsaved ELSE backups[f.backup][q]
      BY <2>3 DEF Backup
    <3>3. f.backup \in Nat
      BY <1>4, MaxTransactionsAssumption DEF RecordOps
    <3>4. f.backup <= begun /\ \A r \in Procs : pc[r] \in Preparing => f.backup # run[r].txn
      BY <2>3, <3>1 DEF Recorded
    <3>5. f.kind = "backup-and-write" =>
            Backup(k, i).there /\ (Traced(q) => Backup(k, i).bytes = origin[q])
      BY <2>3, <3>1 DEF Recorded
    <3> QED
      BY <3>2, <3>3, <3>4, <3>5
  <2> QED
    BY <1>3, <1>5, <2>1, <2>2, <2>3 DEF Final
<1>8. /\ store'[k] = run[p].final /\ backups' = backups /\ files' = files /\ begun' = begun
      /\ pc'[p] \notin Preparing
      /\ \A r \in Procs \ {p} : pc'[r] = pc[r] /\ run'[r] = run[r]
  <2>1. store' = [store EXCEPT ![run[p].key] = run[p].final] /\ pc'[p] \in {"done", "release"}
    BY CommitSettles
  <2>2. store'[k] = run[p].final
    BY <2>1 DEF Inv, Typed, TypeOK
  <2>3. pc'[p] \notin Preparing
    BY <2>1 DEF Preparing, BeforeCommit, Deciding
  <2>4. \A r \in Procs \ {p} : pc'[r] = pc[r] /\ run'[r] = run[r]
    BY Stepping DEF Continues, Begins, Others, Inv, Typed
  <2> QED
    BY <2>2, <2>3, <2>4, CommitSettles
<1>9. origin' = origin /\ touched' = touched
  BY DiskStep
<1>10. Backup(k, i)' = IF f.backup = 0 THEN Unsaved ELSE backups[f.backup][q]
  BY <1>8 DEF Backup
<1>11. Traced(q)' = Traced(q) /\ Merges(k)' = Merges(k)
  BY <1>9 DEF Traced, Merged, Merges
<1>12. Traced(q)' /\ ~HasManaged(origin'[q]) =>
         /\ f.kind = "write-new" => origin'[q] = Absent
         /\ f.kind \in MergeKinds =>
              /\ files'[q] # Absent
              /\ files'[q].text = IF origin'[q] = Absent THEN Nothing ELSE origin'[q].text
              /\ f.created => origin'[q] = Absent
  BY <1>6, <1>8, <1>9, <1>11 DEF Returns
<1>13. \A r \in Procs : pc'[r] \in Preparing => f.backup # run'[r].txn
  BY <1>7, <1>8
<1>14. store'[k][i] = f
  BY <1>8
<1> HIDE DEF q, f
<1>15. /\ f.kind \in MergeKinds <=> Merges(k)'
       /\ f.backup <= begun'
       /\ f.kind = "backup-and-write" => /\ Backup(k, i)'.there
                                         /\ Traced(q)' => Backup(k, i)'.bytes = origin'[q]
       /\ Matches(f.kind, files'[q], f.value)
  BY <1>6, <1>7, <1>8, <1>9, <1>10, <1>11
<1> QED
  BY <1>12, <1>13, <1>14, <1>15 DEF Recorded, Returns, q

(* Records, one step at a time.                                            *)
LEMMA RecordsStep ==
    ASSUME Inv, Ordered, Kept, NEW p \in Procs, StepOf(p)
    PROVE  Records'
<1> USE DEF Inv, Typed
<1>1. SUFFICES ASSUME NEW k \in Keys, store'[k] # NoRecord, NEW i \in Indices(k)
               PROVE  Recorded(k, i)'
  BY DEF Records
<1> DEFINE q == TargetsOf[k][i]
           r == store[k][i]
<1>2. q \in Paths
  BY Targeted
<1>3. store[k] # NoRecord => Recorded(k, i)
  BY DEF Kept, Records
<1>4. CASE UNCHANGED <<store, backups, files, unsettled>>
  <2>1. Backup(k, i)' = Backup(k, i) /\ Untold(q)' = Untold(q)
    BY <1>4 DEF Backup, Untold
  <2> QED
    BY <1>1, <1>3, <1>4, <2>1, RecordedStays
<1>5. ASSUME NEW j \in run[p].toSave, SaveTarget(p, j) PROVE Recorded(k, i)'
  <2>1. UNCHANGED <<store, files, unsettled>>
    BY <1>5 DEF SaveTarget, ghosts
  <2>2. backups' = [backups EXCEPT ![run[p].txn][Target(p, j)] =
                      [there |-> TRUE, bytes |-> run[p].current[j]]]
    BY <1>5 DEF SaveTarget
  <2>3. r.backup # run[p].txn
    BY <1>1, <1>3, <1>5, <2>1 DEF SaveTarget, Recorded, Preparing, BeforeCommit, Deciding
  <2>4. r \in RecordOps
    BY <1>1, <2>1, Element DEF Shaped, TypeOK
  <2>5. Backup(k, i)' = Backup(k, i)
    <3>1. CASE r.backup = 0
      BY <2>1, <3>1 DEF Backup
    <3>2. CASE r.backup # 0
      <4>1. r.backup \in Transactions
        BY <2>4, <3>2, MaxTransactionsAssumption DEF RecordOps, Transactions
      <4>2. backups'[r.backup] = backups[r.backup]
        BY <2>2, <2>3, <4>1 DEF TypeOK
      <4> QED
        BY <2>1, <3>2, <4>2 DEF Backup
    <3> QED
      BY <3>1, <3>2
  <2>6. Untold(q)' = Untold(q)
    BY <2>1 DEF Untold
  <2> QED
    BY <1>1, <1>3, <2>1, <2>5, <2>6, RecordedStays
<1>6. ASSUME NEW j \in run[p].toWrite, WriteTarget(p, j) PROVE Recorded(k, i)'
  <2>1. /\ UNCHANGED <<store, backups>>
        /\ files' = [files EXCEPT ![Target(p, j)] = run[p].goal[j]]
        /\ unsettled' = unsettled \cup {<<run[p].txn, Target(p, j)>>}
    BY <1>6 DEF WriteTarget, internal
  <2>2. run[p].txn \in Transactions
    BY <1>6, AtWork DEF WriteTarget, BeforeCommit, Deciding
  <2>3. Untold(q)' => Untold(q) /\ q # Target(p, j)
    BY <2>1, <2>2 DEF Untold
  <2>4. Untold(q)' => files'[q] = files[q]
    BY <1>2, <2>1, <2>3 DEF TypeOK
  <2>5. Backup(k, i)' = Backup(k, i)
    BY <2>1 DEF Backup
  <2> QED
    BY <1>1, <1>3, <2>1, <2>3, <2>4, <2>5, RecordedStays
<1>7. CASE Commit(p)
  <2>1. CASE k # run[p].key
    <3>1. store'[k] = store[k] /\ backups' = backups /\ files' = files /\ Untold(q)
      BY <1>7, <2>1, CommitSettles DEF TypeOK
    <3>2. Backup(k, i)' = Backup(k, i)
      BY <3>1 DEF Backup
    <3> QED
      BY <1>1, <1>3, <3>1, <3>2, RecordedStays
  <2>2. CASE k = run[p].key
    <3>1. run[p].command = "install"
      <4>0. store' = [store EXCEPT ![run[p].key] = run[p].final]
        BY <1>7, CommitSettles
      <4>1. store'[k] = run[p].final
        BY <2>2, <4>0 DEF TypeOK
      <4>2. Staged(p) /\ run[p].command \in {"install", "uninstall"}
        BY <1>7, AtWork DEF Commit, BeforeCommit, Deciding
      <4> QED
        BY <1>1, <4>1, <4>2 DEF Staged
    <3> QED
      BY <1>7, <2>2, <3>1, CommitRecords
  <2> QED
    BY <2>1, <2>2
<1>8. CASE DropBackups(p)
  <2>1. UNCHANGED <<store, files, unsettled>>
    BY <1>8 DEF DropBackups, ghosts
  <2>2. pc[p] = "drop" /\ Active(p) /\ run[p].command = "uninstall"
    BY <1>8 DEF DropBackups, Active, Kept, Working, Dropping
  <2>3. /\ store[run[p].key] = NoRecord /\ run[p].key \in Keys
        /\ DOMAIN run[p].seen[run[p].key] \subseteq Indices(run[p].key)
    BY <2>2 DEF Kept, Working, Dropping, Numbered
  <2>4. PICK gone \in (IF Faults THEN SUBSET Drops(run[p]) ELSE {Drops(run[p])}) :
          backups' = [x \in Transactions |-> [y \in Paths |->
            IF \E j \in gone : /\ x = run[p].seen[run[p].key][j].backup
                               /\ y = Target(p, j)
            THEN Unsaved ELSE backups[x][y]]]
    BY <1>8, Zenon DEF DropBackups
  <2>9. gone \subseteq Drops(run[p])
    BY <2>4
  <2>5. ASSUME NEW j \in gone, q = Target(p, j) PROVE FALSE
    <3>1. j \in Indices(run[p].key)
      BY <2>3, <2>9 DEF Drops
    <3>2. k = run[p].key
      BY <1>1, <2>3, <2>5, <3>1, OneTarget DEF Target
    <3> QED
      BY <1>1, <2>1, <2>3, <3>2
  <2>6. \A x \in Transactions : backups'[x][q] = backups[x][q]
    BY <1>2, <2>4, <2>5
  <2>7. Backup(k, i)' = Backup(k, i)
    <3>1. r \in RecordOps
      BY <1>1, <2>1, Element DEF Shaped, TypeOK
    <3>2. r.backup = 0 \/ r.backup \in Transactions
      BY <3>1, MaxTransactionsAssumption DEF RecordOps, Transactions
    <3> QED
      BY <2>1, <2>6, <3>2 DEF Backup
  <2>8. Untold(q)' = Untold(q)
    BY <2>1 DEF Untold
  <2> QED
    BY <1>1, <1>3, <2>1, <2>7, <2>8, RecordedStays
<1> QED
  BY <1>4, <1>5, <1>6, <1>7, <1>8, DiskStep

(* The files no record accounts for, one step at a time.                   *)
LEMMA SettledStep ==
    ASSUME Inv, Ordered, Kept, NEW p \in Procs, StepOf(p)
    PROVE  Settled'
<1> USE DEF Inv, Typed
<1>1. touched' = touched /\ origin' = origin
  BY DiskStep
<1>2. \A q \in Paths : Traced(q)' = Traced(q) /\ Merged(q)' = Merged(q)
  BY <1>1 DEF Traced, Merged
<1>3. SUFFICES ASSUME NEW q \in Paths, Traced(q), ~Covered(q)'
               PROVE  Settles(q, files[q])'
  BY <1>2 DEF Settled
<1>4. ASSUME NEW c, Settles(q, c), files'[q] = c PROVE Settles(q, files[q])'
  BY <1>1, <1>2, <1>4 DEF Settles
<1>5. ~Covered(q) => Settles(q, files[q])
  BY <1>3 DEF Kept, Settled
<1>6. CASE UNCHANGED <<store, files, unsettled>>
  <2>1. Covered(q)' = Covered(q)
    BY <1>6 DEF Covered
  <2> QED
    BY <1>3, <1>4, <1>5, <1>6, <2>1
<1>7. ASSUME NEW j \in run[p].toWrite, WriteTarget(p, j) PROVE Settles(q, files[q])'
  <2>1. /\ store' = store
        /\ files' = [files EXCEPT ![Target(p, j)] = run[p].goal[j]]
        /\ unsettled' = unsettled \cup {<<run[p].txn, Target(p, j)>>}
    BY <1>7 DEF WriteTarget, internal
  <2>2. run[p].txn \in Transactions
    BY <1>7, AtWork DEF WriteTarget, BeforeCommit, Deciding
  <2>3. ~Covered(q) /\ q # Target(p, j)
    BY <1>3, <2>1, <2>2 DEF Covered
  <2>4. files'[q] = files[q]
    BY <2>1, <2>3 DEF TypeOK
  <2> QED
    BY <1>4, <1>5, <2>3, <2>4
<1>8. CASE Commit(p)
  <2>1. /\ store' = [store EXCEPT ![run[p].key] = run[p].final]
        /\ files' = files
        /\ \A k \in Keys : \A i \in Indices(k) :
             k # run[p].key => Untold(TargetsOf[k][i])
    BY <1>8, CommitSettles
  <2>2. /\ Staged(p) /\ OnDisk(p) /\ run[p].command \in {"install", "uninstall"}
        /\ run[p].key \in Keys
    BY <1>8, AtWork DEF Commit, BeforeCommit, Deciding, Staged
  <2>3. CASE q \in Targets(p, Indices(run[p].key))
    <3>1. PICK i \in Indices(run[p].key) : q = Target(p, i)
      BY <2>3 DEF Targets
    <3>2. store'[run[p].key] = run[p].final
      BY <2>1, <2>2 DEF TypeOK
    <3>3. run[p].final = NoRecord
      BY <1>3, <2>2, <3>1, <3>2 DEF Covered, Target
    <3>4. run[p].command = "uninstall"
      BY <2>2, <3>3 DEF Staged
    <3>5. Settles(q, run[p].goal[i])
      BY <1>3, <2>2, <3>1, <3>4 DEF Staged
    <3>6. files[q] = run[p].goal[i]
      BY <1>8, <2>2, <3>1 DEF OnDisk, Commit, Ordered, InOrder
    <3> QED
      BY <1>4, <2>1, <3>5, <3>6
  <2>4. CASE q \notin Targets(p, Indices(run[p].key))
    <3>1. Untold(q)
      BY <2>2, <2>4 DEF OnDisk, Targets, Untold
    <3>2. ~\E k \in Keys : store[k] # NoRecord /\ \E i \in Indices(k) : TargetsOf[k][i] = q
      <4>1. SUFFICES ASSUME NEW k \in Keys, store[k] # NoRecord,
                            NEW i \in Indices(k), TargetsOf[k][i] = q
                     PROVE  FALSE
        OBVIOUS
      <4>2. k # run[p].key
        BY <2>4, <4>1 DEF Targets, Target
      <4>3. store'[k] = store[k]
        BY <2>1, <4>2 DEF TypeOK
      <4> QED
        BY <1>3, <4>1, <4>3 DEF Covered
    <3>3. ~Covered(q)
      BY <3>1, <3>2 DEF Covered, Untold
    <3> QED
      BY <1>4, <1>5, <2>1, <3>3
  <2> QED
    BY <2>3, <2>4
<1>9. (\E i \in run[p].toSave : SaveTarget(p, i)) \/ DropBackups(p) =>
        UNCHANGED <<store, files, unsettled>>
  BY DEF SaveTarget, DropBackups, ghosts
<1> QED
  BY <1>6, <1>7, <1>8, <1>9, DiskStep

(* Only an install that begins is an install that was not there before.    *)
LEMMA InstallBegins ==
    ASSUME TypeOK, NEW p \in Procs, StepOf(p), Begins(p), run'[p].command = "install"
    PROVE  \E k \in Keys, force \in BOOLEAN, v \in Values : BeginInstall(p, k, force, v)
<1>1. begun' # begun
  BY MaxTransactionsAssumption DEF Begins, TypeOK
<1>2. ~\E k \in Keys, force \in BOOLEAN : BeginUninstall(p, k, force)
  BY DEF BeginUninstall, NoRun, TypeOK
<1>3. ASSUME EndRun(p) PROVE FALSE
  <2>1. PICK k \in Keys :
          run' = [run EXCEPT ![p] = [NoRun EXCEPT !.command = "uninstall", !.key = k,
                                                  !.migrate = TRUE, !.txn = begun + 1]]
    BY <1>1, <1>3 DEF EndRun
  <2> QED
    BY <2>1 DEF NoRun, TypeOK
<1>4. AcquireLock(p) \/ LockHeld(p) \/ Scan(p) \/ ReadForInstall(p) \/ ReadForUninstall(p)
      \/ Throw(p) \/ TearJournal(p) \/ Crash(p) => begun' = begun
  BY DEF AcquireLock, LockHeld, Scan, ReadForInstall, ReadForUninstall, Throw, TearJournal,
     Crash
<1>5. Transact(p) => begun' = begun
  BY DEF Transact, WriteJournal, SaveTarget, WriteTarget, NoteSave, NoteWrite, SetPhase,
     Commit, MarkDone, DeleteJournal, DropBackups
<1>6. Release(p) \/ ReleaseFails(p) => EndRun(p)
  BY DEF Release, ReleaseFails
<1> QED
  BY <1>1, <1>2, <1>3, <1>4, <1>5, <1>6 DEF StepOf, Proceed

(* An adapter merges or it does not.                                       *)
LEMMA PlansStep ==
    ASSUME Inv, Kept, NEW p \in Procs, StepOf(p)
    PROVE  Plans(p)'
<1> USE DEF Inv, Typed
<1>1. SUFFICES ASSUME Active(p)', run'[p].command = "install"
               PROVE  \A i \in Indices(run'[p].key) :
                        run'[p].plan[i].kind \in MergeKinds <=> Merges(run'[p].key)
  BY DEF Plans, Merges
<1>2. CASE Continues(p)
  BY <1>1, <1>2 DEF Continues, Active, Kept, Working, Plans
<1>3. ASSUME NEW k \in Keys, NEW force \in BOOLEAN, NEW v \in Values,
             BeginInstall(p, k, force, v)
      PROVE  \A i \in Indices(run'[p].key) :
               run'[p].plan[i].kind \in MergeKinds <=> Merges(run'[p].key)
  <2> DEFINE kinds == [i \in Indices(k) |->
                         PlannedKind(AdapterOf[k], files[TargetsOf[k][i]], force)]
             ops == [i \in Indices(k) |-> [kind |-> kinds[i], value |-> v]]
             migrate == AdapterOf[k] = "husky" /\ DirectHookThere
             new == [NoRun EXCEPT !.command = "install", !.key = k, !.force = force,
                                  !.migrate = migrate, !.txn = begun + 1, !.plan = ops]
  <2>1. run' = [run EXCEPT ![p] = new]
    BY <1>3 DEF BeginInstall
  <2>2. \A i \in Indices(k) : ops[i].kind \in MergeKinds <=> Merges(k)
    <3>1. AdapterOf[k] \in Adapters
      BY KeysAssumption
    <3>2. \A i \in Indices(k) :
            PlannedKind(AdapterOf[k], files[TargetsOf[k][i]], force) \in MergeKinds
              <=> Merges(k)
      BY <3>1 DEF PlannedKind, Adapters, MergeKinds, Merges, Refused
    <3> QED
      BY <3>2
  <2> HIDE DEF ops, migrate
  <2>3. new.key = k /\ new.plan = ops
    BY DEF NoRun
  <2> HIDE DEF new
  <2> QED
    BY <2>1, <2>2, <2>3 DEF TypeOK
<1> QED
  BY <1>1, <1>2, <1>3, InstallBegins, Stepping

(* What precedes the reading of the targets.                               *)
LEMMA BeforeReading ==
    ASSUME TypeOK, NEW p \in Procs, StepOf(p), pc'[p] \in {"lock", "scan", "read"}
    PROVE  Begins(p) \/ AcquireLock(p) \/ Scan(p)
<1> USE DEF TypeOK, Goto
<1>1. ~LockHeld(p) /\ ~Crash(p) /\ ~Throw(p) /\ ~TearJournal(p)
  BY DEF LockHeld, Crash, Throw, TearJournal, Report
<1>2. ~ReadForInstall(p) /\ ~ReadForUninstall(p)
  <2>1. ReadForInstall(p) \/ ReadForUninstall(p) =>
          \/ \E result : Report(p, result)
          \/ \E goal, final, writes, saves : Decide(p, goal, final, writes, saves)
    BY DEF ReadForInstall, ReadForUninstall
  <2>2. \A result : ~Report(p, result)
    BY DEF Report
  <2>3. ASSUME NEW goal, NEW final, NEW writes, NEW saves PROVE ~Decide(p, goal, final, writes, saves)
    BY DEF Decide
  <2> QED
    BY <2>1, <2>2, <2>3
<1>3. ~WriteJournal(p) /\ ~NoteSave(p) /\ ~NoteWrite(p) /\ ~SetPhase(p)
  BY DEF WriteJournal, NoteSave, NoteWrite, SetPhase, AfterSave, AfterWrite
<1>4. ~Commit(p) /\ ~MarkDone(p) /\ ~DeleteJournal(p) /\ ~DropBackups(p)
  BY DEF Commit, MarkDone, DeleteJournal, DropBackups
<1>5. ASSUME NEW i PROVE ~SaveTarget(p, i) /\ ~WriteTarget(p, i)
  BY DEF SaveTarget, WriteTarget, AfterSave, AfterWrite
<1>6. ASSUME Release(p) \/ ReleaseFails(p) PROVE Begins(p)
  <2>1. EndRun(p)
    BY <1>6 DEF Release, ReleaseFails
  <2>2. pc' # [pc EXCEPT ![p] = "idle"] /\ begun \in Nat
    BY MaxTransactionsAssumption
  <2>3. pc' = [pc EXCEPT ![p] = "idle"] \/ begun' = begun + 1
    BY <2>1, Zenon DEF EndRun
  <2> QED
    BY <2>1, <2>2, <2>3, Beginning
<1>7. ASSUME NEW k \in Keys, NEW force \in BOOLEAN,
             (\E v \in Values : BeginInstall(p, k, force, v)) \/ BeginUninstall(p, k, force)
      PROVE  Begins(p)
  BY <1>7, Beginning
<1> QED
  BY <1>1, <1>2, <1>3, <1>4, <1>5, <1>6, <1>7 DEF StepOf, Proceed, Transact

LEMMA TimelyStep ==
    ASSUME Inv, Kept, NEW p \in Procs, StepOf(p)
    PROVE  Timely(p)'
<1> USE DEF Inv, Typed
<1>1. CASE AcquireLock(p) \/ Scan(p)
  <2>1. /\ pc[p] \in {"lock", "scan"} /\ files' = files
        /\ run'[p] = run[p] \/ pc'[p] \notin {"lock", "scan", "read"}
    BY <1>1 DEF AcquireLock, Scan, Report, Goto, TypeOK
  <2>2. Timely(p)
    BY DEF Kept, Working
  <2> QED
    BY <2>1, <2>2 DEF Timely, Target
<1>2. CASE Begins(p) /\ run'[p].command = "install"
  <2>1. PICK k \in Keys, force \in BOOLEAN, v \in Values : BeginInstall(p, k, force, v)
    BY <1>2, InstallBegins
  <2> DEFINE ops == [i \in Indices(k) |->
                       [kind |-> PlannedKind(AdapterOf[k], files[TargetsOf[k][i]], force),
                        value |-> v]]
             migrate == AdapterOf[k] = "husky" /\ DirectHookThere
             new == [NoRun EXCEPT !.command = "install", !.key = k, !.force = force,
                                  !.migrate = migrate, !.txn = begun + 1, !.plan = ops]
  <2>2. run' = [run EXCEPT ![p] = new] /\ files' = files
    BY <2>1 DEF BeginInstall
  <2>3. \A i \in Indices(k) : ops[i].kind = "backup-and-write" =>
                                ~HasManaged(files[TargetsOf[k][i]])
    BY KeysAssumption DEF PlannedKind, Adapters, Refused
  <2> HIDE DEF ops, migrate
  <2>4. new.key = k /\ new.plan = ops
    BY DEF NoRun
  <2> HIDE DEF new
  <2> QED
    BY <2>2, <2>3, <2>4 DEF Timely, Target, TypeOK
<1>3. CASE pc'[p] \notin {"lock", "scan", "read"} \/ run'[p].command # "install"
  BY <1>3 DEF Timely
<1> QED
  BY <1>1, <1>2, <1>3, BeforeReading

(* What is known of a target when a transaction reads it.                  *)
LEMMA Reading ==
    ASSUME Inv, Kept, NEW p \in Procs, pc[p] = "read", NEW i \in Indices(run[p].key)
    PROVE  LET k == run[p].key
               q == Target(p, i)
           IN  /\ unsettled = {}
               /\ k \in Keys /\ q = TargetsOf[k][i] /\ q \in Paths /\ files[q] \in Contents
               /\ run[p].txn \in Transactions
               /\ run[p].force \in BOOLEAN
               /\ Merged(q) <=> Merges(k)
               /\ store[k] = NoRecord => (Traced(q) => Settles(q, files[q]))
               /\ store[k] # NoRecord =>
                    /\ store[k][i] \in RecordOps
                    /\ Recorded(k, i)
                    /\ q \notin touched =>
                         Matches(store[k][i].kind, files[q], store[k][i].value)
                    /\ Returns(q, store[k][i], files[q])
<1> USE DEF Inv, Typed
<1> DEFINE k == run[p].key
           q == Target(p, i)
<1>1. unsettled = {}
  BY NothingUnsettled DEF Exclusive
<1>2. Active(p) /\ k \in Keys /\ run[p].txn \in 1..begun /\ run[p].force \in BOOLEAN
  BY DEF Active, Numbered, TypeOK, Runs
<1>3. q = TargetsOf[k][i] /\ q \in Paths /\ files[q] \in Contents
  BY <1>2, Targeted DEF Target, TypeOK
<1>4. Merged(q) <=> Merges(k)
  BY <1>2, <1>3, MergedTarget
<1>5. Untold(q)
  BY <1>1 DEF Untold
<1>6. store[k] = NoRecord => (Traced(q) => Settles(q, files[q]))
  BY <1>2, <1>3, <1>5, CoveredTarget DEF Kept, Settled
<1>7. store[k] # NoRecord => store[k][i] \in RecordOps /\ Recorded(k, i)
  BY <1>2, Element DEF Shaped, TypeOK, Kept, Records
<1>8. store[k] # NoRecord =>
        /\ q \notin touched => Matches(store[k][i].kind, files[q], store[k][i].value)
        /\ Returns(q, store[k][i], files[q])
  BY <1>3, <1>5, <1>7 DEF Recorded
<1>9. run[p].txn \in Transactions
  BY <1>2, MaxTransactionsAssumption DEF Transactions, TypeOK
<1> QED
  BY <1>1, <1>2, <1>3, <1>4, <1>6, <1>7, <1>8, <1>9

(* The step from reading to a decision leaves the disk alone.              *)
LEMMA ReadingKeeps ==
    ASSUME NEW p \in Procs, ReadForInstall(p) \/ ReadForUninstall(p)
    PROVE  /\ UNCHANGED <<store, backups, files, unsettled, origin, touched>>
           /\ \A q \in Paths : Traced(q)' = Traced(q) /\ Merged(q)' = Merged(q)
<1>1. UNCHANGED <<store, backups, files, unsettled, origin, touched>>
  BY DEF ReadForInstall, ReadForUninstall, internal, ghosts
<1> QED
  BY <1>1 DEF Traced, Merged

(* What an install is going to record, when it has just decided.           *)
LEMMA FinalDecided ==
    ASSUME Inv, Kept, NEW p \in Procs, ReadForInstall(p), pc'[p] \in Deciding,
           NEW i \in Indices(run[p].key)
    PROVE  LET q == Target(p, i)
               c == files[q]
               f == run'[p].final[i]
               goal == run'[p].goal[i]
           IN  /\ f.kind \in MergeKinds <=> Merges(run[p].key)
               /\ Matches(f.kind, goal, f.value)
               /\ Returns(q, f, goal)
               /\ i \notin run'[p].toWrite => c = goal
               /\ \/ f.backup = 0 /\ f.kind # "backup-and-write"
                  \/ /\ f.backup = run[p].txn
                     /\ f.kind = "backup-and-write"
                     /\ i \in run'[p].toSave
                     /\ Traced(q) => c = origin[q]
                  \/ store[run[p].key] # NoRecord /\ f = store[run[p].key][i]
<1> USE DEF Inv, Typed
<1> DEFINE k == run[p].key
           q == Target(p, i)
           c == files[q]
           op == run[p].plan[i]
           judged == InstallJudged(p, i)
<1>1. pc[p] = "read" /\ run[p].command = "install" /\ Active(p) /\ run[p] \in Runs
  BY DEF ReadForInstall, Active, TypeOK
<1>2. op \in Ops
  <2>1. run[p].plan \in Seq(Ops) /\ DOMAIN run[p].plan = Indices(k)
    BY <1>1 DEF Runs, Shaped
  <2> QED
    BY <2>1, Element
<1>3. /\ judged \notin Refusals
      /\ run'[p].goal[i] = Leaves(op, c, judged)
      /\ run'[p].final[i] = IF judged = "noop" THEN store[k][i]
                            ELSE RecordOf(op, c, run[p].txn)
      /\ i \in run'[p].toWrite <=> judged \in Mutations
      /\ i \in run'[p].toSave <=> NeedsBackup(op, judged)
  BY InstallDecides
<1>4. op.kind \in MergeKinds <=> Merges(k)
  BY <1>1 DEF Kept, Working, Plans
<1>5. /\ q \in Paths /\ c \in Contents /\ run[p].txn \in Transactions
      /\ run[p].force \in BOOLEAN /\ origin \in [Paths -> Contents]
      /\ Merged(q) <=> Merges(k)
      /\ store[k] = NoRecord => (Traced(q) => Settles(q, c))
      /\ store[k] # NoRecord =>
           /\ store[k][i] \in RecordOps
           /\ Recorded(k, i)
           /\ q \notin touched => Matches(store[k][i].kind, c, store[k][i].value)
           /\ Returns(q, store[k][i], c)
  BY <1>1, Reading DEF TypeOK
<1>6. judged = IF store[k] = NoRecord THEN ClassifyFresh(op, c)
               ELSE ClassifyRecorded(op, store[k][i], c, run[p].force)
  BY DEF InstallJudged
<1> DEFINE new == RecordOf(op, c, run[p].txn)
<1>7. /\ new.kind = op.kind /\ new.value = op.value
      /\ new.backup = IF op.kind = "backup-and-write" THEN run[p].txn ELSE 0
  BY DEF RecordOf
<1>9. judged \in {"apply", "update", "adopt", "noop"}
  BY <1>3, <1>6 DEF ClassifyFresh, ClassifyRecorded, Refusals
<1>10. judged # "noop" /\ op.kind = "backup-and-write" => i \in run'[p].toSave
  BY <1>3, <1>9 DEF NeedsBackup, Mutations
<1>11. i \notin run'[p].toWrite => c = run'[p].goal[i]
  BY <1>3 DEF Leaves
<1>12. OneProcess /\ op.kind = "backup-and-write" => ~HasManaged(c)
  BY <1>1 DEF Kept, Working, Timely
<1> HIDE DEF q, c, op, judged, new
<1>13. CASE store[k] = NoRecord
  <2>1. judged # "noop"
    BY <1>6, <1>13 DEF ClassifyFresh
  <2>2. /\ judged \in Mutations \/ Matches(op.kind, c, op.value)
        /\ Returns(q, new, Leaves(op, c, judged))
        /\ op.kind = "backup-and-write" /\ Traced(q) => c = origin[q]
    BY <1>2, <1>3, <1>4, <1>5, <1>6, <1>13, FreshRecord DEF new
  <2>3. Matches(op.kind, Leaves(op, c, judged), op.value)
    BY <1>2, <1>5, <2>2, LeavesMatches
  <2> QED
    BY <1>3, <1>4, <1>7, <1>10, <1>11, <2>1, <2>2, <2>3 DEF q, c, new
<1>14. CASE store[k] # NoRecord
  <2>1. /\ judged \in Mutations \/ Matches(op.kind, c, op.value)
        /\ IF judged = "noop"
           THEN /\ Leaves(op, c, judged) = c
                /\ Matches(store[k][i].kind, c, store[k][i].value)
                /\ Returns(q, store[k][i], c)
           ELSE /\ Returns(q, new, Leaves(op, c, judged))
                /\ op.kind = "backup-and-write" => ~Traced(q)
    BY <1>2, <1>3, <1>4, <1>5, <1>6, <1>14, <1>12, NextRecord DEF new
  <2>2. Matches(op.kind, Leaves(op, c, judged), op.value)
    BY <1>2, <1>5, <2>1, LeavesMatches
  <2>3. store[k][i].kind \in MergeKinds <=> Merges(k)
    BY <1>5, <1>14 DEF Recorded
  <2>4. CASE judged = "noop"
    BY <1>3, <1>11, <1>14, <2>1, <2>3, <2>4 DEF q, c
  <2>5. CASE judged # "noop"
    BY <1>3, <1>4, <1>7, <1>10, <1>11, <2>1, <2>2, <2>5 DEF q, c, new
  <2> QED
    BY <2>4, <2>5
<1> QED
  BY <1>13, <1>14 DEF q, c

(* The targets of a transaction that goes on are the same.                 *)
LEMMA SameTargets ==
    ASSUME NEW p \in Procs, run'[p].key = run[p].key
    PROVE  /\ \A i : TargetsOf[run'[p].key][i] = Target(p, i)
           /\ \A S : {TargetsOf[run'[p].key][i] : i \in S} = Targets(p, S)
BY DEF Target, Targets

LEMMA InstallStaged ==
    ASSUME Inv, Kept, NEW p \in Procs, ReadForInstall(p), pc'[p] \in Deciding
    PROVE  Staged(p)'
<1> USE DEF Inv, Typed
<1> DEFINE k == run[p].key
<1>1. /\ k \in Keys /\ run'[p].key = k /\ run'[p].command = "install"
      /\ run'[p].txn = run[p].txn /\ run'[p].force = run[p].force
      /\ run'[p].final # NoRecord
  BY InstallDecides
<1>2. UNCHANGED <<store, backups, files, unsettled, origin, touched>>
  BY ReadingKeeps
<1>3. pc[p] = "read" /\ run[p] \in Runs /\ unsettled = {}
  BY NothingUnsettled DEF ReadForInstall, TypeOK, Exclusive
<1>4. ASSUME NEW i \in Indices(k)
      PROVE  files[Target(p, i)] = IF i \in run'[p].toWrite THEN run'[p].current[i]
                                                            ELSE run'[p].goal[i]
  BY <1>4, FinalDecided, InstallDecides
<1>5. OnDisk(p)'
  BY <1>1, <1>2, <1>3, <1>4, SameTargets DEF OnDisk, Target
<1>6. ASSUME NEW i \in Indices(k) PROVE Final(p, i)'
  <2> DEFINE f == run'[p].final[i]
             goal == run'[p].goal[i]
  <2>0. PICK q \in Paths : q = Target(p, i) /\ q = TargetsOf[k][i]
    BY <1>1, Targeted DEF Target
  <2>1. /\ f.kind \in MergeKinds <=> Merges(k)
        /\ Matches(f.kind, goal, f.value)
        /\ Returns(q, f, goal)
        /\ \/ f.backup = 0 /\ f.kind # "backup-and-write"
           \/ /\ f.backup = run[p].txn
              /\ f.kind = "backup-and-write"
              /\ i \in run'[p].toSave
              /\ Traced(q) => files[q] = origin[q]
           \/ store[k] # NoRecord /\ f = store[k][i]
    BY <2>0, FinalDecided
  <2>2. Traced(q)' = Traced(q)
    BY ReadingKeeps
  <2>3. run'[p].current[i] = files[q]
    BY <2>0, InstallDecides
  <2>4. Traced(q)' /\ ~HasManaged(origin'[q]) =>
          /\ f.kind = "write-new" => origin'[q] = Absent
          /\ f.kind \in MergeKinds =>
               /\ goal # Absent
               /\ goal.text = IF origin'[q] = Absent THEN Nothing ELSE origin'[q].text
               /\ f.created => origin'[q] = Absent
    BY <1>2, <2>1, <2>2 DEF Returns
  <2>5. Merges(run[p].key)' <=> Merges(k)
    BY <1>1 DEF Merges
  <2>6. Target(p, i)' = q
    BY <1>1, <2>0 DEF Target
  <2>7. \/ f.backup = 0 /\ f.kind # "backup-and-write"
        \/ /\ f.backup = run'[p].txn
           /\ f.kind = "backup-and-write"
           /\ Saved(p, i)'
           /\ Traced(q)' => run'[p].current[i] = origin'[q]
        \/ store'[k] # NoRecord /\ f = store'[k][i]
    BY <1>1, <1>2, <2>1, <2>2, <2>3 DEF Saved
  <2> HIDE DEF f, goal
  <2> QED
    BY <1>1, <2>1, <2>4, <2>5, <2>6, <2>7 DEF Final, Returns, Traced, Merged, f, goal
<1>7. ASSUME NEW i \in run'[p].toWrite PROVE Spared(p, i)'
  <2> DEFINE op == run[p].plan[i]
             c == files[Target(p, i)]
  <2>1. i \in Indices(k)
    <3>1. HasDecided(p)
      BY Decided
    <3> QED
      BY <1>7, <3>1 DEF HasDecided
  <2>2. /\ InstallJudged(p, i) \in Mutations
        /\ run'[p].current[i] = c /\ run'[p].goal[i] = Desired(op, c)
        /\ i \in run'[p].toSave <=> NeedsBackup(op, InstallJudged(p, i))
    BY <1>7, <2>1, InstallDecides DEF Leaves
  <2>3. op \in Ops
    <3>1. run[p].plan \in Seq(Ops) /\ DOMAIN run[p].plan = Indices(k)
      BY <1>3 DEF Runs, Shaped, ReadForInstall, Active
    <3> QED
      BY <2>1, <3>1, Element
  <2>4. c \in Contents /\ run[p].force \in BOOLEAN
        /\ (store[k] # NoRecord => store[k][i] \in RecordOps)
    BY <1>3, <2>1, Reading
  <2>5. ASSUME ~run[p].force
        PROVE  \/ InstallJudged(p, i) = ClassifyFresh(op, c)
               \/ \E r \in RecordOps : InstallJudged(p, i) = ClassifyRecorded(op, r, c, FALSE)
    <3>1. run[p].force = FALSE
      BY <2>4, <2>5
    <3> QED
      BY <2>4, <3>1 DEF InstallJudged
  <2> HIDE DEF op, c
  <2>6. ~run[p].force /\ c # Absent /\ c.text # Nothing =>
          \/ Desired(op, c) # Absent /\ Desired(op, c).text = c.text
          \/ NeedsBackup(op, InstallJudged(p, i))
    BY <2>2, <2>3, <2>4, <2>5, InstallSpares
  <2> QED
    BY <1>1, <2>2, <2>6 DEF Spared, Saved
<1> QED
  BY <1>1, <1>5, <1>6, <1>7 DEF Staged

LEMMA UninstallStaged ==
    ASSUME Inv, Kept, NEW p \in Procs, ReadForUninstall(p), pc'[p] \in Deciding
    PROVE  Staged(p)'
<1> USE DEF Inv, Typed
<1> DEFINE k == run[p].key
<1>1. /\ k \in Keys /\ run'[p].key = k /\ run'[p].command = "uninstall"
      /\ run'[p].txn = run[p].txn /\ run'[p].force = run[p].force
      /\ store[k] # NoRecord /\ run'[p].final = NoRecord
  BY UninstallDecides
<1>2. UNCHANGED <<store, backups, files, unsettled, origin, touched>>
  BY ReadingKeeps
<1>3. pc[p] = "read" /\ run[p] \in Runs /\ unsettled = {}
  BY NothingUnsettled DEF ReadForUninstall, TypeOK, Exclusive
<1>4. ASSUME NEW i \in Indices(k)
      PROVE  files[Target(p, i)] = IF i \in run'[p].toWrite THEN run'[p].current[i]
                                                            ELSE run'[p].goal[i]
  BY <1>4, UninstallDecides
<1>5. OnDisk(p)'
  BY <1>1, <1>2, <1>3, <1>4, SameTargets DEF OnDisk, Target
<1>6. ASSUME NEW i \in Indices(k), Traced(Target(p, i))
      PROVE  Settles(Target(p, i), run'[p].goal[i])
  <2> DEFINE q == Target(p, i)
             r == store[k][i]
             c == files[q]
             bytes == Backup(k, i).bytes
             there == Backup(k, i).there
  <2>1. /\ q \in Paths /\ c \in Contents /\ r \in RecordOps /\ Recorded(k, i)
        /\ q = TargetsOf[k][i]
        /\ Merged(q) <=> Merges(k)
        /\ Matches(r.kind, c, r.value) /\ Returns(q, r, c)
    BY <1>1, <1>3, <1>6, Reading DEF Traced
  <2>2. r.kind \in MergeKinds <=> Merged(q)
    BY <2>1 DEF Recorded
  <2>3. r.kind = "backup-and-write" => bytes = origin[q]
    BY <1>6, <2>1 DEF Recorded
  <2>4. origin \in [Paths -> Contents]
    BY DEF TypeOK
  <2>5. run'[p].goal[i] = IF ClassifyReverse(r, c, there, run[p].force) # "skip"
                          THEN Reversed(r, c, bytes) ELSE c
    BY UninstallDecides DEF UninstallJudged
  <2> HIDE DEF q, r, c, bytes, there
  <2>6. /\ ClassifyReverse(r, c, there, run[p].force) # "skip"
        /\ Settles(q, Reversed(r, c, bytes))
    BY <1>6, <2>1, <2>2, <2>3, <2>4, ReversedSettles DEF q
  <2> QED
    BY <2>5, <2>6 DEF q
<1>7. ASSUME NEW i \in Indices(k), Traced(Target(p, i))'
      PROVE  Settles(Target(p, i), run[p].goal[i])'
  <2>1. ASSUME NEW q, q = Target(p, i) PROVE Target(p, i)' = q
    BY <1>1, <2>1 DEF Target
  <2>2. ASSUME NEW q \in Paths, q = Target(p, i), Traced(q)
        PROVE  Settles(q, run[p].goal[i])'
    <3>1. Settles(q, run'[p].goal[i]) /\ Merged(q)' = Merged(q)
      BY <1>6, <2>2, ReadingKeeps
    <3> QED
      BY <1>2, <3>1 DEF Settles
  <2>3. Target(p, i) \in Paths
    BY <1>1, Targeted DEF Target
  <2>4. Target(p, i)' = Target(p, i)
    BY <2>1
  <2>5. Traced(Target(p, i))
    BY <1>2, <1>7, <2>4 DEF Traced, Merged
  <2> QED
    BY <2>2, <2>3, <2>4, <2>5 DEF Settles
<1>8. ASSUME NEW i \in run'[p].toWrite PROVE Spared(p, i)'
  <2> DEFINE r == store[k][i]
             c == files[Target(p, i)]
             bytes == Backup(k, i).bytes
             there == Backup(k, i).there
  <2>1. i \in Indices(k)
    <3>1. HasDecided(p)
      BY Decided
    <3> QED
      BY <1>8, <3>1 DEF HasDecided
  <2>2. /\ ClassifyReverse(r, c, there, run[p].force) = "reverse"
        /\ run'[p].current[i] = c /\ run'[p].goal[i] = Reversed(r, c, bytes)
    BY <1>8, <2>1, UninstallDecides DEF UninstallJudged
  <2>3. c \in Contents /\ run[p].force \in BOOLEAN /\ r \in RecordOps
    BY <1>1, <1>3, <2>1, Reading
  <2> HIDE DEF r, c, bytes, there
  <2>4. ~run[p].force /\ c # Absent /\ c.text # Nothing =>
          Reversed(r, c, bytes) # Absent /\ Reversed(r, c, bytes).text = c.text
    <3>1. SUFFICES ASSUME ~run[p].force, c # Absent, c.text # Nothing
                   PROVE  /\ Reversed(r, c, bytes) # Absent
                          /\ Reversed(r, c, bytes).text = c.text
      OBVIOUS
    <3>2. run[p].force = FALSE
      BY <2>3, <3>1
    <3>3. ClassifyReverse(r, c, there, FALSE) = "reverse"
      BY <2>2, <3>2
    <3> QED
      BY <2>3, <3>1, <3>3, UninstallSpares
  <2> QED
    BY <1>1, <2>2, <2>4 DEF Spared
<1> QED
  BY <1>1, <1>5, <1>7, <1>8 DEF Staged

(* Nothing a transaction relies on changes.                                *)
LEMMA StagedStays ==
    ASSUME NEW r \in Procs, Staged(r), run'[r] = run[r],
           UNCHANGED <<store, backups, files, unsettled, origin, touched>>
    PROVE  Staged(r)'
<1>1. \A i : Target(r, i)' = Target(r, i)
  BY DEF Target
<1>2. OnDisk(r)'
  <2>1. Targets(r, Indices(run[r].key) \ run[r].toWrite)' =
          Targets(r, Indices(run[r].key) \ run[r].toWrite)
    BY DEF Targets, Target
  <2> QED
    BY <1>1, <2>1 DEF Staged, OnDisk, Target
<1>3. ASSUME NEW i, Saved(r, i) PROVE Saved(r, i)'
  BY <1>3 DEF Saved, Target
<1>4. ASSUME NEW i, Final(r, i) PROVE Final(r, i)'
  BY <1>3, <1>4 DEF Final, Returns, Traced, Merged, Target, Merges
<1>5. ASSUME NEW i, Spared(r, i) PROVE Spared(r, i)'
  BY <1>3, <1>5 DEF Spared
<1>6. ASSUME NEW i, Traced(Target(r, i)) => Settles(Target(r, i), run[r].goal[i])
      PROVE  (Traced(Target(r, i)) => Settles(Target(r, i), run[r].goal[i]))'
  BY <1>6 DEF Settles, Traced, Merged, Target
<1> QED
  BY <1>2, <1>4, <1>5, <1>6 DEF Staged

(* A backup written.                                                       *)
LEMMA StagedSave ==
    ASSUME Inv, Kept, NEW p \in Procs, NEW j \in run[p].toSave, SaveTarget(p, j)
    PROVE  Staged(p)'
<1> USE DEF Inv, Typed
<1>1. pc[p] \in BeforeCommit
  BY DEF SaveTarget, BeforeCommit, Deciding
<1>2. /\ Staged(p) /\ run[p] \in Runs /\ run[p].key \in Keys /\ run[p].txn \in Transactions
      /\ run[p].toSave \subseteq Indices(run[p].key)
      /\ run[p].toWrite \subseteq Indices(run[p].key)
  BY <1>1, AtWork
<1>3. run'[p] = [run[p] EXCEPT !.toSave = @ \ {j}]
  BY WorkLeft
<1>4. /\ run'[p].key = run[p].key /\ run'[p].command = run[p].command
      /\ run'[p].txn = run[p].txn /\ run'[p].force = run[p].force
      /\ run'[p].current = run[p].current /\ run'[p].goal = run[p].goal
      /\ run'[p].final = run[p].final /\ run'[p].toWrite = run[p].toWrite
      /\ run'[p].toSave = run[p].toSave \ {j}
  BY <1>2, <1>3 DEF Runs
<1>5. UNCHANGED <<store, files, unsettled, origin, touched>>
  BY DEF SaveTarget, ghosts
<1>6. backups' = [backups EXCEPT ![run[p].txn][Target(p, j)] =
                    [there |-> TRUE, bytes |-> run[p].current[j]]]
  BY DEF SaveTarget
<1>7. OnDisk(p)'
  <2>1. Targets(p, Indices(run[p].key) \ run[p].toWrite)' =
          Targets(p, Indices(run[p].key) \ run[p].toWrite)
    BY <1>4 DEF Targets, Target
  <2> QED
    BY <1>2, <1>4, <1>5, <2>1 DEF Staged, OnDisk, Target
<1>8. ASSUME NEW i \in Indices(run[p].key), Saved(p, i) PROVE Saved(p, i)'
  <2>1. Target(p, i) \in Paths /\ Target(p, j) \in Paths
    BY <1>2, Targeted DEF Target
  <2>2. CASE i = j
    BY <1>2, <1>4, <1>6, <2>1, <2>2 DEF Saved, Target, TypeOK
  <2>3. CASE i # j
    <3>1. Target(p, i) # Target(p, j)
      BY <1>2, <2>3, OneTarget DEF Target
    <3>2. backups'[run[p].txn][Target(p, i)] = backups[run[p].txn][Target(p, i)]
      BY <1>2, <1>6, <2>1, <3>1 DEF TypeOK
    <3> QED
      BY <1>4, <1>8, <2>3, <3>2 DEF Saved, Target
  <2> QED
    BY <2>2, <2>3
<1>9. ASSUME NEW i \in Indices(run[p].key), Final(p, i) PROVE Final(p, i)'
  BY <1>4, <1>5, <1>8, <1>9 DEF Final, Returns, Traced, Merged, Target, Merges
<1>10. ASSUME NEW i \in Indices(run[p].key), Spared(p, i) PROVE Spared(p, i)'
  BY <1>4, <1>8, <1>10 DEF Spared
<1>11. ASSUME NEW i, Traced(Target(p, i)) => Settles(Target(p, i), run[p].goal[i])
       PROVE  (Traced(Target(p, i)) => Settles(Target(p, i), run[p].goal[i]))'
  BY <1>4, <1>5, <1>11 DEF Settles, Traced, Merged, Target
<1> QED
  BY <1>2, <1>4, <1>7, <1>9, <1>10, <1>11 DEF Staged

(* A target replaced.                                                      *)
LEMMA StagedWrite ==
    ASSUME Inv, Kept, NEW p \in Procs, NEW j \in run[p].toWrite, WriteTarget(p, j)
    PROVE  Staged(p)'
<1> USE DEF Inv, Typed
<1>1. pc[p] \in BeforeCommit
  BY DEF WriteTarget, BeforeCommit, Deciding
<1>2. /\ Staged(p) /\ run[p] \in Runs /\ run[p].key \in Keys /\ run[p].txn \in Transactions
      /\ run[p].toWrite \subseteq Indices(run[p].key)
  BY <1>1, AtWork
<1>3. run'[p] = [run[p] EXCEPT !.toWrite = @ \ {j}]
  BY WorkLeft
<1>4. /\ run'[p].key = run[p].key /\ run'[p].command = run[p].command
      /\ run'[p].txn = run[p].txn /\ run'[p].force = run[p].force
      /\ run'[p].current = run[p].current /\ run'[p].goal = run[p].goal
      /\ run'[p].final = run[p].final /\ run'[p].toSave = run[p].toSave
      /\ run'[p].toWrite = run[p].toWrite \ {j}
  BY <1>2, <1>3 DEF Runs
<1>5. UNCHANGED <<store, backups, origin, touched>>
  BY DEF WriteTarget, internal
<1>6. /\ files' = [files EXCEPT ![Target(p, j)] = run[p].goal[j]]
      /\ unsettled' = unsettled \cup {<<run[p].txn, Target(p, j)>>}
  BY DEF WriteTarget
<1>7. OnDisk(p)'
  <2>1. ASSUME NEW i \in Indices(run[p].key)
        PROVE  files'[Target(p, i)] = IF i \in run'[p].toWrite THEN run'[p].current[i]
                                                               ELSE run'[p].goal[i]
    <3>1. Target(p, i) \in Paths /\ Target(p, j) \in Paths
      BY <1>2, Targeted DEF Target
    <3>2. CASE i = j
      BY <1>4, <1>6, <3>1, <3>2 DEF TypeOK
    <3>3. CASE i # j
      <4>1. Target(p, i) # Target(p, j)
        BY <1>2, <3>3, OneTarget DEF Target
      <4>2. files'[Target(p, i)] = files[Target(p, i)]
        BY <1>6, <3>1, <4>1 DEF TypeOK
      <4> QED
        BY <1>2, <1>4, <3>3, <4>2 DEF Staged, OnDisk
    <3> QED
      BY <3>2, <3>3
  <2>2. Targets(p, Indices(run[p].key) \ run[p].toWrite)' =
          {TargetsOf[run[p].key][i] : i \in Indices(run[p].key) \ (run[p].toWrite \ {j})}
    BY <1>4 DEF Targets, Target
  <2>3. ASSUME NEW u \in unsettled'
        PROVE  u[2] \in Targets(p, Indices(run[p].key) \ run[p].toWrite)'
    <3>1. CASE u \in unsettled
      <4>1. u[2] \in Targets(p, Indices(run[p].key) \ run[p].toWrite)
        BY <1>2, <3>1 DEF Staged, OnDisk
      <4> QED
        BY <2>2, <4>1 DEF Targets, Target
    <3>2. CASE u \notin unsettled
      <4>1. u[2] = TargetsOf[run[p].key][j] /\ j \in Indices(run[p].key)
        BY <1>2, <1>6, <2>3, <3>2 DEF Target
      <4> QED
        BY <2>2, <4>1
    <3> QED
      BY <3>1, <3>2
  <2> QED
    BY <1>4, <2>1, <2>3 DEF OnDisk, Target
<1>8. ASSUME NEW i, Saved(p, i) PROVE Saved(p, i)'
  BY <1>4, <1>5, <1>8 DEF Saved, Target
<1>9. ASSUME NEW i, Final(p, i) PROVE Final(p, i)'
  BY <1>4, <1>5, <1>8, <1>9 DEF Final, Returns, Traced, Merged, Target, Merges
<1>10. ASSUME NEW i, Spared(p, i) PROVE Spared(p, i)'
  BY <1>4, <1>8, <1>10 DEF Spared
<1>11. ASSUME NEW i, Traced(Target(p, i)) => Settles(Target(p, i), run[p].goal[i])
       PROVE  (Traced(Target(p, i)) => Settles(Target(p, i), run[p].goal[i]))'
  BY <1>4, <1>5, <1>11 DEF Settles, Traced, Merged, Target
<1> QED
  BY <1>2, <1>4, <1>7, <1>9, <1>10, <1>11 DEF Staged

(* After an uninstall's commit the record is gone.                         *)
LEMMA DroppingStep ==
    ASSUME Inv, Kept, NEW p \in Procs, StepOf(p)
    PROVE  Dropping(p)'
<1> USE DEF Inv, Typed
<1>1. CASE Commit(p)
  <2>1. /\ store' = [store EXCEPT ![run[p].key] = run[p].final]
        /\ pc'[p] \in {"done", "release"}
        /\ run'[p] = [run[p] EXCEPT !.outcome = IF run[p].command = "install"
                                                THEN "applied" ELSE "uninstalled"]
    BY <1>1, CommitSettles
  <2>2. /\ Staged(p) /\ run[p] \in Runs /\ run[p].key \in Keys /\ run[p].seen = store
    BY <1>1, AtWork DEF Commit, BeforeCommit, Deciding
  <2>3. /\ run'[p].key = run[p].key /\ run'[p].command = run[p].command
        /\ run'[p].seen = store
    BY <2>1, <2>2 DEF Runs
  <2>4. run[p].command = "uninstall" => store'[run[p].key] = NoRecord
    BY <2>1, <2>2 DEF Staged, TypeOK
  <2>5. DOMAIN store[run[p].key] \subseteq Indices(run[p].key)
    <3>1. DOMAIN NoRecord = {}
      BY DEF NoRecord
    <3> QED
      BY <2>2, <3>1 DEF Shaped
  <2> QED
    BY <2>1, <2>3, <2>4, <2>5 DEF Dropping
<1>2. CASE pc[p] \in {"done", "delete", "drop"} /\ pc'[p] \in {"done", "delete", "drop"}
  <2>1. MarkDone(p) \/ DeleteJournal(p)
    <3>1. ASSUME NEW k \in Keys, NEW force \in BOOLEAN,
                 (\E v \in Values : BeginInstall(p, k, force, v)) \/ BeginUninstall(p, k, force)
          PROVE  FALSE
      BY <1>2, <3>1 DEF BeginInstall, BeginUninstall
    <3>2. ~Throw(p) /\ ~Crash(p) /\ ~TearJournal(p)
      BY <1>2 DEF Throw, Crash, TearJournal, Report, Goto, TypeOK
    <3>3. ~AcquireLock(p) /\ ~LockHeld(p) /\ ~Scan(p) /\ ~ReadForInstall(p)
          /\ ~ReadForUninstall(p) /\ ~Release(p) /\ ~ReleaseFails(p)
      BY <1>2 DEF AcquireLock, LockHeld, Scan, ReadForInstall, ReadForUninstall, Release,
         ReleaseFails
    <3>4. ~WriteJournal(p) /\ ~NoteSave(p) /\ ~NoteWrite(p) /\ ~SetPhase(p) /\ ~Commit(p)
      BY <1>2 DEF WriteJournal, NoteSave, NoteWrite, SetPhase, Commit
    <3>5. \A i : ~SaveTarget(p, i) /\ ~WriteTarget(p, i)
      BY <1>2 DEF SaveTarget, WriteTarget
    <3>6. ~DropBackups(p)
      BY <1>2 DEF DropBackups, Goto, TypeOK
    <3> QED
      BY <3>1, <3>2, <3>3, <3>4, <3>5, <3>6 DEF StepOf, Proceed, Transact
  <2>2. run' = run /\ store' = store
    BY <2>1 DEF MarkDone, DeleteJournal
  <2>3. pc'[p] = "drop" => run[p].command # "install"
    BY <2>1 DEF MarkDone, DeleteJournal, Goto, TypeOK
  <2>4. run[p].command \in {"install", "uninstall"}
    BY <1>2 DEF Numbered, Active
  <2> QED
    BY <1>2, <2>2, <2>3, <2>4 DEF Kept, Working, Dropping
<1> QED
  BY <1>1, <1>2, Flow DEF Dropping

LEMMA WorkingStep ==
    ASSUME Inv, Ordered, Kept, NEW p \in Procs, StepOf(p)
    PROVE  Working'
<1> USE DEF Inv, Typed
<1>1. ASSUME NEW r \in Procs, r # p
      PROVE  /\ Plans(r)' /\ Timely(r)'
             /\ pc'[r] \in BeforeCommit => Staged(r)'
             /\ Dropping(r)'
  <2>1. pc'[r] = pc[r] /\ run'[r] = run[r]
    BY <1>1, Stepping DEF Continues, Begins, Others
  <2>2. Plans(r)' /\ Timely(r)'
    BY <1>1, <2>1 DEF Kept, Working, Plans, Timely, OneProcess, Active, Merges
  <2>3. Inside(r) => UNCHANGED <<store, backups, files, unsettled, origin, touched>>
    <3>1. Inside(r) => ~Inside(p)
      BY <1>1, Alone
    <3> QED
      BY <3>1, DiskStep DEF SaveTarget, WriteTarget, Commit, DropBackups, Inside
  <2>4. ASSUME pc'[r] \in BeforeCommit PROVE Staged(r)'
    <3>1. pc[r] \in BeforeCommit
      BY <2>1, <2>4
    <3> QED
      BY <2>1, <2>3, <3>1, AtWork, StagedStays
  <2>5. Dropping(r)'
    <3>1. pc[r] \in {"done", "delete", "drop"} => Inside(r)
      BY DEF Inside
    <3> QED
      BY <2>1, <2>3, <3>1 DEF Kept, Working, Dropping
  <2> QED
    BY <2>2, <2>4, <2>5
<1>2. ASSUME pc'[p] \in BeforeCommit PROVE Staged(p)'
  <2>1. CASE ReadForInstall(p) \/ ReadForUninstall(p)
    BY <1>2, <2>1, InstallStaged, UninstallStaged DEF BeforeCommit
  <2>2. CASE WriteJournal(p) \/ NoteSave(p) \/ NoteWrite(p) \/ SetPhase(p)
    <3>1. pc[p] \in BeforeCommit
      BY <2>2 DEF WriteJournal, NoteSave, NoteWrite, SetPhase, BeforeCommit, Deciding
    <3>2. /\ run' = run
          /\ UNCHANGED <<store, backups, files, unsettled, origin, touched>>
      BY <2>2 DEF WriteJournal, NoteSave, NoteWrite, SetPhase, ghosts
    <3> QED
      BY <3>1, <3>2, AtWork, StagedStays
  <2>3. CASE \E i \in run[p].toSave : SaveTarget(p, i)
    BY <2>3, StagedSave
  <2>4. CASE \E i \in run[p].toWrite : WriteTarget(p, i)
    BY <2>4, StagedWrite
  <2> QED
    BY <1>2, <2>1, <2>2, <2>3, <2>4, Works
<1>3. Plans(p)' /\ Timely(p)' /\ Dropping(p)'
  BY PlansStep, TimelyStep, DroppingStep
<1> QED
  BY <1>1, <1>2, <1>3 DEF Working

(* The user, between two invocations.                                      *)
LEMMA KeptByUser ==
    ASSUME ~EditsDuringRuns, Inv, Kept, NEW q \in Paths, NEW c \in EditFiles, UserEdits(q, c)
    PROVE  Kept'
<1> USE DEF Inv, Typed
<1>1. \A p \in Procs : pc[p] = "idle"
  BY DEF UserEdits
<1>2. /\ UNCHANGED <<pc, run, store, backups, begun, unsettled>>
      /\ files' = [files EXCEPT ![q] = c]
      /\ Covered(q) => touched' = touched \cup {q} /\ origin' = origin
      /\ ~Covered(q) => /\ touched' = touched \ {q}
                        /\ origin' = [origin EXCEPT ![q] = c]
  BY DEF UserEdits, internal
<1>3. Working'
  BY <1>1, <1>2 DEF Working, Plans, Timely, Dropping, Active, BeforeCommit, Deciding
<1>4. \A y \in Paths : /\ Covered(y)' = Covered(y) /\ Untold(y)' = Untold(y)
                       /\ Merged(y)' = Merged(y)
                       /\ y # q => /\ files'[y] = files[y] /\ origin'[y] = origin[y]
                                   /\ y \in touched' <=> y \in touched
                                   /\ Traced(y)' = Traced(y)
  BY <1>2 DEF Covered, Untold, Merged, Traced, TypeOK
<1>5. Settled'
  <2>1. ASSUME NEW y \in Paths, Traced(y)', ~Covered(y)'
        PROVE  Settles(y, files[y])'
    <3>1. CASE y = q
      <4>1. files'[y] = c /\ origin'[y] = c
        BY <1>2, <1>4, <2>1, <3>1 DEF TypeOK
      <4> QED
        BY <4>1 DEF Settles
    <3>2. CASE y # q
      <4>1. Settles(y, files[y])
        BY <1>4, <2>1, <3>2 DEF Kept, Settled
      <4> QED
        BY <1>4, <3>2, <4>1 DEF Settles
    <3> QED
      BY <3>1, <3>2
  <2> QED
    BY <2>1 DEF Settled
<1>6. ASSUME NEW k \in Keys, store[k] # NoRecord, NEW i \in Indices(k)
      PROVE  Recorded(k, i)'
  <2>1. PICK y \in Paths : y = TargetsOf[k][i]
    BY Targeted
  <2>2. Recorded(k, i) /\ Covered(y) /\ Backup(k, i)' = Backup(k, i)
    BY <1>2, <1>6, <2>1, CoveredTarget DEF Kept, Records, Backup
  <2>3. /\ store'[k][i].kind \in MergeKinds <=> Merges(k)'
        /\ store'[k][i].backup <= begun'
        /\ \A p \in Procs : pc'[p] \in Preparing => store'[k][i].backup # run'[p].txn
    BY <1>2, <2>2 DEF Recorded, Merges
  <2>4. CASE y = q
    <3>1. y \in touched' /\ ~Traced(y)'
      BY <1>2, <2>2, <2>4 DEF Traced
    <3> QED
      BY <1>2, <2>1, <2>2, <2>3, <3>1 DEF Recorded, Returns, Traced, Merged
  <2>5. CASE y # q
    <3>1. /\ store[k][i].kind = "backup-and-write" =>
               /\ Backup(k, i)'.there
               /\ Traced(y)' => Backup(k, i)'.bytes = origin'[y]
          /\ y \notin touched' /\ Untold(y)' =>
               Matches(store[k][i].kind, files'[y], store[k][i].value)
      BY <1>4, <2>1, <2>2, <2>5 DEF Recorded
    <3>2. Untold(y)' => Returns(y, store[k][i], files[y])'
      BY <1>2, <1>4, <2>1, <2>2, <2>5 DEF Recorded, Returns
    <3> QED
      BY <1>2, <2>1, <2>3, <3>1, <3>2 DEF Recorded, Returns, Traced, Merged
  <2> QED
    BY <2>4, <2>5
<1> QED
  BY <1>2, <1>3, <1>5, <1>6 DEF Kept, Records

LEMMA KeptStays ==
    ASSUME Kept, UNCHANGED <<pc, run, begun, store, backups, unsettled, files, origin, touched>>
    PROVE  Kept'
<1>1. Records'
  <2>1. ASSUME NEW k \in Keys, NEW i \in Indices(k), Recorded(k, i) PROVE Recorded(k, i)'
    BY <2>1 DEF Recorded, Returns, Traced, Merged, Merges, Untold, Backup
  <2> QED
    BY <2>1 DEF Kept, Records
<1>2. Settled'
  BY DEF Kept, Settled, Settles, Traced, Merged, Covered
<1>3. ASSUME NEW r \in Procs
      PROVE  /\ Plans(r)' /\ Timely(r)'
             /\ pc'[r] \in BeforeCommit => Staged(r)'
             /\ Dropping(r)'
  <2>1. Plans(r)' /\ Timely(r)' /\ Dropping(r)'
    BY DEF Kept, Working, Plans, Timely, Dropping, Active, Merges, Target
  <2>2. pc'[r] \in BeforeCommit => Staged(r)'
    BY StagedStays DEF Kept, Working
  <2> QED
    BY <2>1, <2>2
<1> QED
  BY <1>1, <1>2, <1>3 DEF Kept, Working

LEMMA KeptInvariant ==
    ASSUME ~EditsDuringRuns
    PROVE  Spec => [](Ordered /\ Kept)
<1>1. Init => Ordered /\ Kept
  <2> SUFFICES ASSUME Init PROVE Ordered /\ Kept
    OBVIOUS
  <2>1. Ordered
    BY DEF Init, Ordered, InOrder, BeforeCommit, Deciding
  <2>2. Records
    BY DEF Init, Records, NoRecords
  <2>3. Settled
    BY DEF Init, Settled, Settles
  <2>4. Working
    BY DEF Init, Working, Plans, Timely, Dropping, Active, BeforeCommit, Deciding
  <2> QED
    BY <2>1, <2>2, <2>3, <2>4 DEF Kept
<1>2. Inv /\ Ordered /\ Kept /\ [Next]_vars => (Ordered /\ Kept)'
  <2> SUFFICES ASSUME Inv, Ordered, Kept, [Next]_vars PROVE (Ordered /\ Kept)'
    OBVIOUS
  <2>1. Ordered'
    BY OrderedKeeps DEF Inv
  <2>2. CASE UNCHANGED vars
    BY <2>1, <2>2, KeptStays DEF vars, internal, ghosts
  <2>3. ASSUME NEW p \in Procs, StepOf(p) PROVE Kept'
    BY <2>3, RecordsStep, SettledStep, WorkingStep DEF Kept
  <2>4. CASE Outside
    <3>1. ASSUME UNCHANGED <<pc, run, begun, store, backups, unsettled, files, origin, touched>>
          PROVE  Kept'
      BY <3>1, KeptStays
    <3>2. ASSUME NEW q \in Paths, NEW c \in EditFiles, UserEdits(q, c) PROVE Kept'
      BY <3>2, KeptByUser
    <3> QED
      BY <2>1, <2>4, <3>1, <3>2, OutsideDisk
  <2> QED
    BY <2>1, <2>2, <2>3, <2>4, NextSteps
<1> QED
  BY <1>1, <1>2, Invariant, PTL DEF Spec

(* integrations.json and the disk agree on every file that no unfinished   *)
(* transaction accounts for and the user has left alone under its record,  *)
(* whatever fails or dies and whoever else installs.                       *)
THEOREM RecordsMatch ==
    ASSUME ~EditsDuringRuns
    PROVE  Spec => []RecordsMatchFiles
<1>1. Kept => RecordsMatchFiles
  <2>1. ASSUME Kept, NEW k \in Keys, store[k] # NoRecord, NEW i \in Indices(k)
        PROVE  \/ TargetsOf[k][i] \in touched
               \/ \E x \in Transactions : <<x, TargetsOf[k][i]>> \in unsettled
               \/ Matches(store[k][i].kind, files[TargetsOf[k][i]], store[k][i].value)
    BY <2>1 DEF Kept, Records, Recorded, Untold
  <2> QED
    BY <2>1 DEF RecordsMatchFiles
<1> QED
  BY <1>1, KeptInvariant, PTL

(* A record's backup is there and holds what the user had, so that every   *)
(* uninstall can give it back.                                             *)
THEOREM BackupsStay ==
    ASSUME ~EditsDuringRuns, OneVersion \/ OneProcess
    PROVE  Spec => []BackupsKept
<1>1. Kept => BackupsKept
  <2>1. ASSUME Kept, NEW k \in Keys, store[k] # NoRecord, NEW i \in Indices(k),
               store[k][i].kind = "backup-and-write"
        PROVE  /\ Backup(k, i).there
               /\ TargetsOf[k][i] \notin touched => Backup(k, i).bytes = origin[TargetsOf[k][i]]
    BY <2>1 DEF Kept, Records, Recorded, Traced
  <2> QED
    BY <2>1 DEF BackupsKept
<1> QED
  BY <1>1, KeptInvariant, PTL

(* An install and its uninstall give the user's file back, byte by byte but*)
(* for the frame a merge has put around its text; the mode is not covered. *)
THEOREM GivenBack ==
    ASSUME ~EditsDuringRuns, OneVersion \/ OneProcess
    PROVE  Spec => []RoundTrip
<1>1. Kept => RoundTrip
  BY DEF Kept, Settled, Settles, Traced, RoundTrip
<1> QED
  BY <1>1, KeptInvariant, PTL

(* No write of an invocation without force loses text of the user's.       *)
THEOREM TextIsKept ==
    ASSUME ~EditsDuringRuns
    PROVE  Spec => UserTextKept
<1>1. Inv /\ Ordered /\ Kept /\ [Next]_vars =>
        [\A q \in Paths : \A p \in Procs :
          /\ pc[p] = "write" /\ ~run[p].force
          /\ files'[q] # files[q]
          /\ files[q] # Absent /\ files[q].text # Nothing
          => \/ files'[q] # Absent /\ files'[q].text = files[q].text
             \/ \E x \in Transactions : backups[x][q] = [there |-> TRUE,
                                                         bytes |-> files[q]]]_vars
  <2> SUFFICES ASSUME Inv, Ordered, Kept, Next, NEW q \in Paths, NEW p \in Procs,
                      pc[p] = "write", ~run[p].force, files'[q] # files[q],
                      files[q] # Absent, files[q].text # Nothing
               PROVE  \/ files'[q] # Absent /\ files'[q].text = files[q].text
                      \/ \E x \in Transactions : backups[x][q] = [there |-> TRUE,
                                                                  bytes |-> files[q]]
    BY DEF vars
  <2>1. pc[p] \in BeforeCommit /\ Inside(p)
    BY DEF BeforeCommit, Deciding, Inside
  <2>2. PICK r \in Procs : StepOf(r)
    <3>1. ~Outside
      BY OutsideDisk DEF UserEdits
    <3> QED
      BY <3>1, NextSteps
  <2>3. PICK j \in run[r].toWrite : WriteTarget(r, j)
    BY <2>2, DiskStep DEF SaveTarget, Commit, DropBackups
  <2>4. r = p
    BY <2>1, <2>3, Alone DEF WriteTarget, Inside, Inv
  <2>5. files' = [files EXCEPT ![Target(p, j)] = run[p].goal[j]]
    BY <2>3, <2>4 DEF WriteTarget
  <2>6. q = Target(p, j) /\ files'[q] = run[p].goal[j]
    BY <2>5 DEF Inv, Typed, TypeOK
  <2>7. /\ OnDisk(p) /\ Spared(p, j) /\ run[p].txn \in Transactions
        /\ j \in Indices(run[p].key)
    BY <2>1, <2>3, <2>4, AtWork DEF Staged
  <2>8. files[q] = run[p].current[j]
    BY <2>3, <2>4, <2>6, <2>7 DEF OnDisk
  <2>9. run[p].toSave = {}
    BY DEF Ordered, InOrder
  <2> QED
    BY <2>6, <2>7, <2>8, <2>9 DEF Spared, Saved
<1> QED
  BY <1>1, KeptInvariant, Invariant, PTL DEF Spec, UserTextKept

-----------------------------------------------------------------------------
(* A migration to husky, when one invocation runs at a time: another one   *)
(* may uninstall husky's hook between the two halves of a migration.       *)

HuskyRecorded == \E h \in Keys : AdapterOf[h] = "husky" /\ store[h] # NoRecord

(* A migration has installed husky's hook before it goes on to uninstall   *)
(* the direct one; an install that commits leaves a record.                *)
Migration(p) ==
    /\ Active(p) /\ run[p].migrate =>
         /\ run[p].command = "install" => AdapterOf[run[p].key] = "husky"
         /\ run[p].command = "uninstall" => AdapterOf[run[p].key] = "hook" /\ HuskyRecorded
         /\ run[p].outcome \in {"applied", "noop"} => HuskyRecorded
    /\ pc[p] \in BeforeCommit /\ run[p].command = "install" => run[p].final # NoRecord

Migrations == \A p \in Procs : Migration(p)

(* Steps that leave the invocation's purpose and the records alone.        *)
LEMMA MigrationStays ==
    ASSUME NEW p \in Procs, Migration(p), store' = store,
           Active(p)' => /\ Active(p)
                         /\ run'[p].command = run[p].command
                         /\ run'[p].key = run[p].key
                         /\ run'[p].migrate = run[p].migrate
                         /\ run'[p].outcome \in {"applied", "noop"} =>
                              run'[p].outcome = run[p].outcome \/ HuskyRecorded,
           pc'[p] \in BeforeCommit =>
             \/ pc[p] \in BeforeCommit /\ run'[p].final = run[p].final
             \/ run'[p].command = "install" => run'[p].final # NoRecord
    PROVE  Migration(p)'
<1>1. HuskyRecorded' = HuskyRecorded
  BY DEF HuskyRecorded
<1>2. pc'[p] \in BeforeCommit => Active(p)'
  BY DEF Active, BeforeCommit, Deciding
<1> QED
  BY <1>1, <1>2 DEF Migration

LEMMA MigrationReports ==
    ASSUME TypeOK, NEW p \in Procs, Migration(p), store' = store, Active(p),
           NEW result, Report(p, result),
           result \in {"applied", "noop"} => ~run[p].migrate \/ HuskyRecorded
    PROVE  Migration(p)'
<1>1. pc'[p] = "release" /\ run'[p] = [run[p] EXCEPT !.outcome = result] /\ run[p] \in Runs
  BY DEF Report, Goto, TypeOK
<1>2. pc'[p] \notin BeforeCommit
  BY <1>1 DEF BeforeCommit, Deciding
<1>3. /\ run'[p].command = run[p].command /\ run'[p].key = run[p].key
      /\ run'[p].migrate = run[p].migrate /\ run'[p].outcome = result
  BY <1>1 DEF Runs
<1>4. HuskyRecorded' = HuskyRecorded
  BY DEF HuskyRecorded
<1> QED
  BY <1>2, <1>3, <1>4 DEF Migration

(* An install that has nothing to do finds its record.                     *)
LEMMA NothingToDo ==
    ASSUME Typed, NEW p \in Procs, pc[p] = "read",
           \A i \in Indices(run[p].key) : InstallJudged(p, i) = "noop"
    PROVE  run[p].key \in Keys /\ store[run[p].key] # NoRecord
<1>1. run[p].key \in Keys
  BY DEF Typed, Numbered, Active
<1>2. PICK i \in Indices(run[p].key) : TRUE
  BY <1>1, SomeTarget
<1>3. ClassifyFresh(run[p].plan[i], files[Target(p, i)]) # "noop"
  BY DEF ClassifyFresh
<1> QED
  BY <1>1, <1>2, <1>3 DEF InstallJudged

LEMMA MigrationReads ==
    ASSUME Inv, NEW p \in Procs, Migration(p), ReadForInstall(p) \/ ReadForUninstall(p)
    PROVE  Migration(p)'
<1> USE DEF Inv, Typed
<1>1. pc[p] = "read" /\ store' = store /\ Active(p) /\ run[p] \in Runs
  BY DEF ReadForInstall, ReadForUninstall, internal, Active, TypeOK
<1>2. CASE pc'[p] \in Deciding
  <2>1. /\ run'[p].key = run[p].key /\ run'[p].command = run[p].command
        /\ run'[p].command = "install" => run'[p].final # NoRecord
    <3>1. ReadForInstall(p) => run[p].command = "install"
      BY DEF ReadForInstall
    <3>2. ReadForUninstall(p) => run[p].command = "uninstall"
      BY DEF ReadForUninstall
    <3> QED
      BY <1>2, <3>1, <3>2, InstallDecides, UninstallDecides
  <2>2. \E goal, final, writes, saves : Decide(p, goal, final, writes, saves)
    <3>1. ~\E result : Report(p, result)
      BY <1>2 DEF Report, Goto, TypeOK, Deciding
    <3> QED
      BY <3>1 DEF ReadForInstall, ReadForUninstall
  <2>3. run'[p].migrate = run[p].migrate /\ run'[p].outcome = run[p].outcome
    BY <1>1, <2>2 DEF Decide, TypeOK, Runs
  <2> QED
    BY <1>1, <2>1, <2>3, MigrationStays
<1>3. CASE pc'[p] \notin Deciding
  <2>1. \A goal, final, writes, saves : ~Decide(p, goal, final, writes, saves)
    BY <1>3 DEF Decide, Goto, TypeOK, Deciding
  <2>2. CASE ReadForUninstall(p)
    <3> DEFINE k == run[p].key
               judged == [i \in Indices(k) |->
                            ClassifyReverse(store[k][i], Current(k)[i], Backup(k, i).there,
                                            run[p].force)]
               refused == {i \in Indices(k) : judged[i] \in {"no_backup", "drift"}}
    <3>1. Report(p, "not_installed") \/ \E i \in refused : Report(p, judged[i])
      BY <2>1, <2>2 DEF ReadForUninstall
    <3>2. \A i \in refused : judged[i] \in {"no_backup", "drift"}
      OBVIOUS
    <3> HIDE DEF judged, refused
    <3>3. PICK result : Report(p, result) /\ result \notin {"applied", "noop"}
      BY <3>1, <3>2
    <3> QED
      BY <1>1, <3>3, MigrationReports
  <2>3. CASE ReadForInstall(p)
    <3> DEFINE judged == [i \in Indices(run[p].key) |->
                   IF store[run[p].key] = NoRecord
                   THEN ClassifyFresh(run[p].plan[i], Current(run[p].key)[i])
                   ELSE ClassifyRecorded(run[p].plan[i], store[run[p].key][i],
                                         Current(run[p].key)[i], run[p].force)]
    <3>1. /\ run[p].command = "install"
          /\ \/ \E i \in Indices(run[p].key) : judged[i] \in Refusals /\ Report(p, judged[i])
             \/ (\A i \in Indices(run[p].key) : judged[i] = "noop") /\ Report(p, "noop")
      BY <2>1, <2>3 DEF ReadForInstall
    <3>2. \A i \in Indices(run[p].key) : judged[i] = InstallJudged(p, i)
      BY DEF InstallJudged, Current, Target
    <3> HIDE DEF judged
    <3>3. CASE \E i \in Indices(run[p].key) : judged[i] \in Refusals /\ Report(p, judged[i])
      BY <1>1, <3>3, MigrationReports DEF Refusals
    <3>4. CASE (\A i \in Indices(run[p].key) : judged[i] = "noop") /\ Report(p, "noop")
      <4>1. run[p].key \in Keys /\ store[run[p].key] # NoRecord
        BY <1>1, <3>2, <3>4, NothingToDo
      <4>2. run[p].migrate => HuskyRecorded
        BY <1>1, <3>1, <4>1 DEF Migration, HuskyRecorded
      <4> QED
        BY <1>1, <3>4, <4>2, MigrationReports
    <3> QED
      BY <3>1, <3>3, <3>4
  <2> QED
    BY <2>2, <2>3
<1> QED
  BY <1>2, <1>3

LEMMA MigrationCommits ==
    ASSUME Inv, NEW p \in Procs, Migration(p), Commit(p)
    PROVE  Migration(p)'
<1> USE DEF Inv, Typed
<1>1. pc[p] = "commit" /\ run[p].seen = store /\ Active(p) /\ run[p].key \in Keys
  BY DEF Commit, Exclusive, BeforeCommit, Deciding, Active, Numbered
<1>2. /\ store' = [store EXCEPT ![run[p].key] = run[p].final]
      /\ pc'[p] \notin BeforeCommit
      /\ run'[p] = [run[p] EXCEPT !.outcome = IF run[p].command = "install"
                                              THEN "applied" ELSE "uninstalled"]
  BY <1>1 DEF Commit, Goto, TypeOK, BeforeCommit, Deciding
<1>3. /\ run'[p].command = run[p].command /\ run'[p].key = run[p].key
      /\ run'[p].migrate = run[p].migrate
      /\ run'[p].outcome \in {"applied", "noop"} => run[p].command = "install"
  BY <1>2 DEF TypeOK, Runs
<1>4. ASSUME run[p].migrate PROVE HuskyRecorded'
  <2>1. CASE run[p].command = "install"
    <3>1. AdapterOf[run[p].key] = "husky" /\ run[p].final # NoRecord
      BY <1>1, <1>4, <2>1 DEF Migration, BeforeCommit, Deciding
    <3>2. store'[run[p].key] # NoRecord
      BY <1>1, <1>2, <3>1 DEF TypeOK
    <3> QED
      BY <1>1, <3>1, <3>2 DEF HuskyRecorded
  <2>2. CASE run[p].command = "uninstall"
    <3>1. PICK h \in Keys : AdapterOf[h] = "husky" /\ store[h] # NoRecord
      BY <1>1, <1>4, <2>2 DEF Migration, HuskyRecorded
    <3>2. h # run[p].key
      BY <1>1, <1>4, <2>2, <3>1 DEF Migration
    <3>3. store'[h] # NoRecord
      BY <1>2, <3>1, <3>2 DEF TypeOK
    <3> QED
      BY <3>1, <3>3 DEF HuskyRecorded
  <2> QED
    BY <1>1, <2>1, <2>2 DEF Numbered
<1> QED
  BY <1>1, <1>2, <1>3, <1>4 DEF Migration

LEMMA MigrationEnds ==
    ASSUME Inv, NEW p \in Procs, Migration(p), Release(p) \/ ReleaseFails(p)
    PROVE  Migration(p)'
<1> USE DEF Inv, Typed
<1>1. store' = store /\ EndRun(p) /\ Active(p)
  BY DEF Release, ReleaseFails, internal, Active
<1>2. HuskyRecorded' = HuskyRecorded
  BY <1>1 DEF HuskyRecorded
<1>3. CASE Goto(p, "idle")
  BY <1>3 DEF Migration, Goto, TypeOK, Active, BeforeCommit, Deciding
<1>4. CASE Migrates(p) /\ Goto(p, "lock") /\
           \E k \in Keys :
             /\ AdapterOf[k] = "hook"
             /\ run' = [run EXCEPT ![p] = [NoRun EXCEPT !.command = "uninstall", !.key = k,
                                                        !.migrate = TRUE, !.txn = begun + 1]]
  <2>1. HuskyRecorded
    BY <1>1, <1>4 DEF Migrates, Migration
  <2>2. PICK k \in Keys :
          /\ AdapterOf[k] = "hook"
          /\ run' = [run EXCEPT ![p] = [NoRun EXCEPT !.command = "uninstall", !.key = k,
                                                     !.migrate = TRUE, !.txn = begun + 1]]
    BY <1>4
  <2>3. run'[p].command = "uninstall" /\ run'[p].key = k /\ pc'[p] \notin BeforeCommit
    BY <1>4, <2>2 DEF NoRun, TypeOK, Goto, BeforeCommit, Deciding
  <2> QED
    BY <1>2, <2>1, <2>2, <2>3 DEF Migration
<1> QED
  BY <1>1, <1>3, <1>4, Zenon DEF EndRun

LEMMA MigrationBegins ==
    ASSUME Inv, NEW p \in Procs, NEW k \in Keys, NEW force \in BOOLEAN,
           (\E v \in Values : BeginInstall(p, k, force, v)) \/ BeginUninstall(p, k, force)
    PROVE  Migration(p)'
<1> USE DEF Inv, Typed
<1>1. pc'[p] \notin BeforeCommit
  BY DEF BeginInstall, BeginUninstall, Goto, TypeOK, BeforeCommit, Deciding
<1>2. ASSUME NEW v \in Values, BeginInstall(p, k, force, v)
      PROVE  Migration(p)'
  <2> DEFINE ops == [i \in Indices(k) |->
                       [kind |-> PlannedKind(AdapterOf[k], files[TargetsOf[k][i]], force),
                        value |-> v]]
             migrate == AdapterOf[k] = "husky" /\ DirectHookThere
             new == [NoRun EXCEPT !.command = "install", !.key = k, !.force = force,
                                  !.migrate = migrate, !.txn = begun + 1, !.plan = ops]
  <2>1. run' = [run EXCEPT ![p] = new]
    BY <1>2 DEF BeginInstall
  <2> HIDE DEF ops
  <2>2. /\ new.command = "install" /\ new.key = k /\ new.outcome = "none"
        /\ new.migrate <=> migrate
    BY Zenon DEF NoRun
  <2> HIDE DEF new
  <2>3. run'[p] = new
    BY <2>1 DEF TypeOK
  <2> QED
    BY <1>1, <2>2, <2>3 DEF Migration
<1>3. CASE BeginUninstall(p, k, force)
  <2>1. ~run'[p].migrate
    BY <1>3 DEF BeginUninstall, NoRun, TypeOK
  <2> QED
    BY <1>1, <2>1 DEF Migration
<1> QED
  BY <1>2, <1>3

LEMMA MigrationWorks ==
    ASSUME Inv, NEW p \in Procs, Migration(p),
           \/ AcquireLock(p) \/ WriteJournal(p) \/ NoteSave(p) \/ NoteWrite(p) \/ SetPhase(p)
           \/ MarkDone(p) \/ DeleteJournal(p) \/ DropBackups(p)
           \/ \E i : SaveTarget(p, i) \/ WriteTarget(p, i)
    PROVE  Migration(p)'
<1> USE DEF Inv, Typed
<1>1. /\ store' = store /\ Active(p)
      /\ pc'[p] \in BeforeCommit => pc[p] \in BeforeCommit
  <2>1. ASSUME NEW i, SaveTarget(p, i) \/ WriteTarget(p, i)
        PROVE  store' = store /\ pc[p] \in {"save", "write"}
    BY <2>1 DEF SaveTarget, WriteTarget, internal
  <2>2. ASSUME WriteJournal(p) \/ NoteSave(p) \/ NoteWrite(p) \/ SetPhase(p)
        PROVE  store' = store /\ pc[p] \in {"journal", "note_save", "note_write", "phase"}
    BY <2>2 DEF WriteJournal, NoteSave, NoteWrite, SetPhase
  <2>3. ASSUME AcquireLock(p) \/ MarkDone(p) \/ DeleteJournal(p) \/ DropBackups(p)
        PROVE  /\ store' = store /\ pc[p] # "idle"
               /\ pc'[p] \notin BeforeCommit
    BY <2>3 DEF AcquireLock, MarkDone, DeleteJournal, DropBackups, Goto, TypeOK, BeforeCommit,
       Deciding
  <2> QED
    BY <2>1, <2>2, <2>3 DEF Active, BeforeCommit, Deciding
<1>2. /\ run'[p].command = run[p].command /\ run'[p].key = run[p].key
      /\ run'[p].migrate = run[p].migrate /\ run'[p].outcome = run[p].outcome
      /\ run'[p].final = run[p].final
  <2>1. ASSUME NEW i, SaveTarget(p, i)
        PROVE  run' = [run EXCEPT ![p] = [run[p] EXCEPT !.toSave = @ \ {i}]]
    BY <2>1 DEF SaveTarget
  <2>2. ASSUME NEW i, WriteTarget(p, i)
        PROVE  run' = [run EXCEPT ![p] = [run[p] EXCEPT !.toWrite = @ \ {i}]]
    BY <2>2 DEF WriteTarget
  <2>3. CASE \A i : ~SaveTarget(p, i) /\ ~WriteTarget(p, i)
    BY <2>3 DEF AcquireLock, WriteJournal, NoteSave, NoteWrite, SetPhase, MarkDone,
       DeleteJournal, DropBackups
  <2> QED
    BY <2>1, <2>2, <2>3 DEF TypeOK, Runs
<1> QED
  BY <1>1, <1>2, MigrationStays

LEMMA MigrationStep ==
    ASSUME Inv, NEW p \in Procs, Migration(p), StepOf(p)
    PROVE  Migration(p)'
<1> USE DEF Inv, Typed
<1>1. CASE Throw(p) \/ TearJournal(p)
  <2>1. Report(p, "threw") /\ store' = store /\ Active(p)
    BY <1>1 DEF Throw, Throwing, TearJournal, internal, Active
  <2> QED
    BY <2>1, MigrationReports
<1>2. CASE LockHeld(p) \/ Crash(p)
  BY <1>2 DEF LockHeld, Crash, Goto, TypeOK, Migration, Active, BeforeCommit, Deciding
<1>3. CASE Scan(p)
  <2>1. store' = store /\ Active(p)
    BY <1>3 DEF Scan, internal, Active
  <2>2. CASE Report(p, "pending")
    BY <2>1, <2>2, MigrationReports
  <2>3. CASE Goto(p, "read") /\ run' = run
    <3>1. pc'[p] \notin BeforeCommit
      BY <2>3 DEF Goto, TypeOK, BeforeCommit, Deciding
    <3> QED
      BY <2>1, <2>3, <3>1, MigrationStays
  <2> QED
    BY <1>3, <2>2, <2>3 DEF Scan
<1> QED
  BY <1>1, <1>2, <1>3, MigrationReads, MigrationCommits, MigrationEnds, MigrationBegins,
     MigrationWorks DEF StepOf, Proceed, Transact

(* Each migration, one at a time, takes the direct hook away only when     *)
(* husky's is on record, whatever fails or dies and whenever the user edits*)
(* the files.                                                              *)
THEOREM MigrationChecked ==
    ASSUME OneProcess
    PROVE  Spec => MigrationKeepsHook
<1>1. Init => Migrations
  BY DEF Init, Migrations, Migration, Active, BeforeCommit, Deciding
<1>2. Inv /\ Migrations /\ [Next]_vars => Migrations'
  <2> SUFFICES ASSUME Inv, Migrations, [Next]_vars PROVE Migrations'
    OBVIOUS
  <2>1. ASSUME UNCHANGED <<pc, run, store>> PROVE Migrations'
    BY <2>1 DEF Migrations, Migration, HuskyRecorded, Active
  <2>2. ASSUME NEW p \in Procs, StepOf(p) PROVE Migrations'
    BY <2>2, MigrationStep DEF Migrations, OneProcess
  <2>3. Outside => UNCHANGED <<pc, run, store>>
    BY OutsideDisk DEF UserEdits, internal
  <2> QED
    BY <2>1, <2>2, <2>3, NextSteps DEF vars, internal
<1>3. Inv /\ Migrations /\ [Next]_vars =>
        [\A k \in Keys :
           /\ AdapterOf[k] = "hook" /\ store[k] # NoRecord /\ store'[k] = NoRecord
           /\ \E p \in Procs : pc[p] = "commit" /\ run[p].key = k /\ run[p].migrate
           => \E h \in Keys : AdapterOf[h] = "husky" /\ store[h] # NoRecord]_vars
  <2> SUFFICES ASSUME Inv, Migrations,
                      NEW k \in Keys, AdapterOf[k] = "hook",
                      NEW p \in Procs, pc[p] = "commit", run[p].key = k, run[p].migrate
               PROVE  HuskyRecorded
    BY DEF HuskyRecorded
  <2>1. Active(p) /\ run[p].command \in {"install", "uninstall"}
    BY DEF Inv, Typed, Numbered, Active
  <2> QED
    BY <2>1 DEF Migrations, Migration
<1> QED
  BY <1>1, <1>2, <1>3, Invariant, PTL DEF Spec, MigrationKeepsHook
=============================================================================

---------------------------- MODULE ManagedFiles ----------------------------
(***************************************************************************)
(* The files the installer manages, what an adapter asks of them and how   *)
(* the engine judges and computes each edit: the adapters' plan(), classi- *)
(* fyOp of engine-classify.ts and planReverse of engine-uninstall.ts.      *)
(*                                                                         *)
(* A file is Absent or has a text of the user's and a managed region, the  *)
(* part VibeRevert generates; either may be Nothing.  It is framed when it *)
(* has what a merge leaves around its region: for JSON the mcpServers      *)
(* object and prettyJson's layout, for a block the line break before it    *)
(* and one kind of line ending.  A framed file with no more than that is   *)
(* the empty document, { "mcpServers": {} } for JSON.  Equal digests stand *)
(* for equal regions.  A file is its bytes: no mode is part of it, see the *)
(* README on what becomes of modes.                                        *)
(***************************************************************************)
EXTENDS Naturals

CONSTANTS Values,    \* managed regions an adapter can generate, one per version
          Texts,     \* texts a user can write
          Nothing,
          Absent

ASSUME NothingAssumption == Nothing \notin Values \cup Texts

Documents == [text : Texts \cup {Nothing}, managed : Values \cup {Nothing},
              framed : BOOLEAN]
ASSUME AbsentAssumption == Absent \notin Documents

Contents == Documents \cup {Absent}
Merge(c, region) == [text |-> c.text, managed |-> region, framed |-> TRUE]
Generated(v) == [text |-> Nothing, managed |-> v, framed |-> TRUE]
Empty == [text |-> Nothing, managed |-> Nothing, framed |-> TRUE]
HasManaged(c) == c # Absent /\ c.managed # Nothing

WholeKinds == {"write-new", "backup-and-write"}
MergeKinds == {"json-key-merge", "sentinel-block-insert"}
Kinds == WholeKinds \cup MergeKinds
Ops == [kind : Kinds, value : Values]

(* No managed region is there for an edit of this kind to compare with.    *)
Missing(kind, c) == IF kind \in WholeKinds THEN c = Absent ELSE ~HasManaged(c)

(* The region an edit of this kind manages is exactly value.               *)
Matches(kind, c, value) ==
    IF kind \in WholeKinds THEN c = Generated(value)
                           ELSE c # Absent /\ c.managed = value

(* computeDesiredFullFileBytes: what an edit leaves in the file.           *)
Desired(op, c) ==
    IF op.kind \in WholeKinds \/ c = Absent THEN Generated(op.value)
                                            ELSE Merge(c, op.value)

-----------------------------------------------------------------------------
(* The adapters, by the one decision they take: the kind of edit for the   *)
(* file as it is.  "json" stands for cursor and claude, "block" for        *)
(* lefthook, "hook" for direct-hook, "action" for github-action.           *)

Adapters == {"json", "block", "husky", "hook", "action"}
Refused == "refused"

PlannedKind(adapter, c, force) ==
    CASE adapter = "json" -> "json-key-merge"
      [] adapter \in {"block", "husky"} -> "sentinel-block-insert"
      [] adapter = "hook" ->
            IF c = Absent \/ HasManaged(c) THEN "write-new" ELSE "backup-and-write"
      [] adapter = "action" ->
            IF c = Absent \/ HasManaged(c) THEN "write-new"
            ELSE IF force THEN "backup-and-write" ELSE Refused

-----------------------------------------------------------------------------
(* What integrations.json records of one edit.  backup names the transac-  *)
(* tion that saved the file, 0 when none did; created is                   *)
(* targetWasAbsentBeforeApply, which only JSON merges record.              *)

CONSTANT MaxTransactions
ASSUME MaxTransactionsAssumption == MaxTransactions \in Nat

Transactions == 1..MaxTransactions
RecordOps == [kind : Kinds, value : Values, backup : 0..MaxTransactions,
              created : BOOLEAN]

RecordOf(op, c, txn) ==
    [kind |-> op.kind, value |-> op.value,
     backup |-> IF op.kind = "backup-and-write" THEN txn ELSE 0,
     created |-> op.kind = "json-key-merge" /\ c = Absent]

Mutations == {"apply", "update"}
Refusals == {"mismatch", "no_target", "exists", "drift"}
Assessments == Mutations \cup Refusals \cup {"adopt", "noop"}

(* classifyOp of an edit nothing is recorded for.                          *)
ClassifyFresh(op, c) ==
    IF op.kind = "backup-and-write" /\ c = Absent THEN "no_target"
    ELSE IF Matches(op.kind, c, op.value) THEN "adopt"
    ELSE IF op.kind = "write-new" /\ c # Absent THEN "exists"
    ELSE "apply"

(* Fault: the region is not compared with the recorded one.                *)
ClassifyRecordedTrusting(op, r, c, force) ==
    IF r.kind # op.kind THEN "mismatch"
    ELSE IF op.value = r.value THEN "noop" ELSE "update"

(* classifyOp of an edit recorded as r.                                    *)
ClassifyRecorded(op, r, c, force) ==
    IF r.kind # op.kind THEN "mismatch"
    ELSE IF Matches(op.kind, c, r.value)
         THEN IF op.value = r.value THEN "noop" ELSE "update"
    ELSE IF force THEN "apply"
    ELSE "drift"

(* Only an edit that mutates is carried out; any other leaves the file.    *)
Leaves(op, c, assessment) == IF assessment \in Mutations THEN Desired(op, c) ELSE c

NeedsBackup(op, assessment) ==
    op.kind = "backup-and-write" /\ assessment \in Mutations \cup {"adopt"}

-----------------------------------------------------------------------------
(* planReverse: how uninstall takes an edit recorded as r back, when the   *)
(* backup it names is there or not.                                        *)

ClassifyReverse(r, c, backupThere, force) ==
    IF r.kind = "backup-and-write" /\ ~backupThere THEN "no_backup"
    ELSE IF ~Matches(r.kind, c, r.value) /\ ~force THEN "drift"
    ELSE IF r.kind # "backup-and-write" /\ Missing(r.kind, c) THEN "skip"
    ELSE "reverse"

(* Fault: the file that replaced the user's is removed, not replaced.      *)
ReversedRemoves(r, c, bytes) ==
    IF r.kind \in WholeKinds THEN Absent ELSE Merge(c, Nothing)

(* What it leaves in the file; bytes is the content of the backup.  The    *)
(* frame stays: only the key or the block is taken out, and the rest is    *)
(* rendered again.  Nothing puts a mode back: a saved file comes back with *)
(* the default one, executable or not when it was saved.                   *)
Reversed(r, c, bytes) ==
    CASE r.kind = "write-new" -> Absent
      [] r.kind = "backup-and-write" -> bytes
      [] r.kind = "sentinel-block-insert" -> Merge(c, Nothing)
      [] r.kind = "json-key-merge" ->
            IF r.created /\ c.text = Nothing THEN Absent ELSE Merge(c, Nothing)
=============================================================================

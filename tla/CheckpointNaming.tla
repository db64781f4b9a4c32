------------------------- MODULE CheckpointNaming -------------------------
(***************************************************************************)
(* Checkpoints and their names.  Three operations make a checkpoint of     *)
(* .viberevert/checkpoints: checkpoint --name (and its MCP tool), which    *)
(* refuses a name that is taken; checkpoint without a name; and the        *)
(* emergency checkpoint of a rollback, which takes the first free name of  *)
(* a series.  The two that care for names scan and create inside           *)
(* checkpoint-name.lock (DirLock); lookups by name (check --since) scan    *)
(* without it.                                                             *)
(*                                                                         *)
(* The rollback holds rollback.lock around its call, so one process stands *)
(* for the rollbacks of all times.  A name is a number: k > 0 stands for   *)
(* the k-th name of the emergency series (pre-rollback-X, then             *)
(* pre-rollback-X-2, ...), which a user may type as well.                  *)
(***************************************************************************)
EXTENDS DirLock, FiniteSets

CONSTANTS Rollback,   \* the process that runs rollback --apply
          Ids,        \* checkpoint ids; their number bounds the calls
          UserNames,  \* names users ask for
          NoName, NoId,
          MaxDamages  \* checkpoints spoiled from outside

ASSUME RollbackAssumption == Rollback \in Procs
ASSUME NamesAssumption == UserNames \subseteq Nat /\ NoName \notin Nat
ASSUME IdsAssumption == NoId \notin Ids
ASSUME DamagesAssumption == MaxDamages \in Nat

VARIABLES checkpoints,  \* the published directories: [id, name] of each
          damaged,      \* those an artifact of which is gone
          call,         \* call[p]: what p is asked for
          step,         \* step[p]: where p stands
          entries,      \* entries[p]: the directories p's scan has read
          outcome       \* outcome[p]: how p's call ended

naming == <<checkpoints, damaged, call, step, entries, outcome>>

namingVars == <<vars, naming>>

Names == Nat \cup {NoName}

Checkpoints == [id : Ids, name : Names]

(* known: the names published when the call began (a history of lookups).  *)
Calls == [kind : {"none", "named", "nameless", "emergency", "lookup"},
          name : Names, id : Ids \cup {NoId}, known : SUBSET Names]

NoCall == [kind |-> "none", name |-> NoName, id |-> NoId, known |-> {}]

Steps == {"idle", "lock", "list", "load", "make", "rename",
          "release", "done"}

Failures == {"collision", "list_failed", "io_failed", "create_failed",
             "rename_failed", "refused"}

Outcomes == Failures \cup {"none", "created", "release_failed",
                           "found", "missing", "ambiguous"}

NamingTypeOK == /\ checkpoints \subseteq Checkpoints
                /\ damaged \subseteq Ids
                /\ call \in [Procs -> Calls]
                /\ step \in [Procs -> Steps]
                /\ entries \in [Procs -> SUBSET Ids]
                /\ outcome \in [Procs -> Outcomes]

NamingInit == /\ Init
              /\ checkpoints = {}
              /\ damaged = {}
              /\ call = [p \in Procs |-> NoCall]
              /\ step = [p \in Procs |-> "idle"]
              /\ entries = [p \in Procs |-> {}]
              /\ outcome = [p \in Procs |-> "none"]

IdsOf(set) == {c.id : c \in set}
NamesOf(set) == {c.name : c \in set}

Mine(p) == [id |-> call[p].id, name |-> call[p].name]

(* ULIDs nobody has.                                                       *)
FreshIds == Ids \ (IdsOf(checkpoints) \cup {call[p].id : p \in Procs})

(* Bound: every call under way, and one more, will find a fresh id.        *)
Room == Cardinality(checkpoints)
          + Cardinality({p \in Procs :
                            /\ call[p].kind \notin {"none", "lookup"}
                            /\ Mine(p) \notin checkpoints})
            < Cardinality(Ids)

Goto(p, s) == step' = [step EXCEPT ![p] = s]

-----------------------------------------------------------------------------
(* A call begins.                                                          *)
Begin(p, kind, name, first) ==
    /\ step[p] = "idle"
    /\ call' = [call EXCEPT ![p] = [NoCall EXCEPT !.kind = kind, !.name = name,
                       !.known = IF kind = "lookup" THEN NamesOf(checkpoints)
                                                    ELSE {}]]
    /\ Goto(p, first)
    /\ UNCHANGED <<vars, checkpoints, damaged, entries, outcome>>

BeginNamed(p) == /\ p # Rollback
                 /\ Room
                 /\ \E n \in UserNames : Begin(p, "named", n, "lock")

(* No name, nothing to be unique: neither lock nor scan.                   *)
BeginNameless(p) == p # Rollback /\ Room /\ Begin(p, "nameless", NoName, "make")

(* Fault: the emergency checkpoint relies on rollback.lock alone.          *)
BeginEmergencyUnlocked(p) ==
    p = Rollback /\ Room /\ Begin(p, "emergency", NoName, "list")

BeginEmergency(p) == p = Rollback /\ Room /\ Begin(p, "emergency", NoName, "lock")

BeginLookup(p) == /\ p # Rollback
                  /\ \E n \in UserNames : Begin(p, "lookup", n, "list")

-----------------------------------------------------------------------------
(* The body of the call is over: inside the lock its release comes next.   *)
Ends(p, result) ==
    /\ outcome' = [outcome EXCEPT ![p] = result]
    /\ entries' = [entries EXCEPT ![p] = {}]
    /\ UNCHANGED <<dir, meta, info, damaged, call>>
    /\ \/ /\ stage[p] # "inside"
          /\ Goto(p, "done")
          /\ UNCHANGED stage
       \/ /\ stage[p] = "inside"
          /\ Goto(p, "release")
          /\ stage' = [stage EXCEPT
                          ![p] = IF result = "created" THEN "returned"
                                                       ELSE "threw"]

EnterLock(p) == /\ step[p] = "lock"
                /\ Acquire(p)
                /\ Goto(p, "list")
                /\ UNCHANGED <<checkpoints, damaged, call, entries, outcome>>

LockRefused(p) == /\ step[p] = "lock"
                  /\ Refuse(p)
                  /\ outcome' = [outcome EXCEPT ![p] = "refused"]
                  /\ Goto(p, "done")
                  /\ UNCHANGED <<checkpoints, damaged, call, entries>>

(* listCheckpoints: the directory is read once; what is not cp_<ULID>, the *)
(* temporary directories above all, is passed over.                        *)
List(p) == /\ step[p] = "list"
           /\ entries' = [entries EXCEPT ![p] = IdsOf(checkpoints)]
           /\ Goto(p, "load")
           /\ UNCHANGED <<vars, checkpoints, damaged, call, outcome>>

(* What it finds there is loaded one by one.  A published checkpoint does  *)
(* not change but to be spoiled, so a scan that loads them all could have  *)
(* loaded them at one moment: the one at which it decides.                 *)
Seen(p) == {c \in checkpoints : c.id \in entries[p]}

(* One that does not load makes the whole listing fail.                    *)
LoadCorrupt(p) == /\ step[p] = "load"
                  /\ entries[p] \cap damaged # {}
                  /\ Ends(p, "list_failed")
                  /\ UNCHANGED checkpoints

(* Any other failure of the file system.                                   *)
IoFails(p) == /\ step[p] \in {"lock", "list", "load"}
              /\ Ends(p, "io_failed")
              /\ UNCHANGED checkpoints

Scanned(p, kind) == /\ step[p] = "load"
                    /\ entries[p] \cap damaged = {}
                    /\ call[p].kind = kind

Collide(p) == /\ Scanned(p, "named")
              /\ call[p].name \in NamesOf(Seen(p))
              /\ Ends(p, "collision")
              /\ UNCHANGED checkpoints

(* The name is settled: on to createCheckpoint.                            *)
Take(p, name) == /\ call' = [call EXCEPT ![p].name = name]
                 /\ entries' = [entries EXCEPT ![p] = {}]
                 /\ Goto(p, "make")
                 /\ UNCHANGED <<vars, checkpoints, damaged, outcome>>

TakeAsked(p) == /\ Scanned(p, "named")
                /\ call[p].name \notin NamesOf(Seen(p))
                /\ Take(p, call[p].name)

(* The first free name of the series.                                      *)
TakeFree(p) == /\ Scanned(p, "emergency")
               /\ \E k \in 1..(Cardinality(Seen(p)) + 1) :
                     /\ k \notin NamesOf(Seen(p))
                     /\ \A j \in 1..(k - 1) : j \in NamesOf(Seen(p))
                     /\ Take(p, k)

(* findCheckpointByName.                                                   *)
Answer(p) ==
    LET matches == {c \in Seen(p) : c.name = call[p].name}
    IN  /\ Scanned(p, "lookup")
        /\ Ends(p, CASE matches = {} -> "missing"
                     [] \E c \in matches : matches = {c} -> "found"
                     [] OTHER -> "ambiguous")
        /\ UNCHANGED checkpoints

-----------------------------------------------------------------------------
(* generateCheckpointId: any fresh id is as good as another.               *)
Draw(p) == /\ FreshIds # {}
           /\ call' = [call EXCEPT ![p].id = CHOOSE i \in FreshIds : TRUE]

(* Fault: the checkpoint is built in the directory it will have.           *)
MakeInPlace(p) ==
    /\ step[p] = "make"
    /\ Draw(p)
    /\ checkpoints' = checkpoints \cup {[id |-> call'[p].id, name |-> call[p].name]}
    /\ damaged' = damaged \cup {call'[p].id}
    /\ Goto(p, "rename")
    /\ UNCHANGED <<vars, entries, outcome>>

(* createCheckpoint: everything goes to a temporary directory of a random  *)
(* name, the manifest last.                                                *)
Make(p) == /\ step[p] = "make"
           /\ Draw(p)
           /\ Goto(p, "rename")
           /\ UNCHANGED <<vars, checkpoints, damaged, entries, outcome>>

(* The temporary directory is removed, or left where no scan looks.        *)
CreateFails(p) == /\ step[p] = "make"
                  /\ Ends(p, "create_failed")
                  /\ UNCHANGED checkpoints

(* The commit point.                                                       *)
Publish(p) == /\ step[p] = "rename"
              /\ checkpoints' = checkpoints \cup {Mine(p)}
              /\ Ends(p, "created")

RenameFails(p) == /\ step[p] = "rename"
                  /\ Ends(p, "rename_failed")
                  /\ UNCHANGED checkpoints

-----------------------------------------------------------------------------
LeaveNameLock(p) == /\ step[p] = "release"
                /\ Release(p)
                /\ Goto(p, "done")
                /\ UNCHANGED <<checkpoints, damaged, call, entries, outcome>>

(* After a throw the failure of rm is swallowed, after a return it becomes *)
(* the answer.                                                             *)
LeaveFails(p) == /\ step[p] = "release"
                 /\ ReleaseFails(p)
                 /\ outcome' = [outcome EXCEPT
                                   ![p] = IF stage[p] = "returned"
                                          THEN "release_failed" ELSE @]
                 /\ Goto(p, "done")
                 /\ UNCHANGED <<checkpoints, damaged, call, entries>>

Forget(p) == /\ call' = [call EXCEPT ![p] = NoCall]
             /\ entries' = [entries EXCEPT ![p] = {}]
             /\ outcome' = [outcome EXCEPT ![p] = "none"]
             /\ Goto(p, "idle")
             /\ UNCHANGED <<checkpoints, damaged>>

(* The caller has the answer.                                              *)
Report(p) == /\ step[p] = "done"
             /\ Forget(p)
             /\ \/ Dismiss(p)
                \/ stage[p] # "refused" /\ UNCHANGED vars

(* The process dies, with or without the lock.                             *)
Die(p) == /\ step[p] \notin {"idle", "done"}
          /\ Forget(p)
          /\ \/ Crash(p)
             \/ stage[p] \notin Holding /\ UNCHANGED vars

CleanUp == RemoveStale /\ UNCHANGED naming

(* An artifact of a checkpoint disappears.                                 *)
Damage == /\ Cardinality(damaged) < MaxDamages
          /\ \E i \in IdsOf(checkpoints) : damaged' = damaged \cup {i}
          /\ UNCHANGED <<vars, checkpoints, call, step, entries, outcome>>

Continue(p) ==
    \/ EnterLock(p) \/ LockRefused(p) \/ List(p) \/ LoadCorrupt(p)
    \/ IoFails(p) \/ Collide(p) \/ TakeAsked(p) \/ TakeFree(p) \/ Answer(p)
    \/ Make(p) \/ CreateFails(p) \/ Publish(p) \/ RenameFails(p)
    \/ LeaveNameLock(p) \/ LeaveFails(p) \/ Report(p)

NamingNext == \/ \E p \in Procs : \/ BeginNamed(p) \/ BeginNameless(p)
                                  \/ BeginEmergency(p) \/ BeginLookup(p)
                                  \/ Continue(p) \/ Die(p)
              \/ CleanUp
              \/ Damage

NamingSpec == NamingInit /\ [][NamingNext]_namingVars

-----------------------------------------------------------------------------
(* No two checkpoints have one name, whoever made them, whatever crashed   *)
(* or was spoiled: the uniqueness createCheckpointOperation and            *)
(* createEmergencyCheckpoint scan for, each with its own rule.             *)
NamesUnique ==
    \A c, d \in checkpoints : c.name = d.name /\ c.name # NoName => c = d

(* A call that is answered with a checkpoint made it under its name, and   *)
(* one that is answered with a failure of its own made none: a retry meets *)
(* nothing it has left behind (emergency-checkpoint.ts: "the working tree  *)
(* is unchanged", the user can retry cleanly).                             *)
AnswerMatchesStore ==
    \A p \in Procs :
        /\ outcome[p] \in {"created", "release_failed"}
              => Mine(p) \in checkpoints
        /\ outcome[p] \in Failures
              => call[p].id \notin IdsOf(checkpoints)

(* A lookup never finds two checkpoints, never misses one that was there   *)
(* when it began, and finds none that is not there.                        *)
LookupSound ==
    \A p \in Procs : /\ outcome[p] # "ambiguous"
                     /\ outcome[p] = "missing" => call[p].name \notin call[p].known
                     /\ outcome[p] = "found"
                          => call[p].name \in NamesOf(checkpoints)
=============================================================================

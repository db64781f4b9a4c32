-------------------------- MODULE CheckpointProofs --------------------------
(***************************************************************************)
(* DirLock for any number of invocations: type correctness, mutual         *)
(* exclusion, that lock.json never names another than the running holder,  *)
(* and that its directory is only ever removed by itself.  Then            *)
(* CheckpointNaming for any processes, names, ids and bounds: it uses      *)
(* checkpoint-name.lock as DirLock promises, and therefore no two          *)
(* checkpoints get one name, answers agree with the store, and lookups are *)
(* right.  Then CheckpointRestore for any paths, contents, commits and     *)
(* exclusions: a rollback that reports success has restored the checkpoint *)
(* (RollbackRestores), its receipt tells what it did (ReceiptsAreTrue), no *)
(* step of a restore destroys what nothing holds (NothingIsLost), one that *)
(* died can be run again (CrashesAreRepeatable), none breaks off but for   *)
(* two reasons (FailuresAreExplained), and the session's start as later    *)
(* steps put it together is the session's start (OracleRestores).          *)
(***************************************************************************)
EXTENDS CheckpointNaming, CheckpointRestore, SequenceTheorems, WellFoundedInduction, TLAPS


(* Mutual exclusion alone is not inductive: that nobody can acquire while  *)
(* somebody holds needs the directory to back every holder.                *)
LockInv == TypeOK /\ HolderHasDir /\ MutualExclusion /\ MetaNamesHolder

LEMMA InitInv == Init => LockInv
  BY DEF Init, LockInv, TypeOK, HolderHasDir, MutualExclusion, MetaNamesHolder,
         Stages, Holding

(* Each operation keeps the lock's invariant: only Acquire makes a holder, *)
(* and only when the directory was not there.                              *)
LEMMA NextInv == LockInv /\ [Next]_vars => LockInv'
<1> SUFFICES ASSUME LockInv, [Next]_vars
             PROVE  LockInv'
  OBVIOUS
<1> USE DEF LockInv, TypeOK, HolderHasDir, MutualExclusion, MetaNamesHolder,
            Stages, Holding
<1>1. ASSUME NEW p \in Procs, Acquire(p) PROVE LockInv'
  BY <1>1 DEF Acquire
<1>2. ASSUME NEW p \in Procs, Refuse(p) PROVE LockInv'
  BY <1>2 DEF Refuse
<1>3. ASSUME NEW p \in Procs, Dismiss(p) PROVE LockInv'
  BY <1>3 DEF Dismiss
<1>4. ASSUME NEW p \in Procs, Settle(p) PROVE LockInv'
  BY <1>4 DEF Settle
<1>5. ASSUME NEW p \in Procs, Release(p) PROVE LockInv'
  BY <1>5 DEF Release
<1>6. ASSUME NEW p \in Procs, ReleaseFails(p) PROVE LockInv'
  BY <1>6 DEF ReleaseFails
<1>7. ASSUME NEW p \in Procs, Crash(p) PROVE LockInv'
  BY <1>7 DEF Crash
<1>8. CASE RemoveStale
  BY <1>8 DEF RemoveStale
<1>9. CASE UNCHANGED vars
  BY <1>9 DEF vars
<1> QED
  BY <1>1, <1>2, <1>3, <1>4, <1>5, <1>6, <1>7, <1>8, <1>9 DEF Next

(* The invariant holds throughout every execution of withExclusiveLock.    *)
THEOREM LockInvariant == Spec => []LockInv
  BY InitInv, NextInv, PTL DEF Spec

(* The lock's variables keep their types.                                  *)
THEOREM TypeCorrect == Spec => []TypeOK
  BY LockInvariant, PTL DEF Spec, LockInv

(* No two invocations are ever inside withExclusiveLock together.          *)
THEOREM Mutex == Spec => []MutualExclusion
  BY LockInvariant, PTL DEF Spec, LockInv

(* A refusal that names a holder while somebody is inside names that one.  *)
THEOREM NamesHolder == Spec => []MetaNamesHolder
  BY LockInvariant, PTL DEF Spec, LockInv

(* The directory of an invocation that is inside disappears only in its    *)
(* own release: a refusal, a manual clean-up or another's crash leaves it. *)
THEOREM HolderRemoves == Spec => OnlyHolderReleases
<1> DEFINE Backed == \A p \in Procs : stage[p] \in Holding /\ ~dir' =>
                      stage[p] \in {"threw", "returned"} /\ stage'[p] = "idle"
<1>1. LockInv /\ [Next]_vars => [Backed]_vars
  <2> SUFFICES ASSUME LockInv, Next
               PROVE  Backed
    OBVIOUS
  <2> USE DEF LockInv, TypeOK, HolderHasDir, MutualExclusion, Holding
  <2>1. ASSUME NEW p \in Procs, Release(p) PROVE Backed
    BY <2>1 DEF Release
  <2>2. CASE RemoveStale
    BY <2>2 DEF RemoveStale
  <2>3. ASSUME NEW p \in Procs,
               Acquire(p) \/ Refuse(p) \/ Dismiss(p) \/ Settle(p)
                  \/ ReleaseFails(p) \/ Crash(p)
        PROVE  Backed
    BY <2>3 DEF Acquire, Refuse, Dismiss, Settle, ReleaseFails, Crash
  <2> QED
    BY <2>1, <2>2, <2>3 DEF Next
<1> QED
  BY <1>1, LockInvariant, PTL DEF Spec, OnlyHolderReleases

-----------------------------------------------------------------------------
(* Every step of a call is a step of the lock, or none of its business.    *)
LEMMA LockStep == [NamingNext]_namingVars => [Next]_vars
<1> SUFFICES ASSUME [NamingNext]_namingVars PROVE [Next]_vars
  OBVIOUS
<1>1. ASSUME NEW p \in Procs, NEW r, Ends(p, r) PROVE [Next]_vars
  BY <1>1 DEF Ends, Next, Settle, vars
<1>2. ASSUME NEW p \in Procs, Continue(p) PROVE [Next]_vars
  <2>1. CASE EnterLock(p) \/ LockRefused(p) \/ LeaveNameLock(p) \/ LeaveFails(p)
    BY <2>1 DEF EnterLock, LockRefused, LeaveNameLock, LeaveFails, Next
  <2>2. CASE Report(p)
    BY <2>2 DEF Report, Next
  <2>3. CASE List(p) \/ TakeAsked(p) \/ TakeFree(p) \/ Make(p)
    BY <2>3 DEF List, TakeAsked, TakeFree, Take, Make
  <2>4. CASE LoadCorrupt(p) \/ IoFails(p) \/ Collide(p) \/ Answer(p)
             \/ CreateFails(p) \/ Publish(p) \/ RenameFails(p)
    BY <2>4, <1>1 DEF LoadCorrupt, IoFails, Collide, Answer, CreateFails,
                      Publish, RenameFails
  <2> QED
    BY <1>2, <2>1, <2>2, <2>3, <2>4 DEF Continue
<1>3. ASSUME NEW p \in Procs,
             \/ BeginNamed(p) \/ BeginNameless(p)
             \/ BeginEmergency(p) \/ BeginLookup(p)
      PROVE  [Next]_vars
  BY <1>3 DEF BeginNamed, BeginNameless, BeginEmergency, BeginLookup, Begin
<1>4. ASSUME NEW p \in Procs, Die(p) PROVE [Next]_vars
  BY <1>4 DEF Die, Next
<1>5. CASE CleanUp
  BY <1>5 DEF CleanUp, Next
<1>6. CASE Damage \/ UNCHANGED namingVars
  BY <1>6 DEF Damage, namingVars
<1> QED
  BY <1>2, <1>3, <1>4, <1>5, <1>6 DEF NamingNext

(* Checkpoints are named under a lock that keeps DirLock's promises        *)
(* (createEmergencyCheckpoint, createCheckpointOperation).                 *)
THEOREM RefinesLock == NamingSpec => Spec
  BY LockStep, PTL DEF NamingSpec, NamingInit, Spec

-----------------------------------------------------------------------------
(* Where a call stands decides what it has in its hands.                   *)
StepInv(p) ==
    /\ step[p] \notin {"release", "done"} => outcome[p] = "none"
    /\ step[p] = "idle" => call[p] = NoCall
    /\ step[p] = "lock" => call[p].kind \in {"named", "emergency"}
    /\ step[p] \in {"list", "load"}
         => call[p].kind \in {"named", "emergency", "lookup"}
    /\ step[p] \in {"make", "rename"}
         => call[p].kind \in {"named", "emergency", "nameless"}
    /\ /\ step[p] \in {"list", "load", "make", "rename"}
       /\ call[p].kind \in {"named", "emergency"}
       => stage[p] = "inside"
    /\ call[p].kind = "nameless" => call[p].name = NoName
    /\ call[p].kind \in {"named", "lookup"} => call[p].name \in UserNames
    /\ step[p] \in {"lock", "list", "load", "make"} => call[p].id = NoId
    /\ step[p] = "release" /\ stage[p] = "returned" => outcome[p] = "created"

(* A scan inside the lock has every name there is, until its own call adds *)
(* one: the name it chose stays free.  A scan outside has at least what    *)
(* was there when it began.                                                *)
ScanInv(p) ==
    /\ step[p] = "load" /\ call[p].kind \in {"named", "emergency"}
         => \A c \in checkpoints : c.name # NoName => c.id \in entries[p]
    /\ step[p] \in {"make", "rename"} /\ call[p].kind # "nameless"
         => call[p].name \in Nat /\ call[p].name \notin NamesOf(checkpoints)
    /\ step[p] = "list" /\ call[p].kind = "lookup"
         => call[p].known \subseteq NamesOf(checkpoints)
    /\ step[p] = "load" /\ call[p].kind = "lookup"
         => \A n \in call[p].known :
               \E c \in checkpoints : c.name = n /\ c.id \in entries[p]

IdInv == /\ \A p, q \in Procs :
               call[p].id = call[q].id /\ call[p].id # NoId => p = q
         /\ \A p \in Procs : step[p] = "rename"
               => call[p].id \in Ids /\ call[p].id \notin IdsOf(checkpoints)

Inv == /\ NamingTypeOK
       /\ \A p \in Procs : StepInv(p) /\ ScanInv(p)
       /\ IdInv
       /\ NamesUnique
       /\ AnswerMatchesStore
       /\ LookupSound


LEMMA InvInit == NamingInit => Inv
  BY DEF NamingInit, Init, Inv, NamingTypeOK, StepInv, ScanInv, IdInv, NamesUnique,
         AnswerMatchesStore, LookupSound, NoCall, Calls, Names, Steps, Outcomes,
         Failures, Mine, NamesOf, IdsOf

(* The beginnings: the process had nothing in its hands.                   *)
LEMMA BeginKeeps ==
  ASSUME Inv, NEW p \in Procs,
         BeginNamed(p) \/ BeginNameless(p) \/ BeginEmergency(p) \/ BeginLookup(p)
  PROVE  Inv'
<1>1. PICK k \in {"named", "nameless", "emergency", "lookup"}, n \in Names,
           s \in {"lock", "list", "make"} :
        /\ Begin(p, k, n, s)
        /\ k \in {"named", "emergency"} => s = "lock"
        /\ k = "nameless" => s = "make" /\ n = NoName
        /\ k = "lookup" => s = "list"
        /\ k \in {"named", "lookup"} => n \in UserNames
  BY NamesAssumption DEF BeginNamed, BeginNameless, BeginEmergency, BeginLookup, Names
<1>2. /\ call' = [call EXCEPT ![p] = [NoCall EXCEPT !.kind = k, !.name = n,
                       !.known = IF k = "lookup" THEN NamesOf(checkpoints)
                                                 ELSE {}]]
      /\ step' = [step EXCEPT ![p] = s]
      /\ UNCHANGED <<stage, checkpoints, damaged, entries, outcome>>
      /\ step[p] = "idle"
  BY <1>1 DEF Begin, Goto, vars
<1>3. NamesOf(checkpoints) \subseteq Names
  BY DEF Inv, NamingTypeOK, NamesOf, Checkpoints
<1>4. NamingTypeOK'
  BY <1>1, <1>2, <1>3 DEF Inv, NamingTypeOK, Calls, NoCall, Steps
<1>5. (\A q \in Procs : StepInv(q) /\ ScanInv(q))'
  <2> SUFFICES ASSUME NEW q \in Procs PROVE StepInv(q)' /\ ScanInv(q)'
    OBVIOUS
  <2>1. CASE q # p
    BY <1>2, <2>1 DEF Inv, NamingTypeOK, StepInv, ScanInv, NamesOf
  <2>2. CASE q = p
    <3>1. /\ call'[p].kind = k /\ call'[p].name = n /\ call'[p].id = NoId
          /\ call'[p].known \subseteq NamesOf(checkpoints)
          /\ step'[p] = s /\ outcome'[p] = "none"
      BY <1>2 DEF Inv, NamingTypeOK, NoCall, StepInv
    <3>2. StepInv(p)'
      BY <1>1, <1>2, <3>1 DEF StepInv
    <3>3. ScanInv(p)'
      BY <1>1, <1>2, <3>1 DEF ScanInv, NamesOf
    <3> QED
      BY <2>2, <3>2, <3>3
  <2> QED
    BY <2>1, <2>2
<1>6. (IdInv /\ NamesUnique /\ AnswerMatchesStore /\ LookupSound)'
  BY <1>1, <1>2 DEF Inv, NamingTypeOK, StepInv, IdInv, NamesUnique, AnswerMatchesStore,
                    LookupSound, Calls, NoCall, NamesOf, IdsOf, Mine, Failures
<1> QED
  BY <1>4, <1>5, <1>6 DEF Inv

(* What an answer must say to be right, given what there is.               *)
Right(p, r) ==
    /\ r \in Outcomes \ {"none", "created", "release_failed", "ambiguous"}
    /\ r \in Failures => call[p].id \notin IdsOf(checkpoints)
    /\ r = "missing" => call[p].name \notin call[p].known
    /\ r = "found" => call[p].name \in NamesOf(checkpoints)

(* A call that ends with a right answer and has made nothing.              *)
LEMMA EndKeeps ==
  ASSUME TypeOK, Inv, NEW p \in Procs, NEW r, Right(p, r), Ends(p, r),
         UNCHANGED checkpoints
  PROVE  Inv'
<1>1. /\ step' \in [Procs -> Steps]
      /\ step'[p] \in {"release", "done"}
      /\ \A q \in Procs \ {p} : step'[q] = step[q]
      /\ outcome' = [outcome EXCEPT ![p] = r]
      /\ entries' = [entries EXCEPT ![p] = {}]
      /\ UNCHANGED <<checkpoints, damaged, call>>
  BY DEF Ends, Goto, Inv, NamingTypeOK, Steps
<1>2. \A q \in Procs \ {p} : stage[q] = "inside" => stage'[q] = "inside"
  BY DEF Ends, TypeOK
<1>3. NamingTypeOK'
  BY <1>1 DEF Right, Inv, NamingTypeOK
<1>4. step'[p] = "release" => stage'[p] = "threw"
  BY DEF Ends, Goto, Right, TypeOK, Inv, NamingTypeOK
<1>5. \A q \in Procs \ {p} : stage'[q] = stage[q]
  BY DEF Ends, TypeOK
<1>6. (\A q \in Procs : StepInv(q) /\ ScanInv(q))'
  BY <1>1, <1>2, <1>4, <1>5 DEF Inv, NamingTypeOK, StepInv, ScanInv
<1>7. (IdInv /\ NamesUnique)'
  BY <1>1 DEF Inv, IdInv, NamesUnique
<1>8. (AnswerMatchesStore /\ LookupSound)'
  BY <1>1 DEF Right, Inv, NamingTypeOK, AnswerMatchesStore, LookupSound, Mine
<1> QED
  BY <1>3, <1>6, <1>7, <1>8 DEF Inv

(* Failures before the rename, and of the rename.                          *)
LEMMA FailKeeps ==
  ASSUME TypeOK, Inv, NEW p \in Procs,
         \/ LoadCorrupt(p) \/ IoFails(p) \/ Collide(p)
         \/ CreateFails(p) \/ RenameFails(p)
  PROVE  Inv'
<1>1. PICK r \in Failures : Ends(p, r)
  BY DEF LoadCorrupt, IoFails, Collide, CreateFails, RenameFails, Failures
<1>2. UNCHANGED checkpoints
  BY DEF LoadCorrupt, IoFails, Collide, CreateFails, RenameFails
<1>3. step[p] \in {"lock", "list", "load", "make", "rename"}
  BY DEF LoadCorrupt, IoFails, Collide, CreateFails, RenameFails, Scanned
<1>4. call[p].id \notin IdsOf(checkpoints)
  BY <1>3, IdsAssumption DEF Inv, StepInv, IdInv, NamingTypeOK, IdsOf, Checkpoints
<1>5. Right(p, r)
  BY <1>4 DEF Right, Outcomes, Failures
<1> QED
  BY <1>1, <1>2, <1>5, EndKeeps

(* A lookup: one checkpoint at most has the name, and the scan has it if   *)
(* it was there in time.                                                   *)
LEMMA AnswerKeeps ==
  ASSUME TypeOK, Inv, NEW p \in Procs, Answer(p)
  PROVE  Inv'
<1> DEFINE matches == {c \in Seen(p) : c.name = call[p].name}
           r == CASE matches = {} -> "missing"
                  [] \E c \in matches : matches = {c} -> "found"
                  [] OTHER -> "ambiguous"
<1>1. Ends(p, r) /\ UNCHANGED checkpoints /\ Scanned(p, "lookup")
  BY DEF Answer
<1>2. call[p].name \in Nat /\ call[p].name # NoName
  BY <1>1, NamesAssumption DEF Scanned, Inv, StepInv
<1>3. \A c, d \in matches : c = d
  BY <1>2 DEF Inv, NamesUnique, Seen
<1>4. matches = {} \/ \E c \in matches : matches = {c}
  BY <1>3
<1>5. matches = {} => call[p].name \notin call[p].known
  BY <1>1 DEF Inv, ScanInv, Scanned, Seen
<1>6. \A c \in matches : call[p].name \in NamesOf(checkpoints)
  BY DEF NamesOf, Seen
<1>7. (r = "missing" /\ matches = {}) \/ (r = "found" /\ matches # {})
  <2> HIDE DEF matches
  <2>1. CASE matches = {}
    BY <2>1
  <2>2. CASE matches # {} /\ \E c \in matches : matches = {c}
    BY <2>2
  <2> QED
    BY <1>4, <2>1, <2>2
<1>8. Right(p, r)
  <2> HIDE DEF r
  <2> QED
    BY <1>5, <1>6, <1>7 DEF Right, Outcomes, Failures
<1> HIDE DEF r
<1> QED
  BY <1>1, <1>8, EndKeeps

(* The scan begins: it reads the names there are.                          *)
LEMMA ListKeeps ==
  ASSUME Inv, NEW p \in Procs, List(p)
  PROVE  Inv'
<1>1. /\ step[p] = "list"
      /\ step' = [step EXCEPT ![p] = "load"]
      /\ entries' = [entries EXCEPT ![p] = IdsOf(checkpoints)]
      /\ UNCHANGED <<stage, checkpoints, damaged, call, outcome>>
  BY DEF List, Goto, vars
<1>2. IdsOf(checkpoints) \subseteq Ids
  BY DEF Inv, NamingTypeOK, IdsOf, Checkpoints
<1>3. NamingTypeOK'
  BY <1>1, <1>2 DEF Inv, NamingTypeOK, Steps
<1>4. (\A q \in Procs : StepInv(q))'
  BY <1>1 DEF Inv, NamingTypeOK, StepInv
<1>5. (\A q \in Procs : ScanInv(q))'
  <2> SUFFICES ASSUME NEW q \in Procs PROVE ScanInv(q)'
    OBVIOUS
  <2>1. CASE q # p
    BY <1>1, <2>1 DEF Inv, NamingTypeOK, ScanInv
  <2>2. CASE q = p
    <3>1. step'[p] = "load" /\ entries'[p] = IdsOf(checkpoints)
      BY <1>1 DEF Inv, NamingTypeOK
    <3>2. \A c \in checkpoints : c.id \in IdsOf(checkpoints)
      BY DEF IdsOf
    <3>3. call[p].kind = "lookup" => \A n \in call[p].known :
             \E c \in checkpoints : c.name = n /\ c.id \in IdsOf(checkpoints)
      BY <1>1, <3>2 DEF Inv, ScanInv, NamesOf
    <3> QED
      BY <1>1, <2>2, <3>1, <3>2, <3>3 DEF ScanInv
  <2> QED
    BY <2>1, <2>2
<1>6. (IdInv /\ NamesUnique /\ AnswerMatchesStore /\ LookupSound)'
  BY <1>1 DEF Inv, NamingTypeOK, IdInv, NamesUnique, AnswerMatchesStore, LookupSound, Mine
<1> QED
  BY <1>3, <1>4, <1>5, <1>6 DEF Inv

(* A name is taken that the scan did not find.                             *)
LEMMA TakeKeeps ==
  ASSUME Inv, NEW p \in Procs, TakeAsked(p) \/ TakeFree(p)
  PROVE  Inv'
<1>1. PICK n \in Nat : /\ Take(p, n)
                       /\ n \notin NamesOf(Seen(p))
                       /\ call[p].kind = "named" => n = call[p].name
  <2>1. CASE TakeAsked(p)
    <3>1. call[p].name \in Nat
      BY <2>1, NamesAssumption DEF TakeAsked, Scanned, Inv, StepInv
    <3> QED
      BY <2>1, <3>1 DEF TakeAsked
  <2>2. CASE TakeFree(p)
    <3>1. PICK k \in 1..(Cardinality(Seen(p)) + 1) :
             k \notin NamesOf(Seen(p)) /\ Take(p, k)
      BY <2>2 DEF TakeFree
    <3>2. k \in Nat
      BY <3>1
    <3> QED
      BY <2>2, <3>1, <3>2 DEF TakeFree, Scanned
  <2> QED
    BY <2>1, <2>2
<1>2. step[p] = "load" /\ call[p].kind \in {"named", "emergency"}
  BY DEF TakeAsked, TakeFree, Scanned
<1>3. /\ step' = [step EXCEPT ![p] = "make"]
      /\ call' = [call EXCEPT ![p].name = n]
      /\ entries' = [entries EXCEPT ![p] = {}]
      /\ UNCHANGED <<stage, checkpoints, damaged, outcome>>
  BY <1>1 DEF Take, Goto, vars
<1>4. n \notin NamesOf(checkpoints)
  BY <1>1, <1>2, NamesAssumption DEF Inv, ScanInv, NamesOf, Seen
<1>5. NamingTypeOK'
  BY <1>3 DEF Inv, NamingTypeOK, Steps, Calls, Names
<1>6. /\ call'[p].kind = call[p].kind /\ call'[p].name = n
      /\ call'[p].id = call[p].id /\ call'[p].known = call[p].known
      /\ \A q \in Procs \ {p} : call'[q] = call[q]
  BY <1>3 DEF Inv, NamingTypeOK, Calls
<1>7. (\A q \in Procs : StepInv(q))'
  BY <1>1, <1>2, <1>3, <1>6 DEF Inv, NamingTypeOK, StepInv
<1>8. (\A q \in Procs : ScanInv(q))'
  BY <1>2, <1>3, <1>4, <1>6 DEF Inv, NamingTypeOK, ScanInv
<1>9. (IdInv /\ NamesUnique)'
  BY <1>3, <1>6, <1>2 DEF Inv, NamingTypeOK, IdInv, NamesUnique
<1>10. outcome[p] = "none"
  BY <1>2 DEF Inv, StepInv
<1>11. (AnswerMatchesStore /\ LookupSound)'
  BY <1>3, <1>6, <1>10 DEF Inv, NamingTypeOK, AnswerMatchesStore, LookupSound, Mine, Failures
<1> QED
  BY <1>5, <1>7, <1>8, <1>9, <1>11 DEF Inv

(* An id is drawn that neither a checkpoint nor a call has.                *)
LEMMA MakeKeeps ==
  ASSUME Inv, NEW p \in Procs, Make(p)
  PROVE  Inv'
<1> DEFINE i == CHOOSE i \in FreshIds : TRUE
<1>1. i \in FreshIds
  BY DEF Make, Draw
<1>2. /\ step[p] = "make"
      /\ step' = [step EXCEPT ![p] = "rename"]
      /\ call' = [call EXCEPT ![p].id = i]
      /\ UNCHANGED <<stage, checkpoints, damaged, entries, outcome>>
  BY DEF Make, Draw, Goto, vars
<1> HIDE DEF i
<1>3. /\ i \in Ids /\ i # NoId /\ i \notin IdsOf(checkpoints)
      /\ \A q \in Procs : call[q].id # i
  BY <1>1, IdsAssumption DEF FreshIds
<1>4. /\ call'[p].kind = call[p].kind /\ call'[p].name = call[p].name
      /\ call'[p].id = i /\ call'[p].known = call[p].known
      /\ \A q \in Procs \ {p} : call'[q] = call[q]
  BY <1>2 DEF Inv, NamingTypeOK, Calls
<1>5. NamingTypeOK'
  BY <1>2, <1>3 DEF Inv, NamingTypeOK, Steps, Calls
<1>6. (\A q \in Procs : StepInv(q))'
  BY <1>2, <1>4 DEF Inv, NamingTypeOK, StepInv
<1>7. (\A q \in Procs : ScanInv(q))'
  BY <1>2, <1>4 DEF Inv, NamingTypeOK, ScanInv
<1>8. (IdInv /\ NamesUnique)'
  BY <1>2, <1>3, <1>4 DEF Inv, NamingTypeOK, IdInv, NamesUnique
<1>9. outcome[p] = "none"
  BY <1>2 DEF Inv, StepInv
<1>10. (AnswerMatchesStore /\ LookupSound)'
  BY <1>2, <1>4, <1>9 DEF Inv, NamingTypeOK, AnswerMatchesStore, LookupSound, Mine, Failures
<1> QED
  BY <1>5, <1>6, <1>7, <1>8, <1>10 DEF Inv

LEMMA OneMore ==
  ASSUME NEW S, NEW c
  PROVE  /\ NamesOf(S \cup {c}) = NamesOf(S) \cup {c.name}
         /\ IdsOf(S \cup {c}) = IdsOf(S) \cup {c.id}
  BY DEF NamesOf, IdsOf

(* The checkpoint appears: its name was free, because whoever else chooses *)
(* or has chosen one would be in the lock too.                             *)
LEMMA PublishKeeps ==
  ASSUME TypeOK, MutualExclusion, Inv, NEW p \in Procs, Publish(p)
  PROVE  Inv'
<1>1. /\ step[p] = "rename"
      /\ step' \in [Procs -> Steps]
      /\ step'[p] \in {"release", "done"}
      /\ \A q \in Procs \ {p} : step'[q] = step[q]
      /\ \A q \in Procs \ {p} : stage'[q] = stage[q]
      /\ outcome' = [outcome EXCEPT ![p] = "created"]
      /\ entries' = [entries EXCEPT ![p] = {}]
      /\ checkpoints' = checkpoints \cup {Mine(p)}
      /\ UNCHANGED <<damaged, call>>
  BY DEF Publish, Ends, Goto, Inv, NamingTypeOK, Steps, TypeOK
<1>2. /\ call[p].id \in Ids
      /\ call[p].id \notin IdsOf(checkpoints)
      /\ Mine(p) \in Checkpoints
  BY <1>1 DEF Inv, IdInv, NamingTypeOK, Mine, Checkpoints, Calls
<1>3. NamingTypeOK'
  BY <1>1, <1>2 DEF Inv, NamingTypeOK, Outcomes
<1>4. (\A q \in Procs : StepInv(q))'
  BY <1>1 DEF Inv, NamingTypeOK, StepInv
<1>5. call[p].name # NoName =>
         /\ call[p].kind \in {"named", "emergency"}
         /\ stage[p] = "inside"
         /\ call[p].name \notin NamesOf(checkpoints)
  BY <1>1 DEF Inv, StepInv, ScanInv
<1>6. \A q \in Procs \ {p} :
         /\ call[p].name # NoName
         /\ step[q] \in {"list", "load", "make", "rename"}
         => call[q].kind \notin {"named", "emergency"}
  BY <1>5 DEF Inv, StepInv, MutualExclusion, Holding
<1>7. (\A q \in Procs : ScanInv(q))'
  <2> SUFFICES ASSUME NEW q \in Procs PROVE ScanInv(q)'
    OBVIOUS
  <2>1. CASE q = p
    BY <1>1, <2>1 DEF ScanInv
  <2>2. CASE q # p
    <3>1. /\ step'[q] = step[q] /\ call'[q] = call[q] /\ entries'[q] = entries[q]
          /\ ScanInv(q) /\ StepInv(q)
      BY <1>1, <2>2 DEF Inv, NamingTypeOK
    <3>2. NamesOf(checkpoints') = NamesOf(checkpoints) \cup {call[p].name}
      <4>1. NamesOf(checkpoints') = NamesOf(checkpoints \cup {Mine(p)})
        BY <1>1 DEF NamesOf
      <4> QED
        BY <4>1, OneMore DEF Mine
    <3>3. \A c \in checkpoints' : c \in checkpoints \/ c.name = call[p].name
      BY <1>1 DEF Mine
    <3>4. step[q] = "load" /\ call[q].kind \in {"named", "emergency"}
            => \A c \in checkpoints' : c.name # NoName => c.id \in entries[q]
      BY <1>6, <2>2, <3>1, <3>3 DEF ScanInv
    <3>5. step[q] \in {"make", "rename"} /\ call[q].kind # "nameless"
            => call[q].name \in Nat /\ call[q].name \notin NamesOf(checkpoints')
      BY <1>6, <2>2, <3>1, <3>2, NamesAssumption DEF ScanInv, StepInv
    <3>6. step[q] = "list" /\ call[q].kind = "lookup"
            => call[q].known \subseteq NamesOf(checkpoints')
      BY <3>1, <3>2 DEF ScanInv
    <3>7. step[q] = "load" /\ call[q].kind = "lookup"
            => \A n \in call[q].known :
                  \E c \in checkpoints' : c.name = n /\ c.id \in entries[q]
      BY <1>1, <3>1 DEF ScanInv
    <3> QED
      BY <3>1, <3>4, <3>5, <3>6, <3>7 DEF ScanInv
  <2> QED
    BY <2>1, <2>2
<1>8. IdsOf(checkpoints') = IdsOf(checkpoints) \cup {call[p].id}
  <2>1. IdsOf(checkpoints') = IdsOf(checkpoints \cup {Mine(p)})
    BY <1>1 DEF IdsOf
  <2> QED
    BY <2>1, OneMore DEF Mine
<1>9. IdInv'
  BY <1>1, <1>2, <1>8, IdsAssumption DEF Inv, IdInv
<1>10. NamesUnique'
  <2> SUFFICES ASSUME NEW c \in checkpoints', NEW d \in checkpoints',
                      c.name = d.name, c.name # NoName
               PROVE  c = d
    BY DEF NamesUnique
  <2>1. \A e \in checkpoints : e.name = call[p].name => call[p].name = NoName
    BY <1>5 DEF NamesOf
  <2> QED
    BY <1>1, <2>1 DEF Inv, NamesUnique, Mine
<1>11. AnswerMatchesStore'
  BY <1>1, <1>2, <1>8, IdsAssumption DEF Inv, NamingTypeOK, AnswerMatchesStore, Mine, IdInv, Failures
<1>12. LookupSound'
  BY <1>1 DEF Inv, NamingTypeOK, LookupSound, NamesOf
<1> QED
  BY <1>3, <1>4, <1>7, <1>9, <1>10, <1>11, <1>12 DEF Inv

(* Into the lock and out of it.                                            *)
LEMMA LockKeeps ==
  ASSUME TypeOK, Inv, NEW p \in Procs,
         EnterLock(p) \/ LockRefused(p) \/ LeaveNameLock(p) \/ LeaveFails(p)
  PROVE  Inv'
<1>1. PICK s \in {"list", "done"}, g \in Stages, o \in Outcomes :
        /\ step' = [step EXCEPT ![p] = s]
        /\ stage' = [stage EXCEPT ![p] = g]
        /\ outcome' = [outcome EXCEPT ![p] = o]
        /\ UNCHANGED <<checkpoints, damaged, call, entries>>
        /\ \/ step[p] = "lock" /\ s = "list" /\ g = "inside" /\ o = outcome[p]
           \/ step[p] = "lock" /\ s = "done" /\ o = "refused"
           \/ step[p] = "release" /\ s = "done" /\ o = outcome[p]
           \/ /\ step[p] = "release" /\ s = "done" /\ o = "release_failed"
              /\ stage[p] = "returned"
  <2>1. outcome = [outcome EXCEPT ![p] = outcome[p]] /\ outcome[p] \in Outcomes
    BY DEF Inv, NamingTypeOK
  <2>2. CASE EnterLock(p)
    BY <2>1, <2>2 DEF EnterLock, Acquire, Goto, Stages
  <2>3. CASE LockRefused(p)
    BY <2>3 DEF LockRefused, Refuse, Goto, Stages, Outcomes, Failures
  <2>4. CASE LeaveNameLock(p)
    BY <2>1, <2>4 DEF LeaveNameLock, Release, Goto, Stages
  <2>5. CASE LeaveFails(p)
    BY <2>1, <2>5 DEF LeaveFails, ReleaseFails, Goto, Stages, Outcomes
  <2> QED
    BY <2>2, <2>3, <2>4, <2>5
<1>2. NamingTypeOK'
  BY <1>1 DEF Inv, NamingTypeOK, Steps
<1>3. (\A q \in Procs : StepInv(q))'
  BY <1>1 DEF Inv, NamingTypeOK, TypeOK, StepInv
<1>4. (\A q \in Procs : ScanInv(q))'
  BY <1>1 DEF Inv, NamingTypeOK, StepInv, ScanInv
<1>5. (IdInv /\ NamesUnique)'
  BY <1>1 DEF Inv, NamingTypeOK, IdInv, NamesUnique
<1>6. step[p] = "lock" => call[p].id \notin IdsOf(checkpoints)
  BY IdsAssumption DEF Inv, NamingTypeOK, StepInv, IdsOf, Checkpoints
<1>7. step[p] = "release" /\ stage[p] = "returned" => outcome[p] = "created"
  BY DEF Inv, StepInv
<1>8. (AnswerMatchesStore /\ LookupSound)'
  <2> SUFFICES ASSUME NEW q \in Procs
               PROVE  /\ outcome'[q] \in {"created", "release_failed"}
                           => Mine(q) \in checkpoints
                      /\ outcome'[q] \in Failures
                           => call[q].id \notin IdsOf(checkpoints)
                      /\ outcome'[q] # "ambiguous"
                      /\ outcome'[q] = "missing" => call[q].name \notin call[q].known
                      /\ outcome'[q] = "found"
                           => call[q].name \in NamesOf(checkpoints)
    BY <1>1 DEF AnswerMatchesStore, LookupSound, Mine, IdsOf, NamesOf
  <2>1. CASE outcome'[q] = outcome[q]
    BY <2>1 DEF Inv, AnswerMatchesStore, LookupSound
  <2>2. CASE outcome'[q] # outcome[q]
    <3>1. q = p
      BY <1>1, <2>2 DEF Inv, NamingTypeOK
    <3>2. \/ outcome'[p] = "refused" /\ step[p] = "lock"
          \/ /\ outcome'[p] = "release_failed"
             /\ outcome[p] = "created"
      BY <1>1, <1>7, <2>2, <3>1 DEF Inv, NamingTypeOK
    <3> QED
      BY <1>6, <3>1, <3>2 DEF Inv, AnswerMatchesStore, Failures
  <2> QED
    BY <2>1, <2>2
<1> QED
  BY <1>2, <1>3, <1>4, <1>5, <1>8 DEF Inv

(* A call that is over, or whose process is gone, has nothing in its hands.*)
LEMMA ForgetKeeps ==
  ASSUME TypeOK, Inv, NEW p \in Procs, Report(p) \/ Die(p)
  PROVE  Inv'
<1>1. /\ call' = [call EXCEPT ![p] = NoCall]
      /\ entries' = [entries EXCEPT ![p] = {}]
      /\ outcome' = [outcome EXCEPT ![p] = "none"]
      /\ step' = [step EXCEPT ![p] = "idle"]
      /\ UNCHANGED <<checkpoints, damaged>>
  BY DEF Report, Die, Forget, Goto
<1>2. \A q \in Procs \ {p} : stage'[q] = stage[q]
  BY DEF Report, Die, Dismiss, Crash, vars, TypeOK
<1>3. NamingTypeOK'
  BY <1>1 DEF Inv, NamingTypeOK, NoCall, Calls, Names, Steps, Outcomes
<1>4. (\A q \in Procs : StepInv(q) /\ ScanInv(q))'
  <2> SUFFICES ASSUME NEW q \in Procs PROVE StepInv(q)' /\ ScanInv(q)'
    OBVIOUS
  <2>1. CASE q # p
    BY <1>1, <1>2, <2>1 DEF Inv, NamingTypeOK, StepInv, ScanInv
  <2>2. CASE q = p
    BY <1>1, <2>2 DEF Inv, NamingTypeOK, StepInv, ScanInv, NoCall
  <2> QED
    BY <2>1, <2>2
<1>5. (IdInv /\ NamesUnique)'
  BY <1>1 DEF Inv, NamingTypeOK, IdInv, NamesUnique, NoCall
<1>6. (AnswerMatchesStore /\ LookupSound)'
  BY <1>1 DEF Inv, NamingTypeOK, AnswerMatchesStore, LookupSound, Mine, Failures
<1> QED
  BY <1>3, <1>4, <1>5, <1>6 DEF Inv

(* Outsiders.                                                              *)
LEMMA OutsideKeeps ==
  ASSUME Inv, CleanUp \/ Damage \/ UNCHANGED namingVars
  PROVE  Inv'
<1>1. /\ UNCHANGED <<checkpoints, call, step, entries, outcome, stage>>
      /\ damaged' \subseteq damaged \cup IdsOf(checkpoints)
  BY DEF CleanUp, RemoveStale, Damage, namingVars, naming, vars
<1>2. IdsOf(checkpoints) \subseteq Ids
  BY DEF Inv, NamingTypeOK, IdsOf, Checkpoints
<1>3. NamingTypeOK'
  BY <1>1, <1>2 DEF Inv, NamingTypeOK
<1>4. (\A q \in Procs : StepInv(q) /\ ScanInv(q))'
  BY <1>1 DEF Inv, StepInv, ScanInv
<1>5. (IdInv /\ NamesUnique)'
  BY <1>1 DEF Inv, IdInv, NamesUnique
<1>6. (AnswerMatchesStore /\ LookupSound)'
  BY <1>1 DEF Inv, AnswerMatchesStore, LookupSound, Mine
<1> QED
  BY <1>3, <1>4, <1>5, <1>6 DEF Inv

LEMMA InvNext == TypeOK /\ MutualExclusion /\ Inv /\ [NamingNext]_namingVars => Inv'
<1> SUFFICES ASSUME TypeOK, MutualExclusion, Inv, [NamingNext]_namingVars
             PROVE  Inv'
  OBVIOUS
<1>1. ASSUME NEW p \in Procs, Continue(p) PROVE Inv'
  BY <1>1, FailKeeps, AnswerKeeps, ListKeeps, TakeKeeps, MakeKeeps, PublishKeeps,
     LockKeeps, ForgetKeeps DEF Continue
<1>2. ASSUME NEW p \in Procs,
             \/ BeginNamed(p) \/ BeginNameless(p) \/ BeginEmergency(p)
             \/ BeginLookup(p) \/ Die(p)
      PROVE  Inv'
  BY <1>2, BeginKeeps, ForgetKeeps
<1>3. CASE CleanUp \/ Damage \/ UNCHANGED namingVars
  BY <1>3, OutsideKeeps
<1> QED
  BY <1>1, <1>2, <1>3 DEF NamingNext

(* The lock's invariant and the names' hold throughout every execution.    *)
THEOREM NamingInvariant == NamingSpec => [](LockInv /\ Inv)
<1>1. NamingInit => LockInv /\ Inv
  BY InitInv, InvInit DEF NamingInit
<1>2. LockInv /\ Inv /\ [NamingNext]_namingVars => LockInv' /\ Inv'
  BY LockStep, NextInv, InvNext DEF LockInv
<1> QED
  BY <1>1, <1>2, PTL DEF NamingSpec

(* No two checkpoints have one name, whatever crashed, for any processes   *)
(* and names (emergency-checkpoint.ts and create-checkpoint.ts).           *)
THEOREM OneOfAName == NamingSpec => []NamesUnique
  BY NamingInvariant, PTL DEF Inv

(* What a call is told agrees with the checkpoints there are.              *)
THEOREM AnswersAreTrue == NamingSpec => []AnswerMatchesStore
  BY NamingInvariant, PTL DEF Inv

(* A lookup beside all this is never ambiguous and misses nothing.         *)
THEOREM LookupsAreRight == NamingSpec => []LookupSound
  BY NamingInvariant, PTL DEF Inv

(* The variables of the calls keep their types.                            *)
THEOREM NamingTypes == NamingSpec => []NamingTypeOK
  BY NamingInvariant, PTL DEF Inv

-----------------------------------------------------------------------------
(* Paths.                                                                  *)
LEMMA PathType ==
  ASSUME NEW p \in Paths
  PROVE  p \in Seq(Nat) /\ Len(p) \in Nat \ {0}
<1>1. p \in Seq(Nat) /\ p # <<>>
  BY PathsAssumption DEF Root
<1> QED
  BY <1>1

LEMMA PathsEqual ==
  ASSUME NEW p \in Seq(Nat), NEW q \in Seq(Nat), Len(p) = Len(q),
         \A i \in 1 .. Len(p) : p[i] = q[i]
  PROVE  p = q
  BY SeqEqual

LEMMA Cut ==
  ASSUME NEW p \in Seq(Nat), NEW n \in 0 .. Len(p)
  PROVE  /\ SubSeq(p, 1, n) \in Seq(Nat)
         /\ Len(SubSeq(p, 1, n)) = n
         /\ \A i \in 1 .. n : SubSeq(p, 1, n)[i] = p[i]
<1>1. n \in Int /\ \A i \in 1 .. n : p[i] \in Nat
  OBVIOUS
<1> QED
  BY <1>1, SubSeqProperties

LEMMA AncestorIs ==
  ASSUME NEW p \in Paths, NEW a \in Paths
  PROVE  a \in Ancestors(p) <=> Len(a) < Len(p) /\ \A i \in 1 .. Len(a) : a[i] = p[i]
<1>1. /\ p \in Seq(Nat) /\ Len(p) \in Nat \ {0}
      /\ a \in Seq(Nat) /\ Len(a) \in Nat \ {0}
  BY PathType
<1>2. ASSUME a \in Ancestors(p)
      PROVE  Len(a) < Len(p) /\ \A i \in 1 .. Len(a) : a[i] = p[i]
  <2>1. PICK n \in 1 .. Len(p) - 1 : a = SubSeq(p, 1, n)
    BY <1>2 DEF Ancestors
  <2> QED
    BY <1>1, <2>1, Cut
<1>3. ASSUME Len(a) < Len(p), \A i \in 1 .. Len(a) : a[i] = p[i]
      PROVE  a \in Ancestors(p)
  <2>1. a = SubSeq(p, 1, Len(a))
    BY <1>1, <1>3, Cut, PathsEqual
  <2>2. Len(a) \in 1 .. Len(p) - 1
    BY <1>1, <1>3
  <2> QED
    BY <2>1, <2>2 DEF Ancestors
<1> QED
  BY <1>2, <1>3

LEMMA PrefixIs ==
  ASSUME NEW p \in Paths, NEW q \in Paths
  PROVE  IsPrefix(p, q) <=> p = q \/ p \in Ancestors(q)
<1>1. /\ p \in Seq(Nat) /\ Len(p) \in Nat \ {0}
      /\ q \in Seq(Nat) /\ Len(q) \in Nat \ {0}
  BY PathType
<1>2. SubSeq(p, 1, Len(p)) = p
  BY <1>1, SubSeqFull
<1>3. ASSUME Len(p) <= Len(q)
      PROVE  SubSeq(q, 1, Len(p)) = p <=> \A i \in 1 .. Len(p) : p[i] = q[i]
  BY <1>1, <1>3, Cut, PathsEqual
<1>4. IsPrefix(p, q) <=> Len(p) <= Len(q) /\ \A i \in 1 .. Len(p) : p[i] = q[i]
  BY <1>2, <1>3 DEF IsPrefix
<1>5. Len(p) = Len(q) /\ (\A i \in 1 .. Len(p) : p[i] = q[i]) => p = q
  BY <1>1, PathsEqual
<1> QED
  BY <1>1, <1>4, <1>5, AncestorIs

(* What is below a path has it among its ancestors, and is one of its      *)
(* children or below one.                                                  *)
LEMMA BelowIs ==
  ASSUME NEW p \in Paths
  PROVE  Below(p) = {q \in Paths : p \in Ancestors(q)}
<1>1. \A q \in Paths : p \in Ancestors(q) => p # q
  BY PathType, AncestorIs
<1> QED
  BY <1>1, PrefixIs DEF Below, IsStrictPrefix

LEMMA Shorter ==
  ASSUME NEW p \in Paths, NEW a \in Ancestors(p)
  PROVE  a \in Paths /\ Len(a) \in Nat /\ Len(p) \in Nat /\ Len(a) < Len(p)
<1>1. a \in Paths
  BY PathsAssumption
<1> QED
  BY <1>1, PathType, AncestorIs

LEMMA AncestorsNest ==
  ASSUME NEW p \in Paths, NEW a \in Ancestors(p), NEW b \in Ancestors(a)
  PROVE  b \in Ancestors(p)
<1>1. a \in Paths /\ b \in Paths
  BY Shorter
<1>2. /\ Len(a) < Len(p) /\ \A i \in 1 .. Len(a) : a[i] = p[i]
      /\ Len(b) < Len(a) /\ \A i \in 1 .. Len(b) : b[i] = a[i]
  BY <1>1, AncestorIs
<1>3. Len(a) \in Nat /\ Len(b) \in Nat /\ Len(p) \in Nat
  BY <1>1, PathType
<1>4. Len(b) < Len(p) /\ \A i \in 1 .. Len(b) : b[i] = p[i]
  BY <1>2, <1>3
<1> QED
  BY <1>1, <1>4, AncestorIs
-----------------------------------------------------------------------------
(* Trees and listings, and what keeps them so.                             *)
Solid(t) == \A p \in Paths : t[p] # Absent => \A a \in Ancestors(p) : t[a] = Directory
Trees == {t \in [Paths -> Nodes] : Solid(t)}
Listings == {i \in [Paths -> Entries] : IsListing(i)}
Checkouts == [head : Nat, commit : Listings, index : Listings, tree : Trees]

(* None of ps is above another.                                            *)
Apart(ps) == \A p \in ps : Ancestors(p) \cap ps = {}

LEMMA Kinds == /\ Absent \notin Leaves /\ Directory \notin Leaves /\ Directory # Absent
               /\ Leaves \subseteq Entries /\ Entries \subseteq Nodes
               /\ Absent \in Entries /\ Directory \in Nodes
  BY NodesAssumption DEF Leaves, Entries, Nodes

LEMMA ListingApart ==
  ASSUME NEW i \in Listings, NEW ps \in SUBSET Occupied(i)
  PROVE  ps \subseteq Paths /\ Apart(ps) /\ \A p \in ps : i[p] \in Leaves
  BY Kinds DEF Listings, IsListing, Occupied, Apart, Entries

LEMMA FilesApart ==
  ASSUME NEW t \in Trees, NEW ps \in SUBSET {p \in Paths : t[p] \in Leaves}
  PROVE  Apart(ps)
  BY Kinds DEF Trees, Solid, Apart

LEMMA RemovedTree ==
  ASSUME NEW t \in Trees, NEW ps \in SUBSET Paths, \A p \in ps : t[p] # Directory
  PROVE  /\ Removed(t, ps) \in Trees
         /\ \A q \in Paths : /\ Removed(t, ps)[q] \in {t[q], Absent}
                             /\ q \notin ps /\ t[q] \in Leaves => Removed(t, ps)[q] = t[q]
                             /\ q \in ps => Removed(t, ps)[q] = Absent
<1> DEFINE gone == {p \in ps : \A a \in Ancestors(p) : t[a] = Directory}
           left == Above(gone)
           covered(q) == \A r \in Below(q) : \/ t[r] = Absent \/ r \in gone
                                             \/ r \in left /\ t[r] = Directory
           R == Removed(t, ps)
<1>1. R = [q \in Paths |-> IF q \in gone \/ (q \in left /\ covered(q)) THEN Absent ELSE t[q]]
  BY DEF Removed
<1>2. t \in [Paths -> Nodes] /\ Solid(t)
  BY DEF Trees
<1>3. \A q \in left : q \in Paths /\ t[q] = Directory
  BY Shorter DEF Above
<1>4. \A q \in ps : q \in gone \/ t[q] = Absent
  BY <1>2 DEF Solid
<1> HIDE DEF R, gone, left
<1>5. R \in [Paths -> Nodes]
  BY <1>1, <1>2, Kinds
<1>6. ASSUME NEW q \in Paths, R[q] # Absent, NEW a \in Ancestors(q)
      PROVE  R[a] = Directory
  <2>1. a \in Paths /\ t[a] = Directory /\ t[q] # Absent /\ R[q] = t[q]
    BY <1>1, <1>2, <1>6, Shorter DEF Solid
  <2>2. a \notin gone
    BY <2>1 DEF gone
  <2>3. ~covered(a)
    <3>1. SUFFICES ASSUME covered(a) PROVE FALSE
      OBVIOUS
    <3>2. q \in Below(a)
      BY <1>6, <2>1, BelowIs
    <3>3. q \in left /\ q \notin gone
      BY <1>1, <1>6, <2>1, <3>1, <3>2
    <3>4. \A r \in Below(q) : r \in Below(a)
      BY <1>6, <2>1, BelowIs, AncestorsNest
    <3>5. covered(q)
      BY <3>1, <3>4
    <3> QED
      BY <1>1, <1>6, <3>3, <3>5
  <2> QED
    BY <1>1, <2>1, <2>2, <2>3
<1>7. R \in Trees
  BY <1>5, <1>6 DEF Trees, Solid
<1>8. \A q \in Paths : /\ R[q] \in {t[q], Absent}
                       /\ q \in ps => R[q] = Absent
  BY <1>1, <1>4
<1>9. \A q \in Paths : q \notin ps /\ t[q] \in Leaves => R[q] = t[q]
  <2>1. \A q \in gone : q \in ps
    BY DEF gone
  <2> QED
    BY <1>1, <1>3, <2>1, Kinds
<1> QED
  BY <1>7, <1>8, <1>9 DEF R

LEMMA WrittenTree ==
  ASSUME NEW t \in Trees, NEW ps \in SUBSET Paths, Apart(ps),
         NEW to, \A p \in ps : to[p] \in Leaves
  PROVE  Written(t, to, ps) \in Trees
<1> DEFINE W == Written(t, to, ps)
<1>1. \A q \in Paths : W[q] = IF q \in ps THEN to[q]
                              ELSE IF q \in Above(ps) THEN Directory
                              ELSE IF Ancestors(q) \cap ps # {} THEN Absent ELSE t[q]
  BY DEF Written
<1>2. t \in [Paths -> Nodes] /\ Solid(t)
  BY DEF Trees
<1>3. W \in [Paths -> Nodes]
  BY <1>2, Kinds DEF Written
<1> HIDE DEF W
<1>4. ASSUME NEW q \in Paths, W[q] # Absent, NEW a \in Ancestors(q)
      PROVE  W[a] = Directory
  <2>1. a \in Paths
    BY <1>4, Shorter
  <2>2. CASE q \in ps
    <3>1. a \in Above(ps) /\ a \notin ps
      BY <1>4, <2>2 DEF Above, Apart
    <3> QED
      BY <1>1, <2>1, <3>1
  <2>3. CASE q \notin ps /\ q \in Above(ps)
    <3>1. PICK m \in ps : q \in Ancestors(m)
      BY <2>3 DEF Above
    <3>2. a \in Ancestors(m)
      BY <1>4, <3>1, AncestorsNest
    <3>3. a \in Above(ps) /\ a \notin ps
      BY <3>2 DEF Above, Apart
    <3> QED
      BY <1>1, <2>1, <3>3
  <2>4. CASE q \notin ps /\ q \notin Above(ps)
    <3>1. Ancestors(q) \cap ps = {} /\ t[q] # Absent
      BY <1>1, <1>4, <2>4
    <3>2. t[a] = Directory /\ a \notin ps
      BY <1>2, <1>4, <3>1 DEF Solid
    <3>3. Ancestors(a) \cap ps = {}
      BY <1>4, <3>1, AncestorsNest
    <3> QED
      BY <1>1, <2>1, <3>2, <3>3
  <2> QED
    BY <2>2, <2>3, <2>4
<1> QED
  BY <1>3, <1>4 DEF Trees, Solid, W

LEMMA ClearedTree ==
  ASSUME NEW t \in Trees, NEW ps \in SUBSET Paths
  PROVE  LET c == ClearConflicts(t, ps).tree
         IN /\ c \in Trees
            /\ \A q \in Paths :
                 /\ c[q] \in {t[q], Absent}
                 /\ t[q] \in Files => c[q] = t[q]
                 /\ t[q] \in Links /\ q \notin ps \cup Above(ps) => c[q] = t[q]
<1> DEFINE c == ClearConflicts(t, ps).tree
<1>1. PICK cleared \in SUBSET (ps \cup Above(ps)) :
        /\ \A p \in cleared : t[p] \in Links \/ EmptyAt(t, p)
        /\ c = [p \in Paths |-> IF p \in cleared THEN Absent ELSE t[p]]
  BY DEF ClearConflicts
<1> HIDE DEF c
<1>2. t \in [Paths -> Nodes] /\ Solid(t)
  BY DEF Trees
<1>3. c \in [Paths -> Nodes]
  BY <1>1, <1>2, Kinds
<1>4. ASSUME NEW q \in Paths, c[q] # Absent, NEW a \in Ancestors(q)
      PROVE  c[a] = Directory
  <2>1. a \in Paths /\ t[a] = Directory /\ t[q] # Absent
    BY <1>1, <1>2, <1>4, Shorter DEF Solid
  <2>2. a \notin cleared
    BY <1>1, <1>4, <2>1, BelowIs, Kinds DEF EmptyAt, Leaves
  <2> QED
    BY <1>1, <2>1, <2>2
<1>5. \A q \in Paths : /\ c[q] \in {t[q], Absent}
                       /\ t[q] \in Files => c[q] = t[q]
                       /\ t[q] \in Links /\ q \notin ps \cup Above(ps) => c[q] = t[q]
  BY <1>1, NodesAssumption DEF EmptyAt, Leaves
<1> QED
  BY <1>3, <1>4, <1>5 DEF Trees, Solid, c
-----------------------------------------------------------------------------
(* Git and the phases of the restore keep a checkout a checkout.           *)
LEMMA WorktreeListing ==
  ASSUME NEW w \in Checkouts
  PROVE  Worktree(w) \in Listings
<1>1. w.index \in Listings /\ w.tree \in [Paths -> Nodes]
  BY DEF Checkouts, Trees
<1>2. \A p \in Paths : Version(w, p) \in Entries
  BY <1>1, Kinds DEF Version
<1>3. Worktree(w) \in [Paths -> Entries]
  BY <1>2, Kinds DEF Worktree
<1>4. \A p \in Paths : Worktree(w)[p] # Absent => w.index[p] # Absent
  BY DEF Worktree
<1>5. \A p \in Paths : w.index[p] = Absent => Worktree(w)[p] = Absent
  BY DEF Worktree
<1> QED
  BY <1>1, <1>3, <1>4, <1>5, Shorter DEF Listings, IsListing

LEMMA ListingAlone ==
  ASSUME NEW i \in Listings, NEW p \in Occupied(i)
  PROVE  Related(p) \cap Occupied(i) = {}
<1>1. p \in Paths /\ i[p] # Absent /\ IsListing(i)
  BY DEF Occupied, Listings
<1>2. \A q \in Ancestors(p) : i[q] = Absent
  BY <1>1 DEF IsListing
<1>3. \A q \in Below(p) : i[q] = Absent
  BY <1>1, BelowIs DEF IsListing
<1> QED
  BY <1>2, <1>3 DEF Related, Occupied

LEMMA ResetKeeps ==
  ASSUME NEW w \in Checkouts
  PROVE  /\ ResetHard(w) \in Checkouts
         /\ ResetHard(w).head = w.head /\ ResetHard(w).commit = w.commit
         /\ ResetHard(w).index = w.commit
         /\ \A p \in Occupied(w.commit) : ResetHard(w).tree[p] = w.commit[p]
<1> DEFINE dropped == {p \in Occupied(w.index) \ Occupied(w.commit) : w.tree[p] # Directory}
           ps == Occupied(w.commit)
           bare == Removed(w.tree, dropped)
<1>1. w.tree \in Trees /\ w.commit \in Listings /\ dropped \in SUBSET Paths
  BY DEF Checkouts, Occupied
<1>2. bare \in Trees
  BY <1>1, RemovedTree
<1>3. ps \in SUBSET Paths /\ Apart(ps) /\ \A p \in ps : w.commit[p] \in Leaves
  BY <1>1, ListingApart
<1> HIDE DEF bare, dropped
<1>4. Written(bare, w.commit, ps) \in Trees
  BY <1>2, <1>3, WrittenTree
<1>5. ResetHard(w) = [w EXCEPT !.index = w.commit, !.tree = Written(bare, w.commit, ps)]
  BY DEF ResetHard, bare, dropped
<1>6. \A p \in ps : Written(bare, w.commit, ps)[p] = w.commit[p]
  BY <1>3 DEF Written
<1> QED
  BY <1>1, <1>4, <1>5, <1>6 DEF Checkouts

(* A patch that could be applied has made of the tree what it says, and    *)
(* left every other leaf that it does not pass through.                    *)
Patched(t, old, new, tree) ==
  LET touched == Changed(old, new)
      made == touched \cap Occupied(new)
  IN \A p \in Paths :
       /\ p \in made => tree[p] = new[p]
       /\ p \in touched \ made /\ old[p] # Absent => tree[p] \in {Absent, Directory}
       /\ p \notin touched /\ t[p] \in Leaves /\ Related(p) \cap made = {} => tree[p] = t[p]

LEMMA PatchTree ==
  ASSUME NEW t \in Trees, NEW old \in Listings, NEW new \in Listings,
         NEW made, made = Changed(old, new) \cap Occupied(new),
         NEW gone, gone = Changed(old, new) \cap Occupied(old),
         \A p \in gone : t[p] = old[p], NEW done \in SUBSET made
  PROVE  /\ Written(Removed(t, gone), new, done) \in Trees
         /\ done = made => Patched(t, old, new, Written(Removed(t, gone), new, done))
<1> DEFINE bare == Removed(t, gone)
           T == Written(bare, new, done)
<1>1. gone \in SUBSET Paths /\ \A p \in gone : t[p] \in Leaves /\ t[p] # Directory
  <2>1. gone \in SUBSET Occupied(old) /\ \A p \in gone : t[p] = old[p]
    OBVIOUS
  <2>2. gone \subseteq Paths /\ \A p \in gone : old[p] \in Leaves
    BY <2>1, ListingApart
  <2> QED
    BY <2>1, <2>2, Kinds
<1>2. /\ bare \in Trees
      /\ \A q \in Paths : /\ q \notin gone /\ t[q] \in Leaves => bare[q] = t[q]
                          /\ q \in gone => bare[q] = Absent
  BY <1>1, RemovedTree
<1>3. done \in SUBSET Paths /\ Apart(done) /\ \A p \in done : new[p] \in Leaves
  BY ListingApart
<1> HIDE DEF bare
<1>4. T \in Trees
  BY <1>2, <1>3, WrittenTree
<1>5. ASSUME done = made
      PROVE  Patched(t, old, new, T)
  <2>1. \A q \in Paths : T[q] = IF q \in made THEN new[q]
                                ELSE IF q \in Above(made) THEN Directory
                                ELSE IF Ancestors(q) \cap made # {} THEN Absent ELSE bare[q]
    BY <1>5 DEF Written
  <2> HIDE DEF T
  <2>2. ASSUME NEW p \in Paths, p \in Changed(old, new) \ made, old[p] # Absent
        PROVE  T[p] \in {Absent, Directory}
    <3>1. p \in gone
      BY <2>2 DEF Occupied
    <3> QED
      BY <1>2, <2>1, <2>2, <3>1
  <2>3. ASSUME NEW p \in Paths, p \notin Changed(old, new), t[p] \in Leaves,
               Related(p) \cap made = {}
        PROVE  T[p] = t[p]
    <3>1. p \notin made /\ p \notin gone /\ bare[p] = t[p]
      BY <1>2, <2>3
    <3>2. p \notin Above(made)
      <4> SUFFICES ASSUME NEW m \in made, p \in Ancestors(m) PROVE FALSE
        BY DEF Above
      <4>1. m \in Paths
        BY DEF Occupied
      <4>2. m \in Below(p)
        BY <4>1, BelowIs
      <4> QED
        BY <2>3, <4>2 DEF Related
    <3>3. Ancestors(p) \cap made = {}
      BY <2>3 DEF Related
    <3> QED
      BY <2>1, <3>1, <3>2, <3>3
  <2> QED
    BY <2>1, <2>2, <2>3 DEF Patched
<1> QED
  BY <1>4, <1>5 DEF T, bare

LEMMA IndexedListing ==
  ASSUME NEW i \in Listings, NEW old, NEW new \in Listings,
         NEW made, made = Changed(old, new) \cap Occupied(new),
         NEW indexed,
         indexed = [q \in Paths |-> IF q \in Changed(old, new) THEN new[q]
                                    ELSE IF Related(q) \cap made # {} THEN Absent ELSE i[q]]
  PROVE  /\ indexed \in Listings
         /\ i = old /\ old \in Listings => indexed = new
<1>1. i \in [Paths -> Entries] /\ new \in [Paths -> Entries] /\ IsListing(i) /\ IsListing(new)
  BY DEF Listings
<1>2. indexed \in [Paths -> Entries]
  BY <1>1, Kinds
<1>3. ASSUME NEW p \in Paths, indexed[p] # Absent, NEW a \in Ancestors(p)
      PROVE  indexed[a] = Absent
  <2>1. a \in Paths /\ p \in Below(a) /\ p \in Related(a) /\ a \in Related(p)
    BY <1>3, Shorter, BelowIs DEF Related
  <2>2. CASE p \in Changed(old, new)
    <3>1. p \in made /\ new[a] = Absent
      BY <1>1, <1>3, <2>2 DEF Occupied, IsListing
    <3> QED
      BY <2>1, <3>1
  <2>3. CASE p \notin Changed(old, new)
    <3>1. Related(p) \cap made = {} /\ i[p] # Absent
      BY <1>3, <2>3
    <3>2. a \notin made /\ i[a] = Absent
      BY <1>1, <1>3, <2>1, <3>1 DEF IsListing
    <3>3. a \in Changed(old, new) => new[a] = Absent
      BY <2>1, <3>2 DEF Occupied
    <3> QED
      BY <2>1, <3>2, <3>3
  <2> QED
    BY <2>2, <2>3
<1>4. ASSUME i = old, old \in Listings
      PROVE  indexed = new
  <2>1. ASSUME NEW q \in Paths PROVE indexed[q] = new[q]
    <3>1. CASE q \in Changed(old, new)
      BY <3>1
    <3>2. CASE q \notin Changed(old, new) /\ Related(q) \cap made = {}
      BY <1>4, <3>2 DEF Changed
    <3>3. CASE q \notin Changed(old, new) /\ Related(q) \cap made # {}
      <4>1. PICK m \in made : m \in Related(q)
        BY <3>3
      <4>2. m \in Paths /\ new[m] # Absent
        BY DEF Occupied
      <4>3. m \in Ancestors(q) \/ q \in Ancestors(m)
        BY <4>1, <4>2, BelowIs DEF Related
      <4>4. new[q] = Absent
        BY <1>1, <4>2, <4>3 DEF IsListing
      <4> QED
        BY <3>3, <4>4
    <3> QED
      BY <3>1, <3>2, <3>3
  <2> QED
    BY <1>1, <1>2, <2>1
<1> QED
  BY <1>2, <1>3, <1>4 DEF Listings, IsListing
-----------------------------------------------------------------------------
Fits(w, old) == \A p \in Occupied(old) : w.tree[p] = old[p]

(* What an application of a patch is good for.                             *)
Applied(w, old, new, cached, r) ==
  /\ r.world \in Checkouts
  /\ r.world.head = w.head /\ r.world.commit = w.commit
  /\ ~cached \/ ~r.ok => r.world.index = w.index
  /\ r.ok /\ Fits(w, old) =>
       /\ cached /\ w.index = old => r.world.index = new
       /\ Patched(w.tree, old, new, r.world.tree)

LEMMA LexicalStrict ==
  ASSUME NEW p \in Paths
  PROVE  ~Lexical(p, p)
<1>1. \A i \in 1 .. Len(p) : p[i] \in Nat
  BY PathType
<1> QED
  BY <1>1 DEF Lexical, IsStrictPrefix

(* What an application of a patch may come to: refused, or done as far as  *)
(* nothing was in its way.                                                 *)
Indexed(w, old, new) ==
  [q \in Paths |-> IF q \in Changed(old, new) THEN new[q]
                   ELSE IF Related(q) \cap Changed(old, new) \cap Occupied(new) # {} THEN Absent
                   ELSE w.index[q]]

Outcome(w, old, new, cached, missing, r) ==
  LET gone == Changed(old, new) \cap Occupied(old)
      made == Changed(old, new) \cap Occupied(new)
      t == IF cached THEN Written(w.tree, w.index, missing) ELSE w.tree
      bare == Removed(t, gone)
  IN /\ missing \subseteq {p \in gone : /\ w.index[p] # Absent /\ w.tree[p] = Absent
                                       /\ \A a \in Ancestors(p) : w.tree[a] \notin Leaves}
     /\ \/ r = [ok |-> FALSE, world |-> [w EXCEPT !.tree = t]]
        \/ /\ \A p \in gone : t[p] = old[p] /\ (cached => w.index[p] = old[p])
           /\ \A p \in made \ gone : t[p] \notin Leaves
           /\ \E done \in SUBSET made, ok \in BOOLEAN :
                /\ ok => done = made
                /\ \A p \in done : ~Barred(bare, p)
                /\ r = [ok |-> ok,
                        world |-> [w EXCEPT !.tree = Written(bare, new, done),
                                            !.index = IF cached /\ ok THEN Indexed(w, old, new)
                                                      ELSE @]]

LEMMA ApplyOutcome ==
  ASSUME NEW w, NEW old, NEW new, NEW cached \in BOOLEAN
  PROVE  \E missing : Outcome(w, old, new, cached, missing, Apply(w, old, new, cached))
<1> DEFINE r == Apply(w, old, new, cached)
           touched == Changed(old, new)
           gone == touched \cap Occupied(old)
           made == touched \cap Occupied(new)
           missing == {p \in gone : /\ w.index[p] # Absent /\ w.tree[p] = Absent
                                    /\ \A a \in Ancestors(p) : w.tree[a] \notin Leaves
                                                               /\ w.index[a] \notin Links}
           t == IF cached THEN Written(w.tree, w.index, missing) ELSE w.tree
           listed == IF cached THEN Occupied(w.index) ELSE {}
           refused == \/ \E p \in gone : t[p] # old[p]
                      \/ cached /\ \E p \in gone : w.index[p] # old[p]
                      \/ \E p \in made \ gone : t[p] \in Leaves \/ p \in listed
                      \/ \E p \in made : \E a \in Ancestors(p) \ gone :
                           (IF cached THEN w.index[a] ELSE t[a]) \in Links
           bare == Removed(t, gone)
           blocked == {p \in made : Barred(bare, p)}
           clashing == {p \in made \ blocked : Related(p) \cap (listed \ gone) # {}}
           done == {p \in made : \A b \in blocked \cup clashing :
                                   Lexical(p, b) \/ (p = b /\ b \in clashing)}
           ok == blocked \cup clashing = {}
           indexed == [q \in Paths |-> IF q \in touched THEN new[q]
                                       ELSE IF Related(q) \cap made # {} THEN Absent
                                       ELSE w.index[q]]
<1>1. r = IF refused THEN [ok |-> FALSE, world |-> [w EXCEPT !.tree = t]]
          ELSE [ok |-> ok,
                world |-> [w EXCEPT !.tree = Written(bare, new, done),
                                    !.index = IF cached /\ ok THEN indexed ELSE @]]
  BY DEF Apply
<1>2. done \in SUBSET made /\ ok \in BOOLEAN /\ (ok => done = made)
  OBVIOUS
<1>3. missing \subseteq {p \in gone : /\ w.index[p] # Absent /\ w.tree[p] = Absent
                                    /\ \A a \in Ancestors(p) : w.tree[a] \notin Leaves}
  OBVIOUS
<1>4. ~refused => /\ \A p \in gone : t[p] = old[p] /\ (cached => w.index[p] = old[p])
                  /\ \A p \in made \ gone : t[p] \notin Leaves
  OBVIOUS
<1>5. \A p \in done : ~Barred(bare, p)
  <2> SUFFICES ASSUME NEW p \in done, Barred(bare, p) PROVE FALSE
    OBVIOUS
  <2>1. p \in Paths /\ p \in blocked /\ p \notin clashing
    BY DEF Occupied
  <2> QED
    BY <2>1, LexicalStrict
<1>6. indexed = Indexed(w, old, new)
  <2>1. \A q : Related(q) \cap made = Related(q) \cap Changed(old, new) \cap Occupied(new)
    OBVIOUS
  <2> QED
    BY <2>1 DEF Indexed
<1> HIDE DEF r, missing, refused, done, ok, indexed
<1>7. \/ r = [ok |-> FALSE, world |-> [w EXCEPT !.tree = t]]
      \/ /\ ~refused
         /\ r = [ok |-> ok,
                 world |-> [w EXCEPT !.tree = Written(bare, new, done),
                                     !.index = IF cached /\ ok THEN Indexed(w, old, new) ELSE @]]
  BY <1>1, <1>6
<1>8. Outcome(w, old, new, cached, missing, r)
  BY <1>2, <1>3, <1>4, <1>5, <1>7 DEF Outcome
<1> QED
  BY <1>8 DEF r

LEMMA ApplyKeeps ==
  ASSUME NEW w \in Checkouts, NEW old \in Listings, NEW new \in Listings,
         NEW cached \in BOOLEAN
  PROVE  Applied(w, old, new, cached, Apply(w, old, new, cached))
<1> DEFINE r == Apply(w, old, new, cached)
           gone == Changed(old, new) \cap Occupied(old)
           made == Changed(old, new) \cap Occupied(new)
           indexed == Indexed(w, old, new)
<1>1. PICK missing : Outcome(w, old, new, cached, missing, r)
  BY ApplyOutcome
<1> DEFINE t == IF cached THEN Written(w.tree, w.index, missing) ELSE w.tree
<1>2. w.tree \in Trees /\ w.index \in Listings
  BY DEF Checkouts
<1>3. t \in Trees
  <2>1. missing \in SUBSET Occupied(w.index)
    BY <1>1 DEF Outcome, Occupied
  <2> QED
    BY <1>2, <2>1, ListingApart, WrittenTree
<1>4. Fits(w, old) => t = w.tree
  <2> SUFFICES ASSUME Fits(w, old), cached PROVE t = w.tree
    OBVIOUS
  <2>1. missing = {}
    <3>1. \A q \in missing : q \in Occupied(old) /\ w.tree[q] = Absent
      BY <1>1 DEF Outcome
    <3> QED
      BY <3>1 DEF Fits, Occupied
  <2>2. \A q \in Paths : t[q] = w.tree[q]
    BY <2>1 DEF Written, Above
  <2>3. t \in [Paths -> Nodes] /\ w.tree \in [Paths -> Nodes]
    BY <1>2, <1>3 DEF Trees
  <2> QED
    BY <2>2, <2>3
<1> HIDE DEF r, indexed, t, made, gone
<1>5. indexed \in Listings /\ (w.index = old => indexed = new)
  <2>1. \A q : Related(q) \cap Changed(old, new) \cap Occupied(new) = Related(q) \cap made
    BY DEF made
  <2>2. indexed = [q \in Paths |-> IF q \in Changed(old, new) THEN new[q]
                                   ELSE IF Related(q) \cap made # {} THEN Absent
                                   ELSE w.index[q]]
    BY <2>1 DEF indexed, Indexed
  <2>3. made = Changed(old, new) \cap Occupied(new)
    BY DEF made
  <2> QED
    BY <1>2, <2>2, <2>3, IndexedListing
<1>6. CASE r = [ok |-> FALSE, world |-> [w EXCEPT !.tree = t]]
  BY <1>3, <1>6 DEF Checkouts, Applied, r
<1>7. ASSUME \A p \in gone : t[p] = old[p], NEW done \in SUBSET made, NEW ok \in BOOLEAN,
             ok => done = made,
             r = [ok |-> ok,
                  world |-> [w EXCEPT !.tree = Written(Removed(t, gone), new, done),
                                      !.index = IF cached /\ ok THEN indexed ELSE @]]
      PROVE  Applied(w, old, new, cached, r)
  <2> DEFINE T == Written(Removed(t, gone), new, done)
  <2>1. T \in Trees /\ (done = made => Patched(t, old, new, T))
    BY <1>3, <1>7, PatchTree DEF made, gone
  <2> HIDE DEF T
  <2>2. r = [ok |-> ok, world |-> [w EXCEPT !.tree = T,
                                           !.index = IF cached /\ ok THEN indexed ELSE @]]
    BY <1>7 DEF T
  <2>3. /\ r.ok = ok /\ r.world.tree = T /\ r.world.head = w.head /\ r.world.commit = w.commit
        /\ r.world.index = IF cached /\ ok THEN indexed ELSE w.index
        /\ r.world \in Checkouts
    BY <1>5, <2>1, <2>2 DEF Checkouts
  <2> QED
    BY <1>4, <1>5, <1>7, <2>1, <2>3 DEF Applied
<1> QED
  BY <1>1, <1>6, <1>7 DEF Outcome, made, gone, indexed, t, r

(* Nothing is lost to what is written where nothing is in the way.         *)
LEMMA WrittenClear ==
  ASSUME NEW t \in Trees, NEW ps \in SUBSET Paths, \A q \in ps : ~Barred(t, q), NEW to,
         NEW p \in Paths, t[p] \in Leaves, Written(t, to, ps)[p] # t[p]
  PROVE  p \in ps
<1> SUFFICES ASSUME p \notin ps PROVE FALSE
  OBVIOUS
<1>1. p \in Above(ps) \/ Ancestors(p) \cap ps # {}
  BY DEF Written
<1>2. CASE p \in Above(ps)
  BY <1>2 DEF Above, Barred
<1>3. CASE Ancestors(p) \cap ps # {}
  <2>1. PICK a \in ps : a \in Ancestors(p)
    BY <1>3
  <2>2. t[a] = Directory /\ p \in Below(a) /\ t[p] # Absent
    BY <2>1, BelowIs, Kinds DEF Trees, Solid
  <2> QED
    BY <2>2 DEF Barred, EmptyAt
<1> QED
  BY <1>1, <1>2, <1>3

(* What an application of a patch does at a path.                          *)
Touched(w, old, new, cached, p, r) ==
  r.world.tree[p] # w.tree[p] =>
    /\ w.tree[p] \in Leaves => /\ p \in Occupied(old) /\ w.tree[p] = old[p]
                               /\ cached => w.index[p] = old[p]
    /\ r.world.tree[p] \in Leaves => /\ p \in Occupied(old) \cup Occupied(new)
                                     /\ r.ok => r.world.tree[p] = new[p]
    /\ {w.tree[p], r.world.tree[p]} \cap Leaves # {} => p \in Changed(old, new)

LEMMA ApplyTouches ==
  ASSUME NEW w \in Checkouts, NEW old \in Listings, NEW new \in Listings,
         NEW cached \in BOOLEAN, NEW p \in Paths
  PROVE  Touched(w, old, new, cached, p, Apply(w, old, new, cached))
<1> DEFINE r == Apply(w, old, new, cached)
           gone == Changed(old, new) \cap Occupied(old)
           made == Changed(old, new) \cap Occupied(new)
           bare(t) == Removed(t, gone)
<1>1. PICK missing : Outcome(w, old, new, cached, missing, r)
  BY ApplyOutcome
<1> DEFINE t == IF cached THEN Written(w.tree, w.index, missing) ELSE w.tree
<1>2. w.tree \in Trees /\ w.index \in Listings
  BY DEF Checkouts
<1>3. /\ missing \in SUBSET Occupied(w.index) /\ missing \subseteq gone
      /\ \A q \in missing : w.tree[q] = Absent /\ \A a \in Ancestors(q) : w.tree[a] \notin Leaves
  BY <1>1 DEF Outcome, Occupied
<1>4. t \in Trees
  BY <1>2, <1>3, ListingApart, WrittenTree
<1>5. w.tree[p] \in Leaves => t[p] = w.tree[p]
  <2> SUFFICES ASSUME w.tree[p] \in Leaves
               PROVE  Written(w.tree, w.index, missing)[p] = w.tree[p]
    OBVIOUS
  <2>1. \A q \in missing : ~Barred(w.tree, q)
    BY <1>3, Kinds DEF Barred
  <2>2. missing \in SUBSET Paths /\ p \notin missing
    BY <1>3, Kinds DEF Occupied
  <2> QED
    BY <1>2, <2>1, <2>2, WrittenClear
<1>6. t[p] \in Leaves /\ t[p] # w.tree[p] => p \in missing
  BY Kinds DEF Written
<1>7. /\ gone \in SUBSET Paths /\ made \in SUBSET Paths
      /\ gone \subseteq Occupied(old) /\ made \subseteq Occupied(new)
  BY DEF Occupied
<1>8. gone \subseteq Changed(old, new) /\ made \subseteq Changed(old, new)
  OBVIOUS
<1> HIDE DEF t, r, gone, made
<1>9. CASE r = [ok |-> FALSE, world |-> [w EXCEPT !.tree = t]]
  <2>1. r.world.tree = t /\ ~r.ok
    BY <1>9 DEF Checkouts
  <2> QED
    BY <1>3, <1>5, <1>6, <1>7, <1>8, <2>1 DEF Touched, r
<1>10. ASSUME \A q \in gone : t[q] = old[q] /\ (cached => w.index[q] = old[q]),
             \A q \in made \ gone : t[q] \notin Leaves,
             NEW done \in SUBSET made, NEW ok \in BOOLEAN,
             \A q \in done : ~Barred(Removed(t, gone), q),
             r = [ok |-> ok,
                  world |-> [w EXCEPT !.tree = Written(Removed(t, gone), new, done),
                                      !.index = IF cached /\ ok THEN Indexed(w, old, new) ELSE @]]
      PROVE  Touched(w, old, new, cached, p, r)
  <2> DEFINE b == Removed(t, gone)
             T == Written(b, new, done)
  <2>1. \A q \in gone : t[q] # Directory
    BY <1>7, <1>10, ListingApart, Kinds
  <2>2. /\ b \in Trees /\ b[p] \in {t[p], Absent}
        /\ p \notin gone /\ t[p] \in Leaves => b[p] = t[p]
        /\ p \in gone => b[p] = Absent
    BY <1>4, <1>7, <2>1, RemovedTree
  <2>3. b[p] \in Leaves /\ T[p] # b[p] => p \in done
    BY <1>7, <1>10, <2>2, WrittenClear
  <2>4. r.world.tree = T
    BY <1>10 DEF Checkouts
  <2>5. /\ p \in done => T[p] = new[p]
        /\ T[p] \in Leaves /\ p \notin done => T[p] = b[p]
    BY Kinds DEF Written
  <2> HIDE DEF b, T
  <2>6. ASSUME T[p] # w.tree[p], w.tree[p] \in Leaves
        PROVE  p \in gone
    BY <1>5, <1>10, <2>2, <2>3, <2>6
  <2>7. ASSUME T[p] # w.tree[p], T[p] \in Leaves
        PROVE  p \in made /\ T[p] = new[p]
    <3>1. p \in done
      <4> SUFFICES ASSUME p \notin done PROVE FALSE
        OBVIOUS
      <4>1. T[p] = b[p] /\ t[p] = T[p] /\ p \notin gone
        BY <2>2, <2>5, <2>7, Kinds
      <4> QED
        BY <1>3, <1>6, <2>7, <4>1
    <3> QED
      BY <2>5, <3>1
  <2> QED
    BY <1>5, <1>7, <1>8, <1>10, <2>4, <2>6, <2>7 DEF Touched
<1> QED
  BY <1>1, <1>9, <1>10 DEF Outcome, t, gone, made, r
-----------------------------------------------------------------------------
(* The phases of a restore of a checkpoint of C, one by one.               *)
Captured(cp, C) == C \in Checkouts /\ \E ps : cp = Checkpoint(C, ps)

Keeps(w, v) == v \in Checkouts /\ v.head = w.head /\ v.commit = w.commit

Pinned(C, w) == w.index = C.commit /\ Fits(w, C.commit)
Staged(C, w) == w.index = C.index /\ Fits(w, C.index)
Followed(C, w) ==
  w.index = C.index /\ \A p \in Occupied(C.index) : Version(w, p) = Version(C, p)
Swept(cp, w) ==
  \A p \in Untracked(w) \ cp.patterns : w.tree[p] \in Files => p \in DOMAIN cp.untracked
Given(cp, w) == \A p \in DOMAIN cp.untracked : w.tree[p] = cp.untracked[p]

LEMMA Fields ==
  ASSUME NEW cp, NEW C, Captured(cp, C)
  PROVE  /\ C \in Checkouts /\ C.tree \in Trees /\ C.index \in Listings /\ C.commit \in Listings
         /\ cp.head = C.head
         /\ cp.staged.old = C.commit /\ cp.staged.new = C.index
         /\ cp.unstaged.old = C.index /\ cp.unstaged.new = Worktree(C)
         /\ cp.dirty = TrackedDirty(C)
         /\ cp.tracked = RegularFiles(C.tree, Occupied(C.index))
         /\ cp.untracked = RegularFiles(C.tree, Untracked(C) \ cp.patterns)
  BY DEF Captured, Checkpoint, Manifest, Diffs, Snapshot, Tracked, Others, Checkouts

LEMMA Archives ==
  ASSUME NEW cp, NEW C, Captured(cp, C)
  PROVE  /\ DOMAIN cp.tracked = {q \in Occupied(C.index) : C.tree[q] \in Files}
         /\ \A q \in DOMAIN cp.tracked : cp.tracked[q] = C.tree[q] /\ cp.tracked[q] \in Leaves
         /\ DOMAIN cp.untracked = {q \in Untracked(C) \ cp.patterns : C.tree[q] \in Files}
         /\ \A q \in DOMAIN cp.untracked :
              cp.untracked[q] = C.tree[q] /\ cp.untracked[q] \in Leaves /\ C.index[q] = Absent
         /\ DOMAIN cp.tracked \subseteq Paths /\ Apart(DOMAIN cp.tracked)
         /\ DOMAIN cp.untracked \subseteq Paths /\ Apart(DOMAIN cp.untracked)
<1>1. /\ C.tree \in Trees
      /\ cp.tracked = RegularFiles(C.tree, Occupied(C.index))
      /\ cp.untracked = RegularFiles(C.tree, Untracked(C) \ cp.patterns)
  BY Fields
<1>2. /\ DOMAIN cp.tracked = {q \in Occupied(C.index) : C.tree[q] \in Files}
      /\ \A q \in DOMAIN cp.tracked : cp.tracked[q] = C.tree[q] /\ cp.tracked[q] \in Leaves
      /\ DOMAIN cp.untracked = {q \in Untracked(C) \ cp.patterns : C.tree[q] \in Files}
      /\ \A q \in DOMAIN cp.untracked :
           cp.untracked[q] = C.tree[q] /\ cp.untracked[q] \in Leaves /\ C.index[q] = Absent
  BY <1>1 DEF RegularFiles, Leaves, Untracked
<1>3. /\ DOMAIN cp.tracked \in SUBSET {p \in Paths : C.tree[p] \in Leaves}
      /\ DOMAIN cp.untracked \in SUBSET {p \in Paths : C.tree[p] \in Leaves}
  BY <1>2 DEF Occupied, Untracked, Leaves
<1> QED
  BY <1>1, <1>2, <1>3, FilesApart

LEMMA StagedPhase ==
  ASSUME NEW cp, NEW C, Captured(cp, C), NEW w \in Checkouts
  PROVE  LET r == Replay(w, cp.staged, TRUE)
         IN /\ Keeps(w, r.world) /\ r.failure \in {None, "internal"}
            /\ r.failure # None => r.world.index = w.index
            /\ r.failure = None /\ Pinned(C, w) => Staged(C, r.world)
<1> DEFINE a == Apply(w, C.commit, C.index, TRUE)
           r == Replay(w, cp.staged, TRUE)
<1>1. r = IF C.commit = C.index THEN [world |-> w, failure |-> None]
          ELSE [world |-> a.world, failure |-> IF a.ok THEN None ELSE "internal"]
  BY Fields DEF Replay, Result, Fine
<1>2. Applied(w, C.commit, C.index, TRUE, a)
  BY Fields, ApplyKeeps
<1>3. /\ a.world \in Checkouts
      /\ a.world.head = w.head /\ a.world.commit = w.commit
      /\ ~a.ok => a.world.index = w.index
      /\ a.ok /\ Fits(w, C.commit) =>
           /\ w.index = C.commit => a.world.index = C.index
           /\ Patched(w.tree, C.commit, C.index, a.world.tree)
  BY <1>2 DEF Applied
<1> HIDE DEF a, r
<1>4. /\ Keeps(w, r.world) /\ r.failure \in {None, "internal"}
      /\ r.failure # None => r.world.index = w.index
  BY <1>1, <1>3 DEF Keeps
<1>5. ASSUME r.failure = None, Pinned(C, w)
      PROVE  Staged(C, r.world)
  <2>1. CASE C.commit = C.index
    BY <1>1, <1>5, <2>1 DEF Pinned, Staged
  <2>2. CASE C.commit # C.index
    <3>1. a.ok /\ r.world = a.world
      BY <1>1, <1>5, <2>2, ConstantsAssumption
    <3>2. a.world.index = C.index /\ Patched(w.tree, C.commit, C.index, a.world.tree)
      BY <1>3, <1>5, <3>1 DEF Pinned
    <3>3. ASSUME NEW p \in Occupied(C.index)
          PROVE  a.world.tree[p] = C.index[p]
      <4>1. p \in Paths /\ C.index[p] \in Leaves
        BY Fields, ListingApart DEF Occupied
      <4>2. CASE p \in Changed(C.commit, C.index)
        BY <3>2, <4>1, <4>2 DEF Patched
      <4>3. CASE p \notin Changed(C.commit, C.index)
        <5>1. C.commit[p] = C.index[p] /\ w.tree[p] = C.index[p]
          BY <1>5, <4>1, <4>3 DEF Changed, Pinned, Fits, Occupied
        <5>2. Related(p) \cap Occupied(C.index) = {}
          BY Fields, ListingAlone
        <5> QED
          BY <3>2, <4>1, <4>3, <5>1, <5>2 DEF Patched
      <4> QED
        BY <4>2, <4>3
    <3> QED
      BY <3>1, <3>2, <3>3 DEF Staged, Fits
  <2> QED
    BY <2>1, <2>2
<1> QED
  BY <1>4, <1>5 DEF r

LEMMA UnstagedPhase ==
  ASSUME NEW cp, NEW C, Captured(cp, C), NEW w \in Checkouts
  PROVE  LET r == Replay(w, cp.unstaged, FALSE)
         IN /\ Keeps(w, r.world) /\ r.failure \in {None, "internal"}
            /\ r.world.index = w.index
            /\ r.failure = None /\ Staged(C, w) => Followed(C, r.world)
<1> DEFINE W == Worktree(C)
           a == Apply(w, C.index, W, FALSE)
           r == Replay(w, cp.unstaged, FALSE)
<1>1. r = IF C.index = W THEN [world |-> w, failure |-> None]
          ELSE [world |-> a.world, failure |-> IF a.ok THEN None ELSE "internal"]
  BY Fields DEF Replay, Result, Fine
<1>2. Applied(w, C.index, W, FALSE, a)
  BY Fields, WorktreeListing, ApplyKeeps
<1>3. /\ a.world \in Checkouts
      /\ a.world.head = w.head /\ a.world.commit = w.commit /\ a.world.index = w.index
      /\ a.ok /\ Fits(w, C.index) => Patched(w.tree, C.index, W, a.world.tree)
  BY <1>2 DEF Applied
<1>4. \A p \in Occupied(C.index) : p \in Paths /\ C.index[p] \in Leaves /\ W[p] = Version(C, p)
  BY Fields, ListingApart DEF Occupied, Worktree
<1>5. W \in Listings /\ \A p \in Paths : W[p] # Absent => C.index[p] # Absent
  BY Fields, WorktreeListing DEF Worktree
<1> HIDE DEF a, r, W
<1>6. /\ Keeps(w, r.world) /\ r.failure \in {None, "internal"}
      /\ r.world.index = w.index
  BY <1>1, <1>3 DEF Keeps
<1>7. ASSUME r.failure = None, Staged(C, w)
      PROVE  Followed(C, r.world)
  <2>1. CASE C.index = W
    BY <1>1, <1>4, <1>7, <2>1 DEF Staged, Fits, Followed, Version
  <2>2. CASE C.index # W
    <3>1. a.ok /\ r.world = a.world
      BY <1>1, <1>7, <2>2, ConstantsAssumption
    <3>2. a.world.index = C.index /\ Patched(w.tree, C.index, W, a.world.tree)
      BY <1>3, <1>7, <3>1 DEF Staged
    <3>3. ASSUME NEW p \in Occupied(C.index)
          PROVE  Version(a.world, p) = Version(C, p)
      <4>1. p \in Paths /\ C.index[p] \in Leaves /\ C.index[p] # Absent /\ W[p] = Version(C, p)
        BY <1>4, Kinds
      <4>2. CASE p \in Changed(C.index, W) /\ W[p] # Absent
        <5>1. a.world.tree[p] = W[p] /\ W[p] \in Leaves
          BY <1>5, <3>2, <4>1, <4>2, Kinds DEF Patched, Occupied, Version
        <5> QED
          BY <4>1, <5>1 DEF Version
      <4>3. CASE p \in Changed(C.index, W) /\ W[p] = Absent
        <5>1. a.world.tree[p] \in {Absent, Directory}
          BY <3>2, <4>1, <4>3 DEF Patched, Occupied
        <5> QED
          BY <4>1, <4>3, <5>1, Kinds DEF Version
      <4>4. CASE p \notin Changed(C.index, W)
        <5>1. W[p] = C.index[p] /\ w.tree[p] = C.index[p]
          BY <1>7, <4>1, <4>4 DEF Changed, Staged, Fits
        <5>2. Related(p) \cap Occupied(W) = {}
          BY <1>5, <4>1, <5>1, ListingAlone DEF Occupied
        <5>3. a.world.tree[p] = W[p]
          BY <3>2, <4>1, <4>4, <5>1, <5>2 DEF Patched
        <5> QED
          BY <4>1, <5>1, <5>3 DEF Version
      <4> QED
        BY <4>2, <4>3, <4>4
    <3> QED
      BY <3>1, <3>2, <3>3 DEF Followed
  <2> QED
    BY <2>1, <2>2
<1> QED
  BY <1>6, <1>7 DEF r

LEMMA TrackedPhase ==
  ASSUME NEW cp, NEW C, Captured(cp, C), NEW w \in Checkouts
  PROVE  LET r == RestoreTrackedContent(cp, w, DOMAIN cp.tracked)
         IN /\ Keeps(w, r.world) /\ r.failure \in {None, "internal", "extraction_conflict"}
            /\ Followed(C, w) => Followed(C, r.world)
<1> DEFINE ps == DOMAIN cp.tracked
           c == ClearConflicts(w.tree, ps)
           W == Written(c.tree, cp.tracked, ps)
           r == RestoreTrackedContent(cp, w, ps)
<1>1. /\ ps = {q \in Occupied(C.index) : C.tree[q] \in Files}
      /\ \A q \in ps : cp.tracked[q] = C.tree[q] /\ cp.tracked[q] \in Leaves
      /\ ps \in SUBSET Paths /\ Apart(ps)
  BY Archives
<1>2. w.tree \in Trees /\ C.index \in Listings /\ C.tree \in Trees
  BY Fields DEF Checkouts
<1>3. /\ c.tree \in Trees
      /\ \A q \in Paths : /\ c.tree[q] \in {w.tree[q], Absent}
                          /\ w.tree[q] \in Files => c.tree[q] = w.tree[q]
                          /\ w.tree[q] \in Links /\ q \notin ps \cup Above(ps)
                             => c.tree[q] = w.tree[q]
  BY <1>1, <1>2, ClearedTree
<1>4. c.failure \in {None, "internal", "extraction_conflict"}
  BY DEF ClearConflicts
<1>5. /\ r.world = [w EXCEPT !.tree = IF c.failure = None THEN W ELSE c.tree]
      /\ r.failure = c.failure
  BY DEF RestoreTrackedContent, Result
<1> HIDE DEF c, r, ps
<1>6. W \in Trees
  BY <1>1, <1>3, WrittenTree
<1>7. Keeps(w, r.world)
  BY <1>3, <1>5, <1>6 DEF Keeps, Checkouts
<1>8. ASSUME Followed(C, w)
      PROVE  Followed(C, r.world)
  <2>1. r.world.tree \in {W, c.tree} /\ r.world.index = C.index
    BY <1>5, <1>8 DEF Checkouts, Followed
  <2>2. ASSUME NEW p \in Occupied(C.index)
        PROVE  Version(r.world, p) = Version(C, p)
    <3>1. p \in Paths /\ Version(w, p) = Version(C, p)
      BY <1>8 DEF Occupied, Followed
    <3>2. CASE p \in ps
      <4>1. W[p] = C.tree[p] /\ C.tree[p] \in Files
        BY <1>1, <3>1, <3>2 DEF Written
      <4>2. c.tree[p] = C.tree[p]
        BY <1>3, <3>1, <4>1, Kinds DEF Version, Leaves
      <4> QED
        BY <2>1, <4>1, <4>2 DEF Version
    <3>3. CASE p \notin ps
      <4>1. Related(p) \cap ps = {}
        BY <1>1, <1>2, ListingAlone
      <4>2. p \notin Above(ps)
        BY <1>1, <3>1, <4>1, BelowIs DEF Above, Related
      <4>3. W[p] = c.tree[p]
        BY <3>1, <3>3, <4>1, <4>2 DEF Written, Related
      <4>4. c.tree[p] \in {w.tree[p], Absent} /\ (w.tree[p] \in Leaves => c.tree[p] = w.tree[p])
        BY <1>3, <3>1, <3>3, <4>2 DEF Leaves
      <4> QED
        BY <2>1, <3>1, <4>3, <4>4, Kinds DEF Version
    <3> QED
      BY <3>2, <3>3
  <2> QED
    BY <2>1, <2>2 DEF Followed
<1> QED
  BY <1>4, <1>5, <1>7, <1>8 DEF r, ps

LEMMA SweepPhase ==
  ASSUME NEW cp, NEW C, Captured(cp, C), NEW w \in Checkouts, NEW patterns
  PROVE  LET r == DeleteUncaptured(cp, w, patterns)
         IN /\ Keeps(w, r.world) /\ r.failure = None
            /\ Followed(C, w) => Followed(C, r.world)
            /\ patterns = cp.patterns => Swept(cp, r.world)
<1> DEFINE deleted == {p \in Untracked(w) \ (patterns \cup DOMAIN cp.untracked) : w.tree[p] \in Files}
           T == [p \in Paths |-> IF p \in deleted THEN Absent ELSE w.tree[p]]
           r == DeleteUncaptured(cp, w, patterns)
<1>1. r = [world |-> [w EXCEPT !.tree = T], failure |-> None]
  BY DEF DeleteUncaptured, Fine, Result
<1>2. w.tree \in [Paths -> Nodes] /\ Solid(w.tree)
  BY DEF Checkouts, Trees
<1>3. \A p \in deleted : p \in Paths /\ w.tree[p] \in Leaves /\ w.index[p] = Absent
  BY DEF Untracked
<1>4. \A p \in Untracked(w) : w.tree[p] \in Files =>
         p \in deleted \/ p \in patterns \/ p \in DOMAIN cp.untracked
  OBVIOUS
<1> HIDE DEF deleted, r
<1>5. T \in Trees
  <2>1. T \in [Paths -> Nodes]
    BY <1>2, Kinds
  <2>2. ASSUME NEW p \in Paths, T[p] # Absent, NEW a \in Ancestors(p)
        PROVE  T[a] = Directory
    <3>1. a \in Paths /\ w.tree[a] = Directory
      BY <1>2, <2>2, Shorter DEF Solid
    <3> QED
      BY <1>3, <3>1, Kinds
  <2> QED
    BY <2>1, <2>2 DEF Trees, Solid
<1> HIDE DEF T
<1>6. /\ r.world.tree = T /\ r.world.index = w.index
      /\ r.world.head = w.head /\ r.world.commit = w.commit
      /\ r.world \in Checkouts /\ r.failure = None
  BY <1>1, <1>5 DEF Checkouts
<1>7. Followed(C, w) => Followed(C, r.world)
  BY <1>3, <1>6 DEF Followed, Version, T, Occupied
<1>8. ASSUME patterns = cp.patterns
      PROVE  Swept(cp, r.world)
  <2> SUFFICES ASSUME NEW p \in Untracked(r.world) \ cp.patterns, T[p] \in Files
               PROVE  p \in DOMAIN cp.untracked
    BY <1>6 DEF Swept
  <2>1. p \in Paths \ Ignored /\ T[p] \in Leaves /\ w.index[p] = Absent
    BY <1>6 DEF Untracked
  <2>2. p \notin deleted /\ w.tree[p] = T[p]
    BY <2>1, Kinds DEF T
  <2> QED
    BY <1>4, <1>8, <2>1, <2>2 DEF Untracked
<1> QED
  BY <1>6, <1>7, <1>8 DEF r, Keeps

LEMMA ClearPhase ==
  ASSUME NEW cp, NEW C, Captured(cp, C), NEW w \in Checkouts, NEW patterns
  PROVE  LET r == Clear(w, DOMAIN cp.untracked \ patterns)
         IN /\ Keeps(w, r.world) /\ r.failure \in {None, "internal", "extraction_conflict"}
            /\ Followed(C, w) => Followed(C, r.world)
            /\ Swept(cp, w) => Swept(cp, r.world)
<1> DEFINE ps == DOMAIN cp.untracked \ patterns
           c == ClearConflicts(w.tree, ps)
           r == Clear(w, ps)
<1>1. /\ \A q \in ps : C.tree[q] \in Leaves /\ C.index[q] = Absent
      /\ ps \in SUBSET Paths
  BY Archives
<1>2. w.tree \in Trees /\ C.index \in Listings /\ C.tree \in [Paths -> Nodes] /\ Solid(C.tree)
  BY Fields DEF Checkouts, Trees
<1>3. /\ c.tree \in Trees
      /\ \A q \in Paths : /\ c.tree[q] \in {w.tree[q], Absent}
                          /\ w.tree[q] \in Files => c.tree[q] = w.tree[q]
                          /\ w.tree[q] \in Links /\ q \notin ps \cup Above(ps)
                             => c.tree[q] = w.tree[q]
  BY <1>1, <1>2, ClearedTree
<1>4. c.failure \in {None, "internal", "extraction_conflict"}
  BY DEF ClearConflicts
<1>5. /\ r.world = [w EXCEPT !.tree = c.tree]
      /\ r.failure = c.failure
  BY DEF Clear, Result
<1> HIDE DEF c, r, ps
<1>6. /\ r.world.tree = c.tree /\ r.world.index = w.index
      /\ r.world.head = w.head /\ r.world.commit = w.commit
      /\ r.world \in Checkouts
  BY <1>3, <1>5 DEF Checkouts
<1>7. ASSUME Followed(C, w)
      PROVE  Followed(C, r.world)
  <2> SUFFICES ASSUME NEW p \in Occupied(C.index)
               PROVE  Version(r.world, p) = Version(C, p)
    BY <1>6, <1>7 DEF Followed
  <2>1. p \in Paths /\ C.index[p] # Absent /\ Version(w, p) = Version(C, p)
    BY <1>7 DEF Occupied, Followed
  <2>2. CASE p \in Above(ps)
    <3>1. PICK q \in ps : p \in Ancestors(q)
      BY <2>2 DEF Above
    <3>2. C.tree[p] = Directory
      BY <1>1, <1>2, <3>1, Kinds DEF Solid
    <3> QED
      BY <1>3, <1>6, <2>1, <3>2, Kinds DEF Version
  <2>3. CASE p \notin Above(ps)
    <3>1. p \notin ps
      BY <1>1, <2>1
    <3>2. c.tree[p] \in {w.tree[p], Absent} /\ (w.tree[p] \in Leaves => c.tree[p] = w.tree[p])
      BY <1>3, <2>1, <2>3, <3>1 DEF Leaves
    <3> QED
      BY <1>6, <2>1, <3>2, Kinds DEF Version
  <2> QED
    BY <2>2, <2>3
<1>8. ASSUME Swept(cp, w)
      PROVE  Swept(cp, r.world)
  <2> SUFFICES ASSUME NEW p \in Untracked(r.world) \ cp.patterns, c.tree[p] \in Files
               PROVE  p \in DOMAIN cp.untracked
    BY <1>6 DEF Swept
  <2>1. p \in Paths \ Ignored /\ c.tree[p] \in Leaves /\ w.index[p] = Absent
    BY <1>6 DEF Untracked
  <2>2. w.tree[p] = c.tree[p]
    BY <1>3, <2>1, Kinds
  <2> QED
    BY <1>8, <2>1, <2>2 DEF Untracked, Swept
<1> QED
  BY <1>4, <1>5, <1>6, <1>7, <1>8 DEF r, ps, Keeps

LEMMA ExtractPhase ==
  ASSUME NEW cp, NEW C, Captured(cp, C), NEW w \in Checkouts
  PROVE  LET r == ExtractUntracked(cp, w)
         IN /\ Keeps(w, r.world) /\ r.failure = None
            /\ Followed(C, w) => Followed(C, r.world)
            /\ Swept(cp, w) => Swept(cp, r.world)
<1> DEFINE out == {p \in DOMAIN cp.untracked : ~Barred(w.tree, p)}
           T == Written(w.tree, cp.untracked, out)
           r == ExtractUntracked(cp, w)
<1>1. /\ \A q \in out : /\ cp.untracked[q] = C.tree[q] /\ cp.untracked[q] \in Leaves
                        /\ C.index[q] = Absent
      /\ out \in SUBSET Paths /\ Apart(out) /\ out \subseteq DOMAIN cp.untracked
  BY Archives DEF Apart
<1>2. w.tree \in Trees /\ C.tree \in [Paths -> Nodes] /\ Solid(C.tree)
  BY Fields DEF Checkouts, Trees
<1>3. r = [world |-> [w EXCEPT !.tree = T], failure |-> None]
  BY DEF ExtractUntracked, Fine, Result
<1> HIDE DEF out, r
<1>4. T \in Trees
  BY <1>1, <1>2, WrittenTree
<1>5. \A q \in Paths : T[q] = IF q \in out THEN cp.untracked[q]
                              ELSE IF q \in Above(out) THEN Directory
                              ELSE IF Ancestors(q) \cap out # {} THEN Absent ELSE w.tree[q]
  BY DEF Written
<1> HIDE DEF T
<1>6. /\ r.world.tree = T /\ r.world.index = w.index
      /\ r.world.head = w.head /\ r.world.commit = w.commit
      /\ r.world \in Checkouts /\ r.failure = None
  BY <1>3, <1>4 DEF Checkouts
<1>7. ASSUME Followed(C, w)
      PROVE  Followed(C, r.world)
  <2> SUFFICES ASSUME NEW p \in Occupied(C.index)
               PROVE  Version(r.world, p) = Version(C, p)
    BY <1>6, <1>7 DEF Followed
  <2>1. p \in Paths /\ C.index[p] # Absent /\ p \notin out /\ Version(w, p) = Version(C, p)
    BY <1>1, <1>7 DEF Occupied, Followed
  <2>2. CASE p \in Above(out)
    <3>1. PICK q \in out : p \in Ancestors(q)
      BY <2>2 DEF Above
    <3>2. C.tree[p] = Directory
      BY <1>1, <1>2, <3>1, Kinds DEF Solid
    <3> QED
      BY <1>5, <1>6, <2>1, <2>2, <3>2, Kinds DEF Version
  <2>3. CASE p \notin Above(out) /\ Ancestors(p) \cap out # {}
    <3>1. PICK a \in out : a \in Ancestors(p)
      BY <2>3
    <3>2. C.tree[p] = Absent
      BY <1>1, <1>2, <2>1, <3>1, Kinds DEF Solid
    <3> QED
      BY <1>5, <1>6, <2>1, <2>3, <3>2, Kinds DEF Version
  <2>4. CASE p \notin Above(out) /\ Ancestors(p) \cap out = {}
    BY <1>5, <1>6, <2>1, <2>4 DEF Version
  <2> QED
    BY <2>2, <2>3, <2>4
<1>8. ASSUME Swept(cp, w)
      PROVE  Swept(cp, r.world)
  <2> SUFFICES ASSUME NEW p \in Untracked(r.world) \ cp.patterns, T[p] \in Files,
                      p \notin out
               PROVE  p \in DOMAIN cp.untracked
    BY <1>1, <1>6 DEF Swept
  <2>1. p \in Paths \ Ignored /\ T[p] \in Leaves /\ w.index[p] = Absent
    BY <1>6 DEF Untracked
  <2>2. w.tree[p] = T[p]
    BY <1>5, <2>1, Kinds
  <2> QED
    BY <1>8, <2>1, <2>2 DEF Untracked, Swept
<1> QED
  BY <1>6, <1>7, <1>8 DEF r, Keeps

LEMMA VerifyPhase ==
  ASSUME NEW cp, NEW w
  PROVE  LET r == VerifyHashes(cp, w)
         IN /\ r.world = w /\ r.failure \in {None, "internal", "verification"}
            /\ r.failure = None => Given(cp, w)
<1>1. /\ VerifyHashes(cp, w).world = w
      /\ VerifyHashes(cp, w).failure \in {None, "internal", "verification"}
      /\ VerifyHashes(cp, w).failure = None => Drifted(w, cp.untracked) = {}
  BY ConstantsAssumption DEF VerifyHashes, Result
<1> QED
  BY <1>1 DEF Drifted, Given

(* What the restore leaves, once its hashes agree, is what was captured.   *)
LEMMA Resurfaced ==
  ASSUME NEW cp, NEW C, Captured(cp, C), NEW w,
         Followed(C, w), Swept(cp, w), Given(cp, w)
  PROVE  Surface(w, cp.patterns) = Surface(C, cp.patterns)
<1>1. w.index = C.index
  BY DEF Followed
<1>2. Worktree(w) = Worktree(C)
  <2>1. \A p \in Paths : C.index[p] # Absent => Version(w, p) = Version(C, p)
    BY DEF Followed, Occupied
  <2> QED
    BY <1>1, <2>1 DEF Worktree
<1>3. RegularFiles(w.tree, Untracked(w) \ cp.patterns)
      = RegularFiles(C.tree, Untracked(C) \ cp.patterns)
  <2> DEFINE ps == {q \in Untracked(w) \ cp.patterns : w.tree[q] \in Files}
             qs == {q \in Untracked(C) \ cp.patterns : C.tree[q] \in Files}
  <2>1. DOMAIN cp.untracked = qs /\ \A q \in qs : w.tree[q] = C.tree[q]
    BY Archives DEF Given
  <2>2. ps \subseteq qs
    BY <2>1 DEF Swept
  <2>3. qs \subseteq ps
    <3> SUFFICES ASSUME NEW q \in qs PROVE q \in ps
      OBVIOUS
    <3>1. /\ q \in Paths \ Ignored /\ q \notin cp.patterns
          /\ C.tree[q] \in Files /\ C.tree[q] \in Leaves /\ C.index[q] = Absent
      BY DEF Untracked
    <3>2. w.tree[q] = C.tree[q]
      BY <2>1
    <3> QED
      BY <1>1, <3>1, <3>2 DEF Untracked
  <2>4. ps = qs
    BY <2>2, <2>3
  <2>5. \A q \in ps : w.tree[q] = C.tree[q]
    BY <2>1, <2>4
  <2> QED
    BY <2>4, <2>5 DEF RegularFiles
<1> QED
  BY <1>1, <1>2, <1>3 DEF Surface
-----------------------------------------------------------------------------
(* What each phase takes from a path and puts there.                       *)
LEMMA ResetTouches ==
  ASSUME NEW w \in Checkouts, NEW p \in Paths, ResetHard(w).tree[p] # w.tree[p]
  PROVE  /\ w.tree[p] \in Leaves =>
              \/ p \in Occupied(w.index) \ Occupied(w.commit)
              \/ ({p} \cup Related(p)) \cap Occupied(w.commit) # {}
         /\ ResetHard(w).tree[p] \in Leaves =>
              p \in Occupied(w.commit) /\ ResetHard(w).tree[p] = w.commit[p]
<1> DEFINE dropped == {q \in Occupied(w.index) \ Occupied(w.commit) : w.tree[q] # Directory}
           ps == Occupied(w.commit)
           bare == Removed(w.tree, dropped)
           u == ResetHard(w).tree
<1>1. w.tree \in Trees /\ dropped \in SUBSET Paths /\ ps \in SUBSET Paths
  BY DEF Checkouts, Occupied
<1>2. /\ bare[p] \in {w.tree[p], Absent}
      /\ p \notin dropped /\ w.tree[p] \in Leaves => bare[p] = w.tree[p]
  BY <1>1, RemovedTree
<1>3. u = Written(bare, w.commit, ps)
  BY DEF ResetHard, Checkouts
<1>4. dropped \subseteq Occupied(w.index) \ Occupied(w.commit)
  OBVIOUS
<1> HIDE DEF bare, dropped, u
<1>5. u[p] = IF p \in ps THEN w.commit[p] ELSE IF p \in Above(ps) THEN Directory
             ELSE IF Ancestors(p) \cap ps # {} THEN Absent ELSE bare[p]
  BY <1>3 DEF Written
<1>6. p \in Above(ps) => Related(p) \cap ps # {}
  BY <1>1, BelowIs DEF Above, Related
<1>7. Ancestors(p) \cap ps # {} => Related(p) \cap ps # {}
  BY DEF Related
<1>8. u[p] # w.tree[p]
  BY DEF u
<1>9. w.tree[p] \in Leaves => p \in dropped \/ ({p} \cup Related(p)) \cap ps # {}
  BY <1>2, <1>5, <1>6, <1>7, <1>8
<1>10. u[p] \in Leaves => p \in ps /\ u[p] = w.commit[p]
  BY <1>2, <1>5, <1>8, Kinds
<1> QED
  BY <1>4, <1>9, <1>10 DEF u

StagedEffect(C, w, p, r) ==
  r.world.tree[p] # w.tree[p] =>
    /\ w.tree[p] \in Leaves => /\ p \in Occupied(C.commit) /\ w.tree[p] = C.commit[p]
                               /\ w.index[p] = C.commit[p]
    /\ r.world.tree[p] \in Leaves => /\ p \in Occupied(C.commit) \cup Occupied(C.index)
                                     /\ r.failure = None => r.world.tree[p] = C.index[p]
    /\ {w.tree[p], r.world.tree[p]} \cap Leaves # {} => p \in Changed(C.commit, C.index)

LEMMA StagedTouches ==
  ASSUME NEW cp, NEW C, Captured(cp, C), NEW w \in Checkouts, NEW p \in Paths
  PROVE  StagedEffect(C, w, p, Replay(w, cp.staged, TRUE))
<1> DEFINE a == Apply(w, C.commit, C.index, TRUE)
           r == Replay(w, cp.staged, TRUE)
<1>1. r = IF C.commit = C.index THEN [world |-> w, failure |-> None]
          ELSE [world |-> a.world, failure |-> IF a.ok THEN None ELSE "internal"]
  BY Fields DEF Replay, Result, Fine
<1>2. Touched(w, C.commit, C.index, TRUE, p, a)
  BY Fields, ApplyTouches
<1> SUFFICES StagedEffect(C, w, p, r)
  OBVIOUS
<1> HIDE DEF a, r
<1>3. CASE C.commit = C.index
  <2>1. r.world = w
    BY <1>1, <1>3
  <2> QED
    BY <2>1 DEF StagedEffect
<1>4. CASE C.commit # C.index
  <2>1. r.world = a.world /\ (r.failure = None => a.ok)
    BY <1>1, <1>4, ConstantsAssumption
  <2> QED
    BY <1>2, <2>1 DEF Touched, StagedEffect
<1> QED
  BY <1>3, <1>4

UnstagedEffect(C, w, p, r) ==
  r.world.tree[p] # w.tree[p] =>
    /\ w.tree[p] \in Leaves => p \in Occupied(C.index) /\ w.tree[p] = C.index[p]
    /\ r.world.tree[p] \in Leaves => /\ p \in Occupied(C.index)
                                     /\ r.failure = None => r.world.tree[p] = C.tree[p]
    /\ {w.tree[p], r.world.tree[p]} \cap Leaves # {} => p \in Changed(C.index, Worktree(C))

LEMMA UnstagedTouches ==
  ASSUME NEW cp, NEW C, Captured(cp, C), NEW w \in Checkouts, NEW p \in Paths
  PROVE  UnstagedEffect(C, w, p, Replay(w, cp.unstaged, FALSE))
<1> DEFINE W == Worktree(C)
           a == Apply(w, C.index, W, FALSE)
           r == Replay(w, cp.unstaged, FALSE)
<1>1. r = IF C.index = W THEN [world |-> w, failure |-> None]
          ELSE [world |-> a.world, failure |-> IF a.ok THEN None ELSE "internal"]
  BY Fields DEF Replay, Result, Fine
<1>2. Touched(w, C.index, W, FALSE, p, a)
  BY Fields, WorktreeListing, ApplyTouches
<1>3. /\ W[p] # Absent => C.index[p] # Absent
      /\ W[p] \in Leaves => W[p] = C.tree[p]
  BY Kinds DEF Worktree, Version
<1> SUFFICES UnstagedEffect(C, w, p, r)
  OBVIOUS
<1> HIDE DEF a, r, W
<1>4. CASE C.index = W
  <2>1. r.world = w
    BY <1>1, <1>4
  <2> QED
    BY <2>1 DEF UnstagedEffect
<1>5. CASE C.index # W
  <2>1. r.world = a.world /\ (r.failure = None => a.ok)
    BY <1>1, <1>5, ConstantsAssumption
  <2>2. p \in Occupied(W) => p \in Occupied(C.index)
    BY <1>3 DEF Occupied
  <2>3. SUFFICES ASSUME a.world.tree[p] # w.tree[p]
               PROVE  /\ w.tree[p] \in Leaves => p \in Occupied(C.index) /\ w.tree[p] = C.index[p]
                      /\ a.world.tree[p] \in Leaves =>
                           p \in Occupied(C.index) /\ (a.ok => a.world.tree[p] = C.tree[p])
                      /\ {w.tree[p], a.world.tree[p]} \cap Leaves # {} => p \in Changed(C.index, W)
    BY <2>1 DEF UnstagedEffect, W
  <2> QED
    BY <1>2, <1>3, <2>2, <2>3 DEF Touched
<1> QED
  BY <1>4, <1>5

LEMMA ClearedWay ==
  ASSUME NEW t \in Trees, NEW ps \in SUBSET Paths, ClearConflicts(t, ps).failure = None,
         NEW q \in ps
  PROVE  ~Barred(ClearConflicts(t, ps).tree, q)
<1> DEFINE visited == ps \cup Above(ps)
           stopping == Inaccessible(t, visited)
           reached == {p \in visited : \A x \in stopping : ShallowestFirst(p, x)}
           cleared == {p \in reached : t[p] \in Links \/ (p \in ps /\ EmptyAt(t, p))}
           conflicts == {p \in ps : t[p] = Directory /\ ~EmptyAt(t, p)}
           c == ClearConflicts(t, ps)
<1>1. c = [tree |-> [p \in Paths |-> IF p \in cleared THEN Absent ELSE t[p]],
           failure |-> IF stopping # {} THEN "internal"
                       ELSE IF conflicts # {} THEN "extraction_conflict" ELSE None]
  BY DEF ClearConflicts
<1>2. stopping = {} /\ conflicts = {}
  <2>1. c.failure = None
    OBVIOUS
  <2> HIDE DEF visited, stopping, conflicts, c
  <2> QED
    BY <1>1, <2>1, ConstantsAssumption
<1>3. \A p \in Paths : c.tree[p] = IF /\ p \in visited
                                      /\ t[p] \in Links \/ (p \in ps /\ EmptyAt(t, p))
                                   THEN Absent ELSE t[p]
  BY <1>1, <1>2
<1>4. \A p \in visited : \A a \in Ancestors(p) : t[a] \notin Files
  BY <1>2 DEF Inaccessible
<1>5. t[q] = Directory => EmptyAt(t, q)
  BY <1>2
<1> HIDE DEF c
<1>6. ASSUME NEW a \in Ancestors(q) PROVE c.tree[a] \notin Leaves
  <2>1. a \in Paths /\ a \in visited /\ t[a] \notin Files
    BY <1>4, Shorter DEF Above
  <2> QED
    BY <1>3, <2>1, Kinds DEF Leaves
<1>7. c.tree[q] # Directory
  BY <1>3, <1>5, Kinds
<1> QED
  BY <1>6, <1>7 DEF Barred, c

LEMMA TrackedTouches ==
  ASSUME NEW cp, NEW C, Captured(cp, C), NEW w \in Checkouts, NEW p \in Paths,
         NEW r, r = RestoreTrackedContent(cp, w, DOMAIN cp.tracked),
         r.world.tree[p] # w.tree[p]
  PROVE  /\ w.tree[p] \in Files => p \in DOMAIN cp.tracked
         /\ w.tree[p] \in Leaves => ({p} \cup Related(p)) \cap Occupied(C.index) # {}
         /\ r.world.tree[p] \in Leaves =>
              p \in DOMAIN cp.tracked /\ r.world.tree[p] = cp.tracked[p]
<1> DEFINE ps == DOMAIN cp.tracked
           c == ClearConflicts(w.tree, ps)
           W == Written(c.tree, cp.tracked, ps)
<1>1. ps \subseteq Occupied(C.index) /\ ps \in SUBSET Paths
  BY Archives
<1>2. w.tree \in Trees
  BY DEF Checkouts
<1>3. /\ c.tree \in Trees
      /\ c.tree[p] \in {w.tree[p], Absent}
      /\ w.tree[p] \in Files => c.tree[p] = w.tree[p]
      /\ w.tree[p] \in Links /\ p \notin ps \cup Above(ps) => c.tree[p] = w.tree[p]
  BY <1>1, <1>2, ClearedTree
<1>4. c.failure = None => \A q \in ps : ~Barred(c.tree, q)
  BY <1>1, <1>2, ClearedWay
<1>5. r.world.tree = IF c.failure = None THEN W ELSE c.tree
  BY DEF RestoreTrackedContent, Result, Checkouts
<1>6. W[p] # c.tree[p] => /\ W[p] \in Leaves => p \in ps /\ W[p] = cp.tracked[p]
  BY Kinds DEF Written
<1> HIDE DEF c
<1>7. c.failure = None /\ c.tree[p] \in Leaves /\ W[p] # c.tree[p] => p \in ps
  BY <1>1, <1>3, <1>4, WrittenClear
<1> HIDE DEF W, ps
<1>8. p \in ps \cup Above(ps) => ({p} \cup Related(p)) \cap Occupied(C.index) # {}
  BY <1>1, BelowIs DEF Above, Related
<1>9. w.tree[p] \in Files => p \in ps
  BY <1>3, <1>5, <1>7 DEF Leaves
<1>10. w.tree[p] \in Leaves => p \in ps \cup Above(ps)
  BY <1>3, <1>5, <1>7 DEF Leaves
<1>11. r.world.tree[p] \in Leaves => p \in ps /\ r.world.tree[p] = cp.tracked[p]
  BY <1>3, <1>5, <1>6, Kinds
<1> QED
  BY <1>8, <1>9, <1>10, <1>11 DEF ps

LEMMA SweepTouches ==
  ASSUME NEW cp, NEW w \in Checkouts, NEW patterns, NEW p \in Paths,
         NEW r, r = DeleteUncaptured(cp, w, patterns), r.world.tree[p] # w.tree[p]
  PROVE  /\ p \in Untracked(w) \ patterns /\ w.tree[p] \in Files
         /\ r.world.tree[p] \notin Leaves
<1> DEFINE deleted == {q \in Untracked(w) \ (patterns \cup DOMAIN cp.untracked) : w.tree[q] \in Files}
<1>1. r.world.tree = [q \in Paths |-> IF q \in deleted THEN Absent ELSE w.tree[q]]
  BY DEF DeleteUncaptured, Fine, Result, Checkouts
<1>2. p \in deleted /\ r.world.tree[p] = Absent
  BY <1>1
<1> QED
  BY <1>2, Kinds

LEMMA ClearTouches ==
  ASSUME NEW cp, NEW C, Captured(cp, C), NEW w \in Checkouts, NEW patterns, NEW p \in Paths,
         NEW r, r = Clear(w, DOMAIN cp.untracked \ patterns), r.world.tree[p] # w.tree[p]
  PROVE  /\ w.tree[p] \notin Files /\ r.world.tree[p] \notin Leaves
         /\ w.tree[p] \in Links => ({p} \cup Below(p)) \cap DOMAIN cp.untracked # {}
<1> DEFINE ps == DOMAIN cp.untracked \ patterns
           c == ClearConflicts(w.tree, ps)
<1>1. ps \in SUBSET Paths /\ w.tree \in Trees
  BY Archives DEF Checkouts
<1>2. /\ c.tree[p] \in {w.tree[p], Absent}
      /\ w.tree[p] \in Files => c.tree[p] = w.tree[p]
      /\ w.tree[p] \in Links /\ p \notin ps \cup Above(ps) => c.tree[p] = w.tree[p]
  BY <1>1, ClearedTree
<1>3. r.world.tree = c.tree
  BY DEF Clear, Result, Checkouts
<1>4. p \in ps \cup Above(ps) => ({p} \cup Below(p)) \cap ps # {}
  BY <1>1, BelowIs DEF Above
<1> HIDE DEF c
<1> QED
  BY <1>2, <1>3, <1>4, Kinds

LEMMA ExtractTouches ==
  ASSUME NEW cp, NEW C, Captured(cp, C), NEW w \in Checkouts, NEW p \in Paths,
         NEW r, r = ExtractUntracked(cp, w), r.world.tree[p] # w.tree[p]
  PROVE  /\ w.tree[p] \in Leaves => p \in DOMAIN cp.untracked
         /\ r.world.tree[p] \in Leaves =>
              p \in DOMAIN cp.untracked /\ r.world.tree[p] = cp.untracked[p]
<1> DEFINE out == {q \in DOMAIN cp.untracked : ~Barred(w.tree, q)}
           T == Written(w.tree, cp.untracked, out)
<1>1. out \in SUBSET Paths /\ w.tree \in Trees
  BY Archives DEF Checkouts
<1>2. r.world.tree = T
  BY DEF ExtractUntracked, Fine, Result, Checkouts
<1>3. w.tree[p] \in Leaves /\ T[p] # w.tree[p] => p \in out
  BY <1>1, WrittenClear
<1>4. T[p] \in Leaves /\ T[p] # w.tree[p] => p \in out /\ T[p] = cp.untracked[p]
  BY Kinds DEF Written
<1> HIDE DEF T
<1> QED
  BY <1>2, <1>3, <1>4
-----------------------------------------------------------------------------
(* A rollback, phase by phase.                                             *)
LEMMA PhaseOrder ==
  /\ Range(Phases) = {"preflight", "reset", "staged", "unstaged", "tracked", "sweep",
                      "clear", "extract", "parity", "verify"}
  /\ Successor("preflight") = "reset" /\ Successor("reset") = "staged"
  /\ Successor("staged") = "unstaged" /\ Successor("unstaged") = "tracked"
  /\ Successor("tracked") = "sweep" /\ Successor("sweep") = "clear"
  /\ Successor("clear") = "extract" /\ Successor("extract") = "parity"
  /\ Successor("parity") = "verify" /\ Successor("verify") = "receipt"
<1>1. Len(Phases) = 10 /\ DOMAIN Phases = 1 .. 10
  BY DEF Phases
<1>2. /\ Phases[1] = "preflight" /\ Phases[2] = "reset" /\ Phases[3] = "staged"
      /\ Phases[4] = "unstaged" /\ Phases[5] = "tracked" /\ Phases[6] = "sweep"
      /\ Phases[7] = "clear" /\ Phases[8] = "extract" /\ Phases[9] = "parity"
      /\ Phases[10] = "verify"
  BY DEF Phases
<1>3. Range(Phases) = {"preflight", "reset", "staged", "unstaged", "tracked", "sweep",
                       "clear", "extract", "parity", "verify"}
  BY <1>1, <1>2 DEF Range
<1>4. Last(Phases) = "verify"
  BY <1>1, <1>2 DEF Last
<1> HIDE DEF Phases
<1>5. ASSUME NEW i \in 1 .. 9
      PROVE  (CHOOSE j \in DOMAIN Phases : Phases[j] = Phases[i]) = i
  <2>1. \A j \in 1 .. 10 : Phases[j] = Phases[i] => j = i
    BY <1>2
  <2> QED
    BY <1>1, <2>1
<1>6. \A i \in 1 .. 9 : Successor(Phases[i]) = Phases[1 + i]
  BY <1>1, <1>2, <1>4, <1>5 DEF Successor
<1>7. Successor("verify") = "receipt"
  BY <1>4 DEF Successor
<1> QED
  BY <1>2, <1>3, <1>6, <1>7

(* Whatever people do to a checkout leaves one, and HEAD only moves on.    *)
Advances(w, v) == v.head >= w.head /\ (v.head = w.head => v.commit = w.commit)

LEMMA ChangesKeep ==
  ASSUME NEW w \in Checkouts, NEW p \in Paths, NEW v \in Changes(w, p)
  PROVE  v \in Checkouts /\ Advances(w, v)
<1> DEFINE deleted == [q \in Paths |-> IF IsPrefix(p, q) THEN Absent ELSE w.tree[q]]
           added == [q \in Paths |-> IF q = p THEN Version(w, p)
                                     ELSE IF w.tree[p] \in Leaves /\ q \in Related(p) THEN Absent
                                     ELSE w.index[q]]
           reverted == [w.index EXCEPT ![p] = w.commit[p]]
           removed == [w.index EXCEPT ![p] = Absent]
           written(x) == Written(w.tree, [q \in {p} |-> x], {p})
<1>1. /\ w.head \in Nat /\ w.commit \in Listings
      /\ w.tree \in [Paths -> Nodes] /\ Solid(w.tree) /\ w.tree \in Trees
      /\ w.index \in [Paths -> Entries] /\ IsListing(w.index) /\ w.index \in Listings
      /\ w.commit \in [Paths -> Entries]
  BY DEF Checkouts, Trees, Listings
<1>2. \/ \E x \in Leaves : v = [w EXCEPT !.tree = written(x)]
      \/ v = [w EXCEPT !.tree = deleted]
      \/ v = [w EXCEPT !.index = removed]
      \/ v = [w EXCEPT !.index = added]
      \/ IsListing(reverted) /\ v = [w EXCEPT !.index = reverted]
      \/ v = [w EXCEPT !.index = w.index]
      \/ v = w
      \/ v = [w EXCEPT !.commit = w.index, !.head = w.head + 1]
  BY DEF Changes
<1>3. ASSUME NEW x \in Leaves PROVE written(x) \in Trees
  <2>1. {p} \in SUBSET Paths /\ Apart({p})
    BY Shorter DEF Apart
  <2> QED
    BY <1>1, <2>1, WrittenTree
<1>4. deleted \in Trees
  <2>1. deleted \in [Paths -> Nodes]
    BY <1>1, Kinds
  <2>2. ASSUME NEW q \in Paths, deleted[q] # Absent, NEW a \in Ancestors(q)
        PROVE  deleted[a] = Directory
    <3>1. a \in Paths /\ ~IsPrefix(p, q) /\ w.tree[a] = Directory
      BY <1>1, <2>2, Shorter DEF Solid
    <3>2. ~IsPrefix(p, a)
      BY <2>2, <3>1, PrefixIs, AncestorsNest
    <3> QED
      BY <3>1, <3>2
  <2> QED
    BY <2>1, <2>2 DEF Trees, Solid
<1>5. removed \in Listings
  BY <1>1, Kinds, Shorter DEF Listings, IsListing
<1>6. added \in Listings
  <2>1. Version(w, p) \in Entries
    BY Kinds DEF Version
  <2>2. added \in [Paths -> Entries]
    BY <1>1, <2>1, Kinds
  <2>3. ASSUME NEW q \in Paths, added[q] # Absent, NEW a \in Ancestors(q)
        PROVE  added[a] = Absent
    <3>1. a \in Paths /\ a # q
      BY <2>3, Shorter
    <3>2. CASE q = p
      BY <2>3, <3>1, <3>2 DEF Version, Related
    <3>3. CASE q # p /\ a = p
      <4>1. q \in Related(p)
        BY <2>3, <3>3, BelowIs DEF Related
      <4> QED
        BY <2>3, <3>3, <4>1 DEF Version
    <3>4. CASE q # p /\ a # p
      BY <1>1, <2>3, <3>1, <3>4 DEF IsListing
    <3> QED
      BY <3>2, <3>3, <3>4
  <2> QED
    BY <2>2, <2>3 DEF Listings, IsListing
<1>7. IsListing(reverted) => reverted \in Listings
  BY <1>1 DEF Listings
<1> HIDE DEF deleted, added, reverted, removed, written
<1>8. CASE \E x \in Leaves : v = [w EXCEPT !.tree = written(x)]
  BY <1>1, <1>3, <1>8 DEF Checkouts, Advances
<1>9. CASE v = [w EXCEPT !.tree = deleted]
  BY <1>1, <1>4, <1>9 DEF Checkouts, Advances
<1>10. CASE \E i \in Listings : v = [w EXCEPT !.index = i]
  BY <1>1, <1>10 DEF Checkouts, Advances
<1>11. CASE v = w
  BY <1>1, <1>11 DEF Advances
<1>12. CASE v = [w EXCEPT !.commit = w.index, !.head = w.head + 1]
  <2>1. v = [head |-> w.head + 1, commit |-> w.index, index |-> w.index, tree |-> w.tree]
    BY <1>12 DEF Checkouts
  <2>2. v \in Checkouts
    BY <1>1, <2>1 DEF Checkouts
  <2>3. v.head = w.head + 1 /\ w.head + 1 >= w.head /\ w.head + 1 # w.head
    BY <1>1, <2>1
  <2> QED
    BY <1>1, <2>2, <2>3 DEF Advances
<1> QED
  BY <1>1, <1>2, <1>5, <1>6, <1>7, <1>8, <1>9, <1>10, <1>11, <1>12

(* The checkpoint is of the session's start, HEAD is as far or further,    *)
(* and only a run that has ended succeeded.                                *)
Grounded ==
  /\ repo \in Checkouts
  /\ pc # "outside" => Captured(checkpoint, started) /\ Advances(started, repo)
  /\ pc \in {"outside", "session"} => before = None
  /\ before # None /\ late = {} => repo.head = before.head
  /\ ending = "succeeded" => pc = "idle"

(* How far an undisturbed restore is, after each of its phases.            *)
Underway ==
  Undisturbed =>
    /\ pc \in {"reset", "staged", "unstaged", "tracked", "sweep", "clear", "extract",
               "parity", "verify"}
         => excluded = checkpoint.patterns
    /\ pc = "staged" => Pinned(started, repo)
    /\ pc = "unstaged" => Staged(started, repo)
    /\ pc \in {"tracked", "sweep", "clear", "extract", "parity", "verify"}
         => Followed(started, repo)
    /\ pc \in {"clear", "extract", "parity", "verify"} => Swept(checkpoint, repo)
    /\ (pc = "receipt" /\ ending = None) \/ ending = "succeeded"
         => /\ Followed(started, repo) /\ Swept(checkpoint, repo)
            /\ Given(checkpoint, repo)

RestoreInv == Grounded /\ Underway

LEMMA RestoreStart == RestoreInit => RestoreInv
<1> SUFFICES ASSUME RestoreInit PROVE RestoreInv
  OBVIOUS
<1>1. PICK c \in Commits :
        repo = [head |-> 1, commit |-> c, index |-> c, tree |-> Written(Nothing, c, Occupied(c))]
  BY DEF RestoreInit
<1>2. c \in Listings
  BY ConstantsAssumption DEF Listings
<1>3. Nothing \in Trees
  BY Kinds DEF Nothing, Trees, Solid
<1>4. Occupied(c) \in SUBSET Paths /\ Apart(Occupied(c)) /\ \A p \in Occupied(c) : c[p] \in Leaves
  BY <1>2, ListingApart
<1>5. Written(Nothing, c, Occupied(c)) \in Trees
  BY <1>3, <1>4, WrittenTree
<1>6. repo \in Checkouts
  BY <1>1, <1>2, <1>5 DEF Checkouts
<1>7. Grounded
  BY <1>6, ConstantsAssumption DEF RestoreInit, Grounded
<1>8. Underway
  BY DEF RestoreInit, Underway, Undisturbed
<1> QED
  BY <1>7, <1>8 DEF RestoreInv

(* A phase leaves what the next one needs.                                 *)
LEMMA RestoreStep ==
  ASSUME RestoreInv, Restore
  PROVE  RestoreInv'
<1> DEFINE cp == checkpoint
           C == started
           allow == forced /\ "head_mismatch" \in seen
           r == Perform(pc, cp, repo, excluded, allow)
<1>1. /\ pc \in Range(Phases)
      /\ repo' = r.world
      /\ IF r.failure = None THEN pc' = Successor(pc) /\ ending' = ending
                             ELSE pc' = "receipt" /\ ending' = r.failure
      /\ excluded' = excluded /\ started' = started /\ checkpoint' = checkpoint
      /\ before' = before /\ late' = late
  BY DEF Restore, session, command
<1>2. /\ pc \in {"preflight", "reset", "staged", "unstaged", "tracked", "sweep",
                 "clear", "extract", "parity", "verify"}
      /\ r.failure = None => pc' = Successor(pc)
      /\ ending # "succeeded" /\ pc # "outside"
  BY <1>1, PhaseOrder DEF RestoreInv, Grounded
<1>3. repo \in Checkouts /\ Captured(cp, C) /\ Advances(C, repo)
  BY <1>2 DEF RestoreInv, Grounded
<1>4. Undisturbed => repo.head = C.head /\ repo.commit = C.commit
  BY <1>3, Fields DEF Undisturbed, RestoreInv, Grounded, Advances
<1>5. /\ Undisturbed' <=> Undisturbed
      /\ (before # None /\ late = {})' <=> before # None /\ late = {}
  BY <1>1 DEF Undisturbed
<1> DEFINE next == /\ Keeps(repo, r.world)
                   /\ r.failure # "succeeded"
                   /\ r.failure = None => pc' \notin {"outside", "session", "idle"}
                   /\ r.failure = None => Underway'
<1> HIDE DEF r
<1>6. ASSUME next
      PROVE  RestoreInv'
  <2>1. repo' \in Checkouts /\ repo'.head = repo.head /\ repo'.commit = repo.commit
    BY <1>1, <1>6 DEF Keeps
  <2>2. pc' \notin {"outside", "session", "idle"} /\ ending' # "succeeded"
    BY <1>1, <1>2, <1>6
  <2>3. Grounded'
    BY <1>1, <1>2, <1>3, <1>5, <2>1, <2>2 DEF RestoreInv, Grounded, Advances
  <2>4. Underway'
    <3>1. CASE r.failure = None
      BY <1>6, <3>1
    <3>2. CASE r.failure # None
      <4>1. pc' = "receipt" /\ ending' # None /\ ending' # "succeeded"
        BY <1>1, <2>2, <3>2
      <4> QED
        BY <4>1 DEF Underway
    <3> QED
      BY <3>1, <3>2
  <2> QED
    BY <2>3, <2>4 DEF RestoreInv
<1> HIDE DEF next
<1>7. CASE pc = "preflight"
  <2>1. r = Preflight(cp, repo, excluded, allow)
    BY <1>7 DEF Perform, r
  <2>2. r.world = repo /\ r.failure \in {None, "head_mismatch", "exclude_drift"}
        /\ (r.failure = None => excluded = cp.patterns)
    BY <2>1, ConstantsAssumption DEF Preflight, Result
  <2>3. r.failure = None => pc' = "reset"
    BY <1>2, <1>7, PhaseOrder
  <2>4. r.failure = None => Underway'
    BY <1>1, <1>2, <2>2, <2>3 DEF Underway
  <2> QED
    BY <1>3, <2>2, <2>3, <2>4, <1>6, ConstantsAssumption DEF next, Keeps
<1>8. CASE pc = "reset"
  <2>1. r = Fine(ResetHard(repo))
    BY <1>8 DEF Perform, r
  <2>2. Keeps(repo, r.world) /\ r.failure = None /\ (Undisturbed => Pinned(C, r.world))
    BY <1>3, <1>4, <2>1, ResetKeeps DEF Fine, Result, Keeps, Pinned, Fits
  <2>3. pc' = "staged"
    BY <1>2, <1>8, <2>2, PhaseOrder
  <2>4. Underway'
    BY <1>1, <1>2, <1>5, <1>8, <2>2, <2>3 DEF RestoreInv, Underway
  <2> QED
    BY <2>2, <2>3, <2>4, <1>6, ConstantsAssumption DEF next
<1>9. CASE pc = "staged"
  <2>1. r = Replay(repo, cp.staged, TRUE)
    BY <1>9 DEF Perform, r
  <2>2. /\ Keeps(repo, r.world) /\ r.failure \in {None, "internal"}
        /\ r.failure = None /\ Pinned(C, repo) => Staged(C, r.world)
    BY <1>3, <2>1, StagedPhase
  <2>3. r.failure = None => pc' = "unstaged"
    BY <1>2, <1>9, PhaseOrder
  <2>4. r.failure = None => Underway'
    BY <1>1, <1>2, <1>5, <1>9, <2>2, <2>3 DEF RestoreInv, Underway
  <2> QED
    BY <2>2, <2>3, <2>4, <1>6, ConstantsAssumption DEF next
<1>10. CASE pc = "unstaged"
  <2>1. r = Replay(repo, cp.unstaged, FALSE)
    BY <1>10 DEF Perform, r
  <2>2. /\ Keeps(repo, r.world) /\ r.failure \in {None, "internal"}
        /\ r.failure = None /\ Staged(C, repo) => Followed(C, r.world)
    BY <1>3, <2>1, UnstagedPhase
  <2>3. r.failure = None => pc' = "tracked"
    BY <1>2, <1>10, PhaseOrder
  <2>4. r.failure = None => Underway'
    BY <1>1, <1>2, <1>5, <1>10, <2>2, <2>3 DEF RestoreInv, Underway
  <2> QED
    BY <2>2, <2>3, <2>4, <1>6, ConstantsAssumption DEF next
<1>11. CASE pc = "tracked"
  <2>1. r = RestoreTrackedContent(cp, repo, DOMAIN cp.tracked)
    BY <1>11 DEF Perform, r
  <2>2. /\ Keeps(repo, r.world) /\ r.failure \in {None, "internal", "extraction_conflict"}
        /\ Followed(C, repo) => Followed(C, r.world)
    BY <1>3, <2>1, TrackedPhase
  <2>3. r.failure = None => pc' = "sweep"
    BY <1>2, <1>11, PhaseOrder
  <2>4. r.failure = None => Underway'
    BY <1>1, <1>2, <1>5, <1>11, <2>2, <2>3 DEF RestoreInv, Underway
  <2> QED
    BY <2>2, <2>3, <2>4, <1>6, ConstantsAssumption DEF next
<1>12. CASE pc = "sweep"
  <2>1. r = DeleteUncaptured(cp, repo, excluded)
    BY <1>12 DEF Perform, r
  <2>2. /\ Keeps(repo, r.world) /\ r.failure = None
        /\ Followed(C, repo) => Followed(C, r.world)
        /\ excluded = cp.patterns => Swept(cp, r.world)
    BY <1>3, <2>1, SweepPhase
  <2>3. pc' = "clear"
    BY <1>2, <1>12, <2>2, PhaseOrder
  <2>4. Underway'
    BY <1>1, <1>2, <1>5, <1>12, <2>2, <2>3 DEF RestoreInv, Underway
  <2> QED
    BY <2>2, <2>3, <2>4, <1>6, ConstantsAssumption DEF next
<1>13. CASE pc = "clear"
  <2>1. r = Clear(repo, DOMAIN cp.untracked \ excluded)
    BY <1>13 DEF Perform, r
  <2>2. /\ Keeps(repo, r.world) /\ r.failure \in {None, "internal", "extraction_conflict"}
        /\ Followed(C, repo) => Followed(C, r.world)
        /\ Swept(cp, repo) => Swept(cp, r.world)
    BY <1>3, <2>1, ClearPhase
  <2>3. r.failure = None => pc' = "extract"
    BY <1>2, <1>13, PhaseOrder
  <2>4. r.failure = None => Underway'
    BY <1>1, <1>2, <1>5, <1>13, <2>2, <2>3 DEF RestoreInv, Underway
  <2> QED
    BY <2>2, <2>3, <2>4, <1>6, ConstantsAssumption DEF next
<1>14. CASE pc = "extract"
  <2>1. r = ExtractUntracked(cp, repo)
    BY <1>14 DEF Perform, r
  <2>2. /\ Keeps(repo, r.world) /\ r.failure = None
        /\ Followed(C, repo) => Followed(C, r.world)
        /\ Swept(cp, repo) => Swept(cp, r.world)
    BY <1>3, <2>1, ExtractPhase
  <2>3. pc' = "parity"
    BY <1>2, <1>14, <2>2, PhaseOrder
  <2>4. Underway'
    BY <1>1, <1>2, <1>5, <1>14, <2>2, <2>3 DEF RestoreInv, Underway
  <2> QED
    BY <2>2, <2>3, <2>4, <1>6, ConstantsAssumption DEF next
<1>15. CASE pc = "parity"
  <2>1. r = VerifyParity(cp, repo)
    BY <1>15 DEF Perform, r
  <2>2. r.world = repo /\ r.failure \in {None, "tracked_dirty_parity"}
    BY <2>1 DEF VerifyParity, Result
  <2>3. r.failure = None => pc' = "verify"
    BY <1>2, <1>15, PhaseOrder
  <2>4. r.failure = None => Underway'
    BY <1>1, <1>2, <1>5, <1>15, <2>2, <2>3 DEF RestoreInv, Underway
  <2> QED
    BY <1>3, <2>2, <2>3, <2>4, <1>6, ConstantsAssumption DEF next, Keeps
<1>16. CASE pc = "verify"
  <2>1. r = VerifyHashes(cp, repo)
    BY <1>16 DEF Perform, r
  <2>2. /\ r.world = repo /\ r.failure \in {None, "internal", "verification"}
        /\ r.failure = None => Given(cp, repo)
    BY <2>1, VerifyPhase
  <2>3. r.failure = None => pc' = "receipt"
    BY <1>2, <1>16, PhaseOrder
  <2>4. r.failure = None => Underway'
    BY <1>1, <1>2, <1>5, <1>16, <2>2, <2>3 DEF RestoreInv, Underway
  <2> QED
    BY <1>3, <2>2, <2>3, <2>4, <1>6, ConstantsAssumption DEF next, Keeps
<1> QED
  BY <1>2, <1>7, <1>8, <1>9, <1>10, <1>11, <1>12, <1>13, <1>14, <1>15, <1>16

(* The capture of the emergency checkpoint touches nothing but itself: it  *)
(* goes on, is complete or gives up.                                       *)
LEMMA CaptureStep ==
  ASSUME CaptureSnapshot
  PROVE  /\ repo' = repo /\ late' = late /\ events' = events /\ excluded' = excluded
         /\ started' = started /\ checkpoint' = checkpoint /\ after' = after
         /\ seen' = seen /\ plan' = plan /\ receipt' = receipt /\ pc = "snapshot"
         /\ \/ pc' = "snapshot" /\ ending' = ending /\ before' = before
            \/ pc' = "idle" /\ ending' = "no_recovery" /\ before' = before
            \/ pc' = "preflight" /\ ending' = ending /\ before' = repo
<1>1. CASE ListTracked
  BY <1>1 DEF ListTracked, session
<1>2. CASE ListUntracked
  BY <1>2 DEF ListUntracked, session
<1>3. ASSUME NEW surface \in {"tracked", "untracked"}, Archive(surface)
      PROVE  /\ repo' = repo /\ late' = late /\ events' = events /\ excluded' = excluded
             /\ started' = started /\ checkpoint' = checkpoint /\ after' = after
             /\ seen' = seen /\ plan' = plan /\ receipt' = receipt /\ pc = "snapshot"
             /\ before' = before
             /\ \/ pc' = "snapshot" /\ ending' = ending
                \/ pc' = "idle" /\ ending' = "no_recovery"
  BY <1>3 DEF Archive, Stop, session
<1>4. CASE CompleteCheckpoint
  BY <1>4 DEF CompleteCheckpoint, session, Phases
<1> QED
  BY <1>1, <1>2, <1>3, <1>4 DEF CaptureSnapshot

LEMMA RestoreKept == RestoreInv /\ [RestoreNext]_restoreVars => RestoreInv'
<1> SUFFICES ASSUME RestoreInv, [RestoreNext]_restoreVars
             PROVE  RestoreInv'
  OBVIOUS
<1>1. CASE StartSession
  <2>1. /\ started' = repo /\ \E ps : checkpoint' = Checkpoint(repo, ps)
        /\ repo' = repo /\ before' = before /\ ending' = ending /\ pc' = "session"
        /\ before = None /\ ending # "succeeded"
    BY <1>1 DEF StartSession, command, RestoreInv, Grounded
  <2>2. repo \in Checkouts /\ repo.head \in Nat
    BY DEF RestoreInv, Grounded, Checkouts
  <2>3. Captured(checkpoint', started') /\ Advances(started', repo')
    BY <2>1, <2>2 DEF Captured, Advances
  <2>4. Grounded'
    BY <2>1, <2>2, <2>3 DEF Grounded
  <2> QED
    BY <2>1, <2>4 DEF RestoreInv, Underway, Undisturbed
<1>2. CASE EndSession \/ AbandonSession
  <2>1. /\ repo' = repo /\ before' = before /\ ending' = ending /\ pc' = "idle"
        /\ started' = started /\ checkpoint' = checkpoint
        /\ pc = "session" /\ before = None
    BY <1>2 DEF EndSession, AbandonSession, session, command, RestoreInv, Grounded
  <2> QED
    BY <2>1 DEF RestoreInv, Grounded, Underway, Undisturbed
<1>3. CASE \E force \in BOOLEAN : Admit(force)
  <2>1. /\ repo' = repo /\ before' = None /\ ending' # "succeeded"
        /\ pc' \in {"idle", "plan"} /\ pc = "idle"
        /\ started' = started /\ checkpoint' = checkpoint
    BY <1>3, ConstantsAssumption DEF Admit, Stop, session
  <2> QED
    BY <2>1 DEF RestoreInv, Grounded, Underway, Undisturbed
<1>4. CASE PlanRestore
  <2>1. /\ repo' = repo /\ before' = before /\ late' = late
        /\ started' = started /\ checkpoint' = checkpoint /\ pc = "plan"
        /\ \/ pc' = "idle" /\ ending' = "plan_failed"
           \/ pc' = "diffs" /\ ending' = ending
    BY <1>4 DEF PlanRestore, Stop, session
  <2> QED
    BY <2>1 DEF RestoreInv, Grounded, Underway
<1>5. CASE CaptureDiffs
  <2>1. /\ repo' = repo /\ before' = before /\ late' = late /\ ending' = ending
        /\ started' = started /\ checkpoint' = checkpoint /\ pc = "diffs" /\ pc' = "snapshot"
    BY <1>5 DEF CaptureDiffs, session
  <2> QED
    BY <2>1 DEF RestoreInv, Grounded, Underway
<1>6. CASE CaptureSnapshot
  <2>1. /\ repo' = repo /\ late' = late
        /\ started' = started /\ checkpoint' = checkpoint /\ pc = "snapshot"
        /\ \/ pc' = "snapshot" /\ ending' = ending /\ before' = before
           \/ pc' = "idle" /\ ending' = "no_recovery" /\ before' = before
           \/ pc' = "preflight" /\ ending' = ending /\ before' = repo
    BY <1>6, CaptureStep
  <2> QED
    BY <2>1 DEF RestoreInv, Grounded, Underway
<1>7. CASE Restore
  BY <1>7, RestoreStep
<1>8. CASE WriteReceipt
  <2>1. /\ repo' = repo /\ before' = before /\ late' = late /\ pc = "receipt" /\ pc' = "idle"
        /\ started' = started /\ checkpoint' = checkpoint
        /\ ending' = IF ending = None THEN "succeeded" ELSE ending
        /\ ending # "succeeded"
    BY <1>8 DEF WriteReceipt, Stop, session, command, RestoreInv, Grounded
  <2> QED
    BY <2>1 DEF RestoreInv, Grounded, Underway, Undisturbed
<1>9. CASE ProcessDies
  <2>1. /\ repo' = repo /\ before' = None /\ pc' = "idle" /\ ending' = "crashed"
        /\ started' = started /\ checkpoint' = checkpoint /\ pc # "outside"
    BY <1>9 DEF ProcessDies, Running, Stop, session
  <2> QED
    BY <2>1 DEF RestoreInv, Grounded, Underway
<1>10. CASE Configure
  <2>1. /\ repo' = repo /\ before' = before /\ late' = late /\ ending' = ending
        /\ started' = started /\ checkpoint' = checkpoint
        /\ pc' = pc /\ pc \in {"outside", "session", "idle"}
    BY <1>10 DEF Configure, Running, session, command
  <2> QED
    BY <2>1 DEF RestoreInv, Grounded, Underway, Undisturbed
<1>11. ASSUME NEW p \in Paths, Work(p)
       PROVE  RestoreInv'
  <2>1. /\ repo' \in Changes(repo, p) /\ before' = before /\ ending' = ending /\ pc' = pc
        /\ started' = started /\ checkpoint' = checkpoint
        /\ late' = IF pc \in {"outside", "session"} THEN {} ELSE late \cup {<<p, Capturing>>}
    BY <1>11 DEF Work, session, command
  <2>2. repo \in Checkouts
    BY DEF RestoreInv, Grounded
  <2>3. repo' \in Checkouts /\ Advances(repo, repo')
    BY <2>1, <2>2, ChangesKeep
  <2>4. ~(before' # None /\ late' = {})
    BY <2>1 DEF RestoreInv, Grounded
  <2>5. ASSUME pc # "outside"
        PROVE  Advances(started, repo')
    <3>1. Captured(checkpoint, started) /\ Advances(started, repo)
      BY <2>5 DEF RestoreInv, Grounded
    <3>2. started.head \in Nat /\ repo.head \in Nat /\ repo'.head \in Nat
      BY <2>2, <2>3, <3>1, Fields DEF Checkouts
    <3> QED
      BY <2>3, <3>1, <3>2 DEF Advances
  <2>6. Grounded'
    BY <2>1, <2>3, <2>4, <2>5 DEF RestoreInv, Grounded
  <2> QED
    BY <2>4, <2>6 DEF RestoreInv, Underway, Undisturbed
<1>12. CASE UNCHANGED restoreVars
  BY <1>12 DEF restoreVars, session, command, RestoreInv, Grounded, Underway, Undisturbed
<1> QED
  BY <1>1, <1>2, <1>3, <1>4, <1>5, <1>6, <1>7, <1>8, <1>9, <1>10, <1>11, <1>12
     DEF RestoreNext, Program

(* Where the checkout stands, phase by phase, over a checkout nobody else  *)
(* touches (restoreCheckpoint).                                            *)
THEOREM RestoreInvariant == RestoreSpec => []RestoreInv
  BY RestoreStart, RestoreKept, PTL DEF RestoreSpec

(* A rollback that reports success over a checkout nobody else has touched *)
(* has brought the session's start back: the index, what is tracked, and   *)
(* the untracked files that are not excluded.                              *)
THEOREM RollbackRestores == RestoreSpec => []SuccessIsCheckpoint
<1>1. RestoreInv => SuccessIsCheckpoint
  <2> SUFFICES ASSUME RestoreInv, ending = "succeeded", Undisturbed
               PROVE  Surface(repo, checkpoint.patterns) = Surface(started, checkpoint.patterns)
    BY DEF SuccessIsCheckpoint
  <2>1. Captured(checkpoint, started)
    BY DEF RestoreInv, Grounded
  <2>2. Followed(started, repo) /\ Swept(checkpoint, repo) /\ Given(checkpoint, repo)
    BY DEF RestoreInv, Underway
  <2> QED
    BY <2>1, <2>2, Resurfaced
<1> QED
  BY <1>1, RestoreInvariant, PTL
-----------------------------------------------------------------------------
(* What the receipt says.                                                  *)

(* What is near nothing that HEAD or the session's start had tracked.      *)
Aloof(C, p) == ({p} \cup Related(p)) \cap (Occupied(C.commit) \cup Occupied(C.index)) = {}

(* From t to u, an ignored or excluded file comes only where there was     *)
(* something tracked; and what was in nobody's way and in no index is left *)
(* as it is, but for links above untracked files of the checkpoint.        *)
Spares(cp, C, i, t, u) ==
  \A p \in Paths : p \in Ignored \cup cp.patterns =>
    /\ p \notin Occupied(C.commit) \cup Occupied(C.index) /\ u[p] \in Files => u[p] = t[p]
    /\ /\ Aloof(C, p) /\ i[p] = Absent
       /\ t[p] \in Files \/ (t[p] \in Links /\ Below(p) \cap DOMAIN cp.untracked = {})
       => u[p] = t[p]

LEMMA SparesOn ==
  ASSUME NEW cp, NEW C, NEW i, NEW t, NEW u, NEW v, Spares(cp, C, i, t, u), Spares(cp, C, i, u, v)
  PROVE  Spares(cp, C, i, t, v)
<1>1. ASSUME NEW p \in Paths, p \in Ignored \cup cp.patterns
      PROVE  /\ p \notin Occupied(C.commit) \cup Occupied(C.index) /\ v[p] \in Files
                  => v[p] = t[p]
             /\ /\ Aloof(C, p) /\ i[p] = Absent
                /\ t[p] \in Files \/ (t[p] \in Links /\ Below(p) \cap DOMAIN cp.untracked = {})
                => v[p] = t[p]
  <2> DEFINE new == p \notin Occupied(C.commit) \cup Occupied(C.index)
             aloof == Aloof(C, p) /\ i[p] = Absent
             open == Below(p) \cap DOMAIN cp.untracked = {}
  <2>1. /\ new /\ u[p] \in Files => u[p] = t[p]
        /\ aloof /\ (t[p] \in Files \/ (t[p] \in Links /\ open)) => u[p] = t[p]
    BY <1>1 DEF Spares
  <2>2. /\ new /\ v[p] \in Files => v[p] = u[p]
        /\ aloof /\ (u[p] \in Files \/ (u[p] \in Links /\ open)) => v[p] = u[p]
    BY <1>1 DEF Spares
  <2> HIDE DEF new, aloof, open
  <2>3. new /\ v[p] \in Files => v[p] = t[p]
    BY <2>1, <2>2
  <2>4. aloof /\ (t[p] \in Files \/ (t[p] \in Links /\ open)) => v[p] = t[p]
    BY <2>1, <2>2
  <2> QED
    BY <2>3, <2>4 DEF new, aloof, open
<1> QED
  BY <1>1 DEF Spares

(* A phase spares what it does not touch.                                  *)
LEMMA SparesIf ==
  ASSUME NEW cp, NEW C, NEW i, NEW t, NEW u,
         \A p \in Paths : p \in Ignored \cup cp.patterns /\ u[p] # t[p] =>
           /\ u[p] \in Files => p \in Occupied(C.commit) \cup Occupied(C.index)
           /\ t[p] \in Files => ~Aloof(C, p) \/ i[p] # Absent
           /\ t[p] \in Links => \/ ~Aloof(C, p) \/ i[p] # Absent
                                \/ Below(p) \cap DOMAIN cp.untracked # {}
  PROVE  Spares(cp, C, i, t, u)
  BY DEF Spares

LEMMA ResetSpares ==
  ASSUME NEW cp, NEW C, NEW w \in Checkouts, w.commit = C.commit
  PROVE  Spares(cp, C, w.index, w.tree, ResetHard(w).tree)
<1> SUFFICES ASSUME NEW p \in Paths, ResetHard(w).tree[p] # w.tree[p]
             PROVE  /\ ResetHard(w).tree[p] \in Files => p \in Occupied(C.commit)
                    /\ w.tree[p] \in Leaves => ~Aloof(C, p) \/ w.index[p] # Absent
  BY SparesIf DEF Leaves
<1> QED
  BY ResetTouches DEF Aloof, Occupied, Leaves

LEMMA StagedSpares ==
  ASSUME NEW cp, NEW C, Captured(cp, C), NEW w \in Checkouts, NEW i
  PROVE  Spares(cp, C, i, w.tree, Replay(w, cp.staged, TRUE).world.tree)
<1> DEFINE r == Replay(w, cp.staged, TRUE)
<1>1. \A p \in Paths : StagedEffect(C, w, p, r)
  BY StagedTouches
<1> HIDE DEF r
<1>2. Spares(cp, C, i, w.tree, r.world.tree)
  BY <1>1, SparesIf DEF StagedEffect, Aloof, Leaves
<1> QED
  BY <1>2 DEF r

LEMMA UnstagedSpares ==
  ASSUME NEW cp, NEW C, Captured(cp, C), NEW w \in Checkouts, NEW i
  PROVE  Spares(cp, C, i, w.tree, Replay(w, cp.unstaged, FALSE).world.tree)
<1> DEFINE r == Replay(w, cp.unstaged, FALSE)
<1>1. \A p \in Paths : UnstagedEffect(C, w, p, r)
  BY UnstagedTouches
<1> HIDE DEF r
<1>2. Spares(cp, C, i, w.tree, r.world.tree)
  BY <1>1, SparesIf DEF UnstagedEffect, Aloof, Leaves
<1> QED
  BY <1>2 DEF r

LEMMA TrackedSpares ==
  ASSUME NEW cp, NEW C, Captured(cp, C), NEW w \in Checkouts, NEW i
  PROVE  Spares(cp, C, i, w.tree, RestoreTrackedContent(cp, w, DOMAIN cp.tracked).world.tree)
<1> DEFINE r == RestoreTrackedContent(cp, w, DOMAIN cp.tracked)
<1>1. ASSUME NEW p \in Paths, r.world.tree[p] # w.tree[p]
      PROVE  /\ w.tree[p] \in Leaves => ~Aloof(C, p)
             /\ r.world.tree[p] \in Leaves => p \in Occupied(C.index)
  BY <1>1, TrackedTouches, Archives DEF Aloof
<1> HIDE DEF r
<1>2. Spares(cp, C, i, w.tree, r.world.tree)
  BY <1>1, SparesIf DEF Leaves
<1> QED
  BY <1>2 DEF r

LEMMA SweepSpares ==
  ASSUME NEW cp, NEW C, NEW w \in Checkouts, NEW i
  PROVE  Spares(cp, C, i, w.tree, DeleteUncaptured(cp, w, cp.patterns).world.tree)
<1> DEFINE r == DeleteUncaptured(cp, w, cp.patterns)
<1>1. ASSUME NEW p \in Paths, r.world.tree[p] # w.tree[p]
      PROVE  p \notin Ignored \cup cp.patterns
  BY <1>1, SweepTouches DEF Untracked
<1> HIDE DEF r
<1>2. Spares(cp, C, i, w.tree, r.world.tree)
  BY <1>1, SparesIf
<1> QED
  BY <1>2 DEF r

LEMMA ClearSpares ==
  ASSUME NEW cp, NEW C, Captured(cp, C), NEW w \in Checkouts, NEW i, NEW patterns
  PROVE  Spares(cp, C, i, w.tree, Clear(w, DOMAIN cp.untracked \ patterns).world.tree)
<1> DEFINE r == Clear(w, DOMAIN cp.untracked \ patterns)
<1>1. ASSUME NEW p \in Paths, p \in Ignored \cup cp.patterns, r.world.tree[p] # w.tree[p]
      PROVE  /\ w.tree[p] \notin Files /\ r.world.tree[p] \notin Files
             /\ w.tree[p] \in Links => Below(p) \cap DOMAIN cp.untracked # {}
  <2>1. p \notin DOMAIN cp.untracked
    BY <1>1, Archives DEF Untracked
  <2> QED
    BY <1>1, <2>1, ClearTouches DEF Leaves
<1> HIDE DEF r
<1>2. Spares(cp, C, i, w.tree, r.world.tree)
  BY <1>1, SparesIf
<1> QED
  BY <1>2 DEF r

LEMMA ExtractSpares ==
  ASSUME NEW cp, NEW C, Captured(cp, C), NEW w \in Checkouts, NEW i
  PROVE  Spares(cp, C, i, w.tree, ExtractUntracked(cp, w).world.tree)
<1> DEFINE r == ExtractUntracked(cp, w)
<1>1. ASSUME NEW p \in Paths, p \in Ignored \cup cp.patterns, r.world.tree[p] # w.tree[p]
      PROVE  w.tree[p] \notin Leaves /\ r.world.tree[p] \notin Leaves
  <2>1. p \notin DOMAIN cp.untracked
    BY <1>1, Archives DEF Untracked
  <2> QED
    BY <1>1, <2>1, ExtractTouches
<1> HIDE DEF r
<1>2. Spares(cp, C, i, w.tree, r.world.tree)
  BY <1>1, SparesIf DEF Leaves
<1> QED
  BY <1>2 DEF r

(* What a plan made over B has to say if w is what is left in the end.     *)
Accurate(cp, C, B, w, results) ==
  LET changed == results.tracked_restored \cup results.untracked_restored
                 \cup results.untracked_deleted
  IN /\ \A p \in Paths \ changed :
          B.tree[p] # w.tree[p] =>
            \/ Files \cap {B.tree[p], w.tree[p]} = {}
            \/ p \in Ignored \cup cp.patterns /\ ~Aloof(C, p)
     /\ \A p \in results.skipped_excluded \cup results.skipped_unchanged :
          \/ B.tree[p] = w.tree[p]
          \/ p \in Ignored \cup cp.patterns /\ ~Aloof(C, p)
          \/ B.tree[p] \in Links /\ Below(p) \cap DOMAIN cp.untracked # {}

LEMMA PlanIsAccurate ==
  ASSUME NEW cp, NEW C, Captured(cp, C), NEW B \in Checkouts, B.commit = C.commit, NEW w,
         Followed(C, w), Swept(cp, w), Given(cp, w), Spares(cp, C, B.index, B.tree, w.tree)
  PROVE  Accurate(cp, C, B, w, Planned(cp, B, cp.patterns))
<1> DEFINE listed == Planned(cp, B, cp.patterns)
           changed == listed.tracked_restored \cup listed.untracked_restored
                      \cup listed.untracked_deleted
<1>1. /\ DOMAIN cp.tracked = {q \in Occupied(C.index) : C.tree[q] \in Files}
      /\ \A q \in DOMAIN cp.tracked : cp.tracked[q] = C.tree[q] /\ cp.tracked[q] \in Leaves
      /\ DOMAIN cp.untracked = {q \in Untracked(C) \ cp.patterns : C.tree[q] \in Files}
      /\ \A q \in DOMAIN cp.untracked : cp.untracked[q] = C.tree[q]
  BY Archives
<1>2. \A p \in Paths : /\ p \in cp.dirty <=> \/ C.index[p] # Worktree(C)[p]
                                             \/ C.commit[p] # C.index[p]
                       /\ p \in TrackedDirty(B) <=> \/ B.index[p] # Worktree(B)[p]
                                                    \/ C.commit[p] # B.index[p]
  <2>1. cp.dirty = Changed(C.index, Worktree(C)) \cup Changed(C.commit, C.index)
    BY Fields DEF TrackedDirty
  <2>2. TrackedDirty(B) = Changed(B.index, Worktree(B)) \cup Changed(C.commit, B.index)
    BY DEF TrackedDirty
  <2> QED
    BY <2>1, <2>2 DEF Changed
<1>3. \A p : p \notin changed =>
        /\ p \in DOMAIN cp.tracked => B.tree[p] = cp.tracked[p]
        /\ p \in DOMAIN cp.untracked => B.tree[p] = cp.untracked[p]
        /\ p \in cp.dirty => p \in DOMAIN cp.tracked
        /\ p \in TrackedDirty(B) => p \in cp.dirty
        /\ p \in Untracked(B) /\ B.tree[p] \in Files => p \in DOMAIN cp.untracked \/ p \in cp.patterns
  BY DEF Planned, Drifted
<1>4. /\ listed.skipped_excluded = (Untracked(B) \ DOMAIN cp.untracked) \cap cp.patterns
      /\ \A p \in listed.skipped_unchanged :
           \/ p \in DOMAIN cp.tracked /\ B.tree[p] = cp.tracked[p]
           \/ p \in DOMAIN cp.untracked /\ B.tree[p] = cp.untracked[p]
  BY DEF Planned, Drifted
<1> HIDE DEF changed, listed
<1>5. ASSUME NEW p \in DOMAIN cp.tracked PROVE w.tree[p] = cp.tracked[p]
  <2>1. p \in Occupied(C.index) /\ cp.tracked[p] = C.tree[p] /\ C.tree[p] \in Leaves
    BY <1>1
  <2>2. Version(w, p) = Version(C, p)
    BY <2>1 DEF Followed
  <2> QED
    BY <2>1, <2>2, Kinds DEF Version
<1>6. \A p \in DOMAIN cp.untracked : w.tree[p] = cp.untracked[p]
  BY DEF Given
<1>7. ASSUME NEW p \in Paths, p \notin changed, p \notin DOMAIN cp.tracked
      PROVE  /\ C.commit[p] = C.index[p] /\ C.index[p] = Worktree(C)[p]
             /\ C.commit[p] = B.index[p] /\ B.index[p] = Worktree(B)[p]
  BY <1>2, <1>3, <1>7
<1>8. ASSUME NEW p \in Paths, p \notin changed, B.tree[p] # w.tree[p],
             B.tree[p] \in Files \/ w.tree[p] \in Files
      PROVE  p \in Ignored \cup cp.patterns /\ ~Aloof(C, p)
  <2>1. p \notin DOMAIN cp.tracked /\ p \notin DOMAIN cp.untracked
    BY <1>3, <1>5, <1>6, <1>8
  <2>2. /\ C.commit[p] = C.index[p] /\ C.index[p] = Worktree(C)[p]
        /\ C.commit[p] = B.index[p] /\ B.index[p] = Worktree(B)[p]
    BY <1>7, <1>8, <2>1
  <2>3. C.index[p] = Absent
    <3> SUFFICES ASSUME C.index[p] # Absent PROVE FALSE
      OBVIOUS
    <3>1. /\ Version(w, p) = Version(C, p) /\ p \in Occupied(C.index)
          /\ Worktree(C)[p] = Version(C, p) /\ Worktree(B)[p] = Version(B, p)
      BY <2>2 DEF Followed, Occupied, Worktree
    <3>2. C.tree[p] \notin Files
      BY <1>1, <2>1, <3>1
    <3>3. Version(C, p) = C.tree[p] /\ Version(B, p) = Version(C, p)
      BY <2>2, <3>1 DEF Version
    <3> QED
      BY <1>8, <3>1, <3>2, <3>3, Kinds DEF Version, Leaves
  <2>4. B.index[p] = Absent /\ C.commit[p] = Absent /\ w.index[p] = Absent
    BY <2>2, <2>3 DEF Followed
  <2>5. p \in Ignored \cup cp.patterns
    <3> SUFFICES ASSUME p \notin Ignored, p \notin cp.patterns PROVE FALSE
      OBVIOUS
    <3>1. CASE w.tree[p] \in Files
      BY <2>1, <2>4, <3>1 DEF Swept, Untracked, Leaves
    <3>2. CASE B.tree[p] \in Files
      BY <1>3, <1>8, <2>1, <2>4, <3>2 DEF Untracked, Leaves
    <3> QED
      BY <1>8, <3>1, <3>2
  <2>6. w.tree[p] \notin Files
    BY <1>8, <2>3, <2>4, <2>5 DEF Spares, Occupied
  <2> QED
    BY <1>8, <2>4, <2>5, <2>6 DEF Spares
<1>9. ASSUME NEW p \in listed.skipped_excluded, B.tree[p] # w.tree[p]
      PROVE  \/ p \in Ignored \cup cp.patterns /\ ~Aloof(C, p)
             \/ B.tree[p] \in Links /\ Below(p) \cap DOMAIN cp.untracked # {}
  <2>1. p \in Paths /\ p \in cp.patterns /\ B.tree[p] \in Leaves /\ B.index[p] = Absent
    BY <1>4 DEF Untracked
  <2> QED
    BY <1>9, <2>1 DEF Spares, Leaves
<1>10. ASSUME NEW p \in listed.skipped_unchanged PROVE B.tree[p] = w.tree[p]
  BY <1>4, <1>5, <1>6
<1>11. Accurate(cp, C, B, w, listed)
  BY <1>8, <1>9, <1>10 DEF Accurate, changed
<1> QED
  BY <1>11 DEF listed

LEMMA PhaseSpares ==
  ASSUME NEW cp, NEW C, Captured(cp, C), NEW w \in Checkouts, NEW i, NEW allow,
         NEW phase \in Range(Phases) \ {"preflight", "reset"}
  PROVE  Spares(cp, C, i, w.tree, Perform(phase, cp, w, cp.patterns, allow).world.tree)
<1> DEFINE u == Perform(phase, cp, w, cp.patterns, allow).world.tree
<1>1. CASE phase = "staged"
  BY <1>1, StagedSpares DEF Perform
<1>2. CASE phase = "unstaged"
  BY <1>2, UnstagedSpares DEF Perform
<1>3. CASE phase = "tracked"
  BY <1>3, TrackedSpares DEF Perform
<1>4. CASE phase = "sweep"
  BY <1>4, SweepSpares DEF Perform
<1>5. CASE phase = "clear"
  BY <1>5, ClearSpares DEF Perform
<1>6. CASE phase = "extract"
  BY <1>6, ExtractSpares DEF Perform
<1>7. CASE phase \in {"parity", "verify"}
  <2>1. u = w.tree
    BY <1>7 DEF Perform, VerifyParity, VerifyHashes, Result
  <2> QED
    BY <2>1 DEF Spares
<1> QED
  BY <1>1, <1>2, <1>3, <1>4, <1>5, <1>6, <1>7, PhaseOrder

(* The plan is of the checkout the emergency checkpoint was made of, and   *)
(* what has come of that since.                                            *)
Recounted ==
  Undisturbed =>
    /\ pc \in Range(Phases) \/ (pc = "receipt" /\ ending = None)
         => plan = Planned(checkpoint, before, excluded)
    /\ pc = "receipt" /\ ending = None => excluded = checkpoint.patterns
    /\ pc \in {"preflight", "reset"} => repo = before
    /\ \/ pc \in Range(Phases) \ {"preflight", "reset"}
       \/ pc = "receipt" /\ ending = None
       \/ ending = "succeeded"
       => Spares(checkpoint, started, before.index, before.tree, repo.tree)
    /\ ending = "succeeded" => receipt.results = Planned(checkpoint, before, checkpoint.patterns)

Accounted ==
  /\ before # None => before \in Checkouts /\ Advances(started, before)
  /\ pc \in {"diffs", "snapshot"} /\ late = {} => plan = Planned(checkpoint, repo, excluded)
  /\ Recounted

LEMMA RestoreAccounts ==
  ASSUME RestoreInv, Accounted, Restore
  PROVE  Accounted'
<1> DEFINE r == Perform(pc, checkpoint, repo, excluded, forced /\ "head_mismatch" \in seen)
<1>1. /\ pc \in Range(Phases)
      /\ repo' = r.world
      /\ IF r.failure = None THEN pc' = Successor(pc) /\ ending' = ending
                             ELSE pc' = "receipt" /\ ending' = r.failure
      /\ excluded' = excluded /\ started' = started /\ checkpoint' = checkpoint
      /\ before' = before /\ late' = late /\ plan' = plan /\ receipt' = receipt
  BY DEF Restore, session, command
<1>2. Undisturbed' <=> Undisturbed
  BY <1>1 DEF Undisturbed
<1>3. pc' \notin {"diffs", "snapshot"} /\ ending' # "succeeded" /\ RestoreInv'
  <2>1. RestoreInv'
    BY RestoreStep
  <2>2. pc' \in {"reset", "staged", "unstaged", "tracked", "sweep", "clear", "extract",
                 "parity", "verify", "receipt"}
    BY <1>1, PhaseOrder
  <2> QED
    BY <2>1, <2>2 DEF RestoreInv, Grounded
<1>4. ASSUME Undisturbed, r.failure = None
      PROVE  Recounted'
  <2>1. /\ plan = Planned(checkpoint, before, excluded)
        /\ pc \in {"preflight", "reset"} => repo = before
        /\ pc \in Range(Phases) \ {"preflight", "reset"}
             => /\ Spares(checkpoint, started, before.index, before.tree, repo.tree)
                /\ excluded = checkpoint.patterns
        /\ repo \in Checkouts /\ Captured(checkpoint, started)
    <3>1. repo \in Checkouts /\ Captured(checkpoint, started)
      BY <1>1, PhaseOrder DEF RestoreInv, Grounded
    <3>2. pc \in Range(Phases) \ {"preflight", "reset"} => excluded = checkpoint.patterns
      BY <1>4, PhaseOrder DEF RestoreInv, Underway
    <3>3. /\ plan = Planned(checkpoint, before, excluded)
          /\ pc \in {"preflight", "reset"} => repo = before
          /\ pc \in Range(Phases) \ {"preflight", "reset"}
               => Spares(checkpoint, started, before.index, before.tree, repo.tree)
      BY <1>1, <1>4 DEF Accounted, Recounted
    <3> QED
      BY <3>1, <3>2, <3>3
  <2>2. CASE pc = "preflight"
    <3>1. pc' = "reset" /\ r.world = repo
      BY <1>1, <1>4, <2>2, PhaseOrder DEF Perform, Preflight, Result
    <3> QED
      BY <1>1, <1>3, <2>1, <2>2, <3>1, PhaseOrder DEF Recounted
  <2>3. CASE pc = "reset"
    <3>1. pc' = "staged" /\ r.world = ResetHard(repo)
      BY <1>1, <1>4, <2>3, PhaseOrder DEF Perform, Fine, Result
    <3>2. repo.commit = started.commit
      BY <1>4, <2>1, <2>3, Fields, PhaseOrder DEF Undisturbed, RestoreInv, Grounded, Advances
    <3>3. Spares(checkpoint, started, before.index, before.tree, r.world.tree)
      BY <2>1, <2>3, <3>1, <3>2, ResetSpares
    <3> HIDE DEF r
    <3> QED
      BY <1>1, <1>3, <2>1, <3>1, <3>3 DEF Recounted
  <2>4. CASE pc \in Range(Phases) \ {"preflight", "reset"}
    <3>1. Spares(checkpoint, started, before.index, repo.tree, r.world.tree)
      BY <2>1, <2>4, PhaseSpares
    <3> HIDE DEF r
    <3>2. Spares(checkpoint, started, before.index, before.tree, r.world.tree)
      BY <2>1, <2>4, <3>1, SparesOn
    <3>3. pc' \notin {"preflight", "reset"}
      BY <1>1, <1>4, <2>4, PhaseOrder
    <3> QED
      BY <1>1, <1>3, <2>1, <2>4, <3>2, <3>3 DEF Recounted
  <2> QED
    BY <1>1, <2>2, <2>3, <2>4
<1>5. ASSUME r.failure # None
      PROVE  Recounted'
  <2>1. pc' = "receipt" /\ ending' # None /\ "receipt" \notin Range(Phases)
    BY <1>1, <1>5, PhaseOrder
  <2> QED
    BY <1>3, <2>1 DEF Recounted
<1> HIDE DEF r
<1>6. Recounted'
  <2>1. CASE ~Undisturbed
    BY <1>2, <2>1 DEF Recounted
  <2> QED
    BY <1>4, <1>5, <2>1
<1> QED
  BY <1>1, <1>3, <1>6 DEF Accounted

LEMMA AccountsStart == RestoreInit => Accounted
  BY ConstantsAssumption DEF RestoreInit, Accounted, Recounted, Undisturbed

LEMMA AccountsKept == RestoreInv /\ Accounted /\ [RestoreNext]_restoreVars => Accounted'
<1> SUFFICES ASSUME RestoreInv, Accounted, [RestoreNext]_restoreVars
             PROVE  Accounted'
  OBVIOUS
<1>1. CASE StartSession
  BY <1>1 DEF StartSession, command, RestoreInv, Grounded, Accounted, Recounted, Undisturbed
<1>2. CASE EndSession \/ AbandonSession
  BY <1>2 DEF EndSession, AbandonSession, session, command, RestoreInv, Grounded,
              Accounted, Recounted, Undisturbed
<1>3. CASE \E force \in BOOLEAN : Admit(force)
  <2>1. before' = None /\ pc' \in {"idle", "plan"}
    BY <1>3 DEF Admit, Stop
  <2> QED
    BY <2>1 DEF Accounted, Recounted, Undisturbed
<1>4. CASE PlanRestore
  <2>1. /\ repo' = repo /\ before' = before /\ late' = late /\ excluded' = excluded
        /\ started' = started /\ checkpoint' = checkpoint /\ receipt' = receipt
        /\ \/ pc' = "idle" /\ ending' = "plan_failed"
           \/ pc' = "diffs" /\ ending' = ending /\ plan' = Planned(checkpoint, repo, excluded)
        /\ ending # "succeeded"
    BY <1>4 DEF PlanRestore, Stop, session, RestoreInv, Grounded
  <2> QED
    BY <2>1, PhaseOrder DEF Accounted, Recounted
<1>5. CASE CaptureDiffs
  <2>1. /\ repo' = repo /\ before' = before /\ late' = late /\ excluded' = excluded
        /\ started' = started /\ checkpoint' = checkpoint /\ receipt' = receipt
        /\ pc = "diffs" /\ pc' = "snapshot" /\ ending' = ending /\ plan' = plan
        /\ ending # "succeeded"
    BY <1>5 DEF CaptureDiffs, session, RestoreInv, Grounded
  <2> QED
    BY <2>1, PhaseOrder DEF Accounted, Recounted
<1>6. CASE CaptureSnapshot
  <2>1. /\ repo' = repo /\ late' = late /\ excluded' = excluded /\ plan' = plan
        /\ started' = started /\ checkpoint' = checkpoint /\ receipt' = receipt
        /\ pc = "snapshot" /\ ending # "succeeded"
        /\ \/ pc' = "snapshot" /\ ending' = ending /\ before' = before
           \/ pc' = "idle" /\ ending' = "no_recovery" /\ before' = before
           \/ pc' = "preflight" /\ ending' = ending /\ before' = repo
    BY <1>6, CaptureStep DEF RestoreInv, Grounded
  <2>2. repo \in Checkouts /\ Advances(started, repo)
    BY <2>1 DEF RestoreInv, Grounded
  <2> QED
    BY <2>1, <2>2, PhaseOrder DEF Accounted, Recounted, Undisturbed
<1>7. CASE Restore
  BY <1>7, RestoreAccounts
<1>8. CASE WriteReceipt
  <2>1. /\ repo' = repo /\ before' = before /\ late' = late /\ pc = "receipt" /\ pc' = "idle"
        /\ started' = started /\ checkpoint' = checkpoint
        /\ ending' = IF ending = None THEN "succeeded" ELSE ending
        /\ ending = None => receipt'.results = plan
        /\ ending # "succeeded"
    BY <1>8 DEF WriteReceipt, Stop, session, command, RestoreInv, Grounded
  <2>2. Undisturbed' <=> Undisturbed
    BY <2>1 DEF Undisturbed
  <2>3. Recounted'
    BY <2>1, <2>2, PhaseOrder DEF Accounted, Recounted
  <2> QED
    BY <2>1, <2>3 DEF Accounted
<1>9. CASE ProcessDies
  BY <1>9, PhaseOrder DEF ProcessDies, Stop, Accounted, Recounted, Undisturbed
<1>10. CASE Configure
  <2>1. /\ repo' = repo /\ before' = before /\ late' = late /\ ending' = ending
        /\ started' = started /\ checkpoint' = checkpoint /\ receipt' = receipt
        /\ pc' = pc /\ pc \in {"outside", "session", "idle"}
    BY <1>10 DEF Configure, Running, session, command
  <2>2. Undisturbed' <=> Undisturbed
    BY <2>1 DEF Undisturbed
  <2> QED
    BY <2>1, <2>2, PhaseOrder DEF Accounted, Recounted
<1>11. ASSUME NEW p \in Paths, Work(p)
       PROVE  Accounted'
  <2>1. /\ before' = before /\ pc' = pc /\ started' = started
        /\ late' = IF pc \in {"outside", "session"} THEN {} ELSE late \cup {<<p, Capturing>>}
    BY <1>11 DEF Work, session, command
  <2>2. before' # None => late' # {}
    BY <2>1 DEF RestoreInv, Grounded
  <2>3. pc' \in {"diffs", "snapshot"} => late' # {}
    BY <2>1
  <2> QED
    BY <2>1, <2>2, <2>3 DEF Accounted, Recounted, Undisturbed
<1>12. CASE UNCHANGED restoreVars
  <2>1. /\ repo' = repo /\ before' = before /\ late' = late /\ ending' = ending
        /\ started' = started /\ checkpoint' = checkpoint /\ receipt' = receipt
        /\ pc' = pc /\ plan' = plan /\ excluded' = excluded
    BY <1>12 DEF restoreVars, session, command
  <2> QED
    BY <2>1 DEF Accounted, Recounted, Undisturbed
<1> QED
  BY <1>1, <1>2, <1>3, <1>4, <1>5, <1>6, <1>7, <1>8, <1>9, <1>10, <1>11, <1>12
     DEF RestoreNext, Program

(* Until the receipt is written every phase has spared what the plan does  *)
(* not name, and the receipt gives the plan's results.                     *)
THEOREM AccountsInvariant == RestoreSpec => []Accounted
  BY RestoreInvariant, AccountsStart, AccountsKept, PTL DEF RestoreSpec

(* The receipt of a success names every file that was changed, and what it *)
(* says was skipped was not changed, but for what was in the way           *)
(* (buildReceiptForApply).                                                 *)
THEOREM ReceiptsAreTrue == RestoreSpec => []ReceiptIsTrue
<1>1. RestoreInv /\ Accounted => ReceiptIsTrue
  <2> SUFFICES ASSUME RestoreInv, Accounted, ending = "succeeded", Undisturbed
               PROVE  ReceiptIsTrue
    BY DEF ReceiptIsTrue
  <2>1. /\ Captured(checkpoint, started)
        /\ before \in Checkouts /\ Advances(started, before)
    BY DEF RestoreInv, Grounded, Accounted, Undisturbed
  <2>2. before.commit = started.commit
    BY <2>1, Fields DEF Undisturbed, Advances
  <2>3. Followed(started, repo) /\ Swept(checkpoint, repo) /\ Given(checkpoint, repo)
    BY DEF RestoreInv, Underway
  <2>4. /\ Spares(checkpoint, started, before.index, before.tree, repo.tree)
        /\ receipt.results = Planned(checkpoint, before, checkpoint.patterns)
    BY DEF Accounted, Recounted
  <2>5. Accurate(checkpoint, started, before, repo, receipt.results)
    BY <2>1, <2>2, <2>3, <2>4, PlanIsAccurate
  <2>6. \A p : p \in Ignored \cup checkpoint.patterns /\ ~Aloof(started, p)
               => InTheWay(before, checkpoint.patterns, p)
    BY <2>2 DEF InTheWay, Aloof
  <2> QED
    BY <2>5, <2>6 DEF ReceiptIsTrue, Accurate, LinkInTheWay
<1> QED
  BY <1>1, RestoreInvariant, AccountsInvariant, PTL
-----------------------------------------------------------------------------
(* What is saved before it is destroyed.                                   *)

(* Where the index was brought on, the tree was.                           *)
Abreast(C, w, p, r) ==
  r.failure = None /\ r.world.tree[p] \in Leaves
    => r.world.tree[p] = C.index[p] \/ r.world.index[p] = w.index[p]

LEMMA StagedIndexes ==
  ASSUME NEW cp, NEW C, Captured(cp, C), NEW w \in Checkouts, NEW p \in Paths
  PROVE  Abreast(C, w, p, Replay(w, cp.staged, TRUE))
<1> DEFINE a == Apply(w, C.commit, C.index, TRUE)
           r == Replay(w, cp.staged, TRUE)
           gone == Changed(C.commit, C.index) \cap Occupied(C.commit)
           made == Changed(C.commit, C.index) \cap Occupied(C.index)
<1>1. r = IF C.commit = C.index THEN [world |-> w, failure |-> None]
          ELSE [world |-> a.world, failure |-> IF a.ok THEN None ELSE "internal"]
  BY Fields DEF Replay, Result, Fine
<1>2. PICK missing : Outcome(w, C.commit, C.index, TRUE, missing, a)
  BY ApplyOutcome
<1> SUFFICES Abreast(C, w, p, r)
  OBVIOUS
<1> HIDE DEF a, r
<1>3. SUFFICES ASSUME r.failure = None, r.world.tree[p] \in Leaves
             PROVE  r.world.tree[p] = C.index[p] \/ r.world.index[p] = w.index[p]
  BY DEF Abreast
<1>4. CASE C.commit = C.index
  <2>1. r.world = w
    BY <1>1, <1>4
  <2> QED
    BY <2>1
<1>5. CASE C.commit # C.index
  <2>1. r.world = a.world /\ a.ok
    BY <1>1, <1>3, <1>5, ConstantsAssumption
  <2> DEFINE bare == Removed(Written(w.tree, w.index, missing), gone)
             T == Written(bare, C.index, made)
  <2>2. /\ \A q \in gone : Written(w.tree, w.index, missing)[q] = C.commit[q]
        /\ missing \subseteq gone /\ \A q \in missing : w.index[q] # Absent
        /\ a.world.tree = T /\ a.world.index = Indexed(w, C.commit, C.index)
    <3> DEFINE t == Written(w.tree, w.index, missing)
    <3>1. a # [ok |-> FALSE, world |-> [w EXCEPT !.tree = t]]
      BY <2>1
    <3>2. /\ missing \subseteq gone /\ \A q \in missing : w.index[q] # Absent
          /\ \A q \in gone : t[q] = C.commit[q]
          /\ \E done \in SUBSET made, ok \in BOOLEAN :
               /\ ok => done = made
               /\ a = [ok |-> ok,
                       world |-> [w EXCEPT !.tree = Written(bare, C.index, done),
                                           !.index = IF ok THEN Indexed(w, C.commit, C.index)
                                                     ELSE @]]
      BY <1>2, <3>1 DEF Outcome
    <3> HIDE DEF t, gone, made, bare
    <3>3. a = [ok |-> TRUE, world |-> [w EXCEPT !.tree = T, !.index = Indexed(w, C.commit, C.index)]]
      BY <2>1, <3>2
    <3> QED
      BY <3>2, <3>3 DEF Checkouts, t
  <2>3. w.tree \in Trees /\ w.index \in Listings /\ C.commit \in Listings /\ C.index \in Listings
    BY Fields DEF Checkouts
  <2>4. Written(w.tree, w.index, missing) \in Trees
    <3>1. missing \in SUBSET Occupied(w.index)
      BY <2>2 DEF Occupied
    <3> QED
      BY <2>3, <3>1, ListingApart, WrittenTree
  <2>5. gone \in SUBSET Paths /\ made \in SUBSET Paths /\ \A q \in gone : C.commit[q] \in Leaves
    BY <2>3, ListingApart DEF Occupied
  <2>6. p \in gone => bare[p] = Absent
    BY <2>2, <2>4, <2>5, RemovedTree, Kinds
  <2>7. T[p] = IF p \in made THEN C.index[p] ELSE IF p \in Above(made) THEN Directory
               ELSE IF Ancestors(p) \cap made # {} THEN Absent ELSE bare[p]
    BY DEF Written
  <2> HIDE DEF T, bare
  <2>8. T[p] \in Leaves
    BY <1>3, <2>1, <2>2
  <2>9. CASE p \in made
    BY <2>1, <2>2, <2>7, <2>9
  <2>10. CASE p \notin made
    <3>1. p \notin gone /\ p \notin Above(made) /\ Ancestors(p) \cap made = {}
      BY <2>6, <2>7, <2>8, <2>10, Kinds
    <3>2. p \notin Changed(C.commit, C.index)
      BY <2>10, <3>1 DEF Changed, Occupied
    <3>3. Related(p) \cap made = {}
      BY <2>5, <3>1, BelowIs DEF Related, Above
    <3>4. Related(p) \cap Changed(C.commit, C.index) \cap Occupied(C.index) = {}
      BY <3>3
    <3>5. Indexed(w, C.commit, C.index)[p] = w.index[p]
      BY <3>2, <3>4 DEF Indexed
    <3> QED
      BY <2>1, <2>2, <3>5
  <2> QED
    BY <2>9, <2>10
<1> QED
  BY <1>4, <1>5

(* What somebody does at q leaves of a file elsewhere.                     *)
LEMMA ChangesElsewhere ==
  ASSUME NEW w \in Checkouts, NEW q \in Paths, NEW p \in Paths, p # q, NEW v \in Changes(w, q)
  PROVE  /\ v.tree[p] \in Files => v.tree[p] = w.tree[p]
         /\ v.index[p] = w.index[p] \/ (v.index[p] = Absent /\ v.tree[p] \notin Leaves)
         /\ v.commit = w.commit \/ (v.commit = w.index /\ v.index = w.index)
<1> DEFINE deleted == [x \in Paths |-> IF IsPrefix(q, x) THEN Absent ELSE w.tree[x]]
           added == [x \in Paths |-> IF x = q THEN Version(w, q)
                                     ELSE IF w.tree[q] \in Leaves /\ x \in Related(q) THEN Absent
                                     ELSE w.index[x]]
           reverted == [w.index EXCEPT ![q] = w.commit[q]]
           removed == [w.index EXCEPT ![q] = Absent]
           written(x) == Written(w.tree, [y \in {q} |-> x], {q})
<1>1. /\ w.tree \in [Paths -> Nodes] /\ Solid(w.tree)
      /\ w.index \in [Paths -> Entries]
      /\ w = [head |-> w.head, commit |-> w.commit, index |-> w.index, tree |-> w.tree]
  BY DEF Checkouts, Trees, Listings
<1>2. \/ \E x \in Leaves : v = [w EXCEPT !.tree = written(x)]
      \/ v = [w EXCEPT !.tree = deleted]
      \/ v = [w EXCEPT !.index = removed]
      \/ v = [w EXCEPT !.index = added]
      \/ v = [w EXCEPT !.index = reverted]
      \/ v = w
      \/ v = [w EXCEPT !.commit = w.index, !.head = w.head + 1]
  <2>1. w = [w EXCEPT !.index = w.index]
    BY <1>1
  <2> QED
    BY <2>1 DEF Changes
<1>3. \A x \in Leaves : written(x)[p] \in Files => written(x)[p] = w.tree[p]
  BY Kinds DEF Written, Leaves
<1>4. deleted[p] \in Files => deleted[p] = w.tree[p]
  BY Kinds DEF Leaves
<1>5. removed[p] = w.index[p] /\ reverted[p] = w.index[p]
  BY <1>1
<1>6. added[p] = w.index[p] \/ (added[p] = Absent /\ w.tree[p] \notin Leaves)
  <2> SUFFICES ASSUME w.tree[q] \in Leaves, p \in Related(q) PROVE w.tree[p] \notin Leaves
    OBVIOUS
  <2>1. CASE p \in Ancestors(q)
    BY <1>1, <2>1, Kinds DEF Solid
  <2>2. CASE p \in Below(q)
    BY <1>1, <2>2, BelowIs, Kinds DEF Solid
  <2> QED
    BY <2>1, <2>2 DEF Related
<1> HIDE DEF deleted, added, reverted, removed, written
<1>7. CASE \E x \in Leaves : v = [w EXCEPT !.tree = written(x)]
  BY <1>1, <1>3, <1>7
<1>8. CASE v = [w EXCEPT !.tree = deleted]
  BY <1>1, <1>4, <1>8
<1>9. CASE v = [w EXCEPT !.index = removed] \/ v = [w EXCEPT !.index = reverted]
  BY <1>1, <1>5, <1>9
<1>10. CASE v = [w EXCEPT !.index = added]
  BY <1>1, <1>6, <1>10
<1>11. CASE v = w
  BY <1>11
<1>12. CASE v = [w EXCEPT !.commit = w.index, !.head = w.head + 1]
  <2>1. v = [head |-> w.head + 1, commit |-> w.index, index |-> w.index, tree |-> w.tree]
    BY <1>1, <1>12
  <2> QED
    BY <2>1
<1> QED
  BY <1>2, <1>7, <1>8, <1>9, <1>10, <1>11, <1>12

LEMMA UnstagedKeeps ==
  ASSUME NEW cp, NEW C, Captured(cp, C), NEW w \in Checkouts
  PROVE  /\ Replay(w, cp.unstaged, FALSE).world.index = w.index
         /\ Replay(w, cp.unstaged, FALSE).world.commit = w.commit
<1> DEFINE a == Apply(w, C.index, Worktree(C), FALSE)
           r == Replay(w, cp.unstaged, FALSE)
<1>1. r = IF C.index = Worktree(C) THEN [world |-> w, failure |-> None]
          ELSE [world |-> a.world, failure |-> IF a.ok THEN None ELSE "internal"]
  BY Fields DEF Replay, Result, Fine
<1>2. Applied(w, C.index, Worktree(C), FALSE, a)
  BY Fields, WorktreeListing, ApplyKeeps
<1>3. a.world.index = w.index /\ a.world.commit = w.commit
  BY <1>2 DEF Applied
<1> HIDE DEF a, r
<1>4. r.world = w \/ r.world = a.world
  BY <1>1
<1> QED
  BY <1>3, <1>4 DEF r

(* Of a file which nobody has touched since the first list was asked for,  *)
(* the snapshot it belongs in has the path and what stands there, as soon  *)
(* as it has listed and archived.                                          *)
Taken(p, surface) ==
  /\ lists[surface] # None => p \in lists[surface]
  /\ archives[surface] # None =>
       p \in DOMAIN archives[surface] /\ archives[surface][p] = repo.tree[p]

Collected(p) ==
  <<p, TRUE>> \notin late /\ repo.tree[p] \in Files =>
    /\ repo.index[p] # Absent => Taken(p, "tracked")
    /\ repo.index[p] = Absent /\ p \notin Ignored \cup excluded => Taken(p, "untracked")

Shaped ==
  /\ lists = [dirty |-> lists.dirty, tracked |-> lists.tracked, untracked |-> lists.untracked]
  /\ archives = [tracked |-> archives.tracked, untracked |-> archives.untracked]
  /\ \A surface \in {"tracked", "untracked"} : archives[surface] # None => lists[surface] # None

Collecting ==
  /\ pc \in {"plan", "diffs"} => lists = Unlisted /\ archives = Unarchived
  /\ pc = "snapshot" => Shaped /\ \A p \in Paths : Collected(p)

(* The emergency checkpoint holds what stood when it was completed, unless *)
(* it was touched meanwhile; a file that is there now stood there then, or *)
(* came with the restore, or was marked; and until the patch of the index is applied, nothing is in the  *)
(* index but what was there then or what HEAD has.                         *)
Origin(p) == \/ repo.tree[p] = before.tree[p]
             \/ Holds(checkpoint, p, repo.tree[p])
             \/ repo.tree[p] = checkpoint.staged.new[p]
             \/ repo.tree[p] = repo.index[p] /\ repo.tree[p] = repo.commit[p]

Traced(p) ==
  <<p, TRUE>> \notin late =>
    /\ repo.tree[p] \in Files => Origin(p)
    /\ pc \in {"preflight", "reset"} => repo.index[p] \in {before.index[p], Absent}
    /\ pc = "staged" => repo.index[p] \in {repo.commit[p], Absent}

Held(e, p) ==
  <<p, TRUE>> \notin late /\ before.tree[p] \in Files =>
    /\ before.index[p] # Absent => p \in DOMAIN e.tracked /\ e.tracked[p] = before.tree[p]
    /\ before.index[p] = Absent /\ p \notin Ignored \cup excluded =>
         p \in DOMAIN e.untracked /\ e.untracked[p] = before.tree[p]

Archived == \E e \in saved : \A p \in Paths : Held(e, p)

Secured ==
  /\ events \in Nat
  /\ pc \in Range(Phases) =>
       /\ before # None
       /\ pc # "preflight" => excluded = checkpoint.patterns
       /\ Archived
       /\ \A p \in Paths : Traced(p)

(* What a patch leaves where files are. *)
Laid(C, w, p, s) ==
  /\ s.tree[p] \in Leaves /\ s.tree[p] # w.tree[p] => s.tree[p] = C.index[p]
  /\ s.tree[p] \in Leaves => s.tree[p] = C.index[p] \/ s.index[p] = w.index[p]

LEMMA StagedLays ==
  ASSUME NEW cp, NEW C, Captured(cp, C), NEW w \in Checkouts, NEW p \in Paths,
         Replay(w, cp.staged, TRUE).failure = None
  PROVE  Laid(C, w, p, Replay(w, cp.staged, TRUE).world)
<1> DEFINE r == Replay(w, cp.staged, TRUE)
<1>1. StagedEffect(C, w, p, r)
  BY StagedTouches
<1>2. Abreast(C, w, p, r)
  BY StagedIndexes
<1>0. r.failure = None
  OBVIOUS
<1> HIDE DEF r
<1>3. Laid(C, w, p, r.world)
  BY <1>0, <1>1, <1>2 DEF StagedEffect, Abreast, Laid
<1> QED
  BY <1>3 DEF r

Brought(C, w, p, s) ==
  s.tree[p] \in Leaves /\ s.tree[p] # w.tree[p]
    => p \in Occupied(C.index) /\ s.tree[p] = C.tree[p]

LEMMA UnstagedFollows ==
  ASSUME NEW cp, NEW C, Captured(cp, C), NEW w \in Checkouts, NEW p \in Paths,
         Replay(w, cp.unstaged, FALSE).failure = None
  PROVE  Brought(C, w, p, Replay(w, cp.unstaged, FALSE).world)
<1> DEFINE r == Replay(w, cp.unstaged, FALSE)
<1>1. UnstagedEffect(C, w, p, r)
  BY UnstagedTouches
<1>2. r.failure = None
  OBVIOUS
<1> HIDE DEF r
<1>3. Brought(C, w, p, r.world)
  BY <1>1, <1>2 DEF UnstagedEffect, Brought
<1> QED
  BY <1>3 DEF r

LEMMA RestoreSecures ==
  ASSUME RestoreInv, Secured, Restore
  PROVE  Secured'
<1> DEFINE r == Perform(pc, checkpoint, repo, excluded, forced /\ "head_mismatch" \in seen)
<1>1. /\ pc \in Range(Phases)
      /\ repo' = r.world
      /\ IF r.failure = None THEN pc' = Successor(pc) /\ ending' = ending
                             ELSE pc' = "receipt" /\ ending' = r.failure
      /\ excluded' = excluded /\ started' = started /\ checkpoint' = checkpoint
      /\ before' = before /\ late' = late /\ events' = events /\ saved' = saved
  BY DEF Restore, session, command
<1>0. repo \in Checkouts /\ Captured(checkpoint, started)
  BY <1>1, PhaseOrder DEF RestoreInv, Grounded
<1>2. /\ repo \in Checkouts /\ Captured(checkpoint, started)
      /\ before # None /\ Archived /\ events \in Nat
  BY <1>1, PhaseOrder DEF RestoreInv, Grounded, Secured
<1>3. CASE pc' \notin Range(Phases)
  BY <1>1, <1>2, <1>3 DEF Secured
<1>4. CASE pc' \in Range(Phases)
  <2>1. r.failure = None /\ pc' = Successor(pc) /\ "receipt" \notin Range(Phases)
    BY <1>1, <1>4, PhaseOrder
  <2>2. Archived' /\ before' # None
    BY <1>1, <1>2 DEF Archived, Held
  <2>3. excluded' = checkpoint'.patterns
    <3>1. CASE pc = "preflight"
      BY <1>1, <2>1, <3>1, ConstantsAssumption DEF Perform, Preflight, Result
    <3> QED
      BY <1>1, <3>1 DEF Secured
  <2>4. ASSUME NEW p \in Paths, <<p, TRUE>> \notin late
        PROVE  /\ repo'.tree[p] \in Files =>
                    \/ repo'.tree[p] = before.tree[p]
                    \/ Holds(checkpoint, p, repo'.tree[p])
                    \/ repo'.tree[p] = checkpoint.staged.new[p]
                    \/ repo'.tree[p] = repo'.index[p] /\ repo'.tree[p] = repo'.commit[p]
               /\ pc' = "reset" => repo'.index[p] \in {before.index[p], Absent}
               /\ pc' = "staged" => repo'.index[p] \in {repo'.commit[p], Absent}
    <3>1. /\ repo.tree[p] \in Files => Origin(p)
          /\ pc = "preflight" => repo.index[p] \in {before.index[p], Absent}
      BY <1>1, <2>4 DEF Secured, Traced
    <3>2. Files \subseteq Leaves
      BY DEF Leaves
    <3>3. CASE pc = "preflight"
      <4>1. repo' = repo /\ pc' = "reset"
        BY <1>1, <2>1, <3>3, PhaseOrder DEF Perform, Preflight, Result
      <4> QED
        BY <3>1, <3>3, <4>1 DEF Origin
    <3>4. CASE pc = "reset"
      <4>1. repo' = ResetHard(repo) /\ pc' = "staged"
        BY <1>1, <2>1, <3>4, PhaseOrder DEF Perform, Fine, Result
      <4>2. repo'.index = repo.commit /\ repo'.commit = repo.commit
        BY <1>2, <4>1, ResetKeeps
      <4>3. repo'.tree[p] \in Files /\ repo'.tree[p] # repo.tree[p] => repo'.tree[p] = repo.commit[p]
        BY <1>2, <3>2, <4>1, ResetTouches
      <4> QED
        BY <3>1, <4>1, <4>2, <4>3 DEF Origin
    <3>5. CASE pc = "staged"
      <4> DEFINE s == Replay(repo, checkpoint.staged, TRUE)
      <4>1. repo' = s.world /\ s.failure = None /\ pc' = "unstaged"
        BY <1>1, <2>1, <3>5, PhaseOrder DEF Perform
      <4>2. repo'.commit = repo.commit /\ checkpoint.staged.new = started.index
        BY <1>2, <4>1, StagedPhase, Fields DEF Keeps
      <4>3. Laid(started, repo, p, s.world)
        BY <1>0, <4>1, StagedLays
      <4> HIDE DEF s
      <4> QED
        BY <3>1, <3>2, <3>5, <4>1, <4>2, <4>3 DEF Origin, Laid
    <3>6. ASSUME /\ repo'.index = repo.index /\ repo'.commit = repo.commit
                 /\ pc' \notin {"reset", "staged"}
                 /\ repo'.tree[p] \in Files /\ repo'.tree[p] # repo.tree[p]
                      => Holds(checkpoint, p, repo'.tree[p])
          PROVE  /\ repo'.tree[p] \in Files =>
                      \/ repo'.tree[p] = before.tree[p]
                      \/ Holds(checkpoint, p, repo'.tree[p])
                      \/ repo'.tree[p] = checkpoint.staged.new[p]
                      \/ repo'.tree[p] = repo'.index[p] /\ repo'.tree[p] = repo'.commit[p]
                 /\ pc' = "reset" => repo'.index[p] \in {before.index[p], Absent}
                 /\ pc' = "staged" => repo'.index[p] \in {repo'.commit[p], Absent}
      BY <3>1, <3>6 DEF Origin
    <3>7. CASE pc = "unstaged"
      <4> DEFINE s == Replay(repo, checkpoint.unstaged, FALSE)
      <4>1. repo' = s.world /\ s.failure = None /\ pc' = "tracked"
        BY <1>1, <2>1, <3>7, PhaseOrder DEF Perform
      <4>2. repo'.index = repo.index /\ repo'.commit = repo.commit
        BY <1>2, <4>1, UnstagedKeeps
      <4>3. Brought(started, repo, p, s.world)
        BY <1>0, <4>1, UnstagedFollows
      <4> HIDE DEF s
      <4>4. repo'.tree[p] \in Files /\ repo'.tree[p] # repo.tree[p]
              => Holds(checkpoint, p, repo'.tree[p])
        BY <1>2, <3>2, <4>1, <4>3, Archives DEF Holds, Brought
      <4> QED
        BY <3>6, <4>1, <4>2, <4>4
    <3>8. CASE pc = "tracked"
      <4> DEFINE s == RestoreTrackedContent(checkpoint, repo, DOMAIN checkpoint.tracked)
      <4>1. repo' = s.world /\ pc' = "sweep"
        BY <1>1, <2>1, <3>8, PhaseOrder DEF Perform
      <4>2. repo'.index = repo.index /\ repo'.commit = repo.commit
        BY <1>2, <4>1 DEF RestoreTrackedContent, Result, Checkouts
      <4>3. repo'.tree[p] \in Files /\ repo'.tree[p] # repo.tree[p]
              => Holds(checkpoint, p, repo'.tree[p])
        BY <1>2, <3>2, <4>1, TrackedTouches DEF Holds
      <4> QED
        BY <3>6, <4>1, <4>2, <4>3
    <3>9. CASE pc = "sweep"
      <4> DEFINE s == DeleteUncaptured(checkpoint, repo, excluded)
      <4>1. repo' = s.world /\ pc' = "clear"
        BY <1>1, <2>1, <3>9, PhaseOrder DEF Perform
      <4>2. repo'.index = repo.index /\ repo'.commit = repo.commit
        BY <1>2, <4>1 DEF DeleteUncaptured, Fine, Result, Checkouts
      <4>3. repo'.tree[p] # repo.tree[p] => repo'.tree[p] \notin Files
        BY <1>2, <3>2, <4>1, SweepTouches
      <4> QED
        BY <3>6, <4>1, <4>2, <4>3
    <3>10. CASE pc = "clear"
      <4> DEFINE s == Clear(repo, DOMAIN checkpoint.untracked \ excluded)
      <4>1. repo' = s.world /\ pc' = "extract"
        BY <1>1, <2>1, <3>10, PhaseOrder DEF Perform
      <4>2. repo'.index = repo.index /\ repo'.commit = repo.commit
        BY <1>2, <4>1 DEF Clear, Result, Checkouts
      <4>3. repo'.tree[p] # repo.tree[p] => repo'.tree[p] \notin Files
        BY <1>2, <3>2, <4>1, ClearTouches
      <4> QED
        BY <3>6, <4>1, <4>2, <4>3
    <3>11. CASE pc = "extract"
      <4> DEFINE s == ExtractUntracked(checkpoint, repo)
      <4>1. repo' = s.world /\ pc' = "parity"
        BY <1>1, <2>1, <3>11, PhaseOrder DEF Perform
      <4>2. repo'.index = repo.index /\ repo'.commit = repo.commit
        BY <1>2, <4>1 DEF ExtractUntracked, Fine, Result, Checkouts
      <4>3. repo'.tree[p] \in Files /\ repo'.tree[p] # repo.tree[p]
              => Holds(checkpoint, p, repo'.tree[p])
        BY <1>2, <3>2, <4>1, ExtractTouches DEF Holds
      <4> QED
        BY <3>6, <4>1, <4>2, <4>3
    <3>12. CASE pc \in {"parity", "verify"}
      <4>1. repo' = repo /\ pc' \in {"verify", "receipt"}
        BY <1>1, <2>1, <3>12, PhaseOrder DEF Perform, VerifyParity, VerifyHashes, Result
      <4> QED
        BY <3>6, <4>1
    <3> QED
      BY <1>1, <3>3, <3>4, <3>5, <3>7, <3>8, <3>9, <3>10, <3>11, <3>12, PhaseOrder
  <2>5. \A p \in Paths : Traced(p)'
    <3>1. pc' # "preflight"
      BY <1>1, <2>1, PhaseOrder
    <3> HIDE DEF r
    <3> QED
      BY <1>1, <2>4, <3>1 DEF Traced, Origin
  <2> QED
    BY <1>1, <1>2, <2>2, <2>3, <2>5 DEF Secured
<1> QED
  BY <1>3, <1>4

(* Neither the program nor another's work takes from a snapshot what it is *)
(* to hold.                                                                *)
LEMMA WorkCollects ==
  ASSUME RestoreInv, Collecting, NEW q \in Paths, Work(q), pc = "snapshot"
  PROVE  Collecting'
<1>1. /\ repo' \in Changes(repo, q) /\ pc' = pc /\ excluded' = excluded
      /\ lists' = lists /\ archives' = archives
      /\ late' = late \cup {<<q, Capturing>>}
  BY DEF Work, session, command
<1>2. repo \in Checkouts /\ Shaped
  BY DEF RestoreInv, Grounded, Collecting
<1>3. Shaped'
  BY <1>1, <1>2 DEF Shaped
<1>4. ASSUME NEW p \in Paths PROVE Collected(p)'
  <2>1. CASE lists = Unlisted
    <3>1. lists.tracked = None /\ lists.untracked = None
      BY <2>1 DEF Unlisted
    <3>2. archives.tracked = None /\ archives.untracked = None
      BY <1>2, <3>1 DEF Shaped
    <3> QED
      BY <1>1, <3>1, <3>2 DEF Collected, Taken
  <2>2. CASE lists # Unlisted
    <3>1. Capturing = TRUE
      BY <2>2 DEF Capturing
    <3>2. SUFFICES ASSUME <<p, TRUE>> \notin late', repo'.tree[p] \in Files
                   PROVE  Collected(p)'
      BY DEF Collected
    <3>3. p # q /\ <<p, TRUE>> \notin late
      BY <1>1, <3>1, <3>2
    <3>4. repo'.tree[p] = repo.tree[p] /\ repo'.index[p] = repo.index[p]
      BY <1>1, <1>2, <3>2, <3>3, ChangesElsewhere DEF Leaves
    <3>5. Collected(p)
      BY <1>1 DEF Collecting
    <3> QED
      BY <1>1, <3>2, <3>3, <3>4, <3>5 DEF Collected, Taken
  <2> QED
    BY <2>1, <2>2
<1> QED
  BY <1>1, <1>3, <1>4 DEF Collecting

LEMMA CaptureCollects ==
  ASSUME RestoreInv, Collecting, CaptureSnapshot
  PROVE  Collecting'
<1>1. /\ pc = "snapshot" /\ pc' \in {"snapshot", "idle", "preflight"} /\ repo' = repo
      /\ late' = late /\ excluded' = excluded
  BY CaptureStep
<1>2. repo \in Checkouts /\ Shaped /\ \A p \in Paths : Collected(p)
  BY <1>1 DEF RestoreInv, Grounded, Collecting
<1>3. CASE ListTracked
  <2>1. /\ lists' = [dirty |-> TrackedDirty(repo), tracked |-> Occupied(repo.index),
                     untracked |-> lists.untracked]
        /\ archives' = archives /\ archives.tracked = None /\ pc' = "snapshot"
    BY <1>1, <1>2, <1>3 DEF ListTracked, Shaped, Tracked
  <2>2. Shaped'
    BY <1>2, <2>1 DEF Shaped
  <2>3. ASSUME NEW p \in Paths PROVE Collected(p)'
    BY <1>1, <1>2, <2>1 DEF Collected, Taken, Occupied
  <2> QED
    BY <2>1, <2>2, <2>3 DEF Collecting
<1>4. CASE ListUntracked
  <2>1. /\ lists' = [dirty |-> lists.dirty, tracked |-> lists.tracked,
                     untracked |-> Untracked(repo) \ excluded]
        /\ archives' = archives /\ archives.untracked = None /\ pc' = "snapshot"
    BY <1>1, <1>2, <1>4 DEF ListUntracked, Shaped, Others
  <2>2. Shaped'
    BY <1>2, <2>1 DEF Shaped
  <2>3. ASSUME NEW p \in Paths PROVE Collected(p)'
    BY <1>1, <1>2, <2>1 DEF Collected, Taken, Untracked, Leaves
  <2> QED
    BY <2>1, <2>2, <2>3 DEF Collecting
<1>5. ASSUME NEW surface \in {"tracked", "untracked"}, Archive(surface)
      PROVE  Collecting'
  <2>1. CASE pc' # "snapshot"
    BY <1>1, <2>1 DEF Collecting
  <2>2. CASE pc' = "snapshot"
    <3>1. /\ archives' = [archives EXCEPT ![surface] = RegularFiles(repo.tree, lists[surface])]
          /\ lists' = lists /\ lists[surface] # None
      BY <1>5, <2>2 DEF Archive, Stop
    <3>2. /\ archives'[surface] = RegularFiles(repo.tree, lists[surface])
          /\ \A other \in {"tracked", "untracked"} : other # surface => archives'[other] = archives[other]
          /\ archives' = [tracked |-> archives'.tracked, untracked |-> archives'.untracked]
      BY <1>2, <3>1 DEF Shaped
    <3>3. Shaped'
      BY <1>2, <3>1, <3>2 DEF Shaped
    <3>4. ASSUME NEW p \in Paths PROVE Collected(p)'
      <4>1. SUFFICES ASSUME repo.tree[p] \in Files, NEW other \in {"tracked", "untracked"}, Taken(p, other)
                     PROVE  Taken(p, other)'
        BY <1>1, <1>2 DEF Collected
      <4>2. CASE other # surface
        BY <1>1, <3>1, <3>2, <4>1, <4>2 DEF Taken
      <4>3. CASE other = surface
        <5>1. p \in {x \in lists[surface] : repo.tree[x] \in Files}
          BY <3>1, <4>1, <4>3 DEF Taken
        <5>2. /\ p \in DOMAIN RegularFiles(repo.tree, lists[surface])
              /\ RegularFiles(repo.tree, lists[surface])[p] = repo.tree[p]
          BY <5>1 DEF RegularFiles
        <5> QED
          BY <1>1, <3>1, <3>2, <4>1, <4>3, <5>2 DEF Taken
      <4> QED
        BY <4>2, <4>3
    <3> QED
      BY <2>2, <3>3, <3>4 DEF Collecting
  <2> QED
    BY <2>1, <2>2
<1>6. CASE CompleteCheckpoint
  BY <1>6, PhaseOrder DEF CompleteCheckpoint, Collecting, Phases
<1> QED
  BY <1>3, <1>4, <1>5, <1>6 DEF CaptureSnapshot

LEMMA CollectsKept == RestoreInv /\ Collecting /\ [RestoreNext]_restoreVars => Collecting'
<1> SUFFICES ASSUME RestoreInv, Collecting, [RestoreNext]_restoreVars
             PROVE  Collecting'
  OBVIOUS
<1>1. CASE pc' \notin {"plan", "diffs", "snapshot"}
  BY <1>1 DEF Collecting
<1>2. CASE StartSession \/ EndSession \/ AbandonSession \/ ProcessDies \/ WriteReceipt
  BY <1>1, <1>2 DEF StartSession, EndSession, AbandonSession, ProcessDies, WriteReceipt, Stop
<1>3. ASSUME NEW force \in BOOLEAN, Admit(force)
      PROVE  Collecting'
  BY <1>3 DEF Admit, Stop, Collecting
<1>4. CASE PlanRestore
  BY <1>4 DEF PlanRestore, Stop, Collecting
<1>5. CASE CaptureDiffs
  <2>1. lists' = Unlisted /\ archives' = Unarchived /\ pc' = "snapshot"
    BY <1>5 DEF CaptureDiffs, Collecting
  <2>2. Shaped'
    BY <2>1 DEF Shaped, Unlisted, Unarchived
  <2>3. ASSUME NEW p \in Paths PROVE Collected(p)'
    BY <2>1 DEF Collected, Taken, Unlisted, Unarchived
  <2> QED
    BY <2>1, <2>2, <2>3 DEF Collecting
<1>6. CASE CaptureSnapshot
  BY <1>6, CaptureCollects
<1>7. CASE Restore
  <2>1. pc' \in Range(Phases) \cup {"receipt"}
    BY <1>7, PhaseOrder DEF Restore
  <2> QED
    BY <1>1, <2>1, PhaseOrder
<1>8. CASE Configure
  BY <1>1, <1>8 DEF Configure, Running
<1>9. ASSUME NEW q \in Paths, Work(q)
      PROVE  Collecting'
  <2>1. pc' = pc /\ lists' = lists /\ archives' = archives
    BY <1>9 DEF Work, command
  <2>2. CASE pc # "snapshot"
    BY <2>1, <2>2 DEF Collecting
  <2>3. CASE pc = "snapshot"
    BY <1>9, <2>3, WorkCollects
  <2> QED
    BY <2>2, <2>3
<1>10. CASE UNCHANGED restoreVars
  BY <1>10 DEF restoreVars, session, command, Collecting, Shaped, Collected, Taken
<1> QED
  BY <1>2, <1>3, <1>4, <1>5, <1>6, <1>7, <1>8, <1>9, <1>10 DEF RestoreNext, Program

(* While the emergency checkpoint is being captured, its lists and its     *)
(* archives have what they are to have, but of what is touched meanwhile.  *)
THEOREM CollectingInvariant == RestoreSpec => []Collecting
<1>1. RestoreInit => Collecting
  BY DEF RestoreInit, Collecting
<1> QED
  BY <1>1, RestoreInvariant, CollectsKept, PTL DEF RestoreSpec

(* A complete emergency checkpoint holds what it is to hold.               *)
LEMMA CompletionSecures ==
  ASSUME RestoreInv, Collecting, events \in Nat, CaptureSnapshot, pc' = "preflight"
  PROVE  Secured'
<1>0. PICK e : e = Manifest(patches, [dirty |-> lists.dirty, tracked |-> archives.tracked,
                                      untracked |-> archives.untracked, patterns |-> excluded])
  OBVIOUS
<1>1. CompleteCheckpoint
  BY DEF CaptureSnapshot, ListTracked, ListUntracked, Archive, Stop
<1>2. /\ archives.tracked # None /\ archives.untracked # None /\ pc = "snapshot"
      /\ saved' = saved \cup {e} /\ before' = repo /\ repo' = repo /\ late' = late
      /\ events' = events /\ excluded' = excluded /\ checkpoint' = checkpoint
  BY <1>0, <1>1 DEF CompleteCheckpoint, session
<1>3. before' # None
  BY <1>2, ConstantsAssumption DEF RestoreInv, Grounded, Checkouts, Trees, Listings
<1>4. e.tracked = archives.tracked /\ e.untracked = archives.untracked
  BY <1>0 DEF Manifest
<1>5. ASSUME NEW p \in Paths PROVE Held(e, p)'
  <2>1. Collected(p)
    BY <1>2 DEF Collecting
  <2> QED
    BY <1>2, <1>4, <2>1 DEF Held, Collected, Taken
<1>6. Archived'
  BY <1>2, <1>5 DEF Archived
<1>7. \A p \in Paths : Traced(p)'
  BY <1>2 DEF Traced, Origin
<1> QED
  BY <1>2, <1>3, <1>6, <1>7 DEF Secured

LEMMA SecuresKept == RestoreInv /\ Collecting /\ Secured /\ [RestoreNext]_restoreVars => Secured'
<1> SUFFICES ASSUME RestoreInv, Collecting, Secured, [RestoreNext]_restoreVars
             PROVE  Secured'
  OBVIOUS
<1>0. events \in Nat /\ \A n \in {1, 2} : Happens(n) => events' \in Nat
  BY DEF Secured, Happens
<1>1. CASE pc' \notin Range(Phases) /\ events' \in Nat
  BY <1>1 DEF Secured
<1>2. CASE \/ StartSession \/ EndSession \/ AbandonSession \/ PlanRestore \/ CaptureDiffs
           \/ WriteReceipt \/ ProcessDies \/ \E force \in BOOLEAN : Admit(force)
  <2>1. pc' \in {"session", "idle", "plan", "diffs", "snapshot"} /\ events' \in Nat
    BY <1>0, <1>2 DEF StartSession, EndSession, AbandonSession, PlanRestore, CaptureDiffs,
                      WriteReceipt, ProcessDies, Admit, Stop
  <2> QED
    BY <1>1, <2>1, PhaseOrder
<1>3. CASE Configure
  <2>1. pc' \in {"outside", "session", "idle"} /\ events' \in Nat
    BY <1>0, <1>3 DEF Configure, Running
  <2> QED
    BY <1>1, <2>1, PhaseOrder
<1>4. CASE CaptureSnapshot
  <2>1. events' = events /\ pc' \in {"snapshot", "idle", "preflight"}
    BY <1>4, CaptureStep
  <2>2. CASE pc' \in {"snapshot", "idle"}
    BY <1>0, <1>1, <2>1, <2>2, PhaseOrder
  <2>3. CASE pc' = "preflight"
    BY <1>0, <1>4, <2>1, <2>3, CompletionSecures DEF Secured
  <2> QED
    BY <2>1, <2>2, <2>3
<1>5. CASE Restore
  BY <1>5, RestoreSecures
<1>6. ASSUME NEW q \in Paths, Work(q)
      PROVE  Secured'
  <2>1. /\ repo' \in Changes(repo, q) /\ before' = before /\ pc' = pc /\ events' \in Nat
        /\ excluded' = excluded /\ checkpoint' = checkpoint /\ saved' = saved
        /\ late' = IF pc \in {"outside", "session"} THEN {} ELSE late \cup {<<q, Capturing>>}
    BY <1>0, <1>6 DEF Work, session, command
  <2>2. CASE pc \notin Range(Phases)
    BY <1>1, <2>1, <2>2
  <2>3. CASE pc \in Range(Phases)
    <3>1. Capturing = TRUE /\ repo \in Checkouts
      BY <2>3, PhaseOrder DEF Secured, RestoreInv, Grounded, Capturing
    <3>2. late \subseteq late' /\ <<q, TRUE>> \in late'
      BY <2>1, <2>3, <3>1, PhaseOrder
    <3>3. ASSUME NEW p \in Paths, <<p, TRUE>> \notin late'
          PROVE  Traced(p)'
      <4>1. p # q /\ <<p, TRUE>> \notin late
        BY <3>2, <3>3
      <4>2. /\ repo'.tree[p] \in Files => repo'.tree[p] = repo.tree[p]
            /\ \/ repo'.index[p] = repo.index[p]
               \/ repo'.index[p] = Absent /\ repo'.tree[p] \notin Leaves
            /\ \/ repo'.commit = repo.commit
               \/ repo'.commit = repo.index /\ repo'.index = repo.index
        BY <2>1, <3>1, <4>1, ChangesElsewhere
      <4>3. /\ repo.tree[p] \in Files => Origin(p)
            /\ pc \in {"preflight", "reset"} => repo.index[p] \in {before.index[p], Absent}
            /\ pc = "staged" => repo.index[p] \in {repo.commit[p], Absent}
        BY <2>3, <4>1 DEF Secured, Traced
      <4>4. repo'.tree[p] \in Files => Origin(p)'
        BY <2>1, <4>2, <4>3 DEF Origin, Holds, Leaves
      <4>5. pc' \in {"preflight", "reset"} => repo'.index[p] \in {before'.index[p], Absent}
        BY <2>1, <4>2, <4>3
      <4>6. pc' = "staged" => repo'.index[p] \in {repo'.commit[p], Absent}
        BY <2>1, <4>2, <4>3
      <4> QED
        BY <4>4, <4>5, <4>6 DEF Traced
    <3>4. \A p \in Paths : Traced(p)'
      BY <3>3 DEF Traced
    <3>5. /\ before # None /\ Archived
          /\ pc # "preflight" => excluded = checkpoint.patterns
      BY <2>3 DEF Secured
    <3>6. Archived'
      BY <2>1, <3>2, <3>5 DEF Archived, Held
    <3> QED
      BY <2>1, <3>4, <3>5, <3>6 DEF Secured
  <2> QED
    BY <2>2, <2>3
<1>7. CASE UNCHANGED restoreVars
  BY <1>7 DEF restoreVars, session, command, Secured, Archived, Held, Traced, Origin
<1> QED
  BY <1>2, <1>3, <1>4, <1>5, <1>6, <1>7 DEF RestoreNext, Program

(* What stood when the emergency checkpoint was completed is in it, unless *)
(* it was touched meanwhile or no checkpoint was to hold it.               *)
LEMMA OriginHeld ==
  ASSUME Archived, NEW p \in Paths, <<p, TRUE>> \notin late, repo.tree[p] \in Files, Origin(p)
  PROVE  Recoverable(p) \/ (p \in Ignored \cup excluded /\ before.index[p] = Absent)
<1>1. CASE repo.tree[p] = before.tree[p]
  <2> SUFFICES ASSUME before.index[p] # Absent \/ p \notin Ignored \cup excluded
               PROVE  \E cp \in saved : Holds(cp, p, repo.tree[p])
    BY DEF Recoverable
  <2>1. PICK e \in saved : Held(e, p)
    BY DEF Archived
  <2>2. CASE before.index[p] # Absent
    BY <1>1, <2>1, <2>2 DEF Held, Holds
  <2>3. CASE before.index[p] = Absent
    BY <1>1, <2>1, <2>3 DEF Held, Holds
  <2> QED
    BY <2>2, <2>3
<1>2. CASE Holds(checkpoint, p, repo.tree[p])
  BY <1>2 DEF Recoverable
<1>3. CASE repo.tree[p] = checkpoint.staged.new[p] \/ repo.tree[p] = repo.commit[p]
  BY <1>3 DEF Recoverable
<1> QED
  BY <1>1, <1>2, <1>3 DEF Origin

LEMMA RestoreLosesNothing ==
  ASSUME RestoreInv, Secured, Restore,
         NEW p \in Paths, repo.tree[p] \in Files, repo'.tree[p] # repo.tree[p],
         <<p, TRUE>> \notin late
  PROVE  Recoverable(p) \/ InTheWay(repo, excluded, p)
<1> DEFINE way == ({p} \cup Related(p)) \cap (Occupied(repo.commit) \cup Occupied(started.index))
<1>1. /\ pc \in Range(Phases)
      /\ repo' = Perform(pc, checkpoint, repo, excluded,
                         forced /\ "head_mismatch" \in seen).world
  BY DEF Restore
<1>2. repo \in Checkouts /\ Captured(checkpoint, started)
  BY <1>1, PhaseOrder DEF RestoreInv, Grounded
<1>3. /\ Recoverable(p) \/ (p \in Ignored \cup excluded /\ before.index[p] = Absent)
      /\ pc = "reset" => repo.index[p] \in {before.index[p], Absent}
      /\ pc = "staged" => repo.index[p] \in {repo.commit[p], Absent}
      /\ pc # "preflight" => excluded = checkpoint.patterns
  <2>1. /\ Archived /\ Traced(p)
        /\ pc # "preflight" => excluded = checkpoint.patterns
    BY <1>1 DEF Secured
  <2> QED
    BY <2>1, OriginHeld DEF Traced
<1>4. repo.tree[p] \in Leaves
  BY DEF Leaves
<1>5. way # {} /\ p \in Ignored \cup excluded => InTheWay(repo, excluded, p)
  BY DEF InTheWay
<1>6. CASE pc \in {"preflight", "parity", "verify"}
  BY <1>1, <1>6 DEF Perform, Preflight, VerifyParity, VerifyHashes, Result
<1>7. CASE pc = "reset"
  <2>1. repo' = ResetHard(repo)
    BY <1>1, <1>7 DEF Perform, Fine, Result
  <2>2. \/ p \in Occupied(repo.index) \ Occupied(repo.commit)
        \/ ({p} \cup Related(p)) \cap Occupied(repo.commit) # {}
    BY <1>2, <1>4, <2>1, ResetTouches
  <2>3. CASE p \in Occupied(repo.index)
    BY <1>3, <1>7, <2>3 DEF Occupied
  <2>4. CASE ({p} \cup Related(p)) \cap Occupied(repo.commit) # {}
    BY <1>3, <1>5, <2>4
  <2> QED
    BY <2>2, <2>3, <2>4
<1>8. CASE pc = "staged"
  <2> DEFINE r == Replay(repo, checkpoint.staged, TRUE)
  <2>1. repo' = r.world /\ StagedEffect(started, repo, p, r)
    BY <1>1, <1>2, <1>8, StagedTouches DEF Perform
  <2> HIDE DEF r
  <2>2. /\ p \in Occupied(started.commit) /\ repo.tree[p] = started.commit[p]
        /\ repo.index[p] = started.commit[p]
    BY <1>4, <2>1 DEF StagedEffect
  <2>3. repo.tree[p] = repo.commit[p]
    BY <1>3, <1>8, <2>2 DEF Occupied
  <2> QED
    BY <2>3 DEF Recoverable
<1>9. CASE pc = "unstaged"
  <2> DEFINE r == Replay(repo, checkpoint.unstaged, FALSE)
  <2>1. repo' = r.world /\ UnstagedEffect(started, repo, p, r)
    BY <1>1, <1>2, <1>9, UnstagedTouches DEF Perform
  <2> HIDE DEF r
  <2>2. repo.tree[p] = started.index[p]
    BY <1>4, <2>1 DEF UnstagedEffect
  <2>3. repo.tree[p] = checkpoint.staged.new[p]
    BY <1>2, <2>2, Fields
  <2> QED
    BY <2>3 DEF Recoverable
<1>10. CASE pc = "tracked"
  <2>1. repo' = RestoreTrackedContent(checkpoint, repo, DOMAIN checkpoint.tracked).world
    BY <1>1, <1>10 DEF Perform
  <2>2. p \in DOMAIN checkpoint.tracked
    BY <1>2, <2>1, TrackedTouches
  <2>3. p \in Occupied(started.index)
    BY <1>2, <2>2, Archives
  <2> QED
    BY <1>3, <1>5, <2>3
<1>11. CASE pc = "sweep"
  <2>1. repo' = DeleteUncaptured(checkpoint, repo, excluded).world
    BY <1>1, <1>11 DEF Perform
  <2>2. p \in Untracked(repo) \ excluded
    BY <1>2, <2>1, SweepTouches
  <2> QED
    BY <1>3, <2>2 DEF Untracked
<1>12. CASE pc = "clear"
  <2>1. repo' = Clear(repo, DOMAIN checkpoint.untracked \ excluded).world
    BY <1>1, <1>12 DEF Perform
  <2> QED
    BY <1>2, <2>1, ClearTouches
<1>13. CASE pc = "extract"
  <2>1. repo' = ExtractUntracked(checkpoint, repo).world
    BY <1>1, <1>13 DEF Perform
  <2>2. p \in DOMAIN checkpoint.untracked
    BY <1>2, <1>4, <2>1, ExtractTouches
  <2>3. p \in Untracked(started) \ excluded
    BY <1>2, <1>3, <1>13, <2>2, Archives
  <2> QED
    BY <1>3, <2>3 DEF Untracked
<1> QED
  BY <1>1, <1>6, <1>7, <1>8, <1>9, <1>10, <1>11, <1>12, <1>13, PhaseOrder

(* At every step of a restore the emergency checkpoint, complete but for   *)
(* what was touched meanwhile, is among those saved, and every file that   *)
(* stands where nobody has written since stood there then or came with the *)
(* restore.                                                                *)
THEOREM SecuredInvariant == RestoreSpec => []Secured
<1>1. RestoreInit => Secured
  BY PhaseOrder DEF RestoreInit, Secured
<1> QED
  BY <1>1, RestoreInvariant, CollectingInvariant, SecuresKept, PTL DEF RestoreSpec

(* No step of a restore overwrites or deletes a version of a regular file  *)
(* that nothing holds any more, but what was touched since the lists of the*)
(* emergency checkpoint were asked for and what was in the way.            *)
THEOREM NothingIsLost == RestoreSpec => NothingLost
<1> DEFINE Losing(p) == /\ repo.tree[p] \in Files /\ repo'.tree[p] # repo.tree[p]
                        /\ <<p, TRUE>> \notin late
<1>1. ASSUME RestoreInv, Secured, RestoreNext, UNCHANGED events, pc \in Range(Phases),
             NEW p \in Paths, Losing(p)
      PROVE  Recoverable(p) \/ InTheWay(repo, excluded, p)
  <2>1. ~ProcessDies /\ ~AbandonSession /\ ~Configure /\ \A q \in Paths : ~Work(q)
    <3>1. events \in Nat /\ ~Happens(1) /\ ~Happens(2)
      BY <1>1 DEF Secured, Happens
    <3> QED
      BY <3>1 DEF ProcessDies, AbandonSession, Configure, Work
  <2>2. pc \notin {"outside", "session", "idle", "plan", "diffs", "snapshot", "receipt"}
    BY <1>1, PhaseOrder
  <2>3. Restore
    BY <1>1, <2>1, <2>2, CaptureStep DEF RestoreNext, Program, StartSession, EndSession, Admit, PlanRestore,
                            CaptureDiffs, WriteReceipt
  <2> QED
    BY <1>1, <2>3, RestoreLosesNothing
<1>2. RestoreInv /\ Secured /\ [RestoreNext]_restoreVars =>
        [UNCHANGED events /\ pc \in Range(Phases)
         => \A p \in Paths :
              repo.tree[p] \in Files /\ repo'.tree[p] # repo.tree[p] /\ <<p, TRUE>> \notin late
              => Recoverable(p) \/ InTheWay(repo, excluded, p)]_restoreVars
  BY <1>1
<1> QED
  BY <1>2, RestoreInvariant, SecuredInvariant, PTL DEF RestoreSpec, NothingLost
-----------------------------------------------------------------------------
(* What git status shows of a half-restored checkout.                      *)
LEMMA Least ==
  ASSUME NEW S \in SUBSET Nat, S # {}
  PROVE  \E q \in S : \A s \in S : q <= s
<1>1. PICK q \in S : \A s \in S : <<s, q>> \notin OpToRel(<, Nat)
  BY NatLessThanWellFounded, WFMin
<1>2. \A s \in S : ~(s < q)
  BY <1>1 DEF OpToRel
<1> QED
  BY <1>2

(* The files it has something to say of, and which of them F accounts for. *)
Shown(w) == TrackedDirty(w) \cup Untracked(w)
Known(F, p) == Item(p) \in F \/ \E j \in F : IsStrictPrefix(j.path, p)
Quiet(F, w) == \A p \in Shown(w) : Known(F, p)

LEMMA AncestorStrict ==
  ASSUME NEW p \in Paths, NEW a \in Ancestors(p)
  PROVE  IsStrictPrefix(a, p)
<1>1. a \in Paths /\ a # p
  BY Shorter
<1> QED
  BY <1>1, PrefixIs DEF IsStrictPrefix

(* Where every item is accounted for, so is every file.                    *)
LEMMA QuietStatus ==
  ASSUME NEW w \in Checkouts, NEW F, StatusItems(w) \subseteq F
  PROVE  Quiet(F, w)
<1> SUFFICES ASSUME NEW p \in Shown(w) PROVE Known(F, p)
  BY DEF Quiet
<1>1. CASE p \in TrackedDirty(w)
  BY <1>1 DEF StatusItems, Known
<1>2. CASE p \in Untracked(w) /\ Uncharted(w, p) = {}
  BY <1>2 DEF StatusItems, Known
<1>3. CASE p \in Untracked(w) /\ Uncharted(w, p) # {}
  <2>1. p \in Paths /\ w.tree[p] \in Leaves
    BY <1>3 DEF Untracked
  <2>2. \A a \in Uncharted(w, p) : a \in Ancestors(p) /\ a \in Paths /\ Len(a) \in Nat
    BY <2>1, Shorter DEF Uncharted
  <2>3. PICK b \in Uncharted(w, p) : \A a \in Uncharted(w, p) : Len(b) <= Len(a)
    <3> DEFINE S == {Len(a) : a \in Uncharted(w, p)}
    <3>1. S \in SUBSET Nat /\ S # {}
      BY <1>3, <2>2
    <3>2. PICK n \in S : \A m \in S : n <= m
      BY <3>1, Least
    <3> QED
      BY <3>2
  <2>4. b \in Ancestors(p) /\ b \in Paths /\ IsStrictPrefix(b, p)
    BY <2>1, <2>2, <2>3, AncestorStrict
  <2>5. Uncharted(w, p) \cap Ancestors(b) = {}
    <3> SUFFICES ASSUME NEW a \in Uncharted(w, p), a \in Ancestors(b) PROVE FALSE
      OBVIOUS
    <3>1. Len(a) < Len(b) /\ Len(a) \in Nat /\ Len(b) \in Nat
      BY <2>4, Shorter
    <3> QED
      BY <2>3, <3>1
  <2>6. CASE w.index[b] = Absent
    <3>1. b \in Above(Untracked(w))
      BY <1>3, <2>4 DEF Above
    <3>2. [path |-> b, directory |-> TRUE] \in StatusItems(w)
      BY <1>3, <2>3, <2>5, <2>6, <3>1 DEF StatusItems
    <3> QED
      BY <2>4, <3>2 DEF Known
  <2>7. CASE w.index[b] # Absent
    <3>1. w.tree[b] = Directory
      BY <2>1, <2>4, Kinds DEF Checkouts, Trees, Solid
    <3>2. Worktree(w)[b] = Absent
      BY <2>4, <2>7, <3>1, Kinds DEF Worktree, Version
    <3>3. b \in TrackedDirty(w)
      BY <2>4, <2>7, <3>2 DEF TrackedDirty, Changed
    <3>4. Item(b) \in F /\ Item(b).path = b
      BY <3>3 DEF StatusItems, Item
    <3> QED
      BY <2>4, <3>4 DEF Known
  <2> QED
    BY <2>6, <2>7
<1> QED
  BY <1>1, <1>2, <1>3 DEF Shown

LEMMA QuietItems ==
  ASSUME NEW w \in Checkouts, NEW F, Quiet(F, w), NEW i \in StatusItems(w) \ F
  PROVE  i.directory \/ \E j \in F : IsStrictPrefix(j.path, i.path)
<1>1. \/ \E p \in Shown(w) : i = Item(p)
      \/ \E a \in Above(Untracked(w)) : i = [path |-> a, directory |-> TRUE]
  BY DEF StatusItems, Shown
<1>2. ASSUME NEW p \in Shown(w), i = Item(p)
      PROVE  \E j \in F : IsStrictPrefix(j.path, i.path)
  <2>1. i.path = p
    BY <1>2 DEF Item
  <2> QED
    BY <1>2, <2>1 DEF Quiet, Known
<1> QED
  BY <1>1, <1>2

(* No phase makes a file show that did not show before, or that was not    *)
(* dirty or untracked when the checkpoint C was taken.                     *)
Shows(C, cp, w, v) == Shown(v) \subseteq Shown(w) \cup TrackedDirty(C) \cup DOMAIN cp.untracked

LEMMA ResetShows ==
  ASSUME NEW w \in Checkouts
  PROVE  Shown(ResetHard(w)) \subseteq Shown(w)
<1> DEFINE v == ResetHard(w)
<1>1. /\ v \in Checkouts /\ v.commit = w.commit /\ v.index = w.commit
      /\ \A p \in Occupied(w.commit) : v.tree[p] = w.commit[p]
  BY ResetKeeps
<1>2. ASSUME NEW p \in Paths, v.tree[p] # w.tree[p], v.tree[p] \in Leaves
      PROVE  p \in Occupied(w.commit)
  BY <1>2, ResetTouches
<1>3. w.commit \in Listings
  BY DEF Checkouts
<1> HIDE DEF v
<1>4. \A p \in Occupied(w.commit) : p \in Paths /\ w.commit[p] \in Leaves
  BY <1>3, ListingApart DEF Occupied
<1>5. TrackedDirty(v) = {}
  <2> SUFFICES ASSUME NEW p \in Paths PROVE Worktree(v)[p] = w.commit[p]
    BY <1>1 DEF TrackedDirty, Changed
  <2> QED
    BY <1>1, <1>4 DEF Worktree, Version, Occupied
<1>6. ASSUME NEW p \in Untracked(v)
      PROVE  p \in Shown(w)
  <2>1. p \in Paths \ Ignored /\ v.tree[p] \in Leaves /\ w.commit[p] = Absent
    BY <1>1 DEF Untracked
  <2>2. w.tree[p] \in Leaves
    BY <1>2, <2>1 DEF Occupied
  <2> QED
    BY <2>1, <2>2 DEF Shown, Untracked, TrackedDirty, Changed
<1> QED
  BY <1>5, <1>6 DEF Shown, v

LEMMA StagedShows ==
  ASSUME NEW cp, NEW C, Captured(cp, C), NEW w \in Checkouts, Pinned(C, w), w.commit = C.commit
  PROVE  Shows(C, cp, w, Replay(w, cp.staged, TRUE).world)
<1> DEFINE r == Replay(w, cp.staged, TRUE)
           v == r.world
           moved == Changed(C.commit, C.index)
<1>1. /\ Keeps(w, v)
      /\ r.failure # None => v.index = w.index
      /\ r.failure = None => Staged(C, v)
  BY StagedPhase
<1>2. ASSUME NEW p \in Paths PROVE StagedEffect(C, w, p, r)
  BY StagedTouches
<1> SUFFICES Shown(v) \subseteq Shown(w) \cup moved
  BY DEF Shows, TrackedDirty
<1> HIDE DEF r
<1>3. ASSUME NEW p \in Paths, v.tree[p] # w.tree[p], {w.tree[p], v.tree[p]} \cap Leaves # {}
      PROVE  p \in moved
  BY <1>2, <1>3 DEF StagedEffect
<1> HIDE DEF v, moved
<1>4. /\ v.commit = C.commit /\ w.index = C.commit /\ v.index \in {C.commit, C.index}
      /\ \A p \in Paths : p \notin moved => C.commit[p] = C.index[p]
  BY <1>1 DEF Keeps, Pinned, Staged, v, moved, Changed
<1>5. ASSUME NEW p \in TrackedDirty(v), p \notin moved
      PROVE  FALSE
  <2>1. p \in Paths /\ v.index[p] = C.commit[p] /\ Worktree(v)[p] # v.index[p]
    BY <1>4, <1>5 DEF TrackedDirty, Changed
  <2>2. v.index[p] # Absent /\ Version(v, p) # v.index[p]
    BY <2>1 DEF Worktree
  <2>3. w.tree[p] = C.commit[p] /\ C.commit[p] \in Leaves
    BY <2>1, <2>2, Fields, ListingApart DEF Pinned, Fits, Occupied
  <2>4. v.tree[p] # w.tree[p]
    BY <2>1, <2>2, <2>3 DEF Version
  <2> QED
    BY <1>3, <1>5, <2>1, <2>3, <2>4
<1>6. ASSUME NEW p \in Untracked(v), p \notin moved
      PROVE  p \in Untracked(w)
  <2>1. p \in Paths \ Ignored /\ v.tree[p] \in Leaves /\ v.index[p] = Absent
    BY <1>6 DEF Untracked
  <2>2. w.tree[p] = v.tree[p]
    BY <1>3, <1>6, <2>1
  <2>3. w.index[p] = Absent
    BY <1>4, <1>6, <2>1
  <2> QED
    BY <2>1, <2>2, <2>3 DEF Untracked
<1> QED
  BY <1>5, <1>6 DEF Shown

LEMMA UnstagedShows ==
  ASSUME NEW cp, NEW C, Captured(cp, C), NEW w \in Checkouts, Staged(C, w), w.commit = C.commit
  PROVE  Shows(C, cp, w, Replay(w, cp.unstaged, FALSE).world)
<1> DEFINE r == Replay(w, cp.unstaged, FALSE)
           v == r.world
           moved == Changed(C.index, Worktree(C))
<1>1. Keeps(w, v) /\ v.index = w.index
  BY UnstagedPhase
<1>2. ASSUME NEW p \in Paths PROVE UnstagedEffect(C, w, p, r)
  BY UnstagedTouches
<1> SUFFICES Shown(v) \subseteq Shown(w) \cup TrackedDirty(C)
  BY DEF Shows
<1> HIDE DEF r
<1>3. ASSUME NEW p \in Paths, v.tree[p] # w.tree[p]
      PROVE  /\ {w.tree[p], v.tree[p]} \cap Leaves # {} => p \in moved
             /\ v.tree[p] \in Leaves => p \in Occupied(C.index)
  BY <1>2, <1>3 DEF UnstagedEffect
<1> HIDE DEF v, moved
<1>4. /\ v.commit = C.commit /\ w.index = C.index /\ v.index = C.index
      /\ TrackedDirty(C) = moved \cup Changed(C.commit, C.index)
  BY <1>1 DEF Keeps, Staged, v, moved, TrackedDirty
<1>5. ASSUME NEW p \in TrackedDirty(v), p \notin TrackedDirty(C)
      PROVE  FALSE
  <2>1. p \in Paths /\ Worktree(v)[p] # C.index[p]
    BY <1>4, <1>5 DEF TrackedDirty, Changed
  <2>2. C.index[p] # Absent /\ Version(v, p) # C.index[p]
    BY <1>4, <2>1 DEF Worktree
  <2>3. w.tree[p] = C.index[p] /\ C.index[p] \in Leaves
    BY <2>1, <2>2, Fields, ListingApart DEF Staged, Fits, Occupied
  <2>4. v.tree[p] # w.tree[p]
    BY <2>1, <2>2, <2>3 DEF Version
  <2> QED
    BY <1>3, <1>4, <1>5, <2>1, <2>3, <2>4
<1>6. ASSUME NEW p \in Untracked(v)
      PROVE  p \in Untracked(w)
  <2>1. p \in Paths \ Ignored /\ v.tree[p] \in Leaves /\ C.index[p] = Absent
    BY <1>4 DEF Untracked
  <2>2. w.tree[p] = v.tree[p]
    BY <1>3, <2>1 DEF Occupied
  <2> QED
    BY <1>4, <2>1, <2>2 DEF Untracked
<1> QED
  BY <1>5, <1>6 DEF Shown

(* From there on, what is dirty is what was, and only the untracked files  *)
(* of the checkpoint come.                                                 *)
LEMMA FollowedShows ==
  ASSUME NEW cp, NEW C, NEW w, NEW v, Followed(C, w), Followed(C, v), v.commit = C.commit,
         \A p \in Paths : v.tree[p] \in Leaves /\ v.tree[p] # w.tree[p]
                            => p \in Occupied(C.index) \cup DOMAIN cp.untracked
  PROVE  Shows(C, cp, w, v)
<1>1. w.index = C.index /\ v.index = C.index
  BY DEF Followed
<1>2. Worktree(v) = Worktree(C)
  BY DEF Followed, Worktree, Occupied
<1>3. TrackedDirty(v) = TrackedDirty(C)
  BY <1>1, <1>2 DEF TrackedDirty
<1>4. ASSUME NEW p \in Untracked(v)
      PROVE  p \in Untracked(w) \cup DOMAIN cp.untracked
  <2>1. p \in Paths \ Ignored /\ v.tree[p] \in Leaves /\ C.index[p] = Absent
    BY <1>1 DEF Untracked
  <2>2. v.tree[p] = w.tree[p] \/ p \in DOMAIN cp.untracked
    BY <2>1 DEF Occupied
  <2> QED
    BY <1>1, <2>1, <2>2 DEF Untracked
<1> QED
  BY <1>3, <1>4 DEF Shown, Shows

LEMMA RestoreShows ==
  ASSUME RestoreInv, Restore, Undisturbed
  PROVE  Shows(started, checkpoint, repo, repo')
<1> DEFINE cp == checkpoint
           C == started
           r == Perform(pc, cp, repo, excluded, forced /\ "head_mismatch" \in seen)
<1>1. pc \in Range(Phases) /\ repo' = r.world
  BY DEF Restore
<1>2. /\ pc \in {"preflight", "reset", "staged", "unstaged", "tracked", "sweep",
                 "clear", "extract", "parity", "verify"}
      /\ pc # "outside"
  BY <1>1, PhaseOrder
<1>3. repo \in Checkouts /\ Captured(cp, C) /\ Advances(C, repo)
  BY <1>2 DEF RestoreInv, Grounded
<1>4. repo.head = C.head /\ repo.commit = C.commit
  BY <1>3, Fields DEF Undisturbed, RestoreInv, Grounded, Advances
<1>5. /\ pc = "staged" => Pinned(C, repo)
      /\ pc = "unstaged" => Staged(C, repo)
      /\ pc \in {"tracked", "sweep", "clear", "extract", "parity", "verify"} => Followed(C, repo)
  BY DEF RestoreInv, Underway
<1>6. DOMAIN cp.tracked \subseteq Occupied(C.index)
  BY <1>3, Archives
<1> HIDE DEF r
<1>7. CASE repo' = repo
  BY <1>7 DEF Shows
<1>8. CASE pc = "preflight"
  BY <1>1, <1>7, <1>8 DEF r, Perform, Preflight, Result
<1>9. CASE pc = "reset"
  <2>1. repo' = ResetHard(repo)
    BY <1>1, <1>9 DEF r, Perform, Fine, Result
  <2> QED
    BY <1>3, <2>1, ResetShows DEF Shows
<1>10. CASE pc = "staged"
  <2>1. repo' = Replay(repo, cp.staged, TRUE).world
    BY <1>1, <1>10 DEF r, Perform
  <2> QED
    BY <1>3, <1>4, <1>5, <1>10, <2>1, StagedShows
<1>11. CASE pc = "unstaged"
  <2>1. repo' = Replay(repo, cp.unstaged, FALSE).world
    BY <1>1, <1>11 DEF r, Perform
  <2> QED
    BY <1>3, <1>4, <1>5, <1>11, <2>1, UnstagedShows
<1>12. CASE pc = "tracked"
  <2>1. r = RestoreTrackedContent(cp, repo, DOMAIN cp.tracked)
    BY <1>12 DEF r, Perform
  <2>2. Keeps(repo, r.world) /\ Followed(C, r.world)
    BY <1>3, <1>5, <1>12, <2>1, TrackedPhase
  <2>3. ASSUME NEW p \in Paths, r.world.tree[p] \in Leaves, r.world.tree[p] # repo.tree[p]
        PROVE  p \in Occupied(C.index)
    BY <1>3, <1>6, <2>1, <2>3, TrackedTouches
  <2> QED
    BY <1>1, <1>4, <1>5, <1>12, <2>2, <2>3, FollowedShows DEF Keeps
<1>13. CASE pc = "sweep"
  <2>1. r = DeleteUncaptured(cp, repo, excluded)
    BY <1>13 DEF r, Perform
  <2>2. Keeps(repo, r.world) /\ Followed(C, r.world)
    BY <1>3, <1>5, <1>13, <2>1, SweepPhase
  <2>3. ASSUME NEW p \in Paths, r.world.tree[p] \in Leaves, r.world.tree[p] # repo.tree[p]
        PROVE  FALSE
    BY <1>3, <2>1, <2>3, SweepTouches
  <2> QED
    BY <1>1, <1>4, <1>5, <1>13, <2>2, <2>3, FollowedShows DEF Keeps
<1>14. CASE pc = "clear"
  <2>1. r = Clear(repo, DOMAIN cp.untracked \ excluded)
    BY <1>14 DEF r, Perform
  <2>2. Keeps(repo, r.world) /\ Followed(C, r.world)
    BY <1>3, <1>5, <1>14, <2>1, ClearPhase
  <2>3. ASSUME NEW p \in Paths, r.world.tree[p] \in Leaves, r.world.tree[p] # repo.tree[p]
        PROVE  FALSE
    BY <1>3, <2>1, <2>3, ClearTouches
  <2> QED
    BY <1>1, <1>4, <1>5, <1>14, <2>2, <2>3, FollowedShows DEF Keeps
<1>15. CASE pc = "extract"
  <2>1. r = ExtractUntracked(cp, repo)
    BY <1>15 DEF r, Perform
  <2>2. Keeps(repo, r.world) /\ Followed(C, r.world)
    BY <1>3, <1>5, <1>15, <2>1, ExtractPhase
  <2>3. ASSUME NEW p \in Paths, r.world.tree[p] \in Leaves, r.world.tree[p] # repo.tree[p]
        PROVE  p \in DOMAIN cp.untracked
    BY <1>3, <2>1, <2>3, ExtractTouches
  <2> QED
    BY <1>1, <1>4, <1>5, <1>15, <2>2, <2>3, FollowedShows DEF Keeps
<1>16. CASE pc = "parity"
  BY <1>1, <1>7, <1>16 DEF r, Perform, VerifyParity, Result
<1>17. CASE pc = "verify"
  BY <1>1, <1>7, <1>17 DEF r, Perform, VerifyHashes, Result
<1> QED
  BY <1>2, <1>8, <1>9, <1>10, <1>11, <1>12, <1>13, <1>14, <1>15, <1>16, <1>17

(* What the admission found is what the next would find, but for git       *)
(* status; and there every file shown is accounted for, if it was then and *)
(* HEAD was the checkpoint's.                                              *)
Repeatable ==
  /\ Running => ending # "crashed"
  /\ pc \in {"outside", "session"} => ending # "crashed"
  /\ late = {} /\ (Running \/ ending = "crashed") =>
       /\ receipt # None => "already_applied" \in seen
       /\ repo.head # checkpoint.head => "head_mismatch" \in seen
       /\ after = None => "un_ended_session" \in seen
       /\ after # None /\ {"dirty_tree", "head_mismatch"} \cap seen = {} => Quiet(Familiar, repo)

LEMMA FamiliarHas ==
  ASSUME Captured(checkpoint, started),
         NEW p \in TrackedDirty(started) \cup DOMAIN checkpoint.untracked
  PROVE  Item(p) \in Familiar
  BY Fields DEF Familiar

(* A phase leaves HEAD where it is, and fails in one of these ways.        *)
LEMMA RestoreWithin ==
  ASSUME RestoreInv, Restore
  PROVE  /\ Keeps(repo, repo')
         /\ ending' \in {ending, "head_mismatch", "exclude_drift", "extraction_conflict", "internal",
                         "tracked_dirty_parity", "verification"}
<1> DEFINE cp == checkpoint
           r == Perform(pc, cp, repo, excluded, forced /\ "head_mismatch" \in seen)
           how == {None, "head_mismatch", "exclude_drift", "extraction_conflict", "internal",
                   "tracked_dirty_parity", "verification"}
<1>1. /\ pc \in Range(Phases) /\ repo' = r.world
      /\ ending' = ending \/ (r.failure # None /\ ending' = r.failure)
  BY DEF Restore
<1>2. /\ pc \in {"preflight", "reset", "staged", "unstaged", "tracked", "sweep",
                 "clear", "extract", "parity", "verify"}
      /\ pc # "outside"
  BY <1>1, PhaseOrder
<1>3. repo \in Checkouts /\ Captured(cp, started)
  BY <1>2 DEF RestoreInv, Grounded
<1> SUFFICES Keeps(repo, r.world) /\ r.failure \in how
  BY <1>1
<1> HIDE DEF r
<1>4. ASSUME r.world = repo, r.failure \in how
      PROVE  Keeps(repo, r.world) /\ r.failure \in how
  BY <1>3, <1>4 DEF Keeps
<1>5. CASE pc \in {"preflight", "parity", "verify"}
  <2>1. r \in {Preflight(cp, repo, excluded, forced /\ "head_mismatch" \in seen),
               VerifyParity(cp, repo), VerifyHashes(cp, repo)}
    BY <1>5 DEF r, Perform
  <2> QED
    BY <1>4, <2>1 DEF Preflight, VerifyParity, VerifyHashes, Result
<1>6. CASE pc = "reset"
  <2>1. r = Fine(ResetHard(repo))
    BY <1>6 DEF r, Perform
  <2> QED
    BY <1>3, <2>1, ResetKeeps DEF Fine, Result, Keeps
<1>7. CASE pc = "staged"
  <2>1. r = Replay(repo, cp.staged, TRUE)
    BY <1>7 DEF r, Perform
  <2> QED
    BY <1>3, <2>1, StagedPhase
<1>8. CASE pc = "unstaged"
  <2>1. r = Replay(repo, cp.unstaged, FALSE)
    BY <1>8 DEF r, Perform
  <2> QED
    BY <1>3, <2>1, UnstagedPhase
<1>9. CASE pc = "tracked"
  <2>1. r = RestoreTrackedContent(cp, repo, DOMAIN cp.tracked)
    BY <1>9 DEF r, Perform
  <2> QED
    BY <1>3, <2>1, TrackedPhase
<1>10. CASE pc = "sweep"
  <2>1. r = DeleteUncaptured(cp, repo, excluded)
    BY <1>10 DEF r, Perform
  <2> QED
    BY <1>3, <2>1, SweepPhase
<1>11. CASE pc = "clear"
  <2>1. r = Clear(repo, DOMAIN cp.untracked \ excluded)
    BY <1>11 DEF r, Perform
  <2> QED
    BY <1>3, <2>1, ClearPhase
<1>12. CASE pc = "extract"
  <2>1. r = ExtractUntracked(cp, repo)
    BY <1>12 DEF r, Perform
  <2> QED
    BY <1>3, <2>1, ExtractPhase
<1> QED
  BY <1>2, <1>5, <1>6, <1>7, <1>8, <1>9, <1>10, <1>11, <1>12

LEMMA RepeatableStep ==
  ASSUME RestoreInv, Secured, Repeatable, Restore
  PROVE  Repeatable'
<1>1. /\ pc \in Range(Phases)
      /\ seen' = seen /\ after' = after /\ checkpoint' = checkpoint
      /\ late' = late /\ receipt' = receipt
      /\ pc' = Successor(pc) \/ pc' = "receipt"
  BY DEF Restore, session, command
<1>2. /\ pc \in {"preflight", "reset", "staged", "unstaged", "tracked", "sweep",
                 "clear", "extract", "parity", "verify"}
      /\ pc' \notin {"outside", "session", "idle"}
      /\ Running /\ before # None
  BY <1>1, PhaseOrder DEF Running, Secured
<1>3. repo \in Checkouts /\ Captured(checkpoint, started)
  BY <1>2 DEF RestoreInv, Grounded
<1>4. repo'.head = repo.head /\ ending' # "crashed"
  BY <1>2, RestoreWithin DEF Keeps, Repeatable
<1>5. ASSUME late = {}, after # None, {"dirty_tree", "head_mismatch"} \cap seen = {}
      PROVE  Quiet(Familiar, repo)'
  <2>1. Quiet(Familiar, repo) /\ repo.head = checkpoint.head
    BY <1>2, <1>5 DEF Repeatable
  <2>2. Undisturbed
    BY <1>2, <1>5, <2>1 DEF Undisturbed, RestoreInv, Grounded
  <2>3. Shows(started, checkpoint, repo, repo')
    BY <2>2, RestoreShows
  <2>4. Familiar' = Familiar
    BY <1>1 DEF Familiar
  <2>5. ASSUME NEW p \in TrackedDirty(started) \cup DOMAIN checkpoint.untracked
        PROVE  Known(Familiar, p)
    BY <1>3, <2>5, FamiliarHas DEF Known
  <2>6. Quiet(Familiar, repo')
    BY <2>1, <2>3, <2>5 DEF Quiet, Shows
  <2> QED
    BY <2>4, <2>6 DEF Quiet
<1> QED
  BY <1>1, <1>2, <1>4, <1>5 DEF Repeatable

LEMMA RepeatableKept == RestoreInv /\ Secured /\ Repeatable /\ [RestoreNext]_restoreVars => Repeatable'
<1> SUFFICES ASSUME RestoreInv, Secured, Repeatable, [RestoreNext]_restoreVars
             PROVE  Repeatable'
  OBVIOUS
<1> DEFINE same == /\ repo' = repo /\ seen' = seen /\ after' = after /\ checkpoint' = checkpoint
                   /\ receipt' = receipt
<1>1. ASSUME same, late' = late,
             Running' => Running /\ ending' = ending,
             pc' \in {"outside", "session"} => ending' # "crashed",
             ending' = "crashed" => Running \/ ending = "crashed"
      PROVE  Repeatable'
  <2>1. Familiar' = Familiar
    BY <1>1 DEF Familiar
  <2> QED
    BY <1>1, <2>1 DEF Repeatable, Quiet
<1>2. CASE StartSession
  <2>1. ending' # "crashed" /\ ~Running'
    BY <1>2 DEF StartSession, Repeatable, Running
  <2> QED
    BY <2>1 DEF Repeatable
<1>3. CASE EndSession \/ AbandonSession
  <2>1. ending' # "crashed" /\ ~Running' /\ pc' = "idle"
    BY <1>3 DEF EndSession, AbandonSession, Repeatable, Running
  <2> QED
    BY <2>1 DEF Repeatable
<1>4. ASSUME NEW force \in BOOLEAN, Admit(force)
      PROVE  Repeatable'
  <2>1. /\ repo' = repo /\ after' = after /\ checkpoint' = checkpoint /\ receipt' = receipt
        /\ seen' = Refusals /\ ending' \in {None, "refused"} /\ pc' \in {"idle", "plan"}
        /\ pc = "idle"
    BY <1>4 DEF Admit, Stop, session
  <2>2. ending' # "crashed"
    BY <2>1, ConstantsAssumption
  <2>3. /\ receipt # None => "already_applied" \in Refusals
        /\ repo.head # checkpoint.head => "head_mismatch" \in Refusals
        /\ after = None => "un_ended_session" \in Refusals
        /\ after # None /\ "dirty_tree" \notin Refusals => Unrelated = {}
    BY DEF Refusals
  <2>4. repo \in Checkouts
    BY DEF RestoreInv, Grounded
  <2>5. Unrelated = {} => Quiet(Familiar, repo)
    BY <2>4, QuietStatus DEF Unrelated
  <2>6. Familiar' = Familiar
    BY <2>1 DEF Familiar
  <2>7. Quiet(Familiar, repo)' <=> Quiet(Familiar, repo)
    BY <2>1, <2>6 DEF Quiet
  <2> QED
    BY <2>1, <2>2, <2>3, <2>5, <2>7 DEF Repeatable
<1>5. CASE PlanRestore
  <2>1. /\ same /\ late' = late /\ pc = "plan"
        /\ \/ pc' = "idle" /\ ending' = "plan_failed"
           \/ pc' = "diffs" /\ ending' = ending
    BY <1>5 DEF PlanRestore, Stop, session
  <2> QED
    BY <1>1, <2>1 DEF Running
<1>6. CASE CaptureDiffs
  <2>1. /\ same /\ late' = late /\ pc = "diffs" /\ pc' = "snapshot" /\ ending' = ending
    BY <1>6 DEF CaptureDiffs, session
  <2> QED
    BY <1>1, <2>1 DEF Running
<1>7. CASE CaptureSnapshot
  <2>1. /\ same /\ late' = late /\ pc = "snapshot"
        /\ \/ pc' \in {"snapshot", "preflight"} /\ ending' = ending
           \/ pc' = "idle" /\ ending' = "no_recovery"
    BY <1>7, CaptureStep
  <2> QED
    BY <1>1, <2>1 DEF Running
<1>8. CASE Restore
  BY <1>8, RepeatableStep
<1>9. CASE WriteReceipt
  <2>1. /\ pc = "receipt" /\ pc' = "idle" /\ ending' = IF ending = None THEN "succeeded" ELSE ending
    BY <1>9 DEF WriteReceipt, Stop
  <2>2. ending' # "crashed" /\ ~Running'
    BY <2>1 DEF Repeatable, Running
  <2> QED
    BY <2>1, <2>2 DEF Repeatable
<1>10. CASE ProcessDies
  <2>1. same /\ late' = late /\ pc' = "idle" /\ Running
    BY <1>10 DEF ProcessDies, Stop, session
  <2> QED
    BY <1>1, <2>1 DEF Running
<1>11. CASE Configure
  <2>1. same /\ late' = late /\ pc' = pc /\ ~Running /\ ending' = ending
    BY <1>11 DEF Configure, session, command
  <2>2. ~Running'
    BY <2>1 DEF Running
  <2> QED
    BY <1>1, <2>1, <2>2 DEF Repeatable
<1>12. ASSUME NEW p \in Paths, Work(p)
       PROVE  Repeatable'
  <2>1. /\ pc' = pc /\ ending' = ending
        /\ late' = IF pc \in {"outside", "session"} THEN {} ELSE late \cup {<<p, Capturing>>}
    BY <1>12 DEF Work
  <2>2. (Running' <=> Running) /\ (Running => pc \notin {"outside", "session"})
    BY <2>1 DEF Running
  <2> QED
    BY <2>1, <2>2 DEF Repeatable
<1>13. CASE UNCHANGED restoreVars
  <2>1. same /\ late' = late /\ pc' = pc /\ ending' = ending
    BY <1>13 DEF restoreVars, session, command
  <2>2. Running' <=> Running
    BY <2>1 DEF Running
  <2> QED
    BY <1>1, <2>1, <2>2 DEF Repeatable
<1> QED
  BY <1>2, <1>3, <1>4, <1>5, <1>6, <1>7, <1>8, <1>9, <1>10, <1>11, <1>12, <1>13
     DEF RestoreNext, Program

(* A rollback that died meets no refusal that the first did not, but one   *)
(* of git status: and that, unless HEAD had moved and it was forced, over  *)
(* directories and over files below a path that was accounted for.         *)
THEOREM CrashesAreRepeatable == RestoreSpec => []CrashIsRepeatable
<1>1. RestoreInit => Repeatable
  BY ConstantsAssumption DEF RestoreInit, Repeatable, Running
<1>2. RestoreInv /\ Repeatable => CrashIsRepeatable
  <2> SUFFICES ASSUME RestoreInv, Repeatable, ending = "crashed", late = {}
               PROVE  /\ Refusals \subseteq seen \cup {"dirty_tree"}
                      /\ "dirty_tree" \in Refusals \ seen /\ "head_mismatch" \notin seen =>
                           \A i \in Unrelated :
                             i.directory \/ \E j \in Familiar : IsStrictPrefix(j.path, i.path)
    BY DEF CrashIsRepeatable
  <2>1. Refusals \subseteq seen \cup {"dirty_tree"}
    BY DEF Repeatable, Refusals
  <2>2. ASSUME "dirty_tree" \in Refusals \ seen, "head_mismatch" \notin seen, NEW i \in Unrelated
        PROVE  i.directory \/ \E j \in Familiar : IsStrictPrefix(j.path, i.path)
    <3>1. after # None
      BY <2>2 DEF Refusals
    <3>2. Quiet(Familiar, repo)
      BY <2>2, <3>1 DEF Repeatable
    <3> QED
      BY <2>2, <3>2, QuietItems DEF RestoreInv, Grounded, Unrelated
  <2> QED
    BY <2>1, <2>2
<1> QED
  BY <1>1, <1>2, RestoreInvariant, SecuredInvariant, RepeatableKept, PTL DEF RestoreSpec
-----------------------------------------------------------------------------
(* When a restore does not break off.                                      *)

(* A patch applies where it fits and nothing is where it makes a path.     *)
LEMMA ApplySucceeds ==
  ASSUME NEW w \in Checkouts, NEW old \in Listings, NEW new \in Listings,
         NEW cached \in BOOLEAN, Fits(w, old), cached => w.index = old,
         \A p \in Occupied(new) \ Occupied(old) :
           /\ w.tree[p] \notin Leaves
           /\ cached \/ \A a \in Ancestors(p) : w.tree[a] \notin Links
           /\ ~Barred(Removed(w.tree, Changed(old, new) \cap Occupied(old)), p)
  PROVE  Apply(w, old, new, cached).ok
<1> DEFINE r == Apply(w, old, new, cached)
           touched == Changed(old, new)
           gone == touched \cap Occupied(old)
           made == touched \cap Occupied(new)
           missing == {p \in gone : /\ w.index[p] # Absent /\ w.tree[p] = Absent
                                    /\ \A a \in Ancestors(p) : w.tree[a] \notin Leaves
                                                               /\ w.index[a] \notin Links}
           t == IF cached THEN Written(w.tree, w.index, missing) ELSE w.tree
           listed == IF cached THEN Occupied(w.index) ELSE {}
           refused == \/ \E p \in gone : t[p] # old[p]
                      \/ cached /\ \E p \in gone : w.index[p] # old[p]
                      \/ \E p \in made \ gone : t[p] \in Leaves \/ p \in listed
                      \/ \E p \in made : \E a \in Ancestors(p) \ gone :
                           (IF cached THEN w.index[a] ELSE t[a]) \in Links
           bare == Removed(t, gone)
           blocked == {p \in made : Barred(bare, p)}
           clashing == {p \in made \ blocked : Related(p) \cap (listed \ gone) # {}}
           ok == blocked \cup clashing = {}
<1>1. r.ok = IF refused THEN FALSE ELSE ok
  BY DEF Apply
<1>2. w.tree \in Trees /\ w.tree \in [Paths -> Nodes] /\ Solid(w.tree)
  BY DEF Checkouts, Trees
<1>3. missing = {}
  BY Kinds DEF Fits, Occupied
<1>4. Written(w.tree, w.index, missing) = w.tree
  <2>1. \A q \in Paths : Written(w.tree, w.index, missing)[q] = w.tree[q]
    BY <1>3 DEF Written, Above
  <2>2. Written(w.tree, w.index, missing) = [q \in Paths |-> w.tree[q]]
    BY <1>3 DEF Written, Above
  <2> QED
    BY <1>2, <2>2
<1>5. t = w.tree
  BY <1>4
<1> HIDE DEF t, missing, r
<1>6. /\ gone \in SUBSET Paths /\ gone \subseteq Occupied(old)
      /\ \A p \in gone : w.tree[p] = old[p] /\ w.tree[p] \in Leaves
  BY ListingApart DEF Fits, Occupied
<1>7. made \ gone \subseteq Occupied(new) \ Occupied(old)
  OBVIOUS
<1>8. \A p \in made : p \in Paths /\ p \in Occupied(new) /\ new[p] # Absent
  BY DEF Occupied
<1>9. listed = IF cached THEN Occupied(old) ELSE {}
  OBVIOUS
<1>10. ASSUME NEW p \in made, NEW q \in Related(p), q \in Occupied(old) \ gone
       PROVE  FALSE
  <2>1. q \in Paths /\ new[q] = old[q] /\ old[q] # Absent
    BY <1>10 DEF Changed, Occupied
  <2>2. Related(p) \cap Occupied(new) = {}
    BY <1>8, ListingAlone
  <2> QED
    BY <1>10, <2>1, <2>2 DEF Occupied
<1>11. \A p \in made \cap gone : \A a \in Ancestors(p) : w.tree[a] = Directory
  BY <1>2, <1>6, Kinds DEF Solid
<1>12. ~refused
  <2>1. \A p \in gone : t[p] = old[p]
    BY <1>5, <1>6
  <2>2. cached => \A p \in gone : w.index[p] = old[p]
    OBVIOUS
  <2>3. \A p \in made \ gone : t[p] \notin Leaves /\ p \notin listed
    BY <1>5, <1>7, <1>9
  <2>4. ASSUME NEW p \in made, NEW a \in Ancestors(p) \ gone
        PROVE  (IF cached THEN w.index[a] ELSE t[a]) \notin Links
    <3>1. a \in Paths /\ a \in Related(p)
      BY <1>8, Shorter DEF Related
    <3>2. CASE cached
      <4>1. w.index[a] \in Links => a \in Occupied(old)
        BY <3>1, <3>2, Kinds DEF Occupied, Leaves
      <4> QED
        BY <1>10, <3>1, <3>2, <4>1
    <3>3. CASE ~cached
      <4>1. CASE p \in gone
        BY <1>5, <1>11, <3>3, <4>1, Kinds DEF Leaves
      <4>2. CASE p \notin gone
        BY <1>5, <1>7, <3>3, <4>2
      <4> QED
        BY <4>1, <4>2
    <3> QED
      BY <3>2, <3>3
  <2> QED
    BY <2>1, <2>2, <2>3, <2>4
<1>13. bare = Removed(w.tree, gone)
  BY <1>5
<1>14. ASSUME NEW p \in made
       PROVE  ~Barred(bare, p)
  <2>1. CASE p \in gone
    <3>1. /\ \A q \in Paths : Removed(w.tree, gone)[q] \in {w.tree[q], Absent}
          /\ Removed(w.tree, gone)[p] = Absent
      BY <1>2, <1>6, <2>1, RemovedTree, Kinds
    <3>2. \A a \in Ancestors(p) : bare[a] \notin Leaves
      BY <1>8, <1>11, <1>13, <2>1, <3>1, Shorter, Kinds
    <3> QED
      BY <1>13, <3>1, <3>2, Kinds DEF Barred
  <2>2. CASE p \notin gone
    BY <1>7, <1>13, <2>2
  <2> QED
    BY <2>1, <2>2
<1>15. \A p \in made : Related(p) \cap (listed \ gone) = {}
  BY <1>9, <1>10
<1>16. ok
  BY <1>14, <1>15
<1> QED
  BY <1>1, <1>12, <1>16 DEF r

(* What git does not know has been there since B, and so has a directory   *)
(* that nothing tracked is in.                                             *)
Based(B, w) ==
  /\ \A q \in Paths : w.tree[q] \in Leaves /\ w.index[q] = Absent
                        => B.tree[q] = w.tree[q] /\ B.index[q] = Absent
  /\ \A q \in Paths : w.tree[q] = Directory
                        => \/ B.tree[q] = Directory
                           \/ \E m \in Below(q) : w.index[m] # Absent /\ w.tree[m] \in Leaves

LEMMA BelowTree ==
  ASSUME NEW t \in Trees, NEW p \in Paths, NEW q \in Below(p), t[q] # Absent
  PROVE  q \in Paths /\ t[p] = Directory
  BY BelowIs DEF Trees, Solid

LEMMA BelowBelow ==
  ASSUME NEW p \in Paths, NEW q \in Below(p)
  PROVE  q \in Paths /\ Below(q) \subseteq Below(p)
<1>1. q \in Paths /\ p \in Ancestors(q)
  BY BelowIs
<1>2. ASSUME NEW r \in Below(q) PROVE r \in Below(p)
  <2>1. r \in Paths /\ q \in Ancestors(r)
    BY <1>1, BelowIs
  <2> QED
    BY <1>1, <2>1, AncestorsNest, BelowIs
<1> QED
  BY <1>1, <1>2

LEMMA ResetBased ==
  ASSUME NEW B \in Checkouts
  PROVE  Based(B, ResetHard(B))
<1> DEFINE dropped == {p \in Occupied(B.index) \ Occupied(B.commit) : B.tree[p] # Directory}
           ps == Occupied(B.commit)
           bare == Removed(B.tree, dropped)
           v == ResetHard(B)
<1>1. /\ B.tree \in Trees /\ B.commit \in Listings /\ dropped \in SUBSET Paths
      /\ \A q \in dropped : B.tree[q] # Directory
  BY DEF Checkouts, Occupied
<1>2. v.tree = Written(bare, B.commit, ps) /\ v.index = B.commit
  BY DEF ResetHard, Checkouts
<1>3. \A q \in Paths : /\ bare[q] \in {B.tree[q], Absent}
                       /\ q \in dropped => bare[q] = Absent
  BY <1>1, RemovedTree
<1>4. ps \subseteq Paths /\ \A p \in ps : B.commit[p] \in Leaves /\ B.commit[p] # Absent
  BY <1>1, ListingApart DEF Occupied
<1>5. \A q \in Paths : q \notin dropped /\ q \notin ps /\ B.tree[q] # Directory => B.index[q] = Absent
  BY DEF Occupied
<1> HIDE DEF v, bare, dropped
<1>6. \A q \in Paths : v.tree[q] = IF q \in ps THEN B.commit[q]
                                   ELSE IF q \in Above(ps) THEN Directory
                                   ELSE IF Ancestors(q) \cap ps # {} THEN Absent ELSE bare[q]
  BY <1>2 DEF Written
<1>7. ASSUME NEW q \in Paths, v.tree[q] \in Leaves, v.index[q] = Absent
      PROVE  B.tree[q] = v.tree[q] /\ B.index[q] = Absent
  <2>1. v.tree[q] = bare[q] /\ q \notin ps
    BY <1>2, <1>4, <1>6, <1>7, Kinds
  <2>2. B.tree[q] = v.tree[q] /\ q \notin dropped
    BY <1>3, <1>7, <2>1, Kinds
  <2> QED
    BY <1>5, <1>7, <2>1, <2>2, Kinds
<1>8. ASSUME NEW q \in Paths, v.tree[q] = Directory
      PROVE  B.tree[q] = Directory \/ \E m \in Below(q) : v.index[m] # Absent /\ v.tree[m] \in Leaves
  <2>1. CASE q \in Above(ps)
    <3>1. PICK m \in ps : q \in Ancestors(m)
      BY <2>1 DEF Above
    <3>2. m \in Below(q) /\ v.index[m] # Absent /\ v.tree[m] \in Leaves
      BY <1>2, <1>4, <1>6, <3>1, BelowIs
    <3> QED
      BY <3>2
  <2>2. CASE q \notin Above(ps)
    BY <1>3, <1>4, <1>6, <1>8, <2>2, Kinds
  <2> QED
    BY <2>1, <2>2
<1> QED
  BY <1>7, <1>8 DEF Based, v

(* A directory that is left when files are unlinked was there, or holds a  *)
(* tracked file that is left.                                              *)
LEMMA RemovedBased ==
  ASSUME NEW B \in Checkouts, NEW w \in Checkouts, Based(B, w),
         NEW gone \in SUBSET Paths, \A p \in gone : w.tree[p] \in Leaves,
         NEW q \in Paths, Removed(w.tree, gone)[q] = Directory
  PROVE  \/ B.tree[q] = Directory
         \/ \E m \in Below(q) \ gone : w.index[m] # Absent /\ w.tree[m] \in Leaves
<1> DEFINE t == w.tree
           left == Above(gone)
<1>1. t \in Trees /\ t \in [Paths -> Nodes] /\ Solid(t) /\ B.tree \in Trees
  BY DEF Checkouts, Trees
<1>2. {p \in gone : \A a \in Ancestors(p) : t[a] = Directory} = gone
  BY <1>1, Kinds DEF Solid
<1>3. Removed(t, gone) = [p \in Paths |-> IF \/ p \in gone
                                             \/ /\ p \in left
                                                /\ \A r \in Below(p) : \/ t[r] = Absent \/ r \in gone
                                                                       \/ (r \in left /\ t[r] = Directory)
                                          THEN Absent ELSE t[p]]
  BY <1>2 DEF Removed
<1>4. /\ t[q] = Directory
      /\ q \in left => \E r \in Below(q) : /\ t[r] # Absent /\ r \notin gone
                                           /\ r \notin left \/ t[r] # Directory
  BY <1>3, Kinds
<1> HIDE DEF left
<1>5. \A m \in gone : \A p \in Paths : m \in Below(p) => p \in left
  BY BelowIs DEF left, Above
<1>6. CASE B.tree[q] = Directory
  BY <1>6
<1>7. CASE B.tree[q] # Directory
  <2>1. PICK m \in Below(q) : w.index[m] # Absent /\ t[m] \in Leaves
    BY <1>4, <1>7 DEF Based
  <2>2. CASE m \notin gone
    BY <2>1, <2>2
  <2>3. CASE m \in gone
    <3>1. PICK r \in Below(q) : /\ t[r] # Absent /\ r \notin gone
                                /\ r \notin left \/ t[r] # Directory
      BY <1>4, <1>5, <2>1, <2>3
    <3>2. r \in Paths /\ B.tree[r] = Absent /\ Below(r) \subseteq Below(q)
      BY <1>1, <1>7, BelowTree, BelowBelow
    <3>3. CASE t[r] = Directory
      <4>1. PICK n \in Below(r) : w.index[n] # Absent /\ t[n] \in Leaves
        BY <3>2, <3>3, Kinds DEF Based
      <4>2. n \notin gone /\ n \in Below(q)
        BY <1>5, <3>1, <3>2, <3>3, <4>1
      <4> QED
        BY <4>1, <4>2
    <3>4. CASE t[r] # Directory
      <4>1. t[r] \in Leaves
        BY <1>1, <3>1, <3>2, <3>4 DEF Nodes, Entries
      <4>2. w.index[r] # Absent
        BY <3>2, <4>1, Kinds DEF Based
      <4> QED
        BY <3>1, <4>1, <4>2
    <3> QED
      BY <3>3, <3>4
  <2> QED
    BY <2>2, <2>3
<1> QED
  BY <1>6, <1>7

(* What a patch that applied has done.                                     *)
Gone(old, new) == Changed(old, new) \cap Occupied(old)
Made(old, new) == Changed(old, new) \cap Occupied(new)
Done(w, old, new, v) ==
  /\ v.tree = Written(Removed(w.tree, Gone(old, new)), new, Made(old, new))
  /\ \A p \in Made(old, new) : ~Barred(Removed(w.tree, Gone(old, new)), p)

LEMMA ApplyDone ==
  ASSUME NEW w \in Checkouts, NEW old \in Listings, NEW new \in Listings,
         NEW cached \in BOOLEAN, Fits(w, old), Apply(w, old, new, cached).ok
  PROVE  Done(w, old, new, Apply(w, old, new, cached).world)
<1> DEFINE r == Apply(w, old, new, cached)
           gone == Gone(old, new)
           made == Made(old, new)
<1>1. PICK missing : Outcome(w, old, new, cached, missing, r)
  BY ApplyOutcome
<1> DEFINE t == IF cached THEN Written(w.tree, w.index, missing) ELSE w.tree
           bare == Removed(t, gone)
<1>2. r.ok
  OBVIOUS
<1> HIDE DEF r
<1>3. missing = {}
  BY <1>1, Kinds DEF Outcome, Fits, Occupied
<1>4. t = w.tree
  <2>1. Written(w.tree, w.index, missing) = [q \in Paths |-> w.tree[q]]
    BY <1>3 DEF Written, Above
  <2>2. w.tree = [q \in Paths |-> w.tree[q]]
    BY DEF Checkouts, Trees
  <2> QED
    BY <2>1, <2>2
<1>5. \E done \in SUBSET made, ok \in BOOLEAN :
         /\ ok => done = made
         /\ \A p \in done : ~Barred(bare, p)
         /\ r = [ok |-> ok, world |-> [w EXCEPT !.tree = Written(bare, new, done),
                                                !.index = IF cached /\ ok THEN Indexed(w, old, new)
                                                          ELSE @]]
  <2>1. r # [ok |-> FALSE, world |-> [w EXCEPT !.tree = t]]
    BY <1>2
  <2> QED
    BY <1>1, <2>1 DEF Outcome, Gone, Made
<1> HIDE DEF t, bare, gone, made
<1>6. /\ \A p \in made : ~Barred(bare, p)
      /\ \E i : r.world = [w EXCEPT !.tree = Written(bare, new, made), !.index = i]
  <2>1. PICK done \in SUBSET made, ok \in BOOLEAN :
           /\ ok => done = made
           /\ \A p \in done : ~Barred(bare, p)
           /\ r = [ok |-> ok, world |-> [w EXCEPT !.tree = Written(bare, new, done),
                                                  !.index = IF cached /\ ok THEN Indexed(w, old, new)
                                                            ELSE @]]
    BY <1>5
  <2>2. done = made
    BY <1>2, <2>1
  <2> QED
    BY <2>1, <2>2
<1>7. r.world.tree = Written(bare, new, made)
  BY <1>6 DEF Checkouts
<1>8. bare = Removed(w.tree, gone)
  BY <1>4 DEF bare
<1> QED
  BY <1>6, <1>7, <1>8 DEF Done, r, gone, made

(* A patch leaves what git does not know where it was; v's index lists     *)
(* what is made, and nothing less than w's but what is gone.               *)
LEMMA PatchBased ==
  ASSUME NEW B \in Checkouts, NEW w \in Checkouts, Based(B, w), NEW v,
         NEW old \in Listings, NEW new \in Listings, Fits(w, old), Done(w, old, new, v),
         \A p \in Made(old, new) : v.index[p] # Absent,
         \A p \in Paths \ Gone(old, new) : w.index[p] # Absent => v.index[p] # Absent
  PROVE  Based(B, v)
<1> DEFINE gone == Gone(old, new)
           made == Made(old, new)
           bare == Removed(w.tree, gone)
<1>1. /\ gone \in SUBSET Paths /\ \A p \in gone : w.tree[p] \in Leaves
      /\ made \in SUBSET Paths /\ \A p \in made : new[p] \in Leaves
  BY ListingApart DEF Gone, Made, Occupied, Fits
<1>2. /\ v.tree = Written(bare, new, made)
      /\ \A p \in made : ~Barred(bare, p)
  BY DEF Done
<1>3. w.tree \in Trees
  BY DEF Checkouts
<1>4. /\ bare \in Trees
      /\ \A q \in Paths : /\ bare[q] \in {w.tree[q], Absent}
                          /\ q \notin gone /\ w.tree[q] \in Leaves => bare[q] = w.tree[q]
                          /\ q \in gone => bare[q] = Absent
  BY <1>1, <1>3, RemovedTree, Kinds
<1>5. ASSUME NEW q \in Paths, bare[q] = Directory
      PROVE  \/ B.tree[q] = Directory
             \/ \E m \in Below(q) \ gone : w.index[m] # Absent /\ w.tree[m] \in Leaves
  BY <1>1, <1>5, RemovedBased
<1> HIDE DEF gone, made, bare
<1>6. \A q \in Paths : v.tree[q] = IF q \in made THEN new[q]
                                   ELSE IF q \in Above(made) THEN Directory
                                   ELSE IF Ancestors(q) \cap made # {} THEN Absent ELSE bare[q]
  BY <1>2 DEF Written
<1>7. ASSUME NEW q \in Paths, bare[q] \in Leaves
      PROVE  v.tree[q] \in Leaves
  <2>1. v.tree[q] # bare[q] => q \in made
    BY <1>1, <1>2, <1>4, <1>7, WrittenClear
  <2> QED
    BY <1>1, <1>6, <1>7, <2>1
<1>8. ASSUME NEW q \in Paths, v.tree[q] \in Leaves, v.index[q] = Absent
      PROVE  B.tree[q] = v.tree[q] /\ B.index[q] = Absent
  <2>1. q \notin made
    BY <1>8 DEF made
  <2>2. v.tree[q] = bare[q]
    BY <1>6, <1>8, <2>1, Kinds
  <2>3. q \notin gone /\ v.tree[q] = w.tree[q]
    BY <1>4, <1>8, <2>2, Kinds
  <2>4. w.index[q] = Absent
    BY <1>8, <2>3 DEF gone
  <2> QED
    BY <1>8, <2>3, <2>4 DEF Based
<1>9. ASSUME NEW q \in Paths, v.tree[q] = Directory
      PROVE  B.tree[q] = Directory \/ \E m \in Below(q) : v.index[m] # Absent /\ v.tree[m] \in Leaves
  <2>1. CASE q \in Above(made)
    <3>1. PICK m \in made : q \in Ancestors(m)
      BY <2>1 DEF Above
    <3>2. m \in Below(q) /\ v.index[m] # Absent /\ v.tree[m] \in Leaves
      BY <1>1, <1>6, <1>9, <3>1, BelowIs DEF made
    <3> QED
      BY <3>2
  <2>2. CASE q \notin Above(made)
    <3>1. bare[q] = Directory
      BY <1>1, <1>6, <1>9, <2>2, Kinds
    <3>2. CASE B.tree[q] = Directory
      BY <3>2
    <3>3. CASE B.tree[q] # Directory
      <4>1. PICK m \in Below(q) \ gone : w.index[m] # Absent /\ w.tree[m] \in Leaves
        BY <1>5, <3>1, <3>3
      <4>2. m \in Paths /\ v.index[m] # Absent
        BY <4>1, BelowIs DEF gone
      <4>3. v.tree[m] \in Leaves
        BY <1>4, <1>7, <4>1, <4>2
      <4> QED
        BY <4>1, <4>2, <4>3
    <3> QED
      BY <3>2, <3>3
  <2> QED
    BY <2>1, <2>2
<1> QED
  BY <1>8, <1>9 DEF Based

LEMMA StagedBased ==
  ASSUME NEW cp, NEW C, Captured(cp, C), NEW B \in Checkouts, NEW w \in Checkouts,
         Based(B, w), Pinned(C, w), Replay(w, cp.staged, TRUE).failure = None
  PROVE  Based(B, Replay(w, cp.staged, TRUE).world)
<1> DEFINE a == Apply(w, C.commit, C.index, TRUE)
           r == Replay(w, cp.staged, TRUE)
<1>1. r = IF C.commit = C.index THEN [world |-> w, failure |-> None]
          ELSE [world |-> a.world, failure |-> IF a.ok THEN None ELSE "internal"]
  BY Fields DEF Replay, Result, Fine
<1>2. C.commit \in Listings /\ C.index \in Listings /\ w.index = C.commit /\ Fits(w, C.commit)
  BY Fields DEF Pinned
<1>3. a.ok => Done(w, C.commit, C.index, a.world)
  BY <1>2, ApplyDone
<1>4. Staged(C, r.world)
  BY StagedPhase
<1>5. r.failure = None
  OBVIOUS
<1> HIDE DEF a, r
<1>6. CASE C.commit = C.index
  <2>1. r.world = w
    BY <1>1, <1>6
  <2>2. Based(B, r.world)
    BY <2>1
  <2> QED
    BY <2>2 DEF r
<1>7. CASE C.commit # C.index
  <2>1. r.world = a.world /\ a.ok
    BY <1>1, <1>5, <1>7, ConstantsAssumption
  <2>2. a.world.index = C.index
    BY <1>4, <2>1 DEF Staged
  <2>3. /\ \A p \in Made(C.commit, C.index) : C.index[p] # Absent
        /\ \A p \in Paths \ Gone(C.commit, C.index) : C.commit[p] # Absent => C.index[p] # Absent
    BY DEF Made, Gone, Changed, Occupied
  <2>4. Based(B, a.world)
    BY <1>2, <1>3, <2>1, <2>2, <2>3, PatchBased
  <2> QED
    BY <2>1, <2>4 DEF r
<1> QED
  BY <1>6, <1>7

LEMMA UnstagedBased ==
  ASSUME NEW cp, NEW C, Captured(cp, C), NEW B \in Checkouts, NEW w \in Checkouts,
         Based(B, w), Staged(C, w), Replay(w, cp.unstaged, FALSE).failure = None
  PROVE  Based(B, Replay(w, cp.unstaged, FALSE).world)
<1> DEFINE W == Worktree(C)
           a == Apply(w, C.index, W, FALSE)
           r == Replay(w, cp.unstaged, FALSE)
<1>1. r = IF C.index = W THEN [world |-> w, failure |-> None]
          ELSE [world |-> a.world, failure |-> IF a.ok THEN None ELSE "internal"]
  BY Fields DEF Replay, Result, Fine
<1>2. C.index \in Listings /\ W \in Listings /\ w.index = C.index /\ Fits(w, C.index)
  BY Fields, WorktreeListing DEF Staged
<1>3. a.ok => Done(w, C.index, W, a.world)
  BY <1>2, ApplyDone
<1>4. r.world.index = w.index
  BY UnstagedPhase
<1>5. r.failure = None
  OBVIOUS
<1>6. \A p \in Paths : W[p] # Absent => C.index[p] # Absent
  BY DEF Worktree
<1> HIDE DEF a, r, W
<1>7. CASE C.index = W
  <2>1. r.world = w
    BY <1>1, <1>7
  <2>2. Based(B, r.world)
    BY <2>1
  <2> QED
    BY <2>2 DEF r
<1>8. CASE C.index # W
  <2>1. r.world = a.world /\ a.ok
    BY <1>1, <1>5, <1>8, ConstantsAssumption
  <2>2. \A p \in Made(C.index, W) : C.index[p] # Absent
    BY <1>6 DEF Made, Occupied
  <2>3. Based(B, a.world)
    BY <1>2, <1>3, <1>4, <2>1, <2>2, PatchBased
  <2> QED
    BY <2>1, <2>3 DEF r
<1> QED
  BY <1>7, <1>8

(* So do the phases that follow the patches.                               *)
LEMMA FollowedBased ==
  ASSUME NEW B, NEW C, NEW w, NEW v, Based(B, w), Followed(C, w), Followed(C, v),
         \A p \in Paths : v.tree[p] # w.tree[p] =>
           /\ v.tree[p] \in Leaves => p \in Occupied(C.index)
           /\ v.tree[p] = Directory => \E m \in Below(p) : m \in Occupied(C.index) /\ v.tree[m] \in Leaves
  PROVE  Based(B, v)
<1>1. w.index = C.index /\ v.index = C.index
  BY DEF Followed
<1>2. \A m \in Paths : C.index[m] # Absent /\ w.tree[m] \in Leaves => v.tree[m] \in Leaves
  <2> SUFFICES ASSUME NEW m \in Paths, C.index[m] # Absent, w.tree[m] \in Leaves
               PROVE  v.tree[m] \in Leaves
    OBVIOUS
  <2>1. Version(v, m) = Version(w, m)
    BY DEF Followed, Occupied
  <2> QED
    BY <2>1, Kinds DEF Version
<1>3. ASSUME NEW q \in Paths, v.tree[q] \in Leaves, C.index[q] = Absent
      PROVE  B.tree[q] = v.tree[q] /\ B.index[q] = Absent
  BY <1>1, <1>3 DEF Based, Occupied
<1>4. ASSUME NEW q \in Paths, v.tree[q] = Directory
      PROVE  B.tree[q] = Directory \/ \E m \in Below(q) : C.index[m] # Absent /\ v.tree[m] \in Leaves
  <2>1. CASE w.tree[q] = Directory
    <3>1. \/ B.tree[q] = Directory
          \/ \E m \in Below(q) : C.index[m] # Absent /\ w.tree[m] \in Leaves
      BY <1>1, <2>1 DEF Based
    <3> QED
      BY <1>2, <3>1 DEF Below
  <2>2. CASE w.tree[q] # Directory
    BY <1>4, <2>2 DEF Occupied
  <2> QED
    BY <2>1, <2>2
<1> QED
  BY <1>1, <1>3, <1>4 DEF Based

(* The two exceptions, of a checkout B that is restored to C.              *)
Vacant(B, C) ==
  \A p \in Occupied(C.index) \ Occupied(C.commit) :
    /\ \A q \in {p} \cup Related(p) : ~(B.tree[q] \in Leaves /\ B.index[q] = Absent)
    /\ \A q \in Below(p) : B.tree[q] # Directory

Stays(cp, B, q) == B.tree[q] \in Links \/ (B.tree[q] \in Files /\ q \in Ignored \cup cp.patterns)
Yields(cp, B) ==
  \A p \in DOMAIN cp.untracked :
    /\ B.tree[p] = Directory => \A q \in Below(p) : B.tree[q] # Directory /\ ~Stays(cp, B, q)
    /\ \A a \in Ancestors(p) : ~Stays(cp, B, a)

LEMMA StagedWorks ==
  ASSUME NEW cp, NEW C, Captured(cp, C), NEW B \in Checkouts, NEW w \in Checkouts,
         Based(B, w), Pinned(C, w), Vacant(B, C)
  PROVE  Replay(w, cp.staged, TRUE).failure = None
<1> DEFINE a == Apply(w, C.commit, C.index, TRUE)
           r == Replay(w, cp.staged, TRUE)
           gone == Changed(C.commit, C.index) \cap Occupied(C.commit)
           bare == Removed(w.tree, gone)
<1>1. /\ C.commit \in Listings /\ C.index \in Listings /\ w.index = C.commit /\ Fits(w, C.commit)
      /\ w.tree \in Trees /\ w.tree \in [Paths -> Nodes] /\ Solid(w.tree) /\ B.tree \in Trees
  BY Fields DEF Pinned, Checkouts, Trees
<1>2. /\ gone \in SUBSET Paths
      /\ \A q \in gone : w.tree[q] \in Leaves /\ w.tree[q] # Directory
  BY <1>1, ListingApart, Kinds DEF Fits, Occupied
<1>3. /\ bare \in Trees
      /\ \A q \in Paths : /\ bare[q] \in {w.tree[q], Absent}
                          /\ q \in gone => bare[q] = Absent
  BY <1>1, <1>2, RemovedTree
<1>4. ASSUME NEW q \in Paths, bare[q] = Directory
      PROVE  \/ B.tree[q] = Directory
             \/ \E m \in Below(q) \ gone : w.index[m] # Absent /\ w.tree[m] \in Leaves
  BY <1>2, <1>4, RemovedBased
<1>5. \A q \in Paths \ gone : C.commit[q] # Absent => C.index[q] = C.commit[q]
  BY DEF Changed, Occupied
<1> HIDE DEF bare, gone
<1>6. ASSUME NEW p \in Occupied(C.index) \ Occupied(C.commit)
      PROVE  w.tree[p] \notin Leaves /\ ~Barred(bare, p)
  <2>1. /\ p \in Paths /\ C.commit[p] = Absent
        /\ Related(p) \cap Occupied(C.index) = {}
    BY <1>1, ListingAlone DEF Occupied
  <2>2. ASSUME NEW q \in Paths, q \in {p} \cup Related(p), w.tree[q] \in Leaves, C.commit[q] = Absent
        PROVE  FALSE
    BY <1>1, <1>6, <2>2 DEF Based, Vacant
  <2>3. ASSUME NEW q \in Related(p) \ gone, q \in Paths, C.commit[q] # Absent
        PROVE  FALSE
    BY <1>5, <2>1, <2>3 DEF Occupied
  <2>4. w.tree[p] \notin Leaves
    BY <2>1, <2>2
  <2>5. ASSUME NEW q \in Related(p), q \in Paths
        PROVE  bare[q] \notin Leaves
    <3>1. CASE q \in gone
      BY <1>3, <2>5, <3>1, Kinds
    <3>2. CASE q \notin gone
      BY <1>3, <2>2, <2>3, <2>5, <3>2, Kinds
    <3> QED
      BY <3>1, <3>2
  <2>6. \A q \in Ancestors(p) : bare[q] \notin Leaves
    BY <2>1, <2>5, Shorter DEF Related
  <2>7. ASSUME NEW q \in Below(p), bare[q] # Absent
        PROVE  FALSE
    <3>1. q \in Paths /\ q \in Related(p) /\ Below(q) \subseteq Below(p)
      BY <2>1, BelowBelow DEF Related
    <3>2. bare[q] = Directory
      BY <1>3, <2>5, <2>7, <3>1 DEF Trees, Nodes, Entries
    <3>3. B.tree[q] # Directory
      BY <1>6 DEF Vacant
    <3>4. PICK m \in Below(q) \ gone : w.index[m] # Absent /\ w.tree[m] \in Leaves
      BY <1>4, <3>1, <3>2, <3>3
    <3>5. m \in Related(p) \ gone /\ m \in Paths /\ C.commit[m] # Absent
      BY <1>1, <3>1, <3>4, BelowBelow DEF Related
    <3> QED
      BY <2>3, <3>5
  <2> QED
    BY <2>4, <2>6, <2>7 DEF Barred, EmptyAt
<1>7. a.ok
  BY <1>1, <1>6, ApplySucceeds DEF bare, gone
<1>8. r = IF C.commit = C.index THEN [world |-> w, failure |-> None]
          ELSE [world |-> a.world, failure |-> IF a.ok THEN None ELSE "internal"]
  BY Fields DEF Replay, Result, Fine
<1> HIDE DEF a, r
<1>9. r.failure = None
  BY <1>7, <1>8
<1> QED
  BY <1>9 DEF r

LEMMA UnstagedWorks ==
  ASSUME NEW cp, NEW C, Captured(cp, C), NEW w \in Checkouts, Staged(C, w)
  PROVE  Replay(w, cp.unstaged, FALSE).failure = None
<1> DEFINE W == Worktree(C)
           a == Apply(w, C.index, W, FALSE)
           r == Replay(w, cp.unstaged, FALSE)
<1>1. C.index \in Listings /\ W \in Listings /\ Fits(w, C.index)
  BY Fields, WorktreeListing DEF Staged
<1>2. Occupied(W) \ Occupied(C.index) = {}
  BY DEF Worktree, Occupied
<1> HIDE DEF W
<1>3. a.ok
  BY <1>1, <1>2, ApplySucceeds
<1>4. r = IF C.index = W THEN [world |-> w, failure |-> None]
          ELSE [world |-> a.world, failure |-> IF a.ok THEN None ELSE "internal"]
  BY Fields DEF Replay, Result, Fine, W
<1> HIDE DEF a, r
<1>5. r.failure = None
  BY <1>3, <1>4
<1> QED
  BY <1>5 DEF r

(* What the checkpoint has of the tracked files stands where it is to be.  *)
LEMMA TrackedStand ==
  ASSUME NEW cp, NEW C, Captured(cp, C), NEW w \in Checkouts, Followed(C, w)
  PROVE  \A q \in DOMAIN cp.tracked : /\ w.tree[q] = cp.tracked[q] /\ w.tree[q] \in Files
                                      /\ \A a \in Ancestors(q) : w.tree[a] = Directory
<1> SUFFICES ASSUME NEW q \in DOMAIN cp.tracked
             PROVE  /\ w.tree[q] = cp.tracked[q] /\ w.tree[q] \in Files
                    /\ \A a \in Ancestors(q) : w.tree[a] = Directory
  OBVIOUS
<1>1. q \in Paths /\ q \in Occupied(C.index) /\ C.tree[q] \in Files /\ cp.tracked[q] = C.tree[q]
  BY Archives
<1>2. Version(w, q) = C.tree[q]
  BY <1>1 DEF Followed, Version, Leaves
<1>3. w.tree[q] = C.tree[q]
  BY <1>1, <1>2, Kinds DEF Version, Leaves
<1>4. Solid(w.tree) /\ w.tree[q] # Absent
  BY <1>1, <1>3, Kinds DEF Checkouts, Trees, Leaves
<1> QED
  BY <1>1, <1>3, <1>4 DEF Solid

LEMMA TrackedWorks ==
  ASSUME NEW cp, NEW C, Captured(cp, C), NEW w \in Checkouts, Followed(C, w)
  PROVE  RestoreTrackedContent(cp, w, DOMAIN cp.tracked).failure = None
<1> DEFINE ps == DOMAIN cp.tracked
           c == ClearConflicts(w.tree, ps)
<1>1. \A q \in ps : /\ q \in Paths /\ w.tree[q] \in Leaves
                    /\ \A a \in Ancestors(q) : w.tree[a] = Directory
  BY TrackedStand, Archives DEF Leaves
<1>2. Inaccessible(w.tree, ps \cup Above(ps)) = {}
  <2> SUFFICES ASSUME NEW p \in ps \cup Above(ps), NEW a \in Ancestors(p) PROVE w.tree[a] \notin Files
    BY DEF Inaccessible
  <2>1. PICK q \in ps : p = q \/ p \in Ancestors(q)
    BY DEF Above
  <2>2. a \in Ancestors(q)
    BY <1>1, <2>1, AncestorsNest
  <2> QED
    BY <1>1, <2>2, Kinds DEF Leaves
<1>3. {p \in ps : w.tree[p] = Directory /\ ~EmptyAt(w.tree, p)} = {}
  BY <1>1, Kinds
<1>4. c.failure = None
  BY <1>2, <1>3 DEF ClearConflicts
<1> QED
  BY <1>4 DEF RestoreTrackedContent, Result

LEMMA ClearWorks ==
  ASSUME NEW cp, NEW C, Captured(cp, C), NEW B \in Checkouts, NEW w \in Checkouts, NEW patterns,
         Based(B, w), Followed(C, w), Swept(cp, w), Yields(cp, B)
  PROVE  Clear(w, DOMAIN cp.untracked \ patterns).failure = None
<1> DEFINE ps == DOMAIN cp.untracked \ patterns
           c == ClearConflicts(w.tree, ps)
<1>1. /\ \A q \in ps : q \in DOMAIN cp.untracked /\ q \in Paths /\ C.tree[q] \in Leaves
      /\ \A q \in DOMAIN cp.untracked : C.tree[q] \in Leaves
  BY Archives
<1>2. /\ w.tree \in Trees /\ w.tree \in [Paths -> Nodes] /\ Solid(w.tree)
      /\ C.tree \in Trees /\ Solid(C.tree) /\ B.tree \in Trees
      /\ w.index = C.index
  BY Fields DEF Checkouts, Trees, Followed
<1>3. ASSUME NEW q \in Paths, w.tree[q] \in Leaves, C.tree[q] \notin Leaves
      PROVE  /\ w.index[q] = Absent /\ B.tree[q] = w.tree[q]
             /\ w.tree[q] \in Files => q \in Ignored \cup cp.patterns
             /\ Stays(cp, B, q)
  <2>1. w.index[q] = Absent
    <3> SUFFICES ASSUME w.index[q] # Absent PROVE FALSE
      OBVIOUS
    <3>1. Version(w, q) = Version(C, q)
      BY <1>2 DEF Followed, Occupied
    <3> QED
      BY <1>3, <3>1, Kinds DEF Version
  <2>2. B.tree[q] = w.tree[q]
    BY <1>3, <2>1 DEF Based
  <2>3. w.tree[q] \in Files => q \in Ignored \cup cp.patterns
    BY <1>1, <1>3, <2>1 DEF Swept, Untracked
  <2> QED
    BY <1>3, <2>1, <2>2, <2>3 DEF Stays, Leaves
<1>4. Inaccessible(w.tree, ps \cup Above(ps)) = {}
  <2> SUFFICES ASSUME NEW p \in ps \cup Above(ps), NEW a \in Ancestors(p) PROVE w.tree[a] \notin Files
    BY DEF Inaccessible
  <2>1. PICK q \in ps : p = q \/ p \in Ancestors(q)
    BY DEF Above
  <2>2. a \in Ancestors(q) /\ a \in Paths
    BY <1>1, <2>1, AncestorsNest, Shorter
  <2>3. C.tree[a] \notin Leaves
    BY <1>1, <1>2, <2>2, Kinds DEF Solid
  <2>4. ~Stays(cp, B, a)
    BY <1>1, <2>2 DEF Yields
  <2> QED
    BY <1>3, <2>2, <2>3, <2>4 DEF Leaves
<1>5. ASSUME NEW p \in ps, w.tree[p] = Directory, NEW q \in Below(p), w.tree[q] # Absent
      PROVE  FALSE
  <2>1. /\ q \in Paths /\ Below(q) \subseteq Below(p) /\ p \in Paths
        /\ B.tree[q] # Absent => B.tree[p] = Directory
    BY <1>1, <1>2, BelowBelow, BelowTree
  <2>2. \A m \in Below(p) : m \in Paths /\ C.tree[m] \notin Leaves
    <3> SUFFICES ASSUME NEW m \in Below(p) PROVE m \in Paths /\ C.tree[m] \notin Leaves
      OBVIOUS
    <3>1. m \in Paths /\ (C.tree[m] # Absent => C.tree[p] = Directory)
      BY <1>2, <2>1, BelowTree, BelowBelow
    <3> QED
      BY <1>1, <3>1, Kinds
  <2>3. B.tree[q] = Absent \/ (B.tree[q] # Directory /\ ~Stays(cp, B, q))
    BY <1>1, <2>1 DEF Yields
  <2>4. CASE w.tree[q] \in Leaves
    BY <1>3, <2>1, <2>2, <2>3, <2>4, Kinds
  <2>5. CASE w.tree[q] = Directory
    <3>1. PICK m \in Below(q) : w.index[m] # Absent /\ w.tree[m] \in Leaves
      BY <2>1, <2>3, <2>5, Kinds DEF Based
    <3> QED
      BY <1>3, <2>1, <2>2, <3>1
  <2> QED
    BY <1>2, <1>5, <2>1, <2>4, <2>5 DEF Nodes, Entries
<1>6. {p \in ps : w.tree[p] = Directory /\ ~EmptyAt(w.tree, p)} = {}
  BY <1>5 DEF EmptyAt
<1>7. c.failure = None
  BY <1>4, <1>6 DEF ClearConflicts
<1> QED
  BY <1>7 DEF Clear, Result

LEMMA VerifyWorks ==
  ASSUME NEW cp, NEW C, Captured(cp, C), NEW w \in Checkouts, Followed(C, w), Given(cp, w)
  PROVE  VerifyHashes(cp, w).failure = None
<1>1. ASSUME NEW p \in Recorded(cp)
      PROVE  \A a \in Ancestors(p) : w.tree[a] \notin Files
  <2>1. CASE p \in DOMAIN cp.tracked
    BY <2>1, TrackedStand, Kinds DEF Leaves
  <2>2. CASE p \in DOMAIN cp.untracked
    <3>1. p \in Paths /\ w.tree[p] \in Leaves
      BY <2>2, Archives DEF Given
    <3> QED
      BY <3>1, Kinds DEF Checkouts, Trees, Solid, Leaves
  <2> QED
    BY <1>1, <2>1, <2>2 DEF Recorded
<1>2. Inaccessible(w.tree, Recorded(cp)) = {}
  BY <1>1 DEF Inaccessible
<1>3. Drifted(w, cp.tracked) \cup Drifted(w, cp.untracked) = {}
  BY TrackedStand DEF Drifted, Given
<1> QED
  BY <1>2, <1>3 DEF VerifyHashes, Result

LEMMA ParityWorks ==
  ASSUME NEW cp, NEW C, Captured(cp, C), NEW w, Followed(C, w), w.commit = C.commit
  PROVE  VerifyParity(cp, w).failure = None
<1>1. w.index = C.index /\ Worktree(w) = Worktree(C)
  BY DEF Followed, Worktree, Occupied
<1>2. TrackedDirty(w) = TrackedDirty(C)
  BY <1>1 DEF TrackedDirty
<1>3. cp.dirty = TrackedDirty(C)
  BY Fields
<1> QED
  BY <1>2, <1>3 DEF VerifyParity, Result

LEMMA ExtractGives ==
  ASSUME NEW cp, NEW w \in Checkouts, \A q \in DOMAIN cp.untracked : q \in Paths /\ ~Barred(w.tree, q)
  PROVE  Given(cp, ExtractUntracked(cp, w).world)
<1>1. {p \in DOMAIN cp.untracked : ~Barred(w.tree, p)} = DOMAIN cp.untracked
  OBVIOUS
<1>2. ExtractUntracked(cp, w).world.tree = Written(w.tree, cp.untracked, DOMAIN cp.untracked)
  BY <1>1 DEF ExtractUntracked, Fine, Result, Checkouts
<1> QED
  BY <1>2 DEF Given, Written

LEMMA ClearOpens ==
  ASSUME NEW cp, NEW C, Captured(cp, C), NEW w \in Checkouts,
         Clear(w, DOMAIN cp.untracked).failure = None
  PROVE  \A q \in DOMAIN cp.untracked : ~Barred(Clear(w, DOMAIN cp.untracked).world.tree, q)
<1> DEFINE ps == DOMAIN cp.untracked
           c == ClearConflicts(w.tree, ps)
<1>1. ps \in SUBSET Paths /\ w.tree \in Trees
  BY Archives DEF Checkouts
<1>2. c.failure = None /\ Clear(w, ps).world.tree = c.tree
  BY DEF Clear, Result, Checkouts
<1>3. \A q \in ps : ~Barred(c.tree, q)
  BY <1>1, <1>2, ClearedWay
<1> QED
  BY <1>2, <1>3

LEMMA TrackedBased ==
  ASSUME NEW cp, NEW C, Captured(cp, C), NEW B, NEW w \in Checkouts, Based(B, w), Followed(C, w)
  PROVE  Based(B, RestoreTrackedContent(cp, w, DOMAIN cp.tracked).world)
<1> DEFINE ps == DOMAIN cp.tracked
           c == ClearConflicts(w.tree, ps)
           v == RestoreTrackedContent(cp, w, ps).world
<1>1. ps \in SUBSET Paths /\ w.tree \in Trees /\ ps \subseteq Occupied(C.index)
  BY Archives DEF Checkouts
<1>2. v.tree = Written(c.tree, cp.tracked, ps)
  BY TrackedWorks DEF RestoreTrackedContent, Result, Checkouts
<1>3. \A q \in Paths : c.tree[q] \in {w.tree[q], Absent}
  BY <1>1, ClearedTree
<1>4. Followed(C, v)
  BY TrackedPhase
<1>5. \A q \in ps : cp.tracked[q] \in Leaves
  BY Archives
<1> HIDE DEF v, c
<1>6. \A q \in Paths : v.tree[q] = IF q \in ps THEN cp.tracked[q]
                                   ELSE IF q \in Above(ps) THEN Directory
                                   ELSE IF Ancestors(q) \cap ps # {} THEN Absent ELSE c.tree[q]
  BY <1>2 DEF Written
<1>7. ASSUME NEW p \in Paths, v.tree[p] # w.tree[p], v.tree[p] \in Leaves
      PROVE  p \in Occupied(C.index)
  BY <1>1, <1>3, <1>6, <1>7, Kinds
<1>8. ASSUME NEW p \in Paths, v.tree[p] # w.tree[p], v.tree[p] = Directory
      PROVE  \E m \in Below(p) : m \in Occupied(C.index) /\ v.tree[m] \in Leaves
  <2>1. p \in Above(ps)
    BY <1>3, <1>5, <1>6, <1>8, Kinds
  <2>2. PICK m \in ps : p \in Ancestors(m)
    BY <2>1 DEF Above
  <2>3. m \in Below(p) /\ m \in Occupied(C.index) /\ v.tree[m] \in Leaves
    BY <1>1, <1>5, <1>6, <2>2, BelowIs
  <2> QED
    BY <2>3
<1>9. Based(B, v)
  BY <1>4, <1>7, <1>8, FollowedBased
<1> QED
  BY <1>9 DEF v

(* The phases over a checkout nobody else touches, unless one of the two   *)
(* exceptions was there before.                                            *)
Breaks == {"internal", "extraction_conflict", "tracked_dirty_parity", "verification"}
Plain == Undisturbed /\ Vacant(before, started) /\ Yields(checkpoint, before)

Unbroken ==
  /\ pc \in {"plan", "diffs", "snapshot"} \cup Range(Phases) => ending = None
  /\ before # None => before \in Checkouts
  /\ Plain =>
       /\ ending \notin Breaks
       /\ pc \in {"preflight", "reset"} => repo = before
       /\ pc \in {"staged", "unstaged", "tracked", "sweep", "clear"} => Based(before, repo)
       /\ pc = "extract" => \A q \in DOMAIN checkpoint.untracked : ~Barred(repo.tree, q)
       /\ pc \in {"parity", "verify"} => Given(checkpoint, repo)

LEMMA UnbrokenStep ==
  ASSUME RestoreInv, Unbroken, Restore
  PROVE  Unbroken'
<1> DEFINE cp == checkpoint
           C == started
           B == before
           r == Perform(pc, cp, repo, excluded, forced /\ "head_mismatch" \in seen)
<1>1. /\ pc \in Range(Phases)
      /\ repo' = r.world
      /\ IF r.failure = None THEN pc' = Successor(pc) /\ ending' = ending
                             ELSE pc' = "receipt" /\ ending' = r.failure
      /\ started' = started /\ checkpoint' = checkpoint /\ before' = before /\ late' = late
  BY DEF Restore, session, command
<1>2. /\ pc \in {"preflight", "reset", "staged", "unstaged", "tracked", "sweep",
                 "clear", "extract", "parity", "verify"}
      /\ r.failure = None => pc' = Successor(pc)
      /\ r.failure # None => pc' = "receipt"
      /\ pc # "outside" /\ ending = None
  BY <1>1, PhaseOrder DEF Unbroken
<1>3. repo \in Checkouts /\ Captured(cp, C) /\ Advances(C, repo)
  BY <1>2 DEF RestoreInv, Grounded
<1>4. Plain' <=> Plain
  BY <1>1 DEF Plain, Undisturbed, Vacant, Yields, Stays
<1>5. /\ pc' \in {"plan", "diffs", "snapshot"} \cup Range(Phases) => ending' = None
      /\ before' # None => before' \in Checkouts
  BY <1>1, <1>2, PhaseOrder DEF Unbroken
<1> DEFINE stands == /\ pc' \in {"preflight", "reset"} => r.world = B
                     /\ pc' \in {"staged", "unstaged", "tracked", "sweep", "clear"} => Based(B, r.world)
                     /\ pc' = "extract" => \A q \in DOMAIN cp.untracked : ~Barred(r.world.tree, q)
                     /\ pc' \in {"parity", "verify"} => Given(cp, r.world)
<1>6. SUFFICES ASSUME Plain
               PROVE  (r.failure # None => r.failure \notin Breaks) /\ stands
  <2>1. None \notin Breaks
    BY ConstantsAssumption DEF Breaks
  <2>2. Plain => ending' \notin Breaks /\ stands
    BY <1>1, <1>2, <1>6, <2>1
  <2> HIDE DEF r
  <2>3. Plain => /\ ending' \notin Breaks
                 /\ pc' \in {"preflight", "reset"} => repo' = before'
                 /\ pc' \in {"staged", "unstaged", "tracked", "sweep", "clear"} => Based(before', repo')
                 /\ pc' = "extract" => \A q \in DOMAIN checkpoint'.untracked : ~Barred(repo'.tree, q)
                 /\ pc' \in {"parity", "verify"} => Given(checkpoint', repo')
    BY <1>1, <2>2
  <2> QED
    BY <1>4, <1>5, <2>3 DEF Unbroken, Based, Barred, Given, EmptyAt
<1>7. /\ Undisturbed /\ B \in Checkouts /\ Vacant(B, C) /\ Yields(cp, B)
      /\ repo.commit = C.commit
  <2>1. Undisturbed /\ B \in Checkouts /\ Vacant(B, C) /\ Yields(cp, B)
    BY <1>6 DEF Plain, Undisturbed, Unbroken
  <2>2. repo.head = C.head
    BY <1>3, <2>1, Fields DEF Undisturbed, RestoreInv, Grounded
  <2> QED
    BY <1>3, <2>1, <2>2 DEF Advances
<1>8. /\ pc \in {"preflight", "reset"} => repo = B
      /\ pc \in {"staged", "unstaged", "tracked", "sweep", "clear"} => Based(B, repo)
      /\ pc = "extract" => \A q \in DOMAIN cp.untracked : ~Barred(repo.tree, q)
      /\ pc \in {"parity", "verify"} => Given(cp, repo)
  BY <1>6 DEF Unbroken
<1>9. /\ pc \in {"sweep", "clear", "extract", "parity", "verify"} => excluded = cp.patterns
      /\ pc = "staged" => Pinned(C, repo)
      /\ pc = "unstaged" => Staged(C, repo)
      /\ pc \in {"tracked", "sweep", "clear", "extract", "parity", "verify"} => Followed(C, repo)
      /\ pc \in {"clear", "extract", "parity", "verify"} => Swept(cp, repo)
  BY <1>7 DEF RestoreInv, Underway
<1> HIDE DEF r
<1>10. CASE pc = "preflight"
  <2>1. r.world = repo /\ r.failure \in {None, "head_mismatch", "exclude_drift"}
    BY <1>10 DEF r, Perform, Preflight, Result
  <2>2. pc' \in {"reset", "receipt"}
    BY <1>2, <1>10, PhaseOrder
  <2> QED
    BY <1>8, <1>10, <2>1, <2>2 DEF Breaks
<1>11. CASE pc = "reset"
  <2>1. r.world = ResetHard(B) /\ r.failure = None
    BY <1>8, <1>11 DEF r, Perform, Fine, Result
  <2>2. pc' = "staged"
    BY <1>2, <1>11, <2>1, PhaseOrder
  <2> QED
    BY <1>7, <2>1, <2>2, ResetBased
<1>12. CASE pc = "staged"
  <2>1. r = Replay(repo, cp.staged, TRUE)
    BY <1>12 DEF r, Perform
  <2>2. r.failure = None
    BY <1>3, <1>7, <1>8, <1>9, <1>12, <2>1, StagedWorks
  <2>3. Based(B, r.world)
    BY <1>3, <1>7, <1>8, <1>9, <1>12, <2>1, <2>2, StagedBased
  <2>4. pc' = "unstaged"
    BY <1>2, <1>12, <2>2, PhaseOrder
  <2> QED
    BY <2>2, <2>3, <2>4
<1>13. CASE pc = "unstaged"
  <2>1. r = Replay(repo, cp.unstaged, FALSE)
    BY <1>13 DEF r, Perform
  <2>2. r.failure = None
    BY <1>3, <1>9, <1>13, <2>1, UnstagedWorks
  <2>3. Based(B, r.world)
    BY <1>3, <1>7, <1>8, <1>9, <1>13, <2>1, <2>2, UnstagedBased
  <2>4. pc' = "tracked"
    BY <1>2, <1>13, <2>2, PhaseOrder
  <2> QED
    BY <2>2, <2>3, <2>4
<1>14. CASE pc = "tracked"
  <2>1. r = RestoreTrackedContent(cp, repo, DOMAIN cp.tracked)
    BY <1>14 DEF r, Perform
  <2>2. r.failure = None /\ Followed(C, r.world)
    BY <1>3, <1>9, <1>14, <2>1, TrackedWorks, TrackedPhase
  <2>3. Based(B, r.world)
    BY <1>3, <1>7, <1>8, <1>9, <1>14, <2>1, TrackedBased
  <2>4. pc' = "sweep"
    BY <1>2, <1>14, <2>2, PhaseOrder
  <2> QED
    BY <2>2, <2>3, <2>4
<1>15. CASE pc = "sweep"
  <2>1. r = DeleteUncaptured(cp, repo, excluded)
    BY <1>15 DEF r, Perform
  <2>2. r.failure = None /\ Followed(C, r.world)
    BY <1>3, <1>9, <1>15, <2>1, SweepPhase
  <2>3. \A p \in Paths : r.world.tree[p] # repo.tree[p] => r.world.tree[p] = Absent
    BY <1>3, <2>1 DEF DeleteUncaptured, Fine, Result, Checkouts
  <2>4. Based(B, r.world)
    BY <1>8, <1>9, <1>15, <2>2, <2>3, FollowedBased, Kinds
  <2>5. pc' = "clear"
    BY <1>2, <1>15, <2>2, PhaseOrder
  <2> QED
    BY <2>2, <2>4, <2>5
<1>16. CASE pc = "clear"
  <2>1. r = Clear(repo, DOMAIN cp.untracked \ excluded)
    BY <1>16 DEF r, Perform
  <2>2. r.failure = None
    BY <1>3, <1>7, <1>8, <1>9, <1>16, <2>1, ClearWorks
  <2>3. DOMAIN cp.untracked \ excluded = DOMAIN cp.untracked
    BY <1>3, <1>9, <1>16, Archives
  <2>4. \A q \in DOMAIN cp.untracked : ~Barred(r.world.tree, q)
    BY <1>3, <2>1, <2>2, <2>3, ClearOpens
  <2>5. pc' = "extract"
    BY <1>2, <1>16, <2>2, PhaseOrder
  <2> QED
    BY <2>2, <2>4, <2>5
<1>17. CASE pc = "extract"
  <2>1. r = ExtractUntracked(cp, repo)
    BY <1>17 DEF r, Perform
  <2>2. r.failure = None
    BY <1>3, <2>1, ExtractPhase
  <2>3. \A q \in DOMAIN cp.untracked : q \in Paths
    BY <1>3, Archives
  <2>4. Given(cp, r.world)
    BY <1>3, <1>8, <1>17, <2>1, <2>3, ExtractGives
  <2>5. pc' = "parity"
    BY <1>2, <1>17, <2>2, PhaseOrder
  <2> QED
    BY <2>2, <2>4, <2>5
<1>18. CASE pc = "parity"
  <2>1. r = VerifyParity(cp, repo)
    BY <1>18 DEF r, Perform
  <2>2. r.failure = None /\ r.world = repo
    BY <1>3, <1>7, <1>9, <1>18, <2>1, ParityWorks DEF VerifyParity, Result
  <2>3. pc' = "verify"
    BY <1>2, <1>18, <2>2, PhaseOrder
  <2> QED
    BY <1>8, <1>18, <2>2, <2>3
<1>19. CASE pc = "verify"
  <2>1. r = VerifyHashes(cp, repo)
    BY <1>19 DEF r, Perform
  <2>2. r.failure = None
    BY <1>3, <1>8, <1>9, <1>19, <2>1, VerifyWorks
  <2>3. pc' = "receipt"
    BY <1>2, <1>19, <2>2, PhaseOrder
  <2> QED
    BY <2>2, <2>3
<1> QED
  BY <1>2, <1>10, <1>11, <1>12, <1>13, <1>14, <1>15, <1>16, <1>17, <1>18, <1>19

LEMMA UnbrokenKept == RestoreInv /\ Unbroken /\ [RestoreNext]_restoreVars => Unbroken'
<1> SUFFICES ASSUME RestoreInv, Unbroken, [RestoreNext]_restoreVars
             PROVE  Unbroken'
  OBVIOUS
<1> DEFINE working == {"plan", "diffs", "snapshot"} \cup Range(Phases)
<1>1. Range(Phases) = {"preflight", "reset", "staged", "unstaged", "tracked", "sweep",
                       "clear", "extract", "parity", "verify"}
  BY PhaseOrder
<1>2. ASSUME before' = None, pc' \in working => ending' = None
      PROVE  Unbroken'
  BY <1>2 DEF Unbroken, Plain, Undisturbed
<1>3. ASSUME before' = before, started' = started, checkpoint' = checkpoint, late' = late,
             pc' \notin Range(Phases), pc' \in working => ending' = None,
             ending' \in Breaks => ending' = ending
      PROVE  Unbroken'
  <2>1. Plain' <=> Plain
    BY <1>3 DEF Plain, Undisturbed, Vacant, Yields, Stays
  <2> QED
    BY <1>1, <1>3, <2>1 DEF Unbroken
<1>4. CASE StartSession \/ EndSession \/ AbandonSession
  <2>1. before' = before /\ before = None /\ pc' \in {"session", "idle"}
    BY <1>4 DEF StartSession, EndSession, AbandonSession, command, RestoreInv, Grounded
  <2> QED
    BY <1>1, <1>2, <2>1
<1>5. ASSUME NEW force \in BOOLEAN, Admit(force)
      PROVE  Unbroken'
  <2>1. before' = None
    BY <1>5 DEF Admit
  <2>2. pc' = "idle" \/ (pc' = "plan" /\ ending' = None)
    BY <1>5 DEF Admit, Stop
  <2> QED
    BY <1>1, <1>2, <2>1, <2>2
<1>6. CASE PlanRestore
  <2>1. /\ before' = before /\ started' = started /\ checkpoint' = checkpoint /\ late' = late
        /\ pc = "plan"
        /\ \/ pc' = "idle" /\ ending' = "plan_failed"
           \/ pc' = "diffs" /\ ending' = ending
    BY <1>6 DEF PlanRestore, Stop, session
  <2> QED
    BY <1>1, <1>3, <2>1 DEF Unbroken, Breaks
<1>7. CASE CaptureDiffs
  <2>1. /\ before' = before /\ started' = started /\ checkpoint' = checkpoint /\ late' = late
        /\ pc = "diffs" /\ pc' = "snapshot" /\ ending' = ending
    BY <1>7 DEF CaptureDiffs, session
  <2> QED
    BY <1>1, <1>3, <2>1 DEF Unbroken
<1>8. CASE CaptureSnapshot
  <2>1. /\ repo' = repo /\ started' = started /\ checkpoint' = checkpoint /\ late' = late
        /\ pc = "snapshot"
        /\ \/ pc' = "snapshot" /\ ending' = ending /\ before' = before
           \/ pc' = "idle" /\ ending' = "no_recovery" /\ before' = before
           \/ pc' = "preflight" /\ ending' = ending /\ before' = repo
    BY <1>8, CaptureStep
  <2>2. ending = None /\ repo \in Checkouts /\ None \notin Breaks
    BY <2>1, ConstantsAssumption DEF Unbroken, RestoreInv, Grounded, Breaks
  <2>3. CASE pc' \in {"snapshot", "idle"}
    BY <1>1, <1>3, <2>1, <2>2, <2>3 DEF Breaks
  <2>4. CASE pc' = "preflight"
    BY <2>1, <2>2, <2>4 DEF Unbroken
  <2> QED
    BY <2>1, <2>3, <2>4
<1>9. CASE Restore
  BY <1>9, UnbrokenStep
<1>10. CASE WriteReceipt
  <2>1. /\ before' = before /\ started' = started /\ checkpoint' = checkpoint /\ late' = late
        /\ pc' = "idle" /\ ending' \in {"succeeded", ending}
    BY <1>10 DEF WriteReceipt, Stop, session, command
  <2> QED
    BY <1>1, <1>3, <2>1 DEF Breaks
<1>11. CASE ProcessDies
  BY <1>1, <1>2, <1>11 DEF ProcessDies, Stop
<1>12. CASE Configure
  <2>1. /\ before' = before /\ started' = started /\ checkpoint' = checkpoint /\ late' = late
        /\ pc' = pc /\ pc \in {"outside", "session", "idle"} /\ ending' = ending
    BY <1>12 DEF Configure, Running, session, command
  <2> QED
    BY <1>1, <1>3, <2>1
<1>13. ASSUME NEW p \in Paths, Work(p)
       PROVE  Unbroken'
  <2>1. /\ before' = before /\ pc' = pc /\ ending' = ending
        /\ late' = IF pc \in {"outside", "session"} THEN {} ELSE late \cup {<<p, Capturing>>}
    BY <1>13 DEF Work, command
  <2>2. ~(late' = {} /\ before' # None)
    BY <2>1 DEF RestoreInv, Grounded
  <2> QED
    BY <2>1, <2>2 DEF Unbroken, Plain, Undisturbed
<1>14. CASE UNCHANGED restoreVars
  BY <1>14 DEF restoreVars, session, command, Unbroken, Plain, Undisturbed, Vacant, Yields,
               Stays, Based, Barred, Given, EmptyAt
<1> QED
  BY <1>4, <1>5, <1>6, <1>7, <1>8, <1>9, <1>10, <1>11, <1>12, <1>13, <1>14
     DEF RestoreNext, Program

(* A rollback over a checkout nobody else touches does not break off after *)
(* its reset, whatever the session did to the tree and the index, unless a *)
(* path that was new in the index, or an untracked file, has been taken.   *)
THEOREM FailuresAreExplained == RestoreSpec => []FailuresExplained
<1>1. RestoreInit => Unbroken
  BY PhaseOrder DEF RestoreInit, Unbroken, Plain, Undisturbed
<1>2. RestoreInv /\ Unbroken => FailuresExplained
  <2> SUFFICES ASSUME RestoreInv, Unbroken, ending \in Breaks, Undisturbed,
                      ~NewPathTaken, ~UntrackedTaken
               PROVE  FALSE
    BY DEF FailuresExplained, Breaks
  <2>1. Vacant(before, started)
    BY DEF NewPathTaken, Vacant
  <2>2. Yields(checkpoint, before)
    BY DEF UntrackedTaken, Yields, Kept, Stays
  <2> QED
    BY <2>1, <2>2 DEF Unbroken, Plain
<1> QED
  BY <1>1, <1>2, RestoreInvariant, UnbrokenKept, PTL DEF RestoreSpec
-----------------------------------------------------------------------------
(* The session's start, put together in a worktree of its own.             *)

(* A run no phase of which fails goes through the worlds it makes.         *)
LEMMA FreshRun ==
  ASSUME NEW cp, NEW w, NEW patterns, NEW allowed, NEW v, v[0] = w,
         \A i \in 1 .. 8 : Perform(FreshPhases[i], cp, v[i - 1], patterns, allowed) = Fine(v[i])
  PROVE  Run(FreshPhases, cp, w, patterns, allowed) = Fine(v[8])
<1> DEFINE then(f, i) == IF i = 0 THEN Fine(w)
                         ELSE IF f[i - 1].failure # None THEN f[i - 1]
                         ELSE Perform(FreshPhases[i], cp, f[i - 1].world, patterns, allowed)
           is(f) == f = [i \in 0 .. Len(FreshPhases) |-> then(f, i)]
           f == CHOOSE f : is(f)
           g == [i \in 0 .. 8 |-> Fine(v[i])]
<1>1. Len(FreshPhases) = 8
  BY DEF FreshPhases
<1>2. \A x : Fine(x).failure = None /\ Fine(x).world = x
  BY DEF Fine, Result
<1>3. is(g)
  <2>1. ASSUME NEW i \in 0 .. 8 PROVE g[i] = then(g, i)
    <3>1. CASE i = 0
      BY <3>1
    <3>2. CASE i # 0
      <4>1. i \in 1 .. 8 /\ i - 1 \in 0 .. 8
        BY <3>2
      <4>2. g[i - 1] = Fine(v[i - 1]) /\ g[i] = Fine(v[i])
        BY <4>1
      <4> QED
        BY <1>2, <3>2, <4>1, <4>2
    <3> QED
      BY <3>1, <3>2
  <2> HIDE DEF then
  <2> QED
    BY <1>1, <2>1
<1>4. is(f)
  BY <1>3
<1>5. Run(FreshPhases, cp, w, patterns, allowed) = f[8]
  BY <1>1 DEF Run
<1>6. \A i \in 0 .. 8 : f[i] = then(f, i)
  BY <1>1, <1>4
<1> HIDE DEF f, is
<1>7. f[0] = Fine(v[0])
  BY <1>6
<1>8. ASSUME NEW i \in 1 .. 8, f[i - 1] = Fine(v[i - 1])
      PROVE  f[i] = Fine(v[i])
  <2>1. i \in 0 .. 8 /\ i # 0
    OBVIOUS
  <2> QED
    BY <1>2, <1>6, <1>8, <2>1
<1>9. f[1] = Fine(v[1]) /\ f[2] = Fine(v[2])
  BY <1>7, <1>8
<1>10. f[3] = Fine(v[3]) /\ f[4] = Fine(v[4])
  BY <1>8, <1>9
<1>11. f[5] = Fine(v[5]) /\ f[6] = Fine(v[6])
  BY <1>8, <1>10
<1>12. f[7] = Fine(v[7]) /\ f[8] = Fine(v[8])
  BY <1>8, <1>11
<1> QED
  BY <1>5, <1>12

(* The commit checked out over nothing is a reset of nothing.              *)
LEMMA FreshReset ==
  ASSUME NEW C \in Checkouts
  PROVE  LET B == [head |-> C.head, commit |-> C.commit, index |-> C.commit, tree |-> Nothing]
         IN B \in Checkouts /\ Fresh(C) = ResetHard(B)
<1> DEFINE B == [head |-> C.head, commit |-> C.commit, index |-> C.commit, tree |-> Nothing]
           dropped == {p \in Occupied(B.index) \ Occupied(B.commit) : B.tree[p] # Directory}
<1>1. Nothing \in Trees
  BY Kinds DEF Nothing, Trees, Solid
<1>2. B \in Checkouts
  BY <1>1 DEF Checkouts
<1>3. dropped = {}
  OBVIOUS
<1>4. Removed(Nothing, {}) = Nothing
  <2>1. Removed(Nothing, {}) \in Trees /\ \A q \in Paths : Removed(Nothing, {})[q] \in {Nothing[q], Absent}
    BY <1>1, RemovedTree
  <2> QED
    BY <2>1 DEF Nothing, Trees
<1>5. ResetHard(B) = [B EXCEPT !.index = B.commit,
                               !.tree = Written(Nothing, C.commit, Occupied(C.commit))]
  BY <1>3, <1>4 DEF ResetHard
<1>6. ResetHard(B) = [head |-> C.head, commit |-> C.commit, index |-> C.commit,
                      tree |-> Written(Nothing, C.commit, Occupied(C.commit))]
  BY <1>5
<1> QED
  BY <1>2, <1>6 DEF Fresh

(* Nothing is written over what already stands.                            *)
LEMMA NothingDrifts ==
  ASSUME NEW cp, NEW C, Captured(cp, C), NEW w \in Checkouts, Followed(C, w)
  PROVE  /\ Inaccessible(w.tree, DOMAIN cp.tracked) = {}
         /\ RestoreTrackedContent(cp, w, Drifted(w, cp.tracked)) = Fine(w)
<1>1. Inaccessible(w.tree, DOMAIN cp.tracked) = {}
  BY TrackedStand, Kinds DEF Inaccessible, Leaves
<1>2. Drifted(w, cp.tracked) = {}
  BY TrackedStand DEF Drifted
<1> DEFINE c == ClearConflicts(w.tree, {})
           T == Written(c.tree, cp.tracked, {})
<1>3. w.tree \in Trees /\ w.tree \in [Paths -> Nodes]
  BY DEF Checkouts, Trees
<1>4. c.failure = None /\ \A q \in Paths : c.tree[q] = w.tree[q]
  BY DEF ClearConflicts, Above, Inaccessible
<1> HIDE DEF c
<1>5. T = w.tree
  <2>1. T = [q \in Paths |-> c.tree[q]]
    BY DEF Written, Above
  <2> QED
    BY <1>3, <1>4, <2>1
<1>6. RestoreTrackedContent(cp, w, {}) = [world |-> [w EXCEPT !.tree = T], failure |-> None]
  BY <1>4 DEF RestoreTrackedContent, Result, c
<1> HIDE DEF T
<1>7. [w EXCEPT !.tree = T] = w
  BY <1>5 DEF Checkouts
<1> QED
  BY <1>1, <1>2, <1>6, <1>7 DEF Fine, Result

(* Every file there is known to git or to the checkpoint.                  *)
Sound(cp, w) ==
  \A q \in Paths : w.tree[q] \in Leaves /\ w.index[q] = Absent => q \in DOMAIN cp.untracked

LEMMA SoundSurface ==
  ASSUME NEW cp, NEW C, Captured(cp, C), NEW w, Sound(cp, w)
  PROVE  Surface(w, {}) = Surface(w, cp.patterns)
<1>1. Untracked(w) \ {} = Untracked(w) \ cp.patterns
  BY Archives DEF Sound, Untracked
<1> QED
  BY <1>1 DEF Surface

LEMMA Materializes ==
  ASSUME NEW cp, NEW C, Captured(cp, C)
  PROVE  LET r == Materialized(cp, C)
         IN r.failure = None /\ Surface(r.world, {}) = Surface(C, cp.patterns)
<1> DEFINE B == [head |-> C.head, commit |-> C.commit, index |-> C.commit, tree |-> Nothing]
           w1 == Fresh(C)
           anyway == FALSE
           w2 == Replay(w1, cp.staged, TRUE).world
           w3 == Replay(w2, cp.unstaged, FALSE).world
           w4 == Clear(w3, DOMAIN cp.untracked \ cp.patterns).world
           w5 == ExtractUntracked(cp, w4).world
           v == [i \in 0 .. 8 |-> CASE i \in {0, 1} -> w1 [] i = 2 -> w2 [] i \in {3, 4} -> w3
                                    [] i = 5 -> w4 [] OTHER -> w5]
<1>1. C \in Checkouts /\ B \in Checkouts /\ w1 = ResetHard(B)
  BY FreshReset DEF Captured
<1>2. /\ \A q \in Paths : B.tree[q] = Absent
      /\ Absent \notin Leaves /\ Absent # Directory /\ Absent \notin Links /\ Absent \notin Files
  BY Kinds DEF Nothing, Leaves
<1> HIDE DEF w1, anyway
<1>3. Vacant(B, C) /\ Yields(cp, B)
  <2>1. \A p \in Paths : \A q \in {p} \cup Related(p) \cup Below(p) \cup Ancestors(p) : q \in Paths
    BY BelowIs, Shorter DEF Related
  <2>2. Occupied(C.index) \subseteq Paths /\ DOMAIN cp.untracked \subseteq Paths
    BY Archives DEF Occupied
  <2> QED
    BY <1>2, <2>1, <2>2 DEF Vacant, Yields, Stays
<1>4. /\ w1 \in Checkouts /\ w1.head = C.head /\ w1.commit = C.commit
      /\ Pinned(C, w1) /\ Based(B, w1)
  BY <1>1, ResetKeeps, ResetBased DEF Pinned, Fits
<1> HIDE DEF B
<1>5. Replay(w1, cp.staged, TRUE).failure = None
  BY <1>1, <1>3, <1>4, StagedWorks
<1>6. w2 \in Checkouts /\ w2.head = C.head /\ w2.commit = C.commit /\ Staged(C, w2) /\ Based(B, w2)
  BY <1>1, <1>4, <1>5, StagedPhase, StagedBased DEF Keeps
<1> HIDE DEF w2
<1>7. Replay(w2, cp.unstaged, FALSE).failure = None
  BY <1>6, UnstagedWorks
<1>8. w3 \in Checkouts /\ w3.head = C.head /\ w3.commit = C.commit /\ Followed(C, w3) /\ Based(B, w3)
  BY <1>1, <1>6, <1>7, UnstagedPhase, UnstagedBased DEF Keeps
<1> HIDE DEF w3
<1>9. \A q \in Paths : w3.tree[q] \in Leaves => w3.index[q] # Absent
  BY <1>2, <1>8 DEF Based
<1>10. Swept(cp, w3)
  BY <1>9 DEF Swept, Untracked
<1>11. Clear(w3, DOMAIN cp.untracked \ cp.patterns).failure = None
  BY <1>1, <1>3, <1>8, <1>10, ClearWorks
<1>12. w4 \in Checkouts /\ w4.head = C.head /\ w4.commit = C.commit /\ Followed(C, w4) /\ Swept(cp, w4)
  <2>1. LET r == Clear(w3, DOMAIN cp.untracked \ cp.patterns)
        IN /\ Keeps(w3, r.world)
           /\ Followed(C, w3) => Followed(C, r.world)
           /\ Swept(cp, w3) => Swept(cp, r.world)
    BY <1>8, ClearPhase
  <2>2. Keeps(w3, w4) /\ Followed(C, w4) /\ Swept(cp, w4)
    BY <1>8, <1>10, <2>1
  <2> HIDE DEF w4
  <2> QED
    BY <1>8, <2>2 DEF Keeps
<1>13. DOMAIN cp.untracked \ cp.patterns = DOMAIN cp.untracked
  BY Archives
<1>14. \A q \in DOMAIN cp.untracked : q \in Paths /\ ~Barred(w4.tree, q)
  BY <1>8, <1>11, <1>13, ClearOpens, Archives
<1>15. Sound(cp, w4)
  <2>1. w4.tree = ClearConflicts(w3.tree, DOMAIN cp.untracked \ cp.patterns).tree
    BY <1>8 DEF Clear, Result, Checkouts
  <2>2. \A q \in Paths : w4.tree[q] \in {w3.tree[q], Absent}
    BY <1>8, <1>13, <2>1, ClearedTree, Archives DEF Checkouts
  <2>3. w4.index = w3.index
    BY <1>8, <1>12 DEF Followed
  <2> QED
    BY <1>2, <1>9, <2>2, <2>3 DEF Sound
<1> HIDE DEF w4
<1>16. /\ w5 \in Checkouts /\ w5.head = C.head /\ w5.commit = C.commit
       /\ Followed(C, w5) /\ Swept(cp, w5) /\ Given(cp, w5)
  BY <1>12, <1>14, ExtractPhase, ExtractGives DEF Keeps
<1>17. Sound(cp, w5)
  <2>1. PICK out \in SUBSET DOMAIN cp.untracked : w5.tree = Written(w4.tree, cp.untracked, out)
    BY <1>12 DEF ExtractUntracked, Fine, Result, Checkouts
  <2>2. w5.index = w4.index
    BY <1>12, <1>16 DEF Followed
  <2>3. ASSUME NEW q \in Paths, w5.tree[q] \in Leaves, q \notin DOMAIN cp.untracked
        PROVE  w4.tree[q] \in Leaves
    BY <2>1, <2>3, Kinds DEF Written
  <2> QED
    BY <1>15, <2>2, <2>3 DEF Sound
<1>18. /\ ExtractUntracked(cp, w4).failure = None
       /\ VerifyParity(cp, w5).failure = None /\ VerifyHashes(cp, w5).failure = None
  BY <1>12, <1>16, ExtractPhase, ParityWorks, VerifyWorks
<1>19. /\ Preflight(cp, w1, cp.patterns, anyway) = Fine(w1)
       /\ Replay(w1, cp.staged, TRUE) = Fine(w2)
       /\ Replay(w2, cp.unstaged, FALSE) = Fine(w3)
       /\ RestoreTrackedContent(cp, w3, Drifted(w3, cp.tracked)) = Fine(w3)
       /\ Inaccessible(w3.tree, DOMAIN cp.tracked) = {}
       /\ Clear(w3, DOMAIN cp.untracked \ cp.patterns) = Fine(w4)
       /\ ExtractUntracked(cp, w4) = Fine(w5)
       /\ VerifyParity(cp, w5) = Fine(w5)
       /\ VerifyHashes(cp, w5) = Fine(w5)
  <2>1. Preflight(cp, w1, cp.patterns, anyway) = Fine(w1)
    BY <1>4, Fields DEF Preflight, Fine, Result, anyway
  <2>2. Replay(w1, cp.staged, TRUE) = Fine(w2)
    BY <1>5 DEF Replay, Fine, Result, w2
  <2>3. Replay(w2, cp.unstaged, FALSE) = Fine(w3)
    BY <1>7 DEF Replay, Fine, Result, w3
  <2>4. Clear(w3, DOMAIN cp.untracked \ cp.patterns) = Fine(w4)
    BY <1>11 DEF Clear, Fine, Result, w4
  <2>5. ExtractUntracked(cp, w4) = Fine(w5)
    BY <1>18 DEF ExtractUntracked, Fine, Result
  <2>6. VerifyParity(cp, w5) = Fine(w5) /\ VerifyHashes(cp, w5) = Fine(w5)
    BY <1>18 DEF VerifyParity, VerifyHashes, Fine, Result
  <2> QED
    BY <1>8, <2>1, <2>2, <2>3, <2>4, <2>5, <2>6, NothingDrifts
<1> HIDE DEF w5
<1>20. \A i \in 1 .. 8 : Perform(FreshPhases[i], cp, v[i - 1], cp.patterns, anyway) = Fine(v[i])
  <2>1. /\ v[0] = w1 /\ v[1] = w1 /\ v[2] = w2 /\ v[3] = w3 /\ v[4] = w3 /\ v[5] = w4
        /\ v[6] = w5 /\ v[7] = w5 /\ v[8] = w5
    OBVIOUS
  <2> HIDE DEF v
  <2>2. /\ Perform(FreshPhases[1], cp, w1, cp.patterns, anyway) = Fine(w1)
        /\ Perform(FreshPhases[2], cp, w1, cp.patterns, anyway) = Fine(w2)
        /\ Perform(FreshPhases[3], cp, w2, cp.patterns, anyway) = Fine(w3)
        /\ Perform(FreshPhases[4], cp, w3, cp.patterns, anyway) = Fine(w3)
    BY <1>19 DEF Perform, FreshPhases
  <2>3. /\ Perform(FreshPhases[5], cp, w3, cp.patterns, anyway) = Fine(w4)
        /\ Perform(FreshPhases[6], cp, w4, cp.patterns, anyway) = Fine(w5)
        /\ Perform(FreshPhases[7], cp, w5, cp.patterns, anyway) = Fine(w5)
        /\ Perform(FreshPhases[8], cp, w5, cp.patterns, anyway) = Fine(w5)
    BY <1>19 DEF Perform, FreshPhases
  <2>4. ASSUME NEW i \in 1 .. 8
        PROVE  Perform(FreshPhases[i], cp, v[i - 1], cp.patterns, anyway) = Fine(v[i])
    <3>1. i \in {1, 2, 3, 4, 5, 6, 7, 8}
      OBVIOUS
    <3> QED
      BY <2>1, <2>2, <2>3, <3>1
  <2> QED
    BY <2>4
<1>21. v[0] = w1 /\ v[8] = w5
  OBVIOUS
<1> HIDE DEF v
<1>22. Materialized(cp, C) = Fine(w5)
  <2>1. Run(FreshPhases, cp, w1, cp.patterns, anyway) = Fine(v[8])
    BY <1>20, <1>21, FreshRun
  <2> QED
    BY <1>21, <2>1 DEF Materialized, w1, anyway
<1>23. Surface(w5, {}) = Surface(C, cp.patterns)
  BY <1>16, <1>17, SoundSurface, Resurfaced
<1> QED
  BY <1>22, <1>23 DEF Fine, Result

(* What later steps take for the session's start is the session's start.   *)
THEOREM OracleRestores == RestoreSpec => []OracleIsCheckpoint
<1>1. RestoreInv => OracleIsCheckpoint
  BY Materializes DEF RestoreInv, Grounded, OracleIsCheckpoint
<1> QED
  BY <1>1, RestoreInvariant, PTL
=============================================================================

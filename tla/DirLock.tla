------------------------------ MODULE DirLock ------------------------------
(***************************************************************************)
(* withExclusiveLock of cli-commands/src/locks.ts: a critical section      *)
(* guarded by an atomic mkdir of a lock directory.  It never waits: a      *)
(* contender that finds the directory is refused at once.  There is no     *)
(* stale-lock recovery; a directory left by a crash, or by a release that  *)
(* failed, stays until an operator deletes it by hand.                     *)
(*                                                                         *)
(* start.lock, rollback.lock and checkpoint-name.lock are instances of it. *)
(***************************************************************************)
EXTENDS Naturals

CONSTANTS Procs,   \* invocations of the program
          NoProc   \* "lock metadata unavailable"

ASSUME NoProcAssumption == NoProc \notin Procs

VARIABLES dir,     \* the lock directory exists
          meta,    \* the process lock.json names, or NoProc
          stage,   \* stage[p]: where p's call stands
          info     \* info[p]: the holder p's refusal named, or NoProc

vars == <<dir, meta, stage, info>>

(* "inside" runs fn, "threw" and "returned" have still to remove the      *)
(* directory, "refused" holds a ConcurrentOperationError.                  *)
Stages == {"idle", "inside", "threw", "returned", "refused"}

Holding == {"inside", "threw", "returned"}

TypeOK == /\ dir \in BOOLEAN
          /\ meta \in Procs \cup {NoProc}
          /\ stage \in [Procs -> Stages]
          /\ info \in [Procs -> Procs \cup {NoProc}]

Init == /\ dir = FALSE
        /\ meta = NoProc
        /\ stage = [p \in Procs |-> "idle"]
        /\ info = [p \in Procs |-> NoProc]

-----------------------------------------------------------------------------
(* Faults: each is an operation below with one plausible bug in it; the    *)
(* properties at the end must catch it.                                    *)

(* mkdir with recursive: true, which succeeds on an existing directory.    *)
AcquireRecursive(p) == /\ stage[p] = "idle"
                       /\ dir' = TRUE
                       /\ meta' \in {p, NoProc}
                       /\ stage' = [stage EXCEPT ![p] = "inside"]
                       /\ UNCHANGED info

(* lock.json written before the outcome of mkdir is known.                 *)
RefuseOverwrites(p) == /\ stage[p] = "idle"
                       /\ dir
                       /\ stage' = [stage EXCEPT ![p] = "refused"]
                       /\ info' = [info EXCEPT ![p] = meta]
                       /\ meta' = p
                       /\ UNCHANGED dir

(* The refused contender runs the release of a finally block.              *)
DismissRemoves(p) == /\ stage[p] = "refused"
                     /\ dir' = FALSE
                     /\ meta' = NoProc
                     /\ stage' = [stage EXCEPT ![p] = "idle"]
                     /\ info' = [info EXCEPT ![p] = NoProc]

-----------------------------------------------------------------------------
(* mkdir succeeds; writing lock.json is best effort.                       *)
Acquire(p) == /\ stage[p] = "idle"
              /\ ~dir
              /\ dir' = TRUE
              /\ meta' \in {p, NoProc}
              /\ stage' = [stage EXCEPT ![p] = "inside"]
              /\ UNCHANGED info

(* mkdir answers EEXIST: refuse, naming whom lock.json names.              *)
Refuse(p) == /\ stage[p] = "idle"
             /\ dir
             /\ stage' = [stage EXCEPT ![p] = "refused"]
             /\ info' = [info EXCEPT ![p] = meta]
             /\ UNCHANGED <<dir, meta>>

(* The caller reports the refusal and exits.                               *)
Dismiss(p) == /\ stage[p] = "refused"
              /\ stage' = [stage EXCEPT ![p] = "idle"]
              /\ info' = [info EXCEPT ![p] = NoProc]
              /\ UNCHANGED <<dir, meta>>

Settle(p) == /\ stage[p] = "inside"
             /\ \E s \in {"threw", "returned"} :
                     stage' = [stage EXCEPT ![p] = s]
             /\ UNCHANGED <<dir, meta, info>>

Release(p) == /\ stage[p] \in {"threw", "returned"}
              /\ dir' = FALSE
              /\ meta' = NoProc
              /\ stage' = [stage EXCEPT ![p] = "idle"]
              /\ UNCHANGED info

(* rm failed: swallowed after a throw, propagated after a return; either   *)
(* way the call is over and the directory is still there, with or without  *)
(* its lock.json (rm is recursive and may stop half way).                  *)
ReleaseFails(p) == /\ stage[p] \in {"threw", "returned"}
                   /\ meta' \in {meta, NoProc}
                   /\ stage' = [stage EXCEPT ![p] = "idle"]
                   /\ UNCHANGED <<dir, info>>

(* The process dies; nothing it made is removed.                           *)
Crash(p) == /\ stage[p] \in Holding
            /\ stage' = [stage EXCEPT ![p] = "idle"]
            /\ UNCHANGED <<dir, meta, info>>

(* The manual removal the refusal message asks for: "if you're sure that   *)
(* command isn't running anymore".                                         *)
RemoveStale == /\ dir
               /\ \A p \in Procs : stage[p] \notin Holding
               /\ dir' = FALSE
               /\ meta' = NoProc
               /\ UNCHANGED <<stage, info>>

Next == \/ \E p \in Procs : \/ Acquire(p) \/ Refuse(p) \/ Dismiss(p)
                            \/ Settle(p) \/ Release(p) \/ ReleaseFails(p)
                            \/ Crash(p)
        \/ RemoveStale

Spec == Init /\ [][Next]_vars

-----------------------------------------------------------------------------
(* No two invocations are ever inside the critical section together.       *)
MutualExclusion ==
    \A p, q \in Procs : stage[p] \in Holding /\ stage[q] \in Holding => p = q

(* Whoever is inside is backed by the directory, so nobody can acquire.    *)
HolderHasDir == \A p \in Procs : stage[p] \in Holding => dir

(* lock.json, when it is readable while somebody is inside, names that     *)
(* very process: a refusal never blames an earlier holder for a lock       *)
(* another one has.                                                        *)
MetaNamesHolder ==
    \A p \in Procs : stage[p] \in Holding => meta \in {p, NoProc}

(* The directory of a process that is inside disappears only in that       *)
(* process's own release: neither a refused contender nor a manual         *)
(* clean-up takes a lock away from a running holder (locks.ts removes the  *)
(* directory only on the path that made it).                               *)
OnlyHolderReleases ==
    [][\A p \in Procs : stage[p] \in Holding /\ ~dir' =>
            stage[p] \in {"threw", "returned"} /\ stage'[p] = "idle"]_vars

=============================================================================

-------------------------- MODULE RollbackJournal ---------------------------
(***************************************************************************)
(* What the rollback history of one session promises, with every apply     *)
(* reduced to the records it leaves: a selective apply is authorized, then *)
(* finalized once, and a whole-session apply happens at most once.  An     *)
(* apply that did not succeed closes the history: nothing is authorized    *)
(* after it.  SelectiveRollback implements it.                             *)
(***************************************************************************)
CONSTANT Ids    \* rollback ids

VARIABLES journal,  \* journal[i]: "none", "authorized", "succeeded" or "failed"
          full      \* the session has a whole-session apply receipt

vars == <<journal, full>>

TypeOK == /\ journal \in [Ids -> {"none", "authorized", "succeeded", "failed"}]
          /\ full \in BOOLEAN

Init == /\ journal = [i \in Ids |-> "none"]
        /\ full = FALSE

(* Mutation by i may start: every earlier apply succeeded, none was whole. *)
Authorize(i) == /\ ~full
                /\ journal[i] = "none"
                /\ \A j \in Ids : journal[j] \in {"none", "succeeded"}
                /\ journal' = [journal EXCEPT ![i] = "authorized"]
                /\ UNCHANGED full

Finalize(i) == /\ journal[i] = "authorized"
               /\ \E result \in {"succeeded", "failed"} :
                      journal' = [journal EXCEPT ![i] = result]
               /\ UNCHANGED full

ApplyFull == /\ ~full
             /\ \A i \in Ids : journal[i] = "none"
             /\ full' = TRUE
             /\ UNCHANGED journal

Next == ApplyFull \/ \E i \in Ids : Authorize(i) \/ Finalize(i)

Spec == Init /\ [][Next]_vars
=============================================================================

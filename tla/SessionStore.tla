---------------------------- MODULE SessionStore ----------------------------
(***************************************************************************)
(* What the session store promises, with start and end as single steps:    *)
(* at most one session is active, a session leaves the active position     *)
(* only once it has ended, and an ended session never opens again.         *)
(* SessionLifecycle, which writes one file at a time and may stop between  *)
(* any two of them, implements it.                                         *)
(***************************************************************************)
CONSTANTS Sessions, NoSession

VARIABLES phase,    \* phase[s]: "absent", "open" or "ended"
          active    \* the session active-session.json names, or NoSession

vars == <<phase, active>>

TypeOK == /\ phase \in [Sessions -> {"absent", "open", "ended"}]
          /\ active \in Sessions \cup {NoSession}

Init == /\ phase = [s \in Sessions |-> "absent"]
        /\ active = NoSession

(* The session directory appears, complete.                                *)
Publish(s) == /\ phase[s] = "absent"
              /\ active = NoSession
              /\ phase' = [phase EXCEPT ![s] = "open"]
              /\ UNCHANGED active

Activate(s) == /\ active = NoSession
               /\ phase[s] = "open"
               /\ active' = s
               /\ UNCHANGED phase

End(s) == /\ active = s
          /\ phase[s] = "open"
          /\ phase' = [phase EXCEPT ![s] = "ended"]
          /\ UNCHANGED active

Deactivate(s) == /\ active = s
                 /\ phase[s] = "ended"
                 /\ active' = NoSession
                 /\ UNCHANGED phase

Next == \E s \in Sessions : Publish(s) \/ Activate(s) \/ End(s) \/ Deactivate(s)

Spec == Init /\ [][Next]_vars
=============================================================================

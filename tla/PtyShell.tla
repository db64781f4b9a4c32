------------------------------ MODULE PtyShell ------------------------------
(***************************************************************************)
(* One run of `viberevert shell --pty` (runPtyShell and the session        *)
(* adapter of cli-commands/src/commands/shell-pty.ts, with the steps of    *)
(* pty-interception-installer.ts) over its interception channel: open the  *)
(* session, install the interception, spawn the shell behind the terminal  *)
(* bridge, and undo it all in the reverse order.  Another terminal may end *)
(* the session, or start one of its own, at any moment.                    *)
(***************************************************************************)
EXTENDS Interception

VARIABLES
  run,     \* where runPtyShell stands
  failed,  \* some step has failed: the exit code is 1
  child,   \* the guarded bash
  bridge,  \* the terminal bridge
  raw      \* the terminal is in raw mode

shell == <<run, failed, child, bridge, raw>>
vars == <<interception, shell>>

Steps == {"preparing", "opening", "nonce", "channel", "hook", "service",
          "materialize", "handle", "spawning", "attaching", "driving",
          "disposing", "unbinding", "cleaning", "closing", "ending", "exited"}

TypeOK ==
  /\ hook \in [Requests -> {"new", "asking", "ran", "blocked"}]
  /\ kind \in [Requests -> Kinds \cup {"unsent"}]
  /\ socket \in [Requests -> {"none", "open", "destroyed", "closed"}]
  /\ inbox \in [Requests -> {"empty", "frame", "closed"}]
  /\ reply \in [Requests -> {"none", "allow", "block"}]
  /\ transport \in {"unbound", "listening", "closed"}
  /\ pending \in Seq(Requests)
  /\ loop \in {"idle", "accepting", "handed", "reading", "delivered", "owning",
               "recording", "gated", "answered", "done"}
  /\ active \in Requests \cup {None}
  /\ active = None <=> loop \in {"idle", "accepting", "done"}
  /\ read \in {"none", "frame", "nothing"}
  /\ cleared \in BOOLEAN
  /\ stopped \in BOOLEAN
  /\ stopping \in {"no", "closing", "waiting", "ended"}
  /\ lock \in {"none", "ours", "other"}
  /\ log \in Seq(Requests)
  /\ failures \in SUBSET Requests
  /\ run \in Steps
  /\ failed \in BOOLEAN
  /\ child \in {"none", "alive", "gone"}
  /\ bridge \in {"none", "attached", "disposed"}
  /\ raw \in BOOLEAN

Init ==
  /\ hook = [r \in Requests |-> "new"]
  /\ kind = [r \in Requests |-> "unsent"]
  /\ socket = [r \in Requests |-> "none"]
  /\ inbox = [r \in Requests |-> "empty"]
  /\ reply = [r \in Requests |-> "none"]
  /\ transport = "unbound"
  /\ pending = <<>>
  /\ loop = "idle"
  /\ active = None
  /\ read = "none"
  /\ cleared = FALSE
  /\ stopped = FALSE
  /\ stopping = "no"
  /\ lock \in {"none", "other"}
  /\ log = <<>>
  /\ failures = {}
  /\ run = "preparing"
  /\ failed = FALSE
  /\ child = "none"
  /\ bridge = "none"
  /\ raw = FALSE

-----------------------------------------------------------------------------
(***************************************************************************)
(* runPtyShell up to the spawn.                                            *)
(***************************************************************************)

Fail(step) == run' = step /\ failed' = TRUE

Quiet == UNCHANGED <<child, bridge, raw>>

\* evaluatePtyPreconditions refuses, or goes on.
Prepare ==
  /\ run = "preparing"
  /\ \/ run' = "opening" /\ UNCHANGED failed
     \/ Fail("exited")
  /\ Quiet
  /\ UNCHANGED interception

\* open(): the session starts, unless one is active or the start is refused.
OpenSession ==
  /\ run = "opening"
  /\ \/ /\ lock = "none"
        /\ lock' = "ours"
        /\ run' = "nonce"
        /\ UNCHANGED failed
     \/ /\ Fail("exited")
        /\ UNCHANGED lock
  /\ Quiet
  /\ UNCHANGED <<channel, service, log, failures>>

\* The steps of the install that start nothing: the nonce, the hook's text,
\* its rc file and the handle.  A failed install disposes of what it has.
InstallPure ==
  /\ \/ run = "nonce" /\ run' = "channel" /\ UNCHANGED failed
     \/ run = "hook" /\ run' = "service" /\ UNCHANGED failed
     \/ run = "materialize" /\ run' = "handle" /\ UNCHANGED failed
     \/ run = "handle" /\ run' = "spawning" /\ UNCHANGED failed
     \/ run \in {"nonce", "hook", "materialize", "handle"} /\ Fail("disposing")
  /\ Quiet
  /\ UNCHANGED interception

\* createTransport binds the listener; it may fail before or after.
InstallChannel ==
  /\ run = "channel"
  /\ \/ run' = "hook" /\ transport' = "listening" /\ UNCHANGED failed
     \/ Fail("disposing") /\ transport' \in {"unbound", "listening"}
  /\ Quiet
  /\ UNCHANGED <<hook, kind, socket, inbox, reply, pending, service, session>>

\* createService: the accept loop starts with it.
InstallService ==
  /\ run = "service"
  /\ \/ /\ Accept
        /\ run' = "materialize"
        /\ UNCHANGED failed
     \/ /\ Fail("disposing")
        /\ UNCHANGED <<loop, active, pending>>
  /\ Quiet
  /\ UNCHANGED <<hook, kind, socket, inbox, reply, transport, read, cleared,
                 stopped, stopping, session>>

-----------------------------------------------------------------------------
(***************************************************************************)
(* drivePty and the terminal bridge.                                       *)
(***************************************************************************)

Spawn ==
  /\ run = "spawning"
  /\ \/ child' = "alive" /\ run' = "attaching" /\ UNCHANGED failed
     \/ Fail("disposing") /\ UNCHANGED child
  /\ UNCHANGED <<interception, bridge, raw>>

\* disposeBridge: the terminal is restored first, a living child killed last;
\* each may throw, which is remembered and stops nothing.  A killed child is
\* there until it exits.
\* Fault: errors of the teardown are not remembered.
DisposeBridgeForgetting(cause) ==
  /\ bridge' = "disposed"
  /\ raw' \in {FALSE, raw}
  /\ failed' = (failed \/ cause)

DisposeBridge(cause) ==
  /\ bridge' = "disposed"
  /\ raw' \in {FALSE, raw}
  /\ failed' \in {failed \/ cause \/ raw', TRUE}

\* attachTerminalBridge; a failed attach is rolled back.
Attach ==
  /\ run = "attaching"
  /\ \/ /\ bridge' = "attached"
        /\ raw' = TRUE
        /\ run' = "driving"
        /\ UNCHANGED failed
     \/ /\ bridge' = "disposed"
        /\ raw' \in BOOLEAN
        /\ Fail("disposing")
  /\ UNCHANGED <<interception, child>>

\* onExit: the bridge disposes of itself.
ChildExits ==
  /\ child = "alive"
  /\ child' = "gone"
  /\ IF bridge = "attached" THEN DisposeBridge(FALSE)
     ELSE UNCHANGED <<bridge, raw, failed>>
  /\ UNCHANGED <<interception, run>>

\* A stream handler throws: failBridge.
HandlerFails ==
  /\ bridge = "attached"
  /\ DisposeBridge(TRUE)
  /\ UNCHANGED <<interception, run, child>>

\* SIGTERM or SIGHUP while the shell is driven.
SignalArrives ==
  /\ run = "driving"
  /\ IF bridge = "attached" THEN DisposeBridge(TRUE)
     ELSE failed' = TRUE /\ UNCHANGED <<bridge, raw>>
  /\ UNCHANGED <<interception, run, child>>

\* waitForExit() has settled and drivePty returns.
DriveEnds ==
  /\ run = "driving"
  /\ bridge = "disposed"
  /\ run' = "disposing"
  /\ Quiet
  /\ UNCHANGED <<interception, failed>>

-----------------------------------------------------------------------------
(***************************************************************************)
(* dispose() of the interception: stop the service, close the transport,   *)
(* remove the rc file.                                                     *)
(***************************************************************************)
HasService == loop # "idle"

DisposeService ==
  /\ run = "disposing"
  /\ \/ /\ HasService
        /\ StopBegins
        /\ UNCHANGED shell
     \/ /\ stopping = "ended" \/ ~HasService
        /\ run' = "unbinding"
        /\ Quiet
        /\ UNCHANGED <<interception, failed>>

DisposeTransport ==
  /\ run = "unbinding"
  /\ Quiet
  /\ UNCHANGED <<failed>>
  /\ \/ /\ transport = "listening"
        /\ Shutdown
        /\ UNCHANGED <<hook, kind, inbox, reply, active, read, cleared,
                       stopped, stopping, session, run>>
     \/ /\ transport = "unbound" \/ (transport = "closed" /\ ListenerClosed)
        /\ run' = "cleaning"
        /\ UNCHANGED interception

DisposeFile ==
  /\ run = "cleaning"
  /\ run' = "closing"
  /\ Quiet
  /\ UNCHANGED <<interception, failed>>

-----------------------------------------------------------------------------
(***************************************************************************)
(* close() of the session adapter: only our own session is ended, judged   *)
(* by the lock as it is read first.                                        *)
(***************************************************************************)
CloseSession ==
  /\ run = "closing"
  /\ \/ lock = "none" /\ run' = "exited" /\ UNCHANGED failed
     \/ lock = "other" /\ Fail("exited")
     \/ lock = "ours" /\ run' = "ending" /\ UNCHANGED failed
     \/ Fail("exited")  \* the lock cannot be read
  /\ Quiet
  /\ UNCHANGED interception

\* endSessionOperation ends whatever session is active by then.
EndSession ==
  /\ run = "ending"
  /\ \/ lock' = "none" /\ run' = "exited" /\ UNCHANGED failed
     \/ UNCHANGED lock /\ Fail("exited")
  /\ Quiet
  /\ UNCHANGED <<channel, service, log, failures>>

\* Another terminal ends the session, or starts one.
OtherTerminal ==
  /\ lock' = IF lock = "none" THEN "other" ELSE "none"
  /\ UNCHANGED <<channel, service, log, failures, shell>>

-----------------------------------------------------------------------------
\* A command of the guarded shell, or of a job it left behind; a shell of
\* earlier days may find the port as soon as it is bound.
Command(r, k) ==
  /\ child # "none" \/ k = "foreign"
  /\ Ask(r, k)
  /\ UNCHANGED shell

Channel(r) ==
  /\ \/ LineArrives(r)
     \/ SocketCloses(r)
     \/ HookRuns(r)
     \/ HookBlocks(r)
  /\ UNCHANGED shell

Service ==
  /\ \/ Take
     \/ ReadTimesOut
     \/ Handle
     \/ CheckOwnership
     \/ Record
     \/ Release
     \/ ServeNext
     \/ StopCloses
     \/ StopEnds
  /\ UNCHANGED shell

Install == \/ Prepare
           \/ OpenSession
           \/ InstallPure
           \/ InstallChannel
           \/ InstallService
           \/ Spawn
           \/ Attach

Teardown == \/ DriveEnds
            \/ DisposeService
            \/ DisposeTransport
            \/ DisposeFile
            \/ CloseSession
            \/ EndSession

Environment == \/ ListenerFails /\ UNCHANGED shell
               \/ ChildExits
               \/ HandlerFails
               \/ SignalArrives
               \/ OtherTerminal

Next == \/ \E r \in Requests, k \in Kinds : Command(r, k)
        \/ \E r \in Requests : Channel(r)
        \/ Service
        \/ Install
        \/ Teardown
        \/ Environment

Spec == Init /\ [][Next]_vars

\* What the event loop owes: settled promises continue, I/O ends, timers
\* fire, and destroyed sockets close.  Nothing is owed by the user or a peer.
FairSpec == /\ Spec
            /\ WF_vars(Install)
            /\ WF_vars(Service)
            /\ WF_vars(Teardown)
            /\ \A r \in Requests : WF_vars(SocketCloses(r) /\ UNCHANGED shell)

-----------------------------------------------------------------------------
InLog(r) == \E i \in DOMAIN log : log[i] = r

(***************************************************************************)
(* A command that ran was allowed by the policy of this shell, and if      *)
(* anything is left of its line it stands in commands.log (D104.F, D104.J: *)
(* "no allow may be emitted without it").                                  *)
(***************************************************************************)
RanWasRecorded ==
  \A r \in Requests : hook[r] = "ran" =>
    /\ Decision(kind[r]) = "allow"
    /\ kind[r] = "command" => InLog(r)

(***************************************************************************)
(* A command reported as "not released because its audit prerequisite      *)
(* failed" neither ran nor stands in the log.                              *)
(***************************************************************************)
ReportedDidNotRun ==
  \A r \in failures : hook[r] # "ran" /\ ~InLog(r)

(***************************************************************************)
(* No command is recorded twice, whatever queue or waiter its connection   *)
(* went through.                                                           *)
(***************************************************************************)
RecordedOnce ==
  \A i, j \in DOMAIN log : log[i] = log[j] => i = j

(***************************************************************************)
(* An exited shell leaves no listener, no accept loop and no socket behind *)
(* it, and an exit code of 0 means that the terminal is restored, the      *)
(* child gone and the session no longer ours.                              *)
(***************************************************************************)
ExitIsClean ==
  run = "exited" =>
    /\ transport \in {"unbound", "closed"}
    /\ loop \in {"idle", "done"}
    /\ ListenerClosed
    /\ ~failed => ~raw /\ child = "gone" /\ lock # "ours"

(***************************************************************************)
(* Once the stop of the service has begun no decision is sent any more,    *)
(* not even one whose audit was under way ("no decision may be emitted     *)
(* once teardown has started").                                            *)
(***************************************************************************)
NoAnswerAfterStop == [][(stopping # "no") => reply' = reply]_vars

(***************************************************************************)
(* From the moment the session is being closed no command is recorded in   *)
(* it by this shell: the stop has waited for the audit under way.          *)
(***************************************************************************)
NoRecordAfterClose ==
  [][(run \in {"closing", "ending", "exited"}) => log' = log]_vars

(***************************************************************************)
(* A driven shell whose bridge is gone ends, whatever its connections and  *)
(* audits were doing.                                                      *)
(***************************************************************************)
ShellEnds == (run = "driving" /\ bridge = "disposed") ~> (run = "exited")

=============================================================================

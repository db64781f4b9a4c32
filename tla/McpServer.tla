----------------------------- MODULE McpServer -----------------------------
(***************************************************************************)
(* The MCP server (startServer and the dispatcher of mcp/src/server.ts)    *)
(* over its audit log and the command harness: calls are handled           *)
(* concurrently, each is recorded before it is answered, and the end of    *)
(* the input, a signal, a transport failure or a record that could not be  *)
(* written closes the server.                                              *)
(*                                                                         *)
(* The server is one JavaScript thread.  What follows without waiting for  *)
(* a timer, a file, a child process or the input is one step; the SDK's    *)
(* writing of an answer and startServer's waking from its wait happen      *)
(* before anything else does (Idle).                                       *)
(***************************************************************************)
EXTENDS AuditLog, CommandHarness, Naturals, FiniteSets

CONSTANTS
  Tools,    \* the tools that clients name in these runs
  Earlier,  \* a check made before the server was started
  None      \* no check, no report

\* The list of the tools, a name that is not registered, and four tools: class
\* A direct and through commands, class B through a command and direct.
ASSUME ToolsAssumption ==
  Tools \subseteq {"tools/list", "unknown", "get_policy", "explain_diff",
                   "check_repo", "start_session"}
ASSUME RequestsAssumption == IsFiniteSet(Requests)
ASSUME NamesAssumption ==
  /\ None \notin Requests \cup {Earlier, "session"}
  /\ Earlier \notin Requests \cup {"session"}
  /\ "session" \notin Requests

VARIABLES
  tool,           \* what each request asks for
  stage,          \* where the dispatcher is with it
  work,           \* where its tool is, which a timeout does not stop
  verdict,        \* what its record and its answer say
  phase,          \* where startServer is
  stdinClosed,    \* the input has ended
  active,         \* the number of handlers in flight
  scheduled,      \* setImmediate: look whether the server may close
  deferred,       \* setTimeout(0): report that a record could not be written
  outcome,        \* how startServer will end
  cause,          \* what decided it
  sessionReport,  \* the check that last wrote the session's report
  adHocReports,   \* the checks that wrote a report of their own
  subject,        \* the report each explain_diff has resolved
  halves          \* the checks whose findings it has read: metadata, markdown

requests == <<tool, stage, work, verdict>>
counters == <<active, scheduled, deferred>>
ending == <<phase, outcome, cause>>
reports == <<sessionReport, adHocReports, subject, halves>>
vars == <<requests, counters, ending, stdinClosed, reports, audit, harness>>

Checks == Requests \cup {Earlier}
ClassA == {"get_policy", "explain_diff"}
ClassB == {"check_repo", "start_session"}
Harnessed == {"explain_diff", "check_repo"}
InFlight == {"handling", "recording"}

TypeOK ==
  /\ tool \in [Requests -> Tools \cup {"none"}]
  /\ stage \in [Requests -> {"new", "handling", "recording", "settled",
                             "answered", "dropped"}]
  /\ work \in [Requests -> {"none", "direct", "queued", "between", "returned"}]
  /\ verdict \in [Requests -> {"none", "tools", "denied", "result", "timeout",
                               "unrecorded"}]
  /\ phase \in {"booting", "connecting", "serving", "closing", "ended"}
  /\ stdinClosed \in BOOLEAN
  /\ active \in 0 .. Cardinality(Requests)
  /\ scheduled \in BOOLEAN
  /\ deferred \in BOOLEAN
  /\ outcome \in {"none", "graceful", "unhealthy", "not_booted"}
  /\ cause \in {"none", "eof", "audit", "other"}
  /\ sessionReport \in Checks \cup {None}
  /\ adHocReports \in SUBSET Checks
  /\ subject \in [Requests -> Checks \cup {"session", None}]
  /\ halves \in [Requests -> Seq(Checks)]
  /\ chain \in Seq(Requests)
  /\ poisoned \in BOOLEAN
  /\ handle \in {"none", "open", "closing", "closed"}
  /\ log \in Seq(Requests)
  /\ queue \in Seq(Requests)
  /\ busy \in SUBSET Requests
  /\ cwd \in {"server", "repo"}
  /\ saved \in [Requests -> {"server", "repo"}]

Init ==
  /\ AuditInit
  /\ HarnessInit
  /\ tool = [r \in Requests |-> "none"]
  /\ stage = [r \in Requests |-> "new"]
  /\ work = [r \in Requests |-> "none"]
  /\ verdict = [r \in Requests |-> "none"]
  /\ phase = "booting"
  /\ stdinClosed = FALSE
  /\ active = 0
  /\ scheduled = FALSE
  /\ deferred = FALSE
  /\ outcome = "none"
  /\ cause = "none"
  /\ sessionReport \in {None, Earlier}
  /\ adHocReports \in {{}, {Earlier}}
  /\ subject = [r \in Requests |-> None]
  /\ halves = [r \in Requests |-> <<>>]

\* No answer waits to be written, and startServer does not wait to wake up.
\* (What still runs when startServer has returned is not followed.)
Idle == /\ phase # "ended"
        /\ \A r \in Requests : stage[r] # "settled"
        /\ phase = "serving" => outcome = "none"

-----------------------------------------------------------------------------
(***************************************************************************)
(* The shutdown controller, and the gate for the end of the input.         *)
(***************************************************************************)

\* The first signal decides; a later one does nothing.
Decide(how, why) ==
  IF outcome = "none" THEN outcome' = how /\ cause' = why
                      ELSE UNCHANGED <<outcome, cause>>

\* Fault: the finally of trackHandler does not look at the gate.
FaultLeave(n) == /\ active' = n
                 /\ UNCHANGED scheduled

\* trackHandler's finally: n handlers are left; the last one of a closed input
\* schedules the look at the gate (which has nothing to decide later on).
Leave(n) == /\ active' = n
            /\ scheduled' = (scheduled \/ (stdinClosed /\ n = 0 /\ outcome = "none"))

\* signalUnhealthyAfterResponse; the timer has nothing to decide later on.
Defer == deferred' = (outcome = "none")

\* onStdinClosed, for "end" or "close".
StdinCloses ==
  /\ Idle
  /\ phase \in {"connecting", "serving"}
  /\ ~stdinClosed
  /\ stdinClosed' = TRUE
  /\ scheduled' = (scheduled \/ active = 0)
  /\ UNCHANGED <<active, deferred, requests, ending, reports, audit, harness>>

\* Fault: the gate is not looked at again when the immediate fires.
FaultGateOpen == stdinClosed

GateOpen == stdinClosed /\ active = 0

\* The setImmediate of scheduleMaybeSignalStdinGraceful.
ImmediateFires ==
  /\ Idle
  /\ scheduled
  /\ scheduled' = FALSE
  /\ IF GateOpen THEN Decide("graceful", "eof") ELSE UNCHANGED <<outcome, cause>>
  /\ UNCHANGED <<active, deferred, phase, stdinClosed, requests, reports, audit,
                 harness>>

\* The setTimeout of signalUnhealthyAfterResponse.
TimerFires ==
  /\ Idle
  /\ deferred
  /\ deferred' = FALSE
  /\ Decide("unhealthy", "audit")
  /\ UNCHANGED <<active, scheduled, phase, stdinClosed, requests, reports, audit,
                 harness>>

\* SIGINT or SIGTERM, whose handlers are there once the server is connected.
SignalArrives ==
  /\ Idle
  /\ phase = "serving"
  /\ Decide("graceful", "other")
  /\ UNCHANGED <<counters, phase, stdinClosed, requests, reports, audit, harness>>

\* The SDK reports that the transport has closed, or an error of it.
TransportReports ==
  /\ Idle
  /\ phase \in {"connecting", "serving"}
  /\ \/ Decide("graceful", "other")
     \/ Decide("unhealthy", "other")
  /\ UNCHANGED <<counters, phase, stdinClosed, requests, reports, audit, harness>>

-----------------------------------------------------------------------------
(***************************************************************************)
(* The dispatcher.                                                         *)
(***************************************************************************)

\* Fault: the answer does not wait for its record.
FaultRecord(r, v, n) ==
  IF Accepts
  THEN /\ Extend(r)
       /\ stage' = [stage EXCEPT ![r] = "settled"]
       /\ verdict' = [verdict EXCEPT ![r] = v]
       /\ Leave(n - 1)
       /\ UNCHANGED deferred
  ELSE /\ stage' = [stage EXCEPT ![r] = "settled"]
       /\ verdict' = [verdict EXCEPT ![r] = "unrecorded"]
       /\ Defer
       /\ Leave(n - 1)
       /\ UNCHANGED audit

\* The dispatcher records verdict v of call r, one of n in flight; if the log
\* takes no record, the answer says so and the server is to be closed.
Record(r, v, n) ==
  IF Accepts
  THEN /\ Extend(r)
       /\ stage' = [stage EXCEPT ![r] = "recording"]
       /\ verdict' = [verdict EXCEPT ![r] = v]
       /\ active' = n
       /\ UNCHANGED <<scheduled, deferred>>
  ELSE /\ stage' = [stage EXCEPT ![r] = "settled"]
       /\ verdict' = [verdict EXCEPT ![r] = "unrecorded"]
       /\ Defer
       /\ Leave(n - 1)
       /\ UNCHANGED audit

\* tools/list is answered at once and leaves no record.
List(r) ==
  /\ stage' = [stage EXCEPT ![r] = "settled"]
  /\ verdict' = [verdict EXCEPT ![r] = "tools"]
  /\ Leave(active)
  /\ UNCHANGED <<work, deferred, audit, harness>>

\* A name that is not registered, or a tool that refuses its input.
Refuse(r) ==
  /\ Record(r, IF tool'[r] = "unknown" THEN "denied" ELSE "result", active + 1)
  /\ work' = [work EXCEPT ![r] = IF tool'[r] = "unknown" THEN "none" ELSE "returned"]
  /\ UNCHANGED harness

\* The handler of a registered tool starts, up to its first wait.
Invoke(r) ==
  /\ stage' = [stage EXCEPT ![r] = "handling"]
  /\ active' = active + 1
  /\ IF tool'[r] \in Harnessed
     THEN work' = [work EXCEPT ![r] = "queued"] /\ Enqueue(r)
     ELSE work' = [work EXCEPT ![r] = "direct"] /\ UNCHANGED harness
  /\ UNCHANGED <<verdict, scheduled, deferred, audit>>

\* A request is parsed; it may have been in the buffer when the input ended.
Call(r) ==
  /\ Idle
  /\ phase = "serving"
  /\ stage[r] = "new"
  /\ \E t \in Tools :
       /\ tool' = [tool EXCEPT ![r] = t]
       /\ \/ t = "tools/list" /\ List(r)
          \/ t # "tools/list" /\ Refuse(r)
          \/ t \in ClassA \cup ClassB /\ Invoke(r)
  /\ UNCHANGED <<ending, stdinClosed, reports>>

\* r's tool returns; the dispatcher goes on if it still waits for it.
Returns(r) ==
  /\ work' = [work EXCEPT ![r] = "returned"]
  /\ IF stage[r] = "handling"
     THEN Record(r, "result", active)
     ELSE UNCHANGED <<stage, verdict, counters, audit>>

\* withTimeout gives up on a class A tool, which goes on all the same.
Timeout(r) ==
  /\ Idle
  /\ stage[r] = "handling"
  /\ tool[r] \in ClassA
  /\ Record(r, "timeout", active)
  /\ UNCHANGED <<tool, work, ending, stdinClosed, reports, harness>>

\* get_policy, or start_session: which starts one, or fails.
DirectReturns(r) ==
  /\ Idle
  /\ work[r] = "direct"
  /\ Returns(r)
  /\ UNCHANGED <<tool, ending, stdinClosed, reports, harness>>

\* The call's command has the lock and begins.
Begins(r) ==
  /\ Idle
  /\ work[r] = "queued"
  /\ CommandBegins(r)
  /\ UNCHANGED <<requests, counters, ending, stdinClosed, reports, audit>>

\* The repository is not there any more.
NotBegun(r) ==
  /\ Idle
  /\ work[r] = "queued"
  /\ CommandRefused(r)
  /\ Returns(r)
  /\ UNCHANGED <<tool, ending, stdinClosed, reports>>

\* check_repo: it fails, or writes the session's report or one of its own.
CheckEnds(r) ==
  /\ Idle
  /\ work[r] = "queued"
  /\ tool[r] = "check_repo"
  /\ CommandEnds(r)
  /\ \/ UNCHANGED <<sessionReport, adHocReports>>
     \/ sessionReport' = r /\ UNCHANGED adHocReports
     \/ adHocReports' = adHocReports \cup {r} /\ UNCHANGED sessionReport
  /\ Returns(r)
  /\ UNCHANGED <<tool, ending, stdinClosed, subject, halves>>

\* The reports there are, and the check whose findings one holds now.
Readable == adHocReports \cup IF sessionReport = None THEN {} ELSE {"session"}
Findings(report) == IF report = "session" THEN sessionReport ELSE report

\* explain_diff, first command: a report is chosen and its metadata read.
MetadataRead(r) ==
  /\ Idle
  /\ work[r] = "queued"
  /\ tool[r] = "explain_diff"
  /\ halves[r] = <<>>
  /\ CommandEnds(r)
  /\ \E report \in Readable :
       /\ subject' = [subject EXCEPT ![r] = report]
       /\ halves' = [halves EXCEPT ![r] = <<Findings(report)>>]
  /\ work' = [work EXCEPT ![r] = "between"]
  /\ UNCHANGED <<tool, stage, verdict, counters, ending, stdinClosed, sessionReport,
                 adHocReports, audit>>

\* The second command takes its place behind the others.
AsksForMarkdown(r) ==
  /\ Idle
  /\ work[r] = "between"
  /\ Enqueue(r)
  /\ work' = [work EXCEPT ![r] = "queued"]
  /\ UNCHANGED <<tool, stage, verdict, counters, ending, stdinClosed, reports,
                 audit>>

\* Fault: the second command chooses its report anew.
FaultRendered(r) == {Findings(report) : report \in Readable}

\* What the second command, given the id of the report, can render.
Rendered(r) == {Findings(subject[r])}

MarkdownRead(r) ==
  /\ Idle
  /\ work[r] = "queued"
  /\ tool[r] = "explain_diff"
  /\ halves[r] # <<>>
  /\ CommandEnds(r)
  /\ \E c \in Rendered(r) : halves' = [halves EXCEPT ![r] = Append(@, c)]
  /\ Returns(r)
  /\ UNCHANGED <<tool, ending, stdinClosed, sessionReport, adHocReports, subject>>

\* Either command of explain_diff fails, or finds no report; what was read is
\* dropped.
ReportFails(r) ==
  /\ Idle
  /\ work[r] = "queued"
  /\ tool[r] = "explain_diff"
  /\ CommandEnds(r)
  /\ subject' = [subject EXCEPT ![r] = None]
  /\ halves' = [halves EXCEPT ![r] = <<>>]
  /\ Returns(r)
  /\ UNCHANGED <<tool, ending, stdinClosed, sessionReport, adHocReports>>

\* The append at the head of the chain succeeds, and its call is answered.
RecordWritten ==
  /\ Idle
  /\ Appended
  /\ stage' = [stage EXCEPT ![Head(chain)] = "settled"]
  /\ Leave(active - 1)
  /\ UNCHANGED <<tool, work, verdict, deferred, ending, stdinClosed, reports,
                 harness>>

\* It fails, and so does every record behind it.
RecordFails ==
  /\ Idle
  /\ AppendFailed
  /\ LET failed == {r \in Requests : stage[r] = "recording" /\ r \notin ToSet(chain')}
     IN  /\ stage' = [r \in Requests |-> IF r \in failed THEN "settled" ELSE stage[r]]
         /\ verdict' = [r \in Requests |-> IF r \in failed THEN "unrecorded"
                                                           ELSE verdict[r]]
         /\ Leave(active - Cardinality(failed))
  /\ Defer
  /\ UNCHANGED <<tool, work, ending, stdinClosed, reports, harness>>

\* The SDK writes the answer, if the transport is still there.
Respond(r) ==
  /\ stage[r] = "settled"
  /\ stage' = [stage EXCEPT ![r] = IF phase = "serving" THEN "answered" ELSE "dropped"]
  /\ UNCHANGED <<tool, work, verdict, counters, ending, stdinClosed, reports, audit,
                 harness>>

-----------------------------------------------------------------------------
(***************************************************************************)
(* startServer.                                                            *)
(***************************************************************************)

\* The repository is found and the log opened, or the server does not boot.
Boot ==
  /\ phase = "booting"
  /\ \/ phase' = "connecting" /\ Open /\ UNCHANGED <<outcome, cause>>
     \/ phase' = "ended" /\ outcome' = "not_booted" /\ cause' = "other" /\ UNCHANGED audit
  /\ UNCHANGED <<requests, counters, stdinClosed, reports, harness>>

\* The transport is connected; a failure closes the log and that is all.
Connect ==
  /\ Idle
  /\ phase = "connecting"
  /\ \/ phase' = "serving" /\ UNCHANGED <<outcome, cause, audit>>
     \/ phase' = "closing" /\ outcome' = "not_booted" /\ cause' = "other" /\ CloseBegins
  /\ UNCHANGED <<requests, counters, stdinClosed, reports, harness>>

\* awaitShutdown settles: the listeners are removed and the transport closed.
\* An immediate or a timer that is still to come finds the end decided.
CloseTransport ==
  /\ phase = "serving"
  /\ outcome # "none"
  /\ phase' = "closing"
  /\ scheduled' = FALSE
  /\ deferred' = FALSE
  /\ UNCHANGED <<requests, active, outcome, cause, stdinClosed, reports, audit,
                 harness>>

\* server.close() has settled; audit.close() begins.
CloseAudit ==
  /\ Idle
  /\ phase = "closing"
  /\ CloseBegins
  /\ UNCHANGED <<requests, counters, ending, stdinClosed, reports, harness>>

\* audit.close() settles, and startServer with it.
End ==
  /\ Idle
  /\ phase = "closing"
  /\ CloseEnds
  /\ phase' = "ended"
  /\ UNCHANGED <<requests, counters, outcome, cause, stdinClosed, reports, harness>>

-----------------------------------------------------------------------------
Tool(r) == \/ DirectReturns(r) \/ Begins(r) \/ NotBegun(r) \/ CheckEnds(r)
           \/ MetadataRead(r) \/ AsksForMarkdown(r) \/ MarkdownRead(r)
           \/ ReportFails(r)

\* What the server does by itself.
Progress == \/ \E r \in Requests : Tool(r) \/ Timeout(r) \/ Respond(r)
            \/ RecordWritten \/ RecordFails \/ ImmediateFires \/ TimerFires
            \/ Boot \/ Connect \/ CloseTransport \/ CloseAudit \/ End

\* What it is sent.
Outside == \/ \E r \in Requests : Call(r)
           \/ StdinCloses \/ SignalArrives \/ TransportReports

Next == Progress \/ Outside

Spec == Init /\ [][Next]_vars

\* The event loop goes on as long as something is ready, and commands, file
\* writes and timers end.  Nobody has to send a request or to close the input.
FairSpec == Spec /\ WF_vars(Progress)

-----------------------------------------------------------------------------
(***************************************************************************)
(* Properties.                                                             *)
(***************************************************************************)

\* A call is answered with its record in the log; only an answer that says
\* that the record could not be written has none.  So what a client was told
\* and what the log says agree, for every interleaving of calls and failures.
AnswersAreRecorded ==
  \A r \in Requests :
    stage[r] = "answered" /\ verdict[r] # "tools"
      => (r \in ToSet(log) <=> verdict[r] # "unrecorded")

\* After a record that could not be written none is: the log has no gap that
\* a later record would hide.
NoRecordAfterGap == [][poisoned => log' = log]_vars

\* A class B tool is answered only when it has stopped working on the
\* repository, and what it did is not reported as a timeout.
AnswerWaitsForEffect ==
  \A r \in Requests :
    tool[r] \in ClassB /\ stage[r] \in {"settled", "answered", "dropped"}
      => work[r] = "returned" /\ verdict[r] \in {"result", "unrecorded"}

\* A command runs alone and in the repository, also when the call it is for
\* has been given up; when none runs the process is back in its own directory.
CommandsRunAlone ==
  /\ Cardinality(busy) <= 1
  /\ cwd = IF busy = {} THEN "server" ELSE "repo"

\* The end of the input closes the transport only when every handler has
\* finished and its answer was written.
EndOfInputDrains ==
  cause = "eof" => \A r \in Requests : stage[r] \notin InFlight \cup {"settled", "dropped"}

\* The handle is closed when nothing is left to be written: a record that was
\* accepted is in the file, unless an append failed, whatever ended the server.
AcceptedRecordsKept ==
  handle = "closed"
    => \A r \in Requests : stage[r] # "recording"
                           /\ (verdict[r] \in {"result", "timeout", "denied"}
                                 => r \in ToSet(log))

\* The two halves of an explained ad hoc report are of the same check, whatever
\* ran between the two commands.  (A session's report keeps its id when a check
\* rewrites it, and its halves may differ.)
AdHocReportExplained ==
  \A r \in Requests :
    Len(halves[r]) = 2 /\ subject[r] # "session" => halves[r][1] = halves[r][2]

\* Once the input has ended, or the server is to be closed, it ends.
ServerEnds == (stdinClosed \/ outcome # "none") ~> phase = "ended"

\* server.ts:490: when a record cannot be written "startServer rejects after
\* the current response has been handed back".  The immediate of the gate
\* fires before the timer.
AuditFailureEndsUnhealthy ==
  phase = "ended" /\ cause = "eof"
    => \A r \in Requests : verdict[r] # "unrecorded"

=============================================================================

---------------------------- MODULE Interception ----------------------------
(***************************************************************************)
(* The interception channel of `viberevert shell --pty`                    *)
(* (cli-commands/src/commands/pty-interception-*.ts).  The DEBUG trap of a *)
(* guarded bash asks one question per command over a loopback socket of    *)
(* its own; the service accepts the sockets one at a time, reads the       *)
(* request, decides, records an accepted command in the session's          *)
(* commands.log and only then answers.                                     *)
(*                                                                         *)
(* A request is a socket, and its bytes are one of Kinds: what the         *)
(* handling of the line tells apart.                                       *)
(*   oversized   no line within the bound, or not UTF-8                    *)
(*   malformed   not the envelope of a request                             *)
(*   foreign     the nonce of another shell (a port used again)            *)
(*   faulty      the policy throws or answers with an unknown verdict      *)
(*   guarded     the policy guards it or wants a confirmation              *)
(*   blank       allowed, nothing left of the line once sanitised          *)
(*   astray      allowed, prompted outside the repository                  *)
(*   command     allowed and to be recorded                                *)
(***************************************************************************)
EXTENDS Naturals, Sequences, FiniteSets

CONSTANTS MaxRequests, \* the sockets a shell may open, numbered as they are
          Kinds,       \* what a request may hold
          MaxAsking    \* commands asking at the same time (jobs of the shell)

ASSUME MaxRequestsAssumption == MaxRequests \in Nat
ASSUME KindsAssumption ==
  Kinds \subseteq {"oversized", "malformed", "foreign", "faulty", "guarded",
                   "blank", "astray", "command"}

Requests == 1..MaxRequests

None == 0  \* no request

VARIABLES
  hook,      \* hook[r]: the DEBUG trap of the command that asks
  kind,      \* kind[r]: what it sends
  socket,    \* socket[r]: the service's end of the connection
  inbox,     \* inbox[r]: cachedRead of the connection
  reply,     \* reply[r]: the decision frame written to it
  transport, \* the listener
  pending,   \* connections not yet accepted
  loop,      \* what the accept loop waits for
  active,    \* the connection in its hands
  read,      \* what read() delivered
  cleared,   \* what the audit gate answered
  stopped,   \* state.stopped of the service
  stopping,  \* the promise stop() returns
  lock,      \* whose session active-session.json names
  log,       \* commands.log of this shell's session
  failures   \* audit failures reported

channel == <<hook, kind, socket, inbox, reply, transport, pending>>
service == <<loop, active, read, cleared, stopped, stopping>>
session == <<lock, log, failures>>
interception == <<channel, service, session>>

(***************************************************************************)
(* handleRequestLine: malformed lines are not answered; a foreign nonce is *)
(* blocked before the policy sees the line, and a policy that fails blocks.*)
(***************************************************************************)
Decision(k) == IF k = "malformed" THEN "close"
               ELSE IF k \in {"foreign", "faulty", "guarded"} THEN "block"
               ELSE "allow"

-----------------------------------------------------------------------------
(***************************************************************************)
(* Sockets.  Destroying one is immediate for its owner; its close event    *)
(* comes later (SocketCloses).                                             *)
(***************************************************************************)
Destroyed(S) ==
  [r \in Requests |-> IF r \in S /\ socket[r] = "open" THEN "destroyed"
                      ELSE socket[r]]

\* The accept loop calls accept(): null once closed, else the oldest
\* connection, else it parks.
Accept ==
  IF transport = "closed" THEN /\ loop' = "done"
                               /\ active' = None
                               /\ UNCHANGED pending
  ELSE IF pending = <<>>  THEN /\ loop' = "accepting"
                               /\ active' = None
                               /\ UNCHANGED pending
  ELSE /\ loop' = "handed"
       /\ active' = Head(pending)
       /\ pending' = Tail(pending)

\* shutdown() of the transport, with every socket it still tracks.
\* Fault: the parked accept() is left waiting.
ShutdownKeepingWaiter ==
  /\ transport' = "closed"
  /\ pending' = <<>>
  /\ socket' = Destroyed(Requests)
  /\ UNCHANGED loop

Shutdown ==
  /\ transport' = "closed"
  /\ pending' = <<>>
  /\ socket' = Destroyed(Requests)
  /\ loop' = IF loop = "accepting" THEN "done" ELSE loop

-----------------------------------------------------------------------------
(***************************************************************************)
(* The DEBUG trap and the connection.                                      *)
(***************************************************************************)

Asking == {r \in Requests : hook[r] = "asking"}

\* A command is about to run: the trap opens its socket.  The listener hands
\* it to a parked accept() or queues it; a closed listener refuses it, and
\* the command does not run.
Ask(r, k) ==
  /\ hook[r] = "new"
  /\ \A q \in 1..(r - 1) : hook[q] # "new"
  /\ Cardinality(Asking) < MaxAsking
  /\ \/ /\ transport = "closed"
        /\ hook' = [hook EXCEPT ![r] = "blocked"]
        /\ UNCHANGED <<kind, socket, pending, loop, active>>
     \/ /\ transport = "listening"
        /\ kind' = [kind EXCEPT ![r] = k]
        /\ hook' = [hook EXCEPT ![r] = "asking"]
        /\ socket' = [socket EXCEPT ![r] = "open"]
        /\ \/ /\ loop = "accepting"
              /\ loop' = "handed"
              /\ active' = r
              /\ UNCHANGED pending
           \/ /\ loop # "accepting"
              /\ pending' = Append(pending, r)
              /\ UNCHANGED <<loop, active>>
  /\ UNCHANGED <<inbox, reply, transport, read, cleared, stopped, stopping,
                 session>>

\* What the connection has cached settles a read() that waits for it.
Deliver(r, outcome) ==
  IF loop = "reading" /\ active = r
  THEN /\ loop' = "delivered"
       /\ read' = outcome
  ELSE UNCHANGED <<loop, read>>

\* The bytes of the request arrive.
LineArrives(r) ==
  /\ hook[r] = "asking"
  /\ socket[r] = "open"
  /\ inbox[r] = "empty"
  /\ IF kind[r] = "oversized"
     THEN /\ inbox' = [inbox EXCEPT ![r] = "closed"]
          /\ socket' = [socket EXCEPT ![r] = "destroyed"]
          /\ Deliver(r, "nothing")
     ELSE /\ inbox' = [inbox EXCEPT ![r] = "frame"]
          /\ Deliver(r, "frame")
          /\ UNCHANGED socket
  /\ UNCHANGED <<hook, kind, reply, transport, pending, active, cleared,
                 stopped, stopping, session>>

\* The close event: of a destroyed socket, or of one whose hook has gone.  A
\* connection without a line fails closed.
SocketCloses(r) ==
  /\ \/ socket[r] = "destroyed"
     \/ socket[r] = "open" /\ hook[r] \in {"ran", "blocked"}
  /\ socket' = [socket EXCEPT ![r] = "closed"]
  /\ \/ /\ inbox[r] = "empty"
        /\ inbox' = [inbox EXCEPT ![r] = "closed"]
        /\ Deliver(r, "nothing")
     \/ /\ inbox[r] # "empty"
        /\ UNCHANGED <<inbox, loop, read>>
  /\ UNCHANGED <<hook, kind, reply, transport, pending, active, cleared,
                 stopped, stopping, session>>

\* Only the very frame the trap expects lets the command run.
\* Fault: any answer does.
HookRunsOnAnyReply(r) ==
  /\ hook[r] = "asking"
  /\ reply[r] # "none"
  /\ hook' = [hook EXCEPT ![r] = "ran"]
  /\ UNCHANGED <<kind, socket, inbox, reply, transport, pending, service,
                 session>>

HookRuns(r) ==
  /\ hook[r] = "asking"
  /\ reply[r] = "allow"
  /\ hook' = [hook EXCEPT ![r] = "ran"]
  /\ UNCHANGED <<kind, socket, inbox, reply, transport, pending, service,
                 session>>

\* A block, the end of the socket or the trap's own timeout: it does not.
HookBlocks(r) ==
  /\ hook[r] = "asking"
  /\ hook' = [hook EXCEPT ![r] = "blocked"]
  /\ UNCHANGED <<kind, socket, inbox, reply, transport, pending, service,
                 session>>

-----------------------------------------------------------------------------
(***************************************************************************)
(* The service: one connection at a time.                                  *)
(***************************************************************************)

\* The loop has a connection: after stop it is closed unread, else read()
\* returns what is cached or waits.
Take ==
  /\ loop = "handed"
  /\ \/ /\ stopped
        /\ socket' = Destroyed({active})
        /\ loop' = "done"
        /\ active' = None
        /\ UNCHANGED read
     \/ /\ ~stopped
        /\ loop' = IF inbox[active] = "empty" THEN "reading" ELSE "delivered"
        /\ read' = IF inbox[active] = "frame" THEN "frame" ELSE "nothing"
        /\ UNCHANGED <<socket, active>>
  /\ UNCHANGED <<hook, kind, inbox, reply, transport, pending, cleared,
                 stopped, stopping, session>>

ReadTimesOut ==
  /\ loop = "reading"
  /\ loop' = "delivered"
  /\ read' = "nothing"
  /\ socket' = Destroyed({active})
  /\ UNCHANGED <<hook, kind, inbox, reply, transport, pending, active,
                 cleared, stopped, stopping, session>>

\* A frame written to a socket that is gone is lost.
Write(frame) ==
  reply' = IF socket[active] = "open" THEN [reply EXCEPT ![active] = frame]
           ELSE reply

\* serveConnection after the read.  An allowed line goes to the audit gate,
\* where a blank one needs no record and a stray one fails at once.
HandleFrame(frame) ==
  /\ loop = "delivered"
  /\ LET k == kind[active] IN
     \/ /\ frame # "frame" \/ Decision(k) = "close"
        /\ loop' = "answered"
        /\ UNCHANGED <<reply, cleared>>
     \/ /\ frame = "frame"
        /\ Decision(k) = "block"
        /\ Write("block")
        /\ loop' = "answered"
        /\ UNCHANGED cleared
     \/ /\ frame = "frame"
        /\ Decision(k) = "allow"
        /\ loop' = IF k = "command" THEN "owning" ELSE "gated"
        /\ cleared' = (k = "blank")
        /\ UNCHANGED reply
  /\ read' = "none"
  /\ UNCHANGED <<hook, kind, socket, inbox, transport, pending, active,
                 stopped, stopping, session>>

\* A frame that arrives as the stop begins is not answered.
Handle == HandleFrame(IF stopped THEN "nothing" ELSE read)

\* The audit gate's ownership check: the lock is read again.
CheckOwnership ==
  /\ loop = "owning"
  /\ \/ /\ lock = "ours"
        /\ loop' = "recording"
        /\ UNCHANGED cleared
     \/ /\ loop' = "gated"      \* missing, changed or unreadable
        /\ cleared' = FALSE
  /\ UNCHANGED <<channel, active, read, stopped, stopping, session>>

\* appendCommandsLogEntry.
Record ==
  /\ loop = "recording"
  /\ loop' = "gated"
  /\ \/ /\ log' = Append(log, active)
        /\ cleared' = TRUE
     \/ /\ cleared' = FALSE
        /\ UNCHANGED log
  /\ UNCHANGED <<channel, active, read, stopped, stopping, lock, failures>>

\* The gate has answered: the allow frame leaves only if it cleared the
\* command and no stop has begun meanwhile.
\* Fault: the frame leaves whatever the gate answered.
ReleaseUncleared ==
  /\ loop = "gated"
  /\ loop' = "answered"
  /\ IF stopped THEN UNCHANGED reply ELSE Write("allow")
  /\ failures' = IF cleared THEN failures ELSE failures \cup {active}
  /\ cleared' = FALSE
  /\ UNCHANGED <<hook, kind, socket, inbox, transport, pending, active, read,
                 stopped, stopping, lock, log>>

Release ==
  /\ loop = "gated"
  /\ loop' = "answered"
  /\ IF cleared /\ ~stopped THEN Write("allow") ELSE UNCHANGED reply
  /\ failures' = IF cleared THEN failures ELSE failures \cup {active}
  /\ cleared' = FALSE
  /\ UNCHANGED <<hook, kind, socket, inbox, transport, pending, active, read,
                 stopped, stopping, lock, log>>

\* The connection is closed and the loop accepts the next.
ServeNext ==
  /\ loop = "answered"
  /\ socket' = Destroyed({active})
  /\ Accept
  /\ UNCHANGED <<hook, kind, inbox, reply, transport, read, cleared, stopped,
                 stopping, session>>

-----------------------------------------------------------------------------
(***************************************************************************)
(* The end: stop(), which closes the transport, then the connection in     *)
(* hand, then waits for the loop; or an error of the listener.             *)
(***************************************************************************)
StopBegins ==
  /\ stopping = "no"
  /\ stopping' = "closing"
  /\ stopped' = TRUE
  /\ Shutdown
  /\ UNCHANGED <<hook, kind, inbox, reply, active, read, cleared, session>>

\* The listener has closed once the last socket has.
ListenerClosed == \A r \in Requests : socket[r] \in {"none", "closed"}

StopCloses ==
  /\ stopping = "closing"
  /\ ListenerClosed
  /\ stopping' = "waiting"
  /\ IF loop = "reading" THEN loop' = "delivered" /\ read' = "nothing"
     ELSE UNCHANGED <<loop, read>>
  /\ UNCHANGED <<channel, active, cleared, stopped, session>>

StopEnds ==
  /\ stopping = "waiting"
  /\ loop = "done"
  /\ stopping' = "ended"
  /\ UNCHANGED <<channel, loop, active, read, cleared, stopped, session>>

ListenerFails ==
  /\ transport = "listening"
  /\ Shutdown
  /\ UNCHANGED <<hook, kind, inbox, reply, active, read, cleared, stopped,
                 stopping, session>>
=============================================================================

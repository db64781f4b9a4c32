--------------------------- MODULE PtyShellProofs ---------------------------
(***************************************************************************)
(* What PtyShell promises, proved for every number of requests and every   *)
(* set of kinds.                                                           *)
(***************************************************************************)
EXTENDS PtyShell, SequenceTheorems, TLAPS

Queued(r) == \E i \in DOMAIN pending : pending[i] = r

(***************************************************************************)
(* A connection is in one place: not opened, once in the queue, or in the  *)
(* hands of the loop.                                                      *)
(***************************************************************************)
Routed ==
  /\ \A i, j \in DOMAIN pending : pending[i] = pending[j] => i = j
  /\ ~Queued(active)
  /\ \A r \in Requests : hook[r] = "new" => r # active /\ ~Queued(r)

Unserved(r) ==
  \/ hook[r] = "new"
  \/ Queued(r)
  \/ r = active /\ loop \in {"handed", "reading", "delivered", "owning",
                             "recording"}

(***************************************************************************)
(* What the loop has done for a connection depends on where it stands.     *)
(***************************************************************************)
Staged ==
  /\ \A r \in Requests : Unserved(r) =>
        reply[r] = "none" /\ ~InLog(r) /\ r \notin failures
  /\ loop \in {"owning", "recording"} => kind[active] = "command"
  /\ loop = "gated" =>
        /\ reply[active] = "none"
        /\ active \notin failures
        /\ cleared => /\ Decision(kind[active]) = "allow"
                      /\ kind[active] = "command" => InLog(active)
        /\ ~cleared => ~InLog(active)

Answered ==
  /\ \A r \in Requests : reply[r] = "allow" =>
        /\ Decision(kind[r]) = "allow"
        /\ kind[r] = "command" => InLog(r)
  /\ \A r \in Requests : hook[r] = "ran" => reply[r] = "allow"
  /\ \A r \in failures : reply[r] # "allow" /\ ~InLog(r)

Late == {"unbinding", "cleaning", "closing", "ending", "exited"}

Early == {"preparing", "opening", "nonce", "channel", "hook", "service"}

(***************************************************************************)
(* The loop runs only between its creation and the end of the stop.        *)
(***************************************************************************)
Phased ==
  /\ run \in Early => loop = "idle"
  /\ run \in Late => loop \in {"idle", "done"}
  /\ loop = "idle" => stopping = "no"
  /\ stopping # "no" => stopped
  /\ stopping = "ended" => loop = "done"

IInv == TypeOK /\ Routed /\ Staged /\ Answered /\ RecordedOnce /\ Phased

-----------------------------------------------------------------------------
\* A record at the end of a log adds one place to it and moves no other.
LEMMA LogGrows ==
  ASSUME NEW S, NEW s \in Seq(S), NEW q \in S
  PROVE  /\ Append(s, q) \in Seq(S)
         /\ DOMAIN Append(s, q) = DOMAIN s \cup {Len(s) + 1}
         /\ \A i \in DOMAIN s : Append(s, q)[i] = s[i]
         /\ Append(s, q)[Len(s) + 1] = q
         /\ Len(s) + 1 \notin DOMAIN s
  BY SMT

\* A queue gives its head away.
LEMMA QueueShrinks ==
  ASSUME NEW S, NEW s \in Seq(S), s # <<>>
  PROVE  /\ Head(s) \in S
         /\ 1 \in DOMAIN s
         /\ Head(s) = s[1]
         /\ Tail(s) \in Seq(S)
         /\ \A i \in DOMAIN Tail(s) : /\ i \in Nat /\ i + 1 \in DOMAIN s
                                      /\ i + 1 # 1 /\ Tail(s)[i] = s[i + 1]
  BY SMT

LEMMA NoneIsNoRequest == None \notin Requests
  BY SMT, MaxRequestsAssumption DEF None, Requests

LEMMA InitIInv == Init => IInv
  <1>1. SUFFICES ASSUME Init PROVE IInv
    OBVIOUS
  <1>2. TypeOK
    <2>1. /\ hook \in [Requests -> {"new", "asking", "ran", "blocked"}]
          /\ kind \in [Requests -> Kinds \cup {"unsent"}]
          /\ socket \in [Requests -> {"none", "open", "destroyed", "closed"}]
          /\ inbox \in [Requests -> {"empty", "frame", "closed"}]
          /\ reply \in [Requests -> {"none", "allow", "block"}]
      BY <1>1 DEF Init
    <2>2. pending \in Seq(Requests) /\ log \in Seq(Requests)
      BY <1>1, SMT DEF Init
    <2>. QED  BY <1>1, <2>1, <2>2 DEF Init, TypeOK, Steps
  <1>3. Routed /\ Staged /\ Answered /\ RecordedOnce /\ Phased
    BY <1>1, NoneIsNoRequest
       DEF Init, Routed, Queued, Staged, Unserved, Answered, RecordedOnce,
           InLog, Phased, Early, Late
  <1>. QED  BY <1>2, <1>3 DEF IInv

-----------------------------------------------------------------------------
(***************************************************************************)
(* Typing.                                                                 *)
(***************************************************************************)
\* Destroying sockets keeps their states in their set.
LEMMA DestroyedTyped ==
  ASSUME TypeOK, NEW S
  PROVE  Destroyed(S) \in [Requests -> {"none", "open", "destroyed", "closed"}]
  BY DEF Destroyed, TypeOK

\* An update of one place of a function.
LEMMA UpdateTyped ==
  ASSUME NEW D, NEW R, NEW f \in [D -> R], NEW x, NEW v \in R
  PROVE  [f EXCEPT ![x] = v] \in [D -> R]
  OBVIOUS

LEMMA AcceptTyped ==
  ASSUME TypeOK, Accept
  PROVE  /\ pending' \in Seq(Requests)
         /\ active' \in Requests \cup {None}
         /\ loop' \in {"accepting", "handed", "done"}
         /\ active' = None <=> loop' \in {"accepting", "done"}
  <1>1. CASE transport = "closed" \/ pending = <<>>
    BY <1>1 DEF Accept, TypeOK
  <1>2. CASE transport # "closed" /\ pending # <<>>
    <2>1. Head(pending) \in Requests /\ Tail(pending) \in Seq(Requests)
      BY <1>2, QueueShrinks DEF TypeOK
    <2>. QED  BY <1>2, <2>1, NoneIsNoRequest DEF Accept
  <1>. QED  BY <1>1, <1>2

LEMMA ShutdownTyped ==
  ASSUME TypeOK, Shutdown, UNCHANGED active
  PROVE  /\ transport' = "closed"
         /\ pending' \in Seq(Requests)
         /\ socket' \in [Requests -> {"none", "open", "destroyed", "closed"}]
         /\ loop' \in {"idle", "handed", "reading", "delivered", "owning",
                       "recording", "gated", "answered", "done"}
         /\ active' = None <=> loop' \in {"idle", "accepting", "done"}
  <1>1. pending' \in Seq(Requests)
    BY SMT DEF Shutdown
  <1>2. socket' \in [Requests -> {"none", "open", "destroyed", "closed"}]
    BY DestroyedTyped DEF Shutdown
  <1>. QED  BY <1>1, <1>2 DEF Shutdown, TypeOK

LEMMA AskTyped ==
  ASSUME TypeOK, NEW r \in Requests, NEW k \in Kinds, Ask(r, k), UNCHANGED shell
  PROVE  TypeOK'
  <1>1. /\ hook' \in [Requests -> {"new", "asking", "ran", "blocked"}]
        /\ kind' \in [Requests -> Kinds \cup {"unsent"}]
        /\ socket' \in [Requests -> {"none", "open", "destroyed", "closed"}]
    <2>1. hook' \in [Requests -> {"new", "asking", "ran", "blocked"}]
      BY UpdateTyped DEF Ask, TypeOK
    <2>2. kind' \in [Requests -> Kinds \cup {"unsent"}]
      BY UpdateTyped DEF Ask, TypeOK
    <2>3. socket' \in [Requests -> {"none", "open", "destroyed", "closed"}]
      BY UpdateTyped DEF Ask, TypeOK
    <2>. QED  BY <2>1, <2>2, <2>3
  <1>2. pending' \in Seq(Requests)
    <2>1. pending \in Seq(Requests) /\ Append(pending, r) \in Seq(Requests)
      BY LogGrows DEF TypeOK
    <2>. QED  BY <2>1 DEF Ask
  <1>3. /\ active' \in Requests \cup {None}
        /\ loop' \in {"idle", "accepting", "handed", "reading", "delivered",
                      "owning", "recording", "gated", "answered", "done"}
        /\ active' = None <=> loop' \in {"idle", "accepting", "done"}
    BY NoneIsNoRequest DEF Ask, TypeOK
  <1>. QED  BY <1>1, <1>2, <1>3 DEF Ask, TypeOK, shell, session

\* Where the loop may stand, and with a connection in hand or without.
LoopTyped ==
  /\ active \in Requests \cup {None}
  /\ loop \in {"idle", "accepting", "handed", "reading", "delivered", "owning",
               "recording", "gated", "answered", "done"}
  /\ active = None <=> loop \in {"idle", "accepting", "done"}
  /\ read \in {"none", "frame", "nothing"}

LEMMA ChannelTyped ==
  ASSUME TypeOK, NEW r \in Requests, Channel(r)
  PROVE  TypeOK'
  <1>. USE DEF shell, session, service
  <1>1. CASE LineArrives(r)
    <2>1. /\ socket' \in [Requests -> {"none", "open", "destroyed", "closed"}]
          /\ inbox' \in [Requests -> {"empty", "frame", "closed"}]
      BY <1>1 DEF LineArrives, TypeOK
    <2>2. LoopTyped'
      BY <1>1 DEF LineArrives, Deliver, LoopTyped, TypeOK
    <2>. QED  BY <1>1, <2>1, <2>2 DEF Channel, LineArrives, LoopTyped, TypeOK
  <1>2. CASE SocketCloses(r)
    <2>1. /\ socket' \in [Requests -> {"none", "open", "destroyed", "closed"}]
          /\ inbox' \in [Requests -> {"empty", "frame", "closed"}]
      BY <1>2 DEF SocketCloses, TypeOK
    <2>2. LoopTyped'
      BY <1>2 DEF SocketCloses, Deliver, LoopTyped, TypeOK
    <2>. QED  BY <1>2, <2>1, <2>2 DEF Channel, SocketCloses, LoopTyped, TypeOK
  <1>3. CASE HookRuns(r) \/ HookBlocks(r)
    BY <1>3 DEF Channel, HookRuns, HookBlocks, TypeOK
  <1>. QED  BY <1>1, <1>2, <1>3 DEF Channel

LEMMA ServiceTyped ==
  ASSUME TypeOK, Service
  PROVE  TypeOK'
  <1>. USE DEF shell, session, channel, service
  <1>1. CASE Take
    <2>1. socket' \in [Requests -> {"none", "open", "destroyed", "closed"}]
      BY <1>1, DestroyedTyped DEF Take, TypeOK
    <2>2. LoopTyped'
      BY <1>1 DEF Take, LoopTyped, TypeOK
    <2>. QED  BY <1>1, <2>1, <2>2 DEF Service, Take, LoopTyped, TypeOK
  <1>2. CASE ReadTimesOut
    <2>1. socket' \in [Requests -> {"none", "open", "destroyed", "closed"}]
      BY <1>2, DestroyedTyped DEF ReadTimesOut
    <2>2. LoopTyped'
      BY <1>2 DEF ReadTimesOut, LoopTyped, TypeOK
    <2>3. UNCHANGED <<hook, kind, inbox, reply, transport, pending, cleared,
                      stopped, stopping, session>>
      BY <1>2 DEF ReadTimesOut
    <2>. QED  BY <2>1, <2>2, <2>3 DEF Service, LoopTyped, TypeOK
  <1>3. CASE Handle
    <2>1. reply' \in [Requests -> {"none", "allow", "block"}]
      BY <1>3 DEF Handle, HandleFrame, Write, TypeOK
    <2>2. LoopTyped'
      BY <1>3 DEF Handle, HandleFrame, LoopTyped, TypeOK
    <2>3. cleared' \in BOOLEAN
      BY <1>3, Zenon DEF Handle, HandleFrame, TypeOK
    <2>4. UNCHANGED <<hook, kind, socket, inbox, transport, pending, stopped,
                      stopping, session>>
      BY <1>3 DEF Handle, HandleFrame
    <2>. QED  BY <2>1, <2>2, <2>3, <2>4 DEF Service, LoopTyped, TypeOK
  <1>4. CASE CheckOwnership
    <2>1. LoopTyped'
      BY <1>4 DEF CheckOwnership, LoopTyped, TypeOK
    <2>2. cleared' \in BOOLEAN
      BY <1>4, Zenon DEF CheckOwnership, TypeOK
    <2>. QED  BY <1>4, <2>1, <2>2 DEF Service, CheckOwnership, LoopTyped, TypeOK
  <1>5. CASE Record
    <2>1. log' \in Seq(Requests)
      <3>1. log \in Seq(Requests) /\ active \in Requests
        BY <1>5 DEF Record, TypeOK
      <3>. QED  BY <1>5, <3>1, LogGrows DEF Record
    <2>2. LoopTyped'
      BY <1>5 DEF Record, LoopTyped, TypeOK
    <2>3. cleared' \in BOOLEAN
      BY <1>5, Zenon DEF Record, TypeOK
    <2>. QED  BY <1>5, <2>1, <2>2, <2>3 DEF Service, Record, LoopTyped, TypeOK
  <1>6. CASE Release
    <2>1. reply' \in [Requests -> {"none", "allow", "block"}]
      BY <1>6 DEF Release, Write, TypeOK
    <2>2. active \in Requests
      BY <1>6 DEF Release, TypeOK
    <2>3. failures' \in SUBSET Requests
      BY <1>6, <2>2 DEF Release, TypeOK
    <2>4. LoopTyped'
      BY <1>6 DEF Release, LoopTyped, TypeOK
    <2>5. cleared' \in BOOLEAN
      BY <1>6, Zenon DEF Release
    <2>. QED  BY <1>6, <2>1, <2>3, <2>4, <2>5
              DEF Service, Release, LoopTyped, TypeOK
  <1>7. CASE ServeNext
    BY <1>7, DestroyedTyped, AcceptTyped DEF Service, ServeNext, TypeOK
  <1>8. CASE StopCloses \/ StopEnds
    <2>1. LoopTyped'
      BY <1>8 DEF StopCloses, StopEnds, LoopTyped, TypeOK
    <2>. QED  BY <1>8, <2>1 DEF Service, StopCloses, StopEnds, LoopTyped, TypeOK
  <1>. QED  BY <1>1, <1>2, <1>3, <1>4, <1>5, <1>6, <1>7, <1>8 DEF Service

\* What the shell's own steps change, typed.
ShellTypes ==
  /\ run \in Steps
  /\ failed \in BOOLEAN
  /\ child \in {"none", "alive", "gone"}
  /\ bridge \in {"none", "attached", "disposed"}
  /\ raw \in BOOLEAN

LEMMA DisposeBridgeTyped ==
  ASSUME TypeOK, NEW cause \in BOOLEAN, DisposeBridge(cause)
  PROVE  raw' \in BOOLEAN /\ failed' \in BOOLEAN /\ bridge' = "disposed"
  <1>1. raw' \in BOOLEAN
    BY Zenon DEF DisposeBridge, TypeOK
  <1>2. failed' \in BOOLEAN
    BY <1>1, Zenon DEF DisposeBridge, TypeOK
  <1>. QED  BY <1>1, <1>2 DEF DisposeBridge

LEMMA InstallTyped ==
  ASSUME TypeOK, Install
  PROVE  TypeOK'
  <1>. USE DEF shell, session, channel, service, interception, Quiet, Fail
  <1>1. ShellTypes'
    <2>1. run' \in Steps /\ child' \in {"none", "alive", "gone"}
          /\ bridge' \in {"none", "attached", "disposed"}
      BY DEF Install, Prepare, OpenSession, InstallPure, InstallChannel,
             InstallService, Spawn, Attach, Steps, TypeOK
    <2>2. failed' \in BOOLEAN /\ raw' \in BOOLEAN
      BY Zenon DEF Install, Prepare, OpenSession, InstallPure, InstallChannel,
             InstallService, Spawn, Attach, TypeOK
    <2>. QED  BY <2>1, <2>2 DEF ShellTypes
  <1>2. CASE Prepare \/ InstallPure \/ Spawn \/ Attach
    BY <1>1, <1>2 DEF Prepare, InstallPure, Spawn, Attach, ShellTypes, TypeOK
  <1>3. CASE OpenSession
    <2>1. lock' \in {"none", "ours", "other"}
      BY <1>3 DEF OpenSession, TypeOK
    <2>. QED  BY <1>1, <1>3, <2>1 DEF OpenSession, ShellTypes, TypeOK
  <1>4. CASE InstallChannel
    <2>1. transport' \in {"unbound", "listening", "closed"}
      BY <1>4 DEF InstallChannel
    <2>. QED  BY <1>1, <1>4, <2>1 DEF InstallChannel, ShellTypes, TypeOK
  <1>5. CASE InstallService
    <2>1. pending' \in Seq(Requests)
      BY <1>5, AcceptTyped DEF InstallService, TypeOK
    <2>2. LoopTyped'
      <3>1. CASE Accept
        BY <1>5, <3>1, AcceptTyped DEF InstallService, LoopTyped, TypeOK
      <3>2. CASE UNCHANGED <<loop, active>>
        BY <1>5, <3>2 DEF InstallService, LoopTyped, TypeOK
      <3>. QED  BY <1>5, <3>1, <3>2 DEF InstallService
    <2>. QED  BY <1>1, <1>5, <2>1, <2>2
              DEF InstallService, ShellTypes, LoopTyped, TypeOK
  <1>. QED  BY <1>2, <1>3, <1>4, <1>5 DEF Install

LEMMA TeardownTyped ==
  ASSUME TypeOK, Teardown
  PROVE  TypeOK'
  <1>. USE DEF shell, session, channel, service, interception, Quiet, Fail
  <1>1. ShellTypes'
    <2>1. run' \in Steps /\ child' \in {"none", "alive", "gone"}
          /\ bridge' \in {"none", "attached", "disposed"}
      BY DEF Teardown, DriveEnds, DisposeService, DisposeTransport,
             DisposeFile, CloseSession, EndSession, Steps, TypeOK
    <2>2. failed' \in BOOLEAN /\ raw' \in BOOLEAN
      BY Zenon DEF Teardown, DriveEnds, DisposeService, DisposeTransport,
             DisposeFile, CloseSession, EndSession, TypeOK
    <2>. QED  BY <2>1, <2>2 DEF ShellTypes
  <1>2. CASE DriveEnds \/ DisposeFile \/ CloseSession
    BY <1>1, <1>2 DEF DriveEnds, DisposeFile, CloseSession, ShellTypes, TypeOK
  <1>3. CASE EndSession
    <2>1. lock' \in {"none", "ours", "other"}
      BY <1>3 DEF EndSession, TypeOK
    <2>. QED  BY <1>1, <1>3, <2>1 DEF EndSession, ShellTypes, TypeOK
  <1>4. CASE DisposeService
    <2>1. CASE StopBegins
      <3>1. stopped' \in BOOLEAN /\ stopping' = "closing"
        BY <2>1 DEF StopBegins
      <3>. QED  BY <1>1, <2>1, <3>1, ShutdownTyped
                DEF StopBegins, ShellTypes, TypeOK
    <2>2. CASE UNCHANGED interception
      BY <1>1, <2>2 DEF ShellTypes, TypeOK
    <2>. QED  BY <1>4, <2>1, <2>2 DEF DisposeService
  <1>5. CASE DisposeTransport
    <2>1. CASE Shutdown
      BY <1>1, <1>5, <2>1, ShutdownTyped
         DEF DisposeTransport, ShellTypes, TypeOK
    <2>2. CASE UNCHANGED interception
      BY <1>1, <2>2 DEF ShellTypes, TypeOK
    <2>. QED  BY <1>5, <2>1, <2>2 DEF DisposeTransport
  <1>. QED  BY <1>2, <1>3, <1>4, <1>5 DEF Teardown

LEMMA EnvironmentTyped ==
  ASSUME TypeOK, Environment
  PROVE  TypeOK'
  <1>. USE DEF shell, session, channel, service, interception
  <1>1. CASE ListenerFails /\ UNCHANGED shell
    BY <1>1, ShutdownTyped DEF ListenerFails, TypeOK
  <1>2. CASE ChildExits
    <2>1. raw' \in BOOLEAN /\ failed' \in BOOLEAN
      BY <1>2, DisposeBridgeTyped DEF ChildExits, TypeOK
    <2>2. bridge' \in {"none", "attached", "disposed"}
      BY <1>2 DEF ChildExits, DisposeBridge, TypeOK
    <2>. QED  BY <1>2, <2>1, <2>2 DEF ChildExits, TypeOK
  <1>3. CASE HandlerFails
    <2>1. raw' \in BOOLEAN /\ failed' \in BOOLEAN /\ bridge' = "disposed"
      BY <1>3, DisposeBridgeTyped DEF HandlerFails
    <2>. QED  BY <1>3, <2>1 DEF HandlerFails, TypeOK
  <1>4. CASE SignalArrives
    <2>1. raw' \in BOOLEAN /\ failed' \in BOOLEAN
      BY <1>4, DisposeBridgeTyped DEF SignalArrives, TypeOK
    <2>2. bridge' \in {"none", "attached", "disposed"}
      BY <1>4 DEF SignalArrives, DisposeBridge, TypeOK
    <2>. QED  BY <1>4, <2>1, <2>2 DEF SignalArrives, TypeOK
  <1>5. CASE OtherTerminal
    <2>1. lock' \in {"none", "ours", "other"}
      BY <1>5 DEF OtherTerminal
    <2>. QED  BY <1>5, <2>1 DEF OtherTerminal, TypeOK
  <1>. QED  BY <1>1, <1>2, <1>3, <1>4, <1>5 DEF Environment

-----------------------------------------------------------------------------
(***************************************************************************)
(* What has been decided and recorded.  Safe is the part of the invariant  *)
(* that speaks of the requests; the steps change it in few ways.           *)
(***************************************************************************)
Safe == Routed /\ Staged /\ Answered /\ RecordedOnce

requests == <<hook, kind, reply, cleared, log, failures>>

\* Steps that move no connection, or wait for the one in hand.
LEMMA WaitingIsSafe ==
  ASSUME Safe, UNCHANGED requests, UNCHANGED <<pending, active>>,
         \/ loop' = loop
         \/ /\ loop \in {"handed", "reading", "delivered"}
            /\ loop' \in {"handed", "reading", "delivered"}
  PROVE  Safe'
  <1>. USE DEF requests
  <1>1. Routed' /\ Answered' /\ RecordedOnce'
    BY DEF Safe, Routed, Queued, Answered, RecordedOnce, InLog
  <1>2. \A r : InLog(r)' = InLog(r) /\ (Unserved(r)' => Unserved(r))
    BY DEF InLog, Unserved, Queued
  <1>3. Staged'
    BY <1>2 DEF Safe, Staged
  <1>. QED  BY <1>1, <1>3 DEF Safe

\* Steps that let connections go.
LEMMA DroppingIsSafe ==
  ASSUME TypeOK, Safe, UNCHANGED requests, pending' \in {pending, <<>>},
         \/ UNCHANGED <<active, loop>>
         \/ active' = None /\ loop' \in {"idle", "accepting", "done"}
  PROVE  Safe'
  <1>. USE DEF requests
  <1>1. \A r : Queued(r)' => Queued(r)
    BY DEF Queued
  <1>2. ~Queued(None)
    BY NoneIsNoRequest, ElementOfSeq DEF Queued, TypeOK
  <1>3. Routed'
    BY <1>1, <1>2, NoneIsNoRequest DEF Safe, Routed
  <1>4. \A r : InLog(r)' = InLog(r) /\ (Unserved(r)' => Unserved(r))
    BY <1>1 DEF InLog, Unserved
  <1>5. Staged'
    BY <1>4 DEF Safe, Staged
  <1>6. Answered' /\ RecordedOnce'
    BY DEF Safe, Answered, RecordedOnce, InLog
  <1>. QED  BY <1>3, <1>5, <1>6 DEF Safe

\* The loop is handed the head of the queue.
LEMMA HandingIsSafe ==
  ASSUME TypeOK, Safe, UNCHANGED requests, pending # <<>>, loop' = "handed",
         active' = Head(pending), pending' = Tail(pending)
  PROVE  Safe'
  <1>. USE DEF requests
  <1>1. \A r : Queued(r)' => Queued(r)
    BY QueueShrinks DEF Queued, TypeOK
  <1>2. Queued(active')
    BY QueueShrinks DEF Queued, TypeOK
  <1>3. Routed'
    <2>1. \A i, j \in DOMAIN pending' : pending'[i] = pending'[j] => i = j
      BY QueueShrinks, SMT DEF Safe, Routed, TypeOK
    <2>2. ~Queued(active)'
      BY QueueShrinks, SMT DEF Safe, Routed, Queued, TypeOK
    <2>. QED  BY <1>1, <1>2, <2>1, <2>2 DEF Safe, Routed
  <1>4. \A r : InLog(r)' = InLog(r) /\ (Unserved(r)' => Unserved(r))
    BY <1>1, <1>2 DEF InLog, Unserved
  <1>5. Staged'
    BY <1>4 DEF Safe, Staged
  <1>6. Answered' /\ RecordedOnce'
    BY DEF Safe, Answered, RecordedOnce, InLog
  <1>. QED  BY <1>3, <1>5, <1>6 DEF Safe

LEMMA AcceptIsSafe ==
  ASSUME TypeOK, Safe, Accept, UNCHANGED requests
  PROVE  Safe'
  <1>1. CASE transport = "closed" \/ pending = <<>>
    BY <1>1, DroppingIsSafe DEF Accept
  <1>2. CASE transport # "closed" /\ pending # <<>>
    BY <1>2, HandingIsSafe DEF Accept
  <1>. QED  BY <1>1, <1>2

LEMMA ShutdownIsSafe ==
  ASSUME TypeOK, Safe, Shutdown, UNCHANGED requests, UNCHANGED active
  PROVE  Safe'
  <1>1. CASE loop = "accepting"
    BY <1>1, DroppingIsSafe DEF Shutdown, TypeOK
  <1>2. CASE loop # "accepting"
    BY <1>2, DroppingIsSafe DEF Shutdown
  <1>. QED  BY <1>1, <1>2

-----------------------------------------------------------------------------
\* A fresh request goes to the loop or to the end of the queue.
LEMMA AskIsSafe ==
  ASSUME TypeOK, Safe, NEW r \in Requests, NEW k \in Kinds, Ask(r, k)
  PROVE  Safe'
  <1>1. /\ \A q \in Requests \ {r} : hook'[q] = hook[q] /\ kind'[q] = kind[q]
        /\ hook[r] = "new"
        /\ hook'[r] \in {"asking", "blocked"}
    BY DEF Ask, TypeOK
  <1>2. UNCHANGED <<reply, cleared, log, failures>>
    BY DEF Ask, session
  <1>3. r # active /\ ~Queued(r)
    BY <1>1 DEF Safe, Routed
  <1>4. reply[r] = "none" /\ ~InLog(r) /\ r \notin failures
    BY <1>1 DEF Safe, Staged, Unserved
  <1>5. CASE UNCHANGED <<pending, loop, active>>
    <2>1. Routed'
      BY <1>1, <1>5 DEF Safe, Routed, Queued
    <2>2. \A q \in Requests : InLog(q)' = InLog(q)
                              /\ (Unserved(q)' => Unserved(q))
      BY <1>1, <1>2, <1>5 DEF InLog, Unserved, Queued
    <2>3. loop \in {"owning", "recording", "gated"} => active \in Requests \ {r}
      BY <1>3 DEF TypeOK
    <2>4. Staged'
      BY <1>1, <1>2, <1>5, <2>2, <2>3 DEF Safe, Staged, Decision
    <2>. QED  BY <1>1, <1>2, <1>4, <2>1, <2>2, <2>4
              DEF Safe, Answered, RecordedOnce, InLog, TypeOK
  <1>6. CASE loop = "accepting" /\ loop' = "handed" /\ active' = r
             /\ UNCHANGED pending
    <2>1. Routed'
      BY <1>1, <1>3, <1>6 DEF Safe, Routed, Queued
    <2>2. \A q \in Requests : InLog(q)' = InLog(q)
                              /\ (Unserved(q)' => Unserved(q) \/ q = r)
      BY <1>1, <1>2, <1>6 DEF InLog, Unserved, Queued
    <2>3. Staged'
      BY <1>2, <1>4, <1>6, <2>2 DEF Safe, Staged
    <2>. QED  BY <1>1, <1>2, <1>4, <2>1, <2>2, <2>3
              DEF Safe, Answered, RecordedOnce, InLog, TypeOK
  <1>7. CASE pending' = Append(pending, r) /\ UNCHANGED <<loop, active>>
    <2>1. \A q : Queued(q)' <=> Queued(q) \/ q = r
      BY <1>7, LogGrows DEF Queued, TypeOK
    <2>2. \A i, j \in DOMAIN pending' : pending'[i] = pending'[j] => i = j
      BY <1>3, <1>7, LogGrows DEF Safe, Routed, Queued, TypeOK
    <2>3. Routed'
      BY <1>1, <1>3, <1>7, <2>1, <2>2 DEF Safe, Routed
    <2>4. \A q \in Requests : InLog(q)' = InLog(q)
                              /\ (Unserved(q)' => Unserved(q) \/ q = r)
      BY <1>1, <1>2, <1>7, <2>1 DEF InLog, Unserved
    <2>5. loop \in {"owning", "recording", "gated"} => active \in Requests \ {r}
      BY <1>3 DEF TypeOK
    <2>6. Staged'
      BY <1>1, <1>2, <1>4, <1>7, <2>4, <2>5 DEF Safe, Staged, Decision
    <2>. QED  BY <1>1, <1>2, <1>4, <2>3, <2>4, <2>6
              DEF Safe, Answered, RecordedOnce, InLog, TypeOK
  <1>. QED  BY <1>5, <1>6, <1>7 DEF Ask

\* The trap ends: it runs its command only when it was told to.
LEMMA HookIsSafe ==
  ASSUME TypeOK, Safe, NEW r \in Requests, HookRuns(r) \/ HookBlocks(r)
  PROVE  Safe'
  <1>1. UNCHANGED <<kind, reply, pending, loop, active, cleared, log, failures>>
    BY DEF HookRuns, HookBlocks, service, session
  <1>2. /\ \A q \in Requests \ {r} : hook'[q] = hook[q]
        /\ hook'[r] \in {"ran", "blocked"}
        /\ hook'[r] = "ran" => reply[r] = "allow"
    BY DEF HookRuns, HookBlocks, TypeOK
  <1>3. Routed'
    BY <1>1, <1>2 DEF Safe, Routed, Queued
  <1>4. \A q \in Requests : InLog(q)' = InLog(q)
                            /\ (Unserved(q)' => Unserved(q))
    BY <1>1, <1>2 DEF InLog, Unserved, Queued
  <1>5. loop \in {"owning", "recording", "gated"} => active \in Requests
    BY DEF TypeOK
  <1>6. Staged'
    BY <1>1, <1>4, <1>5 DEF Safe, Staged, Decision
  <1>. QED  BY <1>1, <1>2, <1>3, <1>4, <1>6
            DEF Safe, Answered, RecordedOnce, InLog, TypeOK

\* The line in hand is judged.
LEMMA HandleIsSafe ==
  ASSUME TypeOK, Safe, Handle
  PROVE  Safe'
  <1>1. /\ UNCHANGED <<hook, kind, pending, active, log, failures>>
        /\ loop = "delivered"
        /\ active \in Requests
    BY DEF Handle, HandleFrame, session, TypeOK
  <1>2. Unserved(active) /\ reply[active] = "none"
    BY <1>1 DEF Unserved, Safe, Staged
  <1>3. /\ \A q \in Requests \ {active} : reply'[q] = reply[q]
        /\ reply'[active] \in {"none", "block"}
    BY <1>1, <1>2 DEF Handle, HandleFrame, Write, TypeOK
  <1>4. \/ loop' = "answered"
        \/ /\ loop' = "owning"
           /\ kind[active] = "command"
           /\ UNCHANGED reply
        \/ /\ loop' = "gated"
           /\ Decision(kind[active]) = "allow"
           /\ kind[active] # "command"
           /\ UNCHANGED reply
    BY <1>1 DEF Handle, HandleFrame
  <1>5. Routed'
    BY <1>1 DEF Safe, Routed, Queued
  <1>6. \A q \in Requests : InLog(q)' = InLog(q)
    BY <1>1 DEF InLog
  <1>7. \A q \in Requests : Unserved(q)' =>
           /\ Unserved(q)
           /\ reply'[q] = reply[q]
    <2>1. CASE loop' = "answered"
      BY <1>1, <1>3, <2>1 DEF Unserved, Queued, Safe, Routed
    <2>2. CASE UNCHANGED reply
      BY <1>1, <2>2 DEF Unserved, Queued
    <2>. QED  BY <1>4, <2>1, <2>2
  <1>8. Staged'
    BY <1>1, <1>2, <1>4, <1>6, <1>7 DEF Safe, Staged, Decision
  <1>9. Answered'
    <2>1. \A q \in Requests : reply'[q] = "allow" => reply[q] = "allow"
      BY <1>3
    <2>2. hook[active] # "ran"
      BY <1>1, <1>2 DEF Safe, Answered
    <2>. QED  BY <1>1, <1>3, <1>6, <2>1, <2>2 DEF Safe, Answered, Decision, TypeOK
  <1>. QED  BY <1>1, <1>5, <1>8, <1>9 DEF Safe, RecordedOnce

\* The ownership of the session is looked at.
LEMMA CheckIsSafe ==
  ASSUME TypeOK, Safe, CheckOwnership
  PROVE  Safe'
  <1>1. /\ UNCHANGED <<hook, kind, reply, pending, active, log, failures>>
        /\ loop = "owning"
        /\ active \in Requests
    BY DEF CheckOwnership, channel, session, TypeOK
  <1>2. Unserved(active) /\ kind[active] = "command"
    BY <1>1 DEF Unserved, Safe, Staged
  <1>3. \/ loop' = "recording"
        \/ loop' = "gated" /\ cleared' = FALSE
    BY DEF CheckOwnership
  <1>4. Routed' /\ Answered' /\ RecordedOnce'
    BY <1>1 DEF Safe, Routed, Queued, Answered, RecordedOnce, InLog, Decision
  <1>5. \A q \in Requests : InLog(q)' = InLog(q)
                            /\ (Unserved(q)' => Unserved(q))
    BY <1>1, <1>3 DEF InLog, Unserved, Queued
  <1>6. Staged'
    BY <1>1, <1>2, <1>3, <1>5 DEF Safe, Staged, Decision
  <1>. QED  BY <1>4, <1>6 DEF Safe

\* The command is recorded, or cannot be.
LEMMA RecordIsSafe ==
  ASSUME TypeOK, Safe, Record
  PROVE  Safe'
  <1>1. /\ UNCHANGED <<hook, kind, reply, pending, active, failures>>
        /\ loop = "recording"
        /\ loop' = "gated"
        /\ active \in Requests
    BY DEF Record, channel, TypeOK
  <1>2. /\ Unserved(active)
        /\ kind[active] = "command"
        /\ ~InLog(active)
        /\ reply[active] = "none"
        /\ active \notin failures
    BY <1>1 DEF Unserved, Safe, Staged
  <1>3. Routed'
    BY <1>1 DEF Safe, Routed, Queued
  <1>4. \A q \in Requests : Unserved(q)' => Unserved(q) /\ q # active
    BY <1>1 DEF Unserved, Queued, Safe, Routed
  <1>5. CASE log' = Append(log, active) /\ cleared' = TRUE
    <2>1. \A q \in Requests : InLog(q)' <=> InLog(q) \/ q = active
      BY <1>1, <1>5, LogGrows DEF InLog, TypeOK
    <2>2. RecordedOnce'
      BY <1>1, <1>2, <1>5, LogGrows DEF Safe, RecordedOnce, InLog, TypeOK
    <2>3. Staged'
      BY <1>1, <1>2, <1>4, <1>5, <2>1 DEF Safe, Staged, Decision
    <2>4. Answered'
      BY <1>1, <1>2, <2>1 DEF Safe, Answered, Decision, TypeOK
    <2>. QED  BY <1>3, <2>2, <2>3, <2>4 DEF Safe
  <1>6. CASE cleared' = FALSE /\ UNCHANGED log
    <2>1. \A q \in Requests : InLog(q)' = InLog(q)
      BY <1>6 DEF InLog
    <2>2. Staged'
      BY <1>1, <1>2, <1>4, <1>6, <2>1 DEF Safe, Staged, Decision
    <2>3. Answered' /\ RecordedOnce'
      BY <1>1, <1>6 DEF Safe, Answered, Decision, RecordedOnce, InLog
    <2>. QED  BY <1>3, <2>2, <2>3 DEF Safe
  <1>. QED  BY <1>5, <1>6 DEF Record

\* The allow frame leaves, or the failure of the audit is reported.
LEMMA ReleaseIsSafe ==
  ASSUME TypeOK, Safe, Release
  PROVE  Safe'
  <1>1. /\ UNCHANGED <<hook, kind, pending, active, log>>
        /\ loop = "gated"
        /\ loop' = "answered"
        /\ active \in Requests
    BY DEF Release, TypeOK
  <1>2. /\ \A q \in Requests \ {active} : reply'[q] = reply[q]
        /\ reply'[active] \in {"none", "allow"}
        /\ reply'[active] = "allow" => cleared
    BY <1>1 DEF Release, Write, Safe, Staged, TypeOK
  <1>3. failures' = IF cleared THEN failures ELSE failures \cup {active}
    BY DEF Release
  <1>4. Routed' /\ RecordedOnce'
    BY <1>1 DEF Safe, Routed, Queued, RecordedOnce
  <1>5. \A q \in Requests : InLog(q)' = InLog(q)
    BY <1>1 DEF InLog
  <1>6. \A q \in Requests : Unserved(q)' => Unserved(q) /\ q # active
    BY <1>1 DEF Unserved, Queued, Safe, Routed
  <1>7. Staged'
    BY <1>1, <1>2, <1>3, <1>5, <1>6 DEF Safe, Staged
  <1>8. hook[active] # "ran"
    BY <1>1 DEF Safe, Staged, Answered
  <1>9. Answered'
    <2>1. /\ reply[active] = "none"
          /\ active \notin failures
          /\ cleared => /\ Decision(kind[active]) = "allow"
                        /\ kind[active] = "command" => InLog(active)
          /\ ~cleared => ~InLog(active)
      BY <1>1 DEF Safe, Staged
    <2>2. \A q \in Requests : reply'[q] = "allow" =>
             /\ Decision(kind[q]) = "allow"
             /\ kind[q] = "command" => InLog(q)
      BY <1>2, <2>1 DEF Safe, Answered
    <2>3. \A q \in Requests : hook[q] = "ran" => reply'[q] = "allow"
      BY <1>2, <1>8 DEF Safe, Answered
    <2>4. \A q \in failures' : reply'[q] # "allow" /\ ~InLog(q)
      BY <1>2, <1>3, <2>1 DEF Safe, Answered, TypeOK
    <2>5. failures' \in SUBSET Requests
      BY <1>1, <1>3 DEF TypeOK
    <2>. QED  BY <1>1, <1>5, <2>2, <2>3, <2>4, <2>5 DEF Answered
  <1>. QED  BY <1>4, <1>7, <1>9 DEF Safe

-----------------------------------------------------------------------------
LEMMA CommandIsSafe ==
  ASSUME TypeOK, Safe, NEW r \in Requests, NEW k \in Kinds, Command(r, k)
  PROVE  Safe'
  BY AskIsSafe DEF Command

LEMMA ChannelIsSafe ==
  ASSUME TypeOK, Safe, NEW r \in Requests, Channel(r)
  PROVE  Safe'
  <1>1. CASE LineArrives(r)
    BY <1>1, WaitingIsSafe DEF LineArrives, Deliver, requests, session
  <1>2. CASE SocketCloses(r)
    BY <1>2, WaitingIsSafe DEF SocketCloses, Deliver, requests, session
  <1>3. CASE HookRuns(r) \/ HookBlocks(r)
    BY <1>3, HookIsSafe
  <1>. QED  BY <1>1, <1>2, <1>3 DEF Channel

LEMMA ServiceIsSafe ==
  ASSUME TypeOK, Safe, Service
  PROVE  Safe'
  <1>. USE DEF requests, session, channel
  <1>1. CASE Take
    <2>1. CASE stopped
      BY <1>1, <2>1, DroppingIsSafe DEF Take
    <2>2. CASE ~stopped
      BY <1>1, <2>2, WaitingIsSafe DEF Take
    <2>. QED  BY <2>1, <2>2
  <1>2. CASE ReadTimesOut
    BY <1>2, WaitingIsSafe DEF ReadTimesOut
  <1>3. CASE Handle
    BY <1>3, HandleIsSafe
  <1>4. CASE CheckOwnership
    BY <1>4, CheckIsSafe
  <1>5. CASE Record
    BY <1>5, RecordIsSafe
  <1>6. CASE Release
    BY <1>6, ReleaseIsSafe
  <1>7. CASE ServeNext
    BY <1>7, AcceptIsSafe DEF ServeNext
  <1>8. CASE StopCloses
    BY <1>8, WaitingIsSafe DEF StopCloses
  <1>9. CASE StopEnds
    BY <1>9, WaitingIsSafe DEF StopEnds
  <1>. QED  BY <1>1, <1>2, <1>3, <1>4, <1>5, <1>6, <1>7, <1>8, <1>9
            DEF Service

LEMMA InstallIsSafe ==
  ASSUME TypeOK, Safe, Install
  PROVE  Safe'
  <1>. USE DEF requests, session, channel, service, interception
  <1>1. CASE Accept /\ InstallService
    BY <1>1, AcceptIsSafe DEF InstallService
  <1>2. CASE UNCHANGED <<requests, pending, active, loop>>
    BY <1>2, WaitingIsSafe
  <1>3. UNCHANGED <<requests, pending, active, loop>>
        \/ (Accept /\ InstallService)
    BY DEF Install, Prepare, OpenSession, InstallPure, InstallChannel,
           InstallService, Spawn, Attach
  <1>. QED  BY <1>1, <1>2, <1>3

LEMMA TeardownIsSafe ==
  ASSUME TypeOK, Safe, Teardown
  PROVE  Safe'
  <1>. USE DEF requests, session, channel, service, interception
  <1>1. CASE Shutdown /\ UNCHANGED requests /\ UNCHANGED active
    BY <1>1, ShutdownIsSafe
  <1>2. CASE UNCHANGED <<requests, pending, active, loop>>
    BY <1>2, WaitingIsSafe
  <1>3. UNCHANGED <<requests, pending, active, loop>>
        \/ (Shutdown /\ UNCHANGED requests /\ UNCHANGED active)
    BY DEF Teardown, DriveEnds, DisposeService, StopBegins, DisposeTransport,
           DisposeFile, CloseSession, EndSession
  <1>. QED  BY <1>1, <1>2, <1>3

LEMMA EnvironmentIsSafe ==
  ASSUME TypeOK, Safe, Environment
  PROVE  Safe'
  <1>. USE DEF requests, session, channel, service, interception
  <1>1. CASE ListenerFails
    BY <1>1, ShutdownIsSafe DEF ListenerFails
  <1>2. CASE ChildExits \/ HandlerFails \/ SignalArrives \/ OtherTerminal
    BY <1>2, WaitingIsSafe
       DEF ChildExits, HandlerFails, SignalArrives, OtherTerminal
  <1>. QED  BY <1>1, <1>2 DEF Environment

-----------------------------------------------------------------------------
(***************************************************************************)
(* Phases.                                                                 *)
(***************************************************************************)
LEMMA AskKeepsPhase ==
  ASSUME TypeOK, Phased, NEW r \in Requests, NEW k \in Kinds, Command(r, k)
  PROVE  Phased'
  BY DEF Command, Ask, shell, Phased, Early, Late

LEMMA ChannelKeepsPhase ==
  ASSUME TypeOK, Phased, NEW r \in Requests, Channel(r)
  PROVE  Phased'
  BY DEF Channel, LineArrives, SocketCloses, HookRuns, HookBlocks, Deliver,
         shell, service, Phased, Early, Late

LEMMA ServiceKeepsPhase ==
  ASSUME TypeOK, Phased, Service
  PROVE  Phased'
  <1>. USE DEF shell, channel, Phased, Early, Late
  <1>1. CASE Take \/ ReadTimesOut \/ CheckOwnership \/ Record \/ Release
    BY <1>1 DEF Service, Take, ReadTimesOut, CheckOwnership, Record, Release
  <1>2. CASE Handle
    BY <1>2 DEF Service, Handle, HandleFrame
  <1>3. CASE ServeNext
    BY <1>3, AcceptTyped DEF Service, ServeNext
  <1>4. CASE StopCloses \/ StopEnds
    BY <1>4 DEF Service, StopCloses, StopEnds
  <1>. QED  BY <1>1, <1>2, <1>3, <1>4 DEF Service

LEMMA InstallKeepsPhase ==
  ASSUME TypeOK, Phased, Install
  PROVE  Phased'
  <1>. USE DEF service, channel, session, interception, Fail, Phased, Early,
               Late
  <1>1. CASE Prepare \/ OpenSession \/ InstallPure \/ InstallChannel
    BY <1>1 DEF Prepare, OpenSession, InstallPure, InstallChannel
  <1>2. CASE InstallService
    BY <1>2, AcceptTyped DEF InstallService
  <1>3. CASE Spawn \/ Attach
    BY <1>3 DEF Spawn, Attach
  <1>. QED  BY <1>1, <1>2, <1>3 DEF Install

LEMMA TeardownKeepsPhase ==
  ASSUME TypeOK, Phased, Teardown
  PROVE  Phased'
  <1>. USE DEF service, channel, session, interception, shell, Fail, Phased,
               Early, Late
  <1>1. CASE DriveEnds \/ DisposeFile \/ CloseSession \/ EndSession
    BY <1>1 DEF DriveEnds, DisposeFile, CloseSession, EndSession
  <1>2. CASE DisposeService
    BY <1>2 DEF DisposeService, HasService, StopBegins, Shutdown
  <1>3. CASE DisposeTransport
    BY <1>3 DEF DisposeTransport, Shutdown
  <1>. QED  BY <1>1, <1>2, <1>3 DEF Teardown

LEMMA EnvironmentKeepsPhase ==
  ASSUME TypeOK, Phased, Environment
  PROVE  Phased'
  BY DEF Environment, ListenerFails, Shutdown, ChildExits, HandlerFails,
         SignalArrives, OtherTerminal, service, channel, session,
         interception, shell, Phased, Early, Late

-----------------------------------------------------------------------------
LEMMA NextKeepsIInv == IInv /\ [Next]_vars => IInv'
  <1>. USE DEF IInv
  <1>1. SUFFICES ASSUME TypeOK, Safe, Phased, [Next]_vars
                 PROVE  TypeOK' /\ Safe' /\ Phased'
    BY DEF Safe
  <1>2. CASE \E r \in Requests, k \in Kinds : Command(r, k)
    BY <1>1, <1>2, AskTyped, CommandIsSafe, AskKeepsPhase DEF Command
  <1>3. CASE \E r \in Requests : Channel(r)
    BY <1>1, <1>3, ChannelTyped, ChannelIsSafe, ChannelKeepsPhase
  <1>4. CASE Service
    BY <1>1, <1>4, ServiceTyped, ServiceIsSafe, ServiceKeepsPhase
  <1>5. CASE Install
    BY <1>1, <1>5, InstallTyped, InstallIsSafe, InstallKeepsPhase
  <1>6. CASE Teardown
    BY <1>1, <1>6, TeardownTyped, TeardownIsSafe, TeardownKeepsPhase
  <1>7. CASE Environment
    BY <1>1, <1>7, EnvironmentTyped, EnvironmentIsSafe, EnvironmentKeepsPhase
  <1>8. CASE UNCHANGED vars
    <2>. USE <1>8 DEF vars, interception, channel, service, session, shell
    <2>1. TypeOK'
      BY <1>1 DEF TypeOK
    <2>2. Safe'
      BY <1>1, WaitingIsSafe DEF requests
    <2>3. Phased'
      BY <1>1 DEF Phased
    <2>. QED  BY <2>1, <2>2, <2>3
  <1>. QED  BY <1>1, <1>2, <1>3, <1>4, <1>5, <1>6, <1>7, <1>8 DEF Next

THEOREM Invariance == Spec => []IInv
  BY InitIInv, NextKeepsIInv, PTL DEF Spec

(***************************************************************************)
(* Every variable keeps its type; a connection is in hand exactly while    *)
(* the accept loop works on one.                                           *)
(***************************************************************************)
THEOREM Typing == Spec => []TypeOK
  BY Invariance, PTL DEF IInv

(***************************************************************************)
(* A command that ran was allowed by this shell's policy and, unless       *)
(* nothing of it was left, recorded first.                                 *)
(***************************************************************************)
THEOREM RanAfterRecord == Spec => []RanWasRecorded
  <1>1. IInv => RanWasRecorded
    BY DEF IInv, Answered, RanWasRecorded
  <1>. QED  BY <1>1, Invariance, PTL

(***************************************************************************)
(* A command reported as not released did not run and is not in the log.   *)
(***************************************************************************)
THEOREM ReportsAreTrue == Spec => []ReportedDidNotRun
  <1>1. IInv => ReportedDidNotRun
    BY DEF IInv, TypeOK, Answered, ReportedDidNotRun
  <1>. QED  BY <1>1, Invariance, PTL

(***************************************************************************)
(* No command stands twice in commands.log.                                *)
(***************************************************************************)
THEOREM LogHasNoRepeats == Spec => []RecordedOnce
  <1>1. IInv => RecordedOnce
    BY DEF IInv
  <1>. QED  BY <1>1, Invariance, PTL

(***************************************************************************)
(* After the stop of the service has begun nothing is answered.            *)
(***************************************************************************)
THEOREM StopSilences == Spec => NoAnswerAfterStop
  <1>1. IInv /\ [Next]_vars => [(stopping # "no") => reply' = reply]_vars
    <2>1. SUFFICES ASSUME IInv, Next, stopping # "no"
                   PROVE  UNCHANGED reply
      OBVIOUS
    <2>2. stopped = TRUE
      BY <2>1 DEF IInv, TypeOK, Phased
    <2>. USE DEF channel, session, interception
    <2>3. CASE \E r \in Requests, k \in Kinds : Command(r, k)
      BY <2>3 DEF Command, Ask
    <2>4. CASE \E r \in Requests : Channel(r)
      BY <2>4 DEF Channel, LineArrives, SocketCloses, HookRuns, HookBlocks
    <2>5. CASE Service
      <3>1. CASE Handle
        BY <2>2, <3>1 DEF Handle, HandleFrame
      <3>2. CASE Release
        BY <2>2, <3>2 DEF Release
      <3>. QED  BY <2>5, <3>1, <3>2
                DEF Service, Take, ReadTimesOut, CheckOwnership, Record,
                    ServeNext, StopCloses, StopEnds
    <2>6. CASE Install
      BY <2>6 DEF Install, Prepare, OpenSession, InstallPure, InstallChannel,
                  InstallService, Spawn, Attach
    <2>7. CASE Teardown
      BY <2>7 DEF Teardown, DriveEnds, DisposeService, StopBegins,
                  DisposeTransport, DisposeFile, CloseSession, EndSession
    <2>8. CASE Environment
      BY <2>8 DEF Environment, ListenerFails, ChildExits, HandlerFails,
                  SignalArrives, OtherTerminal
    <2>. QED  BY <2>1, <2>3, <2>4, <2>5, <2>6, <2>7, <2>8 DEF Next
  <1>. QED  BY <1>1, Invariance, PTL DEF Spec, NoAnswerAfterStop

(***************************************************************************)
(* Once the session is being closed this shell records nothing in it: by   *)
(* then the accept loop is over.                                           *)
(***************************************************************************)
THEOREM CloseEndsRecords == Spec => NoRecordAfterClose
  <1>1. IInv /\ [Next]_vars
        => [(run \in {"closing", "ending", "exited"}) => log' = log]_vars
    <2>1. SUFFICES ASSUME IInv, Next, run \in {"closing", "ending", "exited"}
                   PROVE  UNCHANGED log
      OBVIOUS
    <2>2. loop \in {"idle", "done"}
      BY <2>1 DEF IInv, Phased, Late
    <2>. USE DEF channel, session, service, interception
    <2>3. CASE \E r \in Requests, k \in Kinds : Command(r, k)
      BY <2>3 DEF Command, Ask
    <2>4. CASE \E r \in Requests : Channel(r)
      BY <2>4 DEF Channel, LineArrives, SocketCloses, HookRuns, HookBlocks
    <2>5. CASE Service
      BY <2>2, <2>5
         DEF Service, Take, ReadTimesOut, Handle, HandleFrame, CheckOwnership,
             Record, Release, ServeNext, StopCloses, StopEnds
    <2>6. CASE Install
      BY <2>6 DEF Install, Prepare, OpenSession, InstallPure, InstallChannel,
                  InstallService, Spawn, Attach
    <2>7. CASE Teardown
      BY <2>7 DEF Teardown, DriveEnds, DisposeService, StopBegins,
                  DisposeTransport, DisposeFile, CloseSession, EndSession
    <2>8. CASE Environment
      BY <2>8 DEF Environment, ListenerFails, ChildExits, HandlerFails,
                  SignalArrives, OtherTerminal
    <2>. QED  BY <2>1, <2>3, <2>4, <2>5, <2>6, <2>7, <2>8 DEF Next
  <1>. QED  BY <1>1, Invariance, PTL DEF Spec, NoRecordAfterClose

-----------------------------------------------------------------------------
(***************************************************************************)
(* How a shell ends.  Before its listener is bound there is no socket;     *)
(* past the listener's close none is left; and a teardown nothing has      *)
(* failed on was reached by a bridge that restored the terminal because    *)
(* the child had exited.                                                   *)
(***************************************************************************)
Unbound == {"preparing", "opening", "nonce", "channel"}

Unspawned == Unbound \cup {"hook", "service", "materialize", "handle", "spawning"}

Torn == {"disposing"} \cup Late

Ending ==
  /\ run \in Unbound => transport = "unbound"
  /\ transport = "unbound" => \A r \in Requests : socket[r] = "none"
  /\ run \in {"cleaning", "closing", "ending"} =>
        transport # "listening" /\ ListenerClosed
  /\ run \in Unspawned \cup {"attaching"} => bridge = "none"
  /\ run \in Torn /\ ~failed => bridge = "disposed"
  /\ bridge = "disposed" /\ ~failed => ~raw /\ child = "gone"

\* Without a listener no socket is opened, and a closed one stays closed.
LEMMA SocketsSettle ==
  ASSUME TypeOK, [Next]_vars, transport # "listening",
         NEW r \in Requests, socket[r] \in {"none", "closed"}
  PROVE  socket'[r] = socket[r]
  <1>. USE DEF channel, session, service, interception
  <1>1. \A S : Destroyed(S)[r] = socket[r]
    BY DEF Destroyed
  <1>2. CASE \E q \in Requests, k \in Kinds : Command(q, k)
    BY <1>2 DEF Command, Ask
  <1>3. ASSUME NEW q \in Requests, Channel(q)
        PROVE  socket'[r] = socket[r]
    <2>1. CASE LineArrives(q)
      <3>1. q # r
        BY <2>1 DEF LineArrives
      <3>. QED  BY <2>1, <3>1 DEF LineArrives, TypeOK
    <2>2. CASE SocketCloses(q)
      BY <2>2 DEF SocketCloses, TypeOK
    <2>3. CASE HookRuns(q) \/ HookBlocks(q)
      BY <2>3 DEF HookRuns, HookBlocks
    <2>. QED  BY <1>3, <2>1, <2>2, <2>3 DEF Channel
  <1>4. CASE Service
    BY <1>1, <1>4
       DEF Service, Take, ReadTimesOut, Handle, HandleFrame, CheckOwnership,
           Record, Release, ServeNext, StopCloses, StopEnds
  <1>5. CASE Install
    BY <1>5 DEF Install, Prepare, OpenSession, InstallPure, InstallChannel,
                InstallService, Spawn, Attach
  <1>6. CASE Teardown
    BY <1>1, <1>6 DEF Teardown, DriveEnds, DisposeService, StopBegins, Shutdown,
                DisposeTransport, DisposeFile, CloseSession, EndSession
  <1>7. CASE Environment
    BY <1>1, <1>7 DEF Environment, ListenerFails, Shutdown, ChildExits,
                HandlerFails, SignalArrives, OtherTerminal
  <1>. QED  BY <1>2, <1>3, <1>4, <1>5, <1>6, <1>7 DEF Next, vars

\* A listener comes of the bind only, and it is not opened again.
LEMMA ListenerAges ==
  ASSUME TypeOK, [Next]_vars
  PROVE  \/ transport' = transport
         \/ transport' = "closed" /\ (transport = "listening" \/ run = "disposing")
         \/ InstallChannel
  <1>. USE DEF channel, session, service, interception
  <1>2. CASE \E q \in Requests, k \in Kinds : Command(q, k)
    BY <1>2 DEF Command, Ask
  <1>3. CASE \E q \in Requests : Channel(q)
    BY <1>3 DEF Channel, LineArrives, SocketCloses, HookRuns, HookBlocks
  <1>4. CASE Service
    BY <1>4
       DEF Service, Take, ReadTimesOut, Handle, HandleFrame, CheckOwnership,
           Record, Release, ServeNext, StopCloses, StopEnds
  <1>5. CASE Install
    BY <1>5 DEF Install, Prepare, OpenSession, InstallPure, InstallChannel,
                InstallService, Spawn, Attach
  <1>6. CASE Teardown
    BY <1>6 DEF Teardown, DriveEnds, DisposeService, StopBegins, Shutdown,
                DisposeTransport, DisposeFile, CloseSession, EndSession
  <1>7. CASE Environment
    BY <1>7 DEF Environment, ListenerFails, Shutdown, ChildExits,
                HandlerFails, SignalArrives, OtherTerminal
  <1>. QED  BY <1>2, <1>3, <1>4, <1>5, <1>6, <1>7 DEF Next, vars

\* How far the shell may come in a step.
LEMMA RunAdvances ==
  ASSUME [Next]_vars
  PROVE  \/ run' = run
         \/ run \in Unspawned \cup {"attaching"} /\ Install
         \/ run \notin Unspawned \cup {"attaching"} /\ Teardown
  <1>. USE DEF shell
  <1>1. CASE \E q \in Requests, k \in Kinds : Command(q, k)
    BY <1>1 DEF Command
  <1>2. CASE \E q \in Requests : Channel(q)
    BY <1>2 DEF Channel
  <1>3. CASE Service
    BY <1>3 DEF Service
  <1>4. CASE Install
    BY <1>4 DEF Install, Prepare, OpenSession, InstallPure, InstallChannel,
                InstallService, Spawn, Attach, Unspawned, Unbound
  <1>5. CASE Teardown
    BY <1>5 DEF Teardown, DriveEnds, DisposeService, DisposeTransport,
                DisposeFile, CloseSession, EndSession, Unspawned, Unbound
  <1>6. CASE Environment
    BY <1>6 DEF Environment, ListenerFails, ChildExits, HandlerFails,
                SignalArrives, OtherTerminal
  <1>. QED  BY <1>1, <1>2, <1>3, <1>4, <1>5, <1>6 DEF Next, vars

LEMMA BridgeKept ==
  ASSUME IInv, Ending, [Next]_vars
  PROVE  /\ run' \in Unspawned \cup {"attaching"} => bridge' = "none"
         /\ run' \in Torn /\ ~failed' => bridge' = "disposed"
         /\ bridge' = "disposed" /\ ~failed' => ~raw' /\ child' = "gone"
  <1>. USE DEF shell
  <1>1. CASE UNCHANGED shell
    BY <1>1 DEF Ending
  <1>2. CASE Install
    <2>1. CASE Attach
      BY <2>1 DEF Attach, Fail, Torn, Late, Unspawned, Unbound
    <2>2. CASE Spawn
      BY <2>2 DEF Spawn, Fail, Ending, Torn, Late, Unspawned, Unbound
    <2>3. CASE Prepare \/ OpenSession \/ InstallPure \/ InstallChannel \/ InstallService
      <3>1. run \in Unspawned /\ UNCHANGED <<child, bridge, raw>>
        BY <2>3 DEF Prepare, OpenSession, InstallPure, InstallChannel,
                    InstallService, Quiet, Unspawned, Unbound
      <3>2. bridge = "none"
        BY <3>1 DEF Ending
      <3>3. run' \in Torn => failed'
        BY <2>3 DEF Prepare, OpenSession, InstallPure, InstallChannel,
                    InstallService, Fail, Torn, Late
      <3>. QED  BY <3>1, <3>2, <3>3
    <2>. QED  BY <1>2, <2>1, <2>2, <2>3 DEF Install
  <1>3. CASE Teardown
    <2>1. /\ UNCHANGED <<child, bridge, raw>>
          /\ run \in Torn \/ bridge = "disposed"
          /\ run' \in Torn /\ (~failed' => ~failed)
      BY <1>3 DEF Teardown, DriveEnds, DisposeService, DisposeTransport,
                  DisposeFile, CloseSession, EndSession, Fail, Quiet, Torn, Late
    <2>. QED  BY <2>1 DEF Ending, Torn, Late, Unspawned, Unbound
  <1>4. CASE ChildExits
    <2>1. run' = run /\ child' = "gone"
      BY <1>4 DEF ChildExits
    <2>2. CASE bridge = "attached"
      <3>1. bridge' = "disposed" /\ (~failed' => ~raw')
        BY <1>4, <2>2 DEF ChildExits, DisposeBridge
      <3>. QED  BY <2>1, <2>2, <3>1 DEF Ending
    <2>3. CASE bridge # "attached"
      BY <1>4, <2>1, <2>3 DEF ChildExits, Ending
    <2>. QED  BY <2>2, <2>3
  <1>5. CASE HandlerFails
    BY <1>5 DEF HandlerFails, DisposeBridge, Ending
  <1>6. CASE SignalArrives
    BY <1>6 DEF SignalArrives, DisposeBridge, Ending, Torn, Late, Unspawned, Unbound
  <1>7. UNCHANGED shell \/ Install \/ Teardown \/ ChildExits \/ HandlerFails
        \/ SignalArrives
    BY DEF Next, vars, Command, Channel, Service, Environment, OtherTerminal
  <1>. QED  BY <1>1, <1>2, <1>3, <1>4, <1>5, <1>6, <1>7

LEMMA SocketsKept ==
  ASSUME IInv, Ending, [Next]_vars
  PROVE  /\ run' \in Unbound => transport' = "unbound"
         /\ transport' = "unbound" => \A r \in Requests : socket'[r] = "none"
         /\ run' \in {"cleaning", "closing", "ending"} =>
               transport' # "listening" /\ ListenerClosed'
  <1>. USE DEF IInv
  <1>1. run' \in Unbound => run \in Unbound /\ ~InstallChannel
    BY RunAdvances
       DEF Install, Prepare, OpenSession, InstallPure, InstallChannel,
           InstallService, Spawn, Attach, Teardown, DriveEnds, DisposeService,
           DisposeTransport, DisposeFile, CloseSession, EndSession, Fail,
           Unbound, Unspawned, shell
  <1>2. run' \in Unbound => transport' = "unbound"
    BY <1>1, ListenerAges DEF Ending, Unbound
  <1>3. transport' = "unbound" => transport = "unbound"
    BY ListenerAges DEF InstallChannel, Ending, Unbound
  <1>4. transport' = "unbound" => \A r \in Requests : socket'[r] = "none"
    BY <1>3, SocketsSettle DEF Ending
  <1>5. ASSUME run' \in {"cleaning", "closing", "ending"}
        PROVE  transport' # "listening" /\ ListenerClosed'
    <2>1. CASE run \in {"cleaning", "closing", "ending"}
      <3>1. transport' # "listening"
        BY <2>1, ListenerAges DEF Ending, InstallChannel
      <3>. QED  BY <2>1, <3>1, SocketsSettle DEF Ending, ListenerClosed
    <2>2. CASE run \notin {"cleaning", "closing", "ending"}
      <3>1. DisposeTransport /\ run' # run
        BY <1>5, <2>2, RunAdvances
           DEF Install, Prepare, OpenSession, InstallPure, InstallChannel,
               InstallService, Spawn, Attach, Teardown, DriveEnds, DisposeService,
               DisposeFile, CloseSession, EndSession, Fail, shell
      <3>2. /\ transport # "listening" /\ ListenerClosed
            /\ UNCHANGED <<transport, socket>>
        BY <3>1 DEF DisposeTransport, Ending, ListenerClosed, interception, channel
      <3>. QED  BY <3>2 DEF ListenerClosed
    <2>. QED  BY <2>1, <2>2
  <1>. QED  BY <1>2, <1>4, <1>5

LEMMA ExitKept ==
  ASSUME IInv, Ending, ExitIsClean, [Next]_vars, run' = "exited", Phased'
  PROVE  ExitIsClean'
  <1>1. loop' \in {"idle", "done"}
    BY DEF Phased, Late
  <1>2. transport # "listening" /\ ListenerClosed /\ ~InstallChannel
    <2>1. CASE run = "exited"
      BY <2>1 DEF IInv, TypeOK, ExitIsClean, InstallChannel
    <2>2. CASE run # "exited"
      <3>1. run \in {"preparing", "opening", "closing", "ending"}
        BY <2>2, RunAdvances
           DEF Install, Prepare, OpenSession, InstallPure, InstallChannel,
               InstallService, Spawn, Attach, Teardown, DriveEnds,
               DisposeService, DisposeTransport, DisposeFile, CloseSession,
               EndSession, Fail, shell
      <3>. QED  BY <3>1 DEF Ending, Unbound, ListenerClosed, InstallChannel
    <2>. QED  BY <2>1, <2>2
  <1>3. transport' # "listening" /\ ListenerClosed'
    <2>1. transport' # "listening"
      BY <1>2, ListenerAges DEF IInv
    <2>. QED  BY <1>2, <2>1, SocketsSettle DEF IInv, ListenerClosed
  <1>4. transport' \in {"unbound", "closed"}
    BY <1>2, <1>3, ListenerAges DEF IInv, TypeOK
  <1>5. ~failed' => ~raw' /\ child' = "gone"
    BY BridgeKept DEF Torn, Late
  <1>6. ~failed' => lock' # "ours"
    <2>1. CASE run = "exited"
      <3>1. lock' = lock \/ lock' \in {"none", "other"}
        BY <2>1 DEF Next, vars, Command, Ask, Channel, LineArrives, SocketCloses,
           HookRuns, HookBlocks, Service, Take, ReadTimesOut, Handle,
           HandleFrame, CheckOwnership, Record, Release, ServeNext, StopCloses,
           StopEnds, Install, Prepare, OpenSession, InstallPure, InstallChannel,
           InstallService, Spawn, Attach, Teardown, DriveEnds, DisposeService,
           DisposeTransport, DisposeFile, CloseSession, EndSession, Environment,
           ListenerFails, ChildExits, HandlerFails, SignalArrives,
           OtherTerminal, session, interception
      <3>2. ~failed' => ~failed
        BY <2>1 DEF Next, vars, Command, Channel, Service, Install, Prepare,
           OpenSession, InstallPure, InstallChannel,
           InstallService, Spawn, Attach, Teardown, DriveEnds, DisposeService,
           DisposeTransport, DisposeFile, CloseSession, EndSession, Environment,
           ListenerFails, ChildExits, HandlerFails, SignalArrives, DisposeBridge,
           OtherTerminal, shell
      <3>. QED  BY <2>1, <3>1, <3>2 DEF ExitIsClean
    <2>2. CASE run # "exited"
      BY <2>2, RunAdvances
         DEF Install, Prepare, OpenSession, InstallPure, InstallChannel,
             InstallService, Spawn, Attach, Teardown, DriveEnds, DisposeService,
             DisposeTransport, DisposeFile, CloseSession, EndSession, Fail, shell,
             interception, session
    <2>. QED  BY <2>1, <2>2
  <1>. QED  BY <1>1, <1>3, <1>4, <1>5, <1>6 DEF ExitIsClean

(***************************************************************************)
(* An exited shell has left no listener, accept loop or socket, and with   *)
(* an exit code of 0 the terminal restored, no child and no session.       *)
(***************************************************************************)
THEOREM ExitLeavesNothing == Spec => []ExitIsClean
  <1>1. Init => Ending /\ ExitIsClean
    BY DEF Init, Ending, ExitIsClean, Unbound, Unspawned, Torn, Late
  <1>2. IInv /\ Ending /\ ExitIsClean /\ [Next]_vars => (Ending /\ ExitIsClean)'
    <2>1. SUFFICES ASSUME IInv, Ending, ExitIsClean, [Next]_vars
                   PROVE  Ending' /\ ExitIsClean'
      OBVIOUS
    <2>2. Ending'
      BY <2>1, BridgeKept, SocketsKept DEF Ending
    <2>3. Phased'
      BY <2>1, NextKeepsIInv DEF IInv
    <2>4. ExitIsClean'
      <3>1. CASE run' = "exited"
        BY <2>1, <2>3, <3>1, ExitKept
      <3>2. CASE run' # "exited"
        BY <3>2 DEF ExitIsClean
      <3>. QED  BY <3>1, <3>2
    <2>. QED  BY <2>2, <2>4
  <1>. QED  BY <1>1, <1>2, Invariance, PTL DEF Spec
=============================================================================

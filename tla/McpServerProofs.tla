-------------------------- MODULE McpServerProofs --------------------------
(***************************************************************************)
(* What the MCP server promises, proved for every finite set of requests   *)
(* and every choice of tools.                                              *)
(***************************************************************************)
EXTENDS McpServer, FiniteSetTheorems, TLAPS

Recorded == {"denied", "result", "timeout"}
Finished == {"settled", "answered", "dropped"}
Stages == {"new", "handling", "recording", "settled", "answered", "dropped"}
Verdicts == {"none", "tools", "denied", "result", "timeout", "unrecorded"}

\* The calls that trackHandler counts.
Handled == {r \in Requests : stage[r] \in InFlight}

Counted == active = Cardinality(Handled)

(***************************************************************************)
(* The chain holds each call that waits for its record, once; the log only *)
(* calls whose record was accepted.                                        *)
(***************************************************************************)
Chained ==
  /\ poisoned \/ handle \in {"none", "closed"} => chain = <<>>
  /\ \A r \in Requests : stage[r] = "recording" <=> r \in ToSet(chain)
  /\ \A i, j \in DOMAIN chain : chain[i] = chain[j] => i = j

Logged ==
  /\ \A r \in ToSet(log) : stage[r] \in Finished /\ verdict[r] \in Recorded
  /\ \A r \in Requests :
       /\ stage[r] \in {"new", "handling"} => verdict[r] = "none"
       /\ stage[r] = "recording" => verdict[r] \in Recorded
       /\ stage[r] \in Finished =>
            verdict[r] \in {"tools", "unrecorded"} \/ r \in ToSet(log)

(***************************************************************************)
(* The running command is that of the head of the queue.                   *)
(***************************************************************************)
Serial ==
  /\ \A r \in Requests : work[r] = "queued" <=> r \in ToSet(queue)
  /\ \A i, j \in DOMAIN queue : queue[i] = queue[j] => i = j
  /\ busy # {} => queue # <<>> /\ busy = {Head(queue)}
  /\ cwd = IF busy = {} THEN "server" ELSE "repo"
  /\ \A r \in busy : saved[r] = "server"

Worked ==
  \A r \in Requests :
    /\ stage[r] = "new" => tool[r] = "none" /\ work[r] = "none"
    /\ tool[r] \in ClassB /\ stage[r] \in Finished \cup {"recording"}
         => work[r] = "returned" /\ verdict[r] \in {"result", "unrecorded"}

(***************************************************************************)
(* Nothing is dropped while the server serves, and nothing begins once its *)
(* end is decided.                                                         *)
(***************************************************************************)
Ended ==
  /\ phase \in {"booting", "connecting"} => \A r \in Requests : stage[r] = "new"
  /\ phase = "serving" => \A r \in Requests : stage[r] # "dropped"
  /\ phase \in {"closing", "ended"} => outcome # "none"
  /\ outcome = "none" <=> cause = "none"
  /\ EndOfInputDrains

(***************************************************************************)
(* What an explanation has read of an ad hoc report is of its one check.   *)
(***************************************************************************)
Explained ==
  \A r \in Requests :
    /\ halves[r] # <<>> =>
         \/ subject[r] \in Checks
         \/ subject[r] = "session" /\ sessionReport # None
    /\ subject[r] # "session" =>
         \A i \in DOMAIN halves[r] : halves[r][i] = subject[r]

IInv == TypeOK /\ Counted /\ Chained /\ Logged /\ Serial /\ Worked /\ Ended
        /\ Explained

-----------------------------------------------------------------------------
\* A record at the end of a sequence, and one taken from its head.
LEMMA Grown ==
  ASSUME NEW S, NEW s \in Seq(S), NEW e \in S
  PROVE  /\ Append(s, e) \in Seq(S)
         /\ ToSet(Append(s, e)) = ToSet(s) \cup {e}
         /\ (\A i, j \in DOMAIN s : s[i] = s[j] => i = j) /\ e \notin ToSet(s)
              => \A i, j \in DOMAIN Append(s, e) :
                   Append(s, e)[i] = Append(s, e)[j] => i = j
  <1>1. /\ Append(s, e) \in Seq(S)
        /\ DOMAIN Append(s, e) = DOMAIN s \cup {Len(s) + 1}
        /\ \A i \in DOMAIN s : Append(s, e)[i] = s[i]
        /\ Append(s, e)[Len(s) + 1] = e
        /\ Len(s) + 1 \notin DOMAIN s
    BY SMT
  <1>. DEFINE t == Append(s, e)
              l == Len(s) + 1
  <1>2. /\ DOMAIN t = DOMAIN s \cup {l}
        /\ \A i \in DOMAIN s : t[i] = s[i]
        /\ t[l] = e
        /\ l \notin DOMAIN s
    BY <1>1
  <1>. HIDE DEF t, l
  <1>3. ToSet(t) = ToSet(s) \cup {e}
    <2>1. \A x : x \in ToSet(t) <=> \E i \in DOMAIN s \cup {l} : t[i] = x
      BY <1>2 DEF ToSet
    <2>2. \A x : x \in ToSet(s) <=> \E i \in DOMAIN s : s[i] = x
      BY DEF ToSet
    <2>. QED  BY <1>2, <2>1, <2>2
  <1>4. (\A i, j \in DOMAIN s : s[i] = s[j] => i = j) /\ e \notin ToSet(s)
          => \A i, j \in DOMAIN t : t[i] = t[j] => i = j
    <2>1. \A i \in DOMAIN s : s[i] \in ToSet(s)
      BY DEF ToSet
    <2>. QED  BY <1>2, <2>1
  <1>. QED  BY <1>1, <1>3, <1>4 DEF t

LEMMA Shrunk ==
  ASSUME NEW S, NEW s \in Seq(S), s # <<>>
  PROVE  /\ Head(s) \in S /\ Head(s) \in ToSet(s)
         /\ Tail(s) \in Seq(S)
         /\ (\A i, j \in DOMAIN s : s[i] = s[j] => i = j)
              => /\ ToSet(Tail(s)) = ToSet(s) \ {Head(s)}
                 /\ \A i, j \in DOMAIN Tail(s) : Tail(s)[i] = Tail(s)[j] => i = j
  <1>1. /\ Head(s) \in S
        /\ 1 \in DOMAIN s
        /\ Head(s) = s[1]
        /\ Tail(s) \in Seq(S)
        /\ \A i \in DOMAIN Tail(s) : /\ i \in Nat /\ i + 1 \in DOMAIN s
                                     /\ i + 1 # 1 /\ Tail(s)[i] = s[i + 1]
        /\ \A i \in DOMAIN s : i # 1 =>
             \E j \in DOMAIN Tail(s) : Tail(s)[j] = s[i]
    <2>1. \A i \in DOMAIN s : i # 1 =>
            /\ i - 1 \in DOMAIN Tail(s) /\ Tail(s)[i - 1] = s[i]
      BY SMT
    <2>2. \A i \in DOMAIN s : i # 1 =>
             \E j \in DOMAIN Tail(s) : Tail(s)[j] = s[i]
      BY <2>1, Zenon
    <2>. QED  BY <2>2, SMT
  <1>2. Head(s) \in ToSet(s)
    BY <1>1, Zenon DEF ToSet
  <1>3. ASSUME \A i, j \in DOMAIN s : s[i] = s[j] => i = j
        PROVE  /\ ToSet(Tail(s)) = ToSet(s) \ {Head(s)}
               /\ \A i, j \in DOMAIN Tail(s) : Tail(s)[i] = Tail(s)[j] => i = j
    <2>. DEFINE t == Tail(s)
    <2>4. \A i \in DOMAIN t : \E k \in DOMAIN s : k # 1 /\ t[i] = s[k]
      BY <1>1
    <2>5. /\ \A k \in DOMAIN s : k # 1 => s[k] # s[1]
          /\ \A k \in DOMAIN s : k # 1 => \E j \in DOMAIN t : t[j] = s[k]
      BY <1>1, <1>3
    <2>6. Head(s) = s[1]
      BY <1>1
    <2>. HIDE DEF t
    <2>1. ToSet(t) \subseteq ToSet(s) \ {Head(s)}
      <3>1. SUFFICES ASSUME NEW i \in DOMAIN t PROVE t[i] \in ToSet(s) \ {s[1]}
        BY <2>6, Zenon DEF ToSet
      <3>2. PICK k \in DOMAIN s : k # 1 /\ t[i] = s[k]
        BY <2>4
      <3>. QED  BY <3>2, <2>5 DEF ToSet
    <2>2. ToSet(s) \ {Head(s)} \subseteq ToSet(t)
      <3>1. SUFFICES ASSUME NEW k \in DOMAIN s, s[k] # s[1] PROVE s[k] \in ToSet(t)
        BY <2>6, Zenon DEF ToSet
      <3>. QED  BY <3>1, <2>5, Zenon DEF ToSet
    <2>3. ASSUME NEW i \in DOMAIN Tail(s), NEW j \in DOMAIN Tail(s),
                 Tail(s)[i] = Tail(s)[j]
          PROVE  i = j
      <3>1. i + 1 = j + 1 /\ i \in Nat /\ j \in Nat
        BY <1>1, <1>3, <2>3, SMT
      <3>. QED  BY <3>1, SMT
    <2>. QED  BY <2>1, <2>2, <2>3 DEF t
  <1>. QED  BY <1>1, <1>2, <1>3

LEMMA EmptyToSet == ToSet(<<>>) = {}
  BY SMT DEF ToSet

LEMMA HandledFinite ==
  /\ IsFiniteSet(Handled)
  /\ Cardinality(Handled) \in Nat
  /\ Cardinality(Handled) <= Cardinality(Requests)
  /\ Cardinality(Requests) \in Nat
  BY RequestsAssumption, FS_Subset, FS_CardinalityType DEF Handled

LEMMA InitIInv == Init => IInv
  <1>1. SUFFICES ASSUME Init PROVE IInv
    OBVIOUS
  <1>2. Handled = {}
    BY <1>1 DEF Init, Handled, InFlight
  <1>3. Counted
    BY <1>1, <1>2, FS_EmptySet DEF Init, Counted
  <1>4. TypeOK
    <2>1. /\ chain \in Seq(Requests) /\ log \in Seq(Requests) /\ queue \in Seq(Requests)
      BY <1>1, SMT DEF Init, AuditInit, HarnessInit
    <2>2. halves \in [Requests -> Seq(Checks)]
      <3>1. <<>> \in Seq(Checks)
        BY SMT
      <3>. QED  BY <1>1, <3>1 DEF Init
    <2>3. active \in 0 .. Cardinality(Requests)
      BY <1>1, HandledFinite, SMT DEF Init
    <2>. QED
      BY <1>1, <2>1, <2>2, <2>3 DEF Init, AuditInit, HarnessInit, TypeOK, Checks
  <1>5. Chained /\ Logged /\ Serial /\ Worked /\ Ended
    BY <1>1, EmptyToSet
       DEF Init, AuditInit, HarnessInit, Chained, Logged, Serial, Worked, Ended,
           EndOfInputDrains, ClassB, Finished, InFlight
  <1>6. Explained
    BY <1>1 DEF Init, Explained
  <1>. QED  BY <1>3, <1>4, <1>5, <1>6 DEF IInv

-----------------------------------------------------------------------------
(***************************************************************************)
(* The dispatcher and the log.                                             *)
(***************************************************************************)
Core ==
  /\ stage \in [Requests -> Stages]
  /\ verdict \in [Requests -> Verdicts]
  /\ active \in 0 .. Cardinality(Requests)
  /\ scheduled \in BOOLEAN
  /\ deferred \in BOOLEAN
  /\ chain \in Seq(Requests)
  /\ log \in Seq(Requests)
  /\ poisoned \in BOOLEAN
  /\ handle \in {"none", "open", "closing", "closed"}
  /\ Counted
  /\ Chained
  /\ Logged

\* What a step that counts the calls in flight again leaves in active.
LEMMA CountedTyped ==
  ASSUME Counted'
  PROVE  active' \in 0 .. Cardinality(Requests)
  <1>1. /\ IsFiniteSet(Handled')
        /\ Cardinality(Handled') \in Nat
        /\ Cardinality(Handled') <= Cardinality(Requests)
        /\ Cardinality(Requests) \in Nat
    BY RequestsAssumption, FS_Subset, FS_CardinalityType DEF Handled
  <1>. QED  BY <1>1, SMT DEF Counted

\* A call that is given its record, or told that there is none.
LEMMA RecordKeeps ==
  ASSUME Core, NEW r \in Requests, NEW v \in Recorded, NEW n, Record(r, v, n),
         \/ stage[r] = "handling" /\ n = active
         \/ stage[r] = "new" /\ n = active + 1
  PROVE  /\ Core'
         /\ stage' \in {[stage EXCEPT ![r] = "recording"], [stage EXCEPT ![r] = "settled"]}
         /\ verdict' \in {[verdict EXCEPT ![r] = v], [verdict EXCEPT ![r] = "unrecorded"]}
  <1>1. r \notin ToSet(chain) /\ r \notin ToSet(log)
    BY DEF Core, Chained, Logged, Finished
  <1>2. CASE Accepts
    <2>1. /\ stage' = [stage EXCEPT ![r] = "recording"]
          /\ verdict' = [verdict EXCEPT ![r] = v]
          /\ active' = n
          /\ scheduled' = scheduled /\ deferred' = deferred
          /\ chain' = Append(chain, r)
          /\ poisoned' = poisoned /\ handle' = handle /\ log' = log
      BY <1>2 DEF Record, Extend
    <2>2. /\ chain' \in Seq(Requests)
          /\ ToSet(chain') = ToSet(chain) \cup {r}
          /\ \A i, j \in DOMAIN chain' : chain'[i] = chain'[j] => i = j
      BY <1>1, <2>1, Grown DEF Core, Chained
    <2>3. stage' \in [Requests -> Stages] /\ verdict' \in [Requests -> Verdicts]
      BY <2>1 DEF Core, Stages, Verdicts, Recorded
    <2>4. Counted'
      <3>1. Handled' = Handled \cup {r}
        BY <2>1 DEF Core, Handled, InFlight
      <3>2. r \in Handled <=> stage[r] = "handling"
        BY DEF Handled, InFlight, Core, Chained
      <3>. QED
        BY <2>1, <3>1, <3>2, HandledFinite, FS_AddElement DEF Core, Counted
    <2>5. Chained'
      BY <1>2, <2>1, <2>2 DEF Core, Chained, Accepts
    <2>6. Logged'
      BY <1>1, <2>1 DEF Core, Logged, Finished, Recorded
    <2>. QED  BY <2>1, <2>2, <2>3, <2>4, <2>5, <2>6, CountedTyped DEF Core
  <1>3. CASE ~Accepts
    <2>1. /\ stage' = [stage EXCEPT ![r] = "settled"]
          /\ verdict' = [verdict EXCEPT ![r] = "unrecorded"]
          /\ active' = n - 1
          /\ scheduled' \in BOOLEAN
          /\ deferred' \in BOOLEAN
          /\ UNCHANGED audit
      BY <1>3 DEF Record, Leave, Defer
    <2>2. stage' \in [Requests -> Stages] /\ verdict' \in [Requests -> Verdicts]
      BY <2>1 DEF Core, Stages, Verdicts
    <2>3. Counted'
      <3>1. Handled' = Handled \ {r}
        BY <2>1 DEF Core, Handled, InFlight
      <3>2. r \in Handled <=> stage[r] = "handling"
        BY DEF Handled, InFlight, Core, Chained
      <3>3. active \in Nat
        BY SMT, HandledFinite DEF Core, Counted
      <3>4. Cardinality(Handled \ {r}) =
              IF r \in Handled THEN Cardinality(Handled) - 1 ELSE Cardinality(Handled)
        BY HandledFinite, FS_RemoveElement, Zenon
      <3>5. active = Cardinality(Handled)
        BY DEF Core, Counted
      <3>6. active' = Cardinality(Handled \ {r})
        BY <2>1, <3>2, <3>3, <3>4, <3>5, SMT
      <3>. QED  BY <3>1, <3>6 DEF Counted
    <2>4. Chained'
      BY <1>1, <2>1 DEF Core, Chained, audit
    <2>5. Logged'
      BY <1>1, <2>1 DEF Core, Logged, Finished, Recorded, audit
    <2>. QED  BY <2>1, <2>2, <2>3, <2>4, <2>5, CountedTyped DEF Core, audit
  <1>. QED  BY <1>2, <1>3

\* The list of the tools.
LEMMA ListKeeps ==
  ASSUME Core, NEW r \in Requests, List(r), stage[r] = "new"
  PROVE  Core'
  <1>1. r \notin ToSet(chain) /\ r \notin ToSet(log)
    BY DEF Core, Chained, Logged, Finished
  <1>2. /\ stage' = [stage EXCEPT ![r] = "settled"]
        /\ verdict' = [verdict EXCEPT ![r] = "tools"]
        /\ active' = active
        /\ scheduled' \in BOOLEAN
        /\ deferred' = deferred
        /\ UNCHANGED audit
    BY DEF List, Leave
  <1>3. stage' \in [Requests -> Stages] /\ verdict' \in [Requests -> Verdicts]
    BY <1>2 DEF Core, Stages, Verdicts
  <1>4. Handled' = Handled
    BY <1>2 DEF Core, Handled, InFlight
  <1>5. Chained' /\ Counted'
    BY <1>1, <1>2, <1>4 DEF Core, Chained, Counted, audit
  <1>6. Logged'
    BY <1>1, <1>2 DEF Core, Logged, Finished, Recorded, audit
  <1>. QED  BY <1>2, <1>3, <1>5, <1>6 DEF Core, audit

\* A handler begins.
LEMMA InvokeKeeps ==
  ASSUME Core, NEW r \in Requests, Invoke(r), stage[r] = "new"
  PROVE  Core'
  <1>1. r \notin ToSet(chain) /\ r \notin ToSet(log)
    BY DEF Core, Chained, Logged, Finished
  <1>2. /\ stage' = [stage EXCEPT ![r] = "handling"]
        /\ active' = active + 1
        /\ UNCHANGED <<verdict, scheduled, deferred, audit>>
    BY DEF Invoke
  <1>3. stage' \in [Requests -> Stages]
    BY <1>2 DEF Core, Stages
  <1>4. Handled' = Handled \cup {r} /\ r \notin Handled
    BY <1>2 DEF Core, Handled, InFlight
  <1>5. Counted'
    BY <1>2, <1>4, HandledFinite, FS_AddElement DEF Core, Counted
  <1>6. Chained'
    BY <1>1, <1>2 DEF Core, Chained, audit
  <1>7. Logged'
    BY <1>1, <1>2 DEF Core, Logged, Finished, Recorded, audit
  <1>. QED  BY <1>2, <1>3, <1>5, <1>6, <1>7, CountedTyped DEF Core, audit

\* An answer is written or dropped.
LEMMA RespondKeeps ==
  ASSUME Core, NEW r \in Requests, Respond(r)
  PROVE  Core'
  <1>1. /\ stage[r] = "settled"
        /\ \E x \in {"answered", "dropped"} : stage' = [stage EXCEPT ![r] = x]
        /\ UNCHANGED <<verdict, active, scheduled, deferred, audit>>
    BY DEF Respond, counters
  <1>2. PICK x \in {"answered", "dropped"} : stage' = [stage EXCEPT ![r] = x]
    BY <1>1
  <1>3. stage' \in [Requests -> Stages]
    BY <1>2 DEF Core, Stages
  <1>4. Handled' = Handled
    BY <1>1, <1>2 DEF Core, Handled, InFlight
  <1>5. Chained' /\ Counted'
    BY <1>1, <1>2, <1>4 DEF Core, Chained, Counted, audit
  <1>6. Logged'
    BY <1>1, <1>2 DEF Core, Logged, Finished, Recorded, audit
  <1>. QED  BY <1>1, <1>3, <1>5, <1>6 DEF Core, audit

\* The head of the chain is in the file.
LEMMA WrittenKeeps ==
  ASSUME Core, RecordWritten
  PROVE  /\ Core'
         /\ Head(chain) \in Requests /\ stage[Head(chain)] = "recording"
         /\ stage' = [stage EXCEPT ![Head(chain)] = "settled"]
  <1>. DEFINE r == Head(chain)
  <1>1. chain # <<>> /\ chain \in Seq(Requests)
    BY DEF RecordWritten, Appended, Core
  <1>2. /\ r \in Requests /\ r \in ToSet(chain)
        /\ Tail(chain) \in Seq(Requests)
        /\ ToSet(Tail(chain)) = ToSet(chain) \ {r}
        /\ \A i, j \in DOMAIN Tail(chain) : Tail(chain)[i] = Tail(chain)[j] => i = j
    BY <1>1, Shrunk DEF Core, Chained
  <1>3. stage[r] = "recording" /\ verdict[r] \in Recorded
    BY <1>2 DEF Core, Chained, Logged
  <1>. HIDE DEF r
  <1>4. /\ chain' = Tail(chain)
        /\ log' = Append(log, r)
        /\ stage' = [stage EXCEPT ![r] = "settled"]
        /\ active' = active - 1
        /\ scheduled' \in BOOLEAN
        /\ UNCHANGED <<poisoned, handle, verdict, deferred>>
    BY DEF RecordWritten, Appended, Leave, r
  <1>5. log' \in Seq(Requests) /\ ToSet(log') = ToSet(log) \cup {r}
    BY <1>2, <1>4, Grown DEF Core
  <1>6. stage' \in [Requests -> Stages]
    BY <1>4 DEF Core, Stages
  <1>7. Counted'
    <2>1. Handled' = Handled \ {r} /\ r \in Handled
      BY <1>2, <1>3, <1>4 DEF Core, Handled, InFlight
    <2>. QED
      BY <1>4, <2>1, HandledFinite, FS_RemoveElement DEF Core, Counted
  <1>8. Chained'
    BY <1>1, <1>2, <1>4 DEF Core, Chained
  <1>9. Logged'
    BY <1>2, <1>3, <1>4, <1>5 DEF Core, Logged, Finished, Recorded
  <1>10. active' \in 0 .. Cardinality(Requests)
    BY <1>7, CountedTyped
  <1>11. chain' \in Seq(Requests)
    BY <1>2, <1>4
  <1>. QED
    BY <1>2, <1>3, <1>4, <1>5, <1>6, <1>7, <1>8, <1>9, <1>10, <1>11 DEF Core, r

\* The append failed, and every call that waits is told so.
LEMMA FailsKeeps ==
  ASSUME Core, RecordFails
  PROVE  /\ Core'
         /\ stage' = [r \in Requests |-> IF stage[r] = "recording" THEN "settled"
                                                                  ELSE stage[r]]
         /\ verdict' = [r \in Requests |-> IF stage[r] = "recording"
                                           THEN "unrecorded" ELSE verdict[r]]
  <1>. DEFINE failed == {r \in Requests : stage[r] = "recording"}
  <1>1. chain' = <<>> /\ ToSet(chain') = {} /\ chain' \in Seq(Requests)
    BY EmptyToSet, SMT DEF RecordFails, AppendFailed
  <1>2. {r \in Requests : stage[r] = "recording" /\ r \notin ToSet(chain')} = failed
    BY <1>1
  <1>3. /\ stage' = [r \in Requests |-> IF r \in failed THEN "settled" ELSE stage[r]]
        /\ verdict' = [r \in Requests |-> IF r \in failed THEN "unrecorded"
                                                          ELSE verdict[r]]
        /\ active' = active - Cardinality(failed)
        /\ scheduled' \in BOOLEAN
        /\ deferred' \in BOOLEAN
        /\ poisoned' = TRUE
        /\ UNCHANGED <<handle, log>>
    BY <1>2 DEF RecordFails, AppendFailed, Leave, Defer
  <1>4. stage' \in [Requests -> Stages] /\ verdict' \in [Requests -> Verdicts]
    BY <1>3 DEF Core, Stages, Verdicts
  <1>5. Counted'
    <2>1. Handled' = Handled \ failed /\ Handled \cap failed = failed
      BY <1>3 DEF Core, Handled, InFlight
    <2>2. Cardinality(Handled \ failed) = Cardinality(Handled) - Cardinality(failed)
      BY <2>1, HandledFinite, FS_Difference
    <2>. QED  BY <1>3, <2>1, <2>2 DEF Core, Counted
  <1>6. Chained'
    BY <1>1, <1>3 DEF Core, Chained
  <1>7. Logged'
    <2>1. ToSet(log) \subseteq Requests
      BY SMT DEF Core, ToSet
    <2>. QED  BY <1>3, <2>1 DEF Core, Logged, Finished, Recorded
  <1>8. active' \in 0 .. Cardinality(Requests)
    BY <1>5, CountedTyped
  <1>. QED  BY <1>1, <1>3, <1>4, <1>5, <1>6, <1>7, <1>8 DEF Core

-----------------------------------------------------------------------------
(***************************************************************************)
(* The command harness.                                                    *)
(***************************************************************************)
Works == {"none", "direct", "queued", "between", "returned"}

HCore ==
  /\ work \in [Requests -> Works]
  /\ queue \in Seq(Requests)
  /\ busy \in SUBSET Requests
  /\ cwd \in {"server", "repo"}
  /\ saved \in [Requests -> {"server", "repo"}]
  /\ Serial

\* A call outside the queue does something else.
LEMMA WorkKeeps ==
  ASSUME HCore, NEW r \in Requests, work[r] # "queued", NEW w \in Works \ {"queued"},
         work' = [work EXCEPT ![r] = w], UNCHANGED harness
  PROVE  HCore'
  BY DEF HCore, Serial, harness

\* A call joins the queue.
LEMMA EnqueueKeeps ==
  ASSUME HCore, NEW r \in Requests, work[r] # "queued", Enqueue(r),
         work' = [work EXCEPT ![r] = "queued"]
  PROVE  HCore'
  <1>1. r \notin ToSet(queue)
    BY DEF HCore, Serial
  <1>2. /\ queue' \in Seq(Requests)
        /\ ToSet(queue') = ToSet(queue) \cup {r}
        /\ \A i, j \in DOMAIN queue' : queue'[i] = queue'[j] => i = j
    BY <1>1, Grown DEF HCore, Serial, Enqueue
  <1>3. queue # <<>> => queue' # <<>> /\ Head(queue') = Head(queue)
    BY SMT DEF Enqueue, HCore
  <1>4. work' \in [Requests -> Works]
    BY DEF HCore, Works
  <1>. QED  BY <1>2, <1>3, <1>4 DEF HCore, Serial, Enqueue

\* The head of the queue begins its command.
LEMMA BeginsKeeps ==
  ASSUME HCore, NEW r \in Requests, CommandBegins(r), UNCHANGED work
  PROVE  HCore'
  <1>1. /\ queue # <<>> /\ Head(queue) = r /\ r \notin busy
        /\ busy' = busy \cup {r}
        /\ saved' = [saved EXCEPT ![r] = cwd]
        /\ cwd' = "repo"
        /\ queue' = queue
    BY DEF CommandBegins, Holds
  <1>2. busy = {}
    BY <1>1 DEF HCore, Serial
  <1>. QED  BY <1>1, <1>2 DEF HCore, Serial

\* The head of the queue leaves it, its command not begun or ended.
LEMMA LeavesKeeps ==
  ASSUME HCore, NEW r \in Requests, CommandRefused(r) \/ CommandEnds(r),
         NEW w \in Works \ {"queued"}, work' = [work EXCEPT ![r] = w]
  PROVE  HCore'
  <1>1. queue # <<>> /\ Head(queue) = r /\ queue' = Tail(queue)
    BY DEF CommandRefused, CommandEnds, Holds, HCore, Serial
  <1>2. /\ queue' \in Seq(Requests)
        /\ ToSet(queue') = ToSet(queue) \ {r}
        /\ \A i, j \in DOMAIN queue' : queue'[i] = queue'[j] => i = j
    BY <1>1, Shrunk DEF HCore, Serial
  <1>3. work' \in [Requests -> Works]
    BY DEF HCore
  <1>4. /\ busy' = {}
        /\ cwd' = "server"
        /\ saved' \in [Requests -> {"server", "repo"}]
    BY <1>1 DEF CommandRefused, CommandEnds, Holds, HCore, Serial
  <1>. QED  BY <1>2, <1>3, <1>4 DEF HCore, Serial

-----------------------------------------------------------------------------
(***************************************************************************)
(* What the calls are, and how the server ends.                            *)
(***************************************************************************)
Rest ==
  /\ tool \in [Requests -> Tools \cup {"none"}]
  /\ phase \in {"booting", "connecting", "serving", "closing", "ended"}
  /\ stdinClosed \in BOOLEAN
  /\ outcome \in {"none", "graceful", "unhealthy", "not_booted"}
  /\ cause \in {"none", "eof", "audit", "other"}
  /\ sessionReport \in Checks \cup {None}
  /\ adHocReports \in SUBSET Checks
  /\ subject \in [Requests -> Checks \cup {"session", None}]
  /\ halves \in [Requests -> Seq(Checks)]
  /\ Worked
  /\ Ended
  /\ Explained

LEMMA Parts == IInv <=> Core /\ HCore /\ Rest
  BY DEF IInv, TypeOK, Core, HCore, Rest, Stages, Verdicts, Works

LEMMA PartsNext == IInv' <=> Core' /\ HCore' /\ Rest'
  BY DEF IInv, TypeOK, Core, HCore, Rest, Stages, Verdicts, Works

\* A call in flight goes on while nothing else about the server changes.
LEMMA StageKeeps ==
  ASSUME Core, Rest, NEW r \in Requests,
         stage[r] \in InFlight,
         \E x \in Stages \ {"new", "dropped"} : stage' = [stage EXCEPT ![r] = x],
         UNCHANGED <<tool, ending>>
  PROVE  Ended'
  BY DEF Core, Rest, Ended, EndOfInputDrains, InFlight, Stages, ending

\* A tool returns: its call, if the dispatcher still waits, is recorded.
LEMMA ReturnsKeeps ==
  ASSUME IInv, NEW r \in Requests, work[r] \notin {"none", "returned"}, Returns(r),
         UNCHANGED <<tool, ending>>
  PROVE  Core' /\ Worked' /\ Ended'
  <1>1. Core /\ Rest /\ HCore
    BY Parts
  <1>2. work' = [work EXCEPT ![r] = "returned"]
    BY DEF Returns
  <1>3. CASE stage[r] = "handling"
    <2>1. Record(r, "result", active)
      BY <1>3 DEF Returns
    <2>2. /\ Core'
          /\ stage' \in {[stage EXCEPT ![r] = "recording"], [stage EXCEPT ![r] = "settled"]}
          /\ verdict' \in {[verdict EXCEPT ![r] = "result"], [verdict EXCEPT ![r] = "unrecorded"]}
      BY <1>1, <1>3, <2>1, RecordKeeps DEF Recorded
    <2>3. Ended'
      BY <1>1, <1>3, <2>2, StageKeeps DEF Stages, InFlight
    <2>4. Worked'
      BY <1>1, <1>2, <1>3, <2>2 DEF Core, HCore, Rest, Worked
    <2>. QED  BY <2>2, <2>3, <2>4
  <1>4. CASE stage[r] # "handling"
    <2>1. UNCHANGED <<stage, verdict, active, scheduled, deferred, audit>>
      BY <1>4 DEF Returns, counters
    <2>2. Core'
      BY <1>1, <2>1 DEF Core, Counted, Handled, Chained, Logged, audit
    <2>3. Worked' /\ Ended'
      BY <1>1, <1>2, <2>1 DEF Core, HCore, Rest, Worked, Ended, EndOfInputDrains, ending
    <2>. QED  BY <2>2, <2>3
  <1>. QED  BY <1>3, <1>4

\* Nothing about the calls changes.
LEMMA StillKeeps ==
  ASSUME Core, UNCHANGED <<stage, verdict, active, audit>>,
         scheduled' \in BOOLEAN, deferred' \in BOOLEAN
  PROVE  Core'
  BY DEF Core, Counted, Handled, Chained, Logged, audit

LEMMA HStillKeeps ==
  ASSUME HCore, UNCHANGED <<work, harness>>
  PROVE  HCore'
  BY DEF HCore, Serial, harness

LEMMA ExplainedStill ==
  ASSUME Rest, UNCHANGED reports
  PROVE  Explained'
  BY DEF Rest, Explained, reports

LEMMA CallKeeps ==
  ASSUME IInv, NEW r \in Requests, Call(r)
  PROVE  IInv'
  <1>1. Core /\ HCore /\ Rest
    BY Parts
  <1>2. /\ Idle /\ phase = "serving" /\ outcome = "none" /\ stage[r] = "new"
        /\ UNCHANGED <<ending, stdinClosed, reports>>
        /\ tool[r] = "none" /\ work[r] = "none" /\ cause = "none"
    BY <1>1 DEF Call, Idle, Rest, Worked, Ended
  <1>3. PICK t \in Tools :
          /\ tool' = [tool EXCEPT ![r] = t]
          /\ \/ t = "tools/list" /\ List(r)
             \/ t # "tools/list" /\ Refuse(r)
             \/ t \in ClassA \cup ClassB /\ Invoke(r)
    BY DEF Call
  <1>4. tool' \in [Requests -> Tools \cup {"none"}] /\ tool'[r] = t
    BY <1>1, <1>3 DEF Rest
  <1>8. Explained'
    BY <1>1, <1>2, ExplainedStill
  <1>5. CASE t = "tools/list" /\ List(r)
    <2>1. Core'
      BY <1>1, <1>2, <1>5, ListKeeps
    <2>2. HCore'
      BY <1>1, <1>5, HStillKeeps DEF List
    <2>3. /\ stage' = [stage EXCEPT ![r] = "settled"] /\ work' = work
          /\ verdict' = [verdict EXCEPT ![r] = "tools"]
      BY <1>5 DEF List
    <2>4. Worked'
      BY <1>1, <1>2, <1>3, <1>4, <1>5, <2>3 DEF Core, Rest, Worked, ClassB
    <2>5. Ended'
      BY <1>1, <1>2, <2>3 DEF Core, Rest, Ended, EndOfInputDrains, ending
    <2>. QED
      BY <1>1, <1>2, <1>4, <2>1, <2>2, <2>4, <2>5, <1>8, PartsNext DEF Rest, ending, reports
  <1>6. CASE t # "tools/list" /\ Refuse(r)
    <2>1. PICK v \in {"denied", "result"} :
            /\ Record(r, v, active + 1)
            /\ v = IF t = "unknown" THEN "denied" ELSE "result"
      BY <1>4, <1>6 DEF Refuse
    <2>2. /\ Core'
          /\ stage' \in {[stage EXCEPT ![r] = "recording"], [stage EXCEPT ![r] = "settled"]}
          /\ verdict' \in {[verdict EXCEPT ![r] = v], [verdict EXCEPT ![r] = "unrecorded"]}
      BY <1>1, <1>2, <2>1, RecordKeeps DEF Recorded
    <2>3. PICK w \in {"none", "returned"} :
            /\ work' = [work EXCEPT ![r] = w]
            /\ w = IF t = "unknown" THEN "none" ELSE "returned"
      BY <1>4, <1>6 DEF Refuse
    <2>4. HCore'
      BY <1>1, <1>2, <1>6, <2>3, WorkKeeps DEF Refuse, Works
    <2>5. Worked'
      BY <1>1, <1>2, <1>3, <1>4, <2>1, <2>2, <2>3 DEF Core, HCore, Rest, Worked, ClassB
    <2>6. Ended'
      BY <1>1, <1>2, <2>2 DEF Core, Rest, Ended, EndOfInputDrains, ending
    <2>. QED
      BY <1>1, <1>2, <1>4, <2>2, <2>4, <2>5, <2>6, <1>8, PartsNext DEF Rest, ending, reports
  <1>7. CASE t \in ClassA \cup ClassB /\ Invoke(r)
    <2>1. Core'
      BY <1>1, <1>2, <1>7, InvokeKeeps
    <2>2. HCore'
      <3>1. CASE t \in Harnessed
        BY <1>1, <1>2, <1>4, <1>7, <3>1, EnqueueKeeps DEF Invoke
      <3>2. CASE t \notin Harnessed
        BY <1>1, <1>2, <1>4, <1>7, <3>2, WorkKeeps DEF Invoke, Works
      <3>. QED  BY <3>1, <3>2
    <2>3. /\ stage' = [stage EXCEPT ![r] = "handling"]
          /\ \E w \in {"queued", "direct"} : work' = [work EXCEPT ![r] = w]
          /\ verdict' = verdict
      BY <1>7 DEF Invoke
    <2>4. Worked'
      BY <1>1, <1>2, <1>3, <2>3 DEF Core, HCore, Rest, Worked, Finished
    <2>5. Ended'
      BY <1>1, <1>2, <2>3 DEF Core, Rest, Ended, EndOfInputDrains, ending
    <2>. QED
      BY <1>1, <1>2, <1>4, <2>1, <2>2, <2>4, <2>5, <1>8, PartsNext DEF Rest, ending, reports
  <1>. QED  BY <1>3, <1>5, <1>6, <1>7

\* The rest of the state, when a step only moves one call.
LEMMA RestKeeps ==
  ASSUME Rest, UNCHANGED <<tool, ending, stdinClosed, reports>>, Worked', Ended'
  PROVE  Rest'
  BY ExplainedStill DEF Rest, ending, reports

\* The steps of the tools.
LEMMA ToolKeeps ==
  ASSUME IInv, NEW r \in Requests, Tool(r)
  PROVE  IInv'
  <1>1. Core /\ HCore /\ Rest
    BY Parts
  <1>2. CASE DirectReturns(r)
    <2>1. /\ Core' /\ Worked' /\ Ended'
      BY <1>2, ReturnsKeeps DEF DirectReturns
    <2>2. HCore'
      BY <1>1, <1>2, WorkKeeps DEF DirectReturns, Returns, Works
    <2>. QED  BY <1>1, <1>2, <2>1, <2>2, RestKeeps, PartsNext DEF DirectReturns
  <1>3. CASE Begins(r)
    <2>1. Core'
      BY <1>1, <1>3, StillKeeps DEF Begins, requests, counters, Core
    <2>2. HCore'
      BY <1>1, <1>3, BeginsKeeps DEF Begins, requests
    <2>3. Worked' /\ Ended'
      BY <1>1, <1>3 DEF Begins, Rest, Worked, Ended, EndOfInputDrains, requests, ending
    <2>. QED  BY <1>1, <1>3, <2>1, <2>2, <2>3, RestKeeps, PartsNext DEF Begins, requests
  <1>4. CASE NotBegun(r)
    <2>1. /\ Core' /\ Worked' /\ Ended'
      BY <1>4, ReturnsKeeps DEF NotBegun
    <2>2. HCore'
      BY <1>1, <1>4, LeavesKeeps DEF NotBegun, Returns, Works
    <2>. QED  BY <1>1, <1>4, <2>1, <2>2, RestKeeps, PartsNext DEF NotBegun
  <1>5. CASE CheckEnds(r)
    <2>1. /\ Core' /\ Worked' /\ Ended'
      BY <1>5, ReturnsKeeps DEF CheckEnds
    <2>2. HCore'
      BY <1>1, <1>5, LeavesKeeps DEF CheckEnds, Returns, Works
    <2>3. /\ sessionReport' \in Checks \cup {None}
          /\ sessionReport # None => sessionReport' # None
          /\ adHocReports' \in SUBSET Checks
          /\ UNCHANGED <<tool, ending, stdinClosed, subject, halves>>
      BY <1>1, <1>5, NamesAssumption DEF CheckEnds, Rest, Checks
    <2>4. Explained'
      BY <1>1, <2>3 DEF Rest, Explained
    <2>. QED  BY <1>1, <2>1, <2>2, <2>3, <2>4, PartsNext DEF Rest, ending
  <1>6. CASE MetadataRead(r)
    <2>1. Core'
      BY <1>1, <1>6, StillKeeps DEF MetadataRead, counters, Core
    <2>2. HCore'
      BY <1>1, <1>6, LeavesKeeps DEF MetadataRead, Works
    <2>3. PICK report \in Readable :
            /\ subject' = [subject EXCEPT ![r] = report]
            /\ halves' = [halves EXCEPT ![r] = <<Findings(report)>>]
      BY <1>6 DEF MetadataRead
    <2>4. /\ report \in Checks \cup {"session"}
          /\ report = "session" => sessionReport # None
          /\ Findings(report) \in Checks
          /\ report # "session" => Findings(report) = report
      BY <1>1, NamesAssumption DEF Readable, Findings, Rest, Checks
    <2>5. /\ <<Findings(report)>> \in Seq(Checks)
          /\ \A i \in DOMAIN <<Findings(report)>> : <<Findings(report)>>[i] = Findings(report)
      BY <2>4, SMT
    <2>6. /\ subject' \in [Requests -> Checks \cup {"session", None}]
          /\ halves' \in [Requests -> Seq(Checks)]
      BY <1>1, <2>3, <2>4, <2>5 DEF Rest
    <2>7. UNCHANGED <<tool, stage, verdict, ending, stdinClosed, sessionReport, adHocReports>>
      BY <1>6 DEF MetadataRead
    <2>8. Explained'
      BY <1>1, <2>3, <2>4, <2>5, <2>7 DEF Rest, Explained
    <2>9. Ended'
      BY <1>1, <2>7 DEF Rest, Ended, EndOfInputDrains, ending
    <2>10. Worked'
      BY <1>1, <1>6, <2>7 DEF Rest, Worked, MetadataRead, ClassB
    <2>. QED
      BY <1>1, <2>1, <2>2, <2>6, <2>7, <2>8, <2>9, <2>10, PartsNext DEF Rest, ending
  <1>7. CASE AsksForMarkdown(r)
    <2>1. Core'
      BY <1>1, <1>7, StillKeeps DEF AsksForMarkdown, counters, Core
    <2>2. HCore'
      BY <1>1, <1>7, EnqueueKeeps DEF AsksForMarkdown
    <2>3. UNCHANGED <<tool, stage, verdict, ending, stdinClosed, reports>>
      BY <1>7 DEF AsksForMarkdown
    <2>4. Ended'
      BY <1>1, <2>3 DEF Rest, Ended, EndOfInputDrains, ending
    <2>5. Worked'
      BY <1>1, <1>7, <2>3 DEF Core, HCore, Rest, Worked, AsksForMarkdown
    <2>. QED  BY <1>1, <2>1, <2>2, <2>3, <2>4, <2>5, RestKeeps, PartsNext
  <1>8. CASE MarkdownRead(r)
    <2>1. /\ Core' /\ Worked' /\ Ended'
      BY <1>8, ReturnsKeeps DEF MarkdownRead
    <2>2. HCore'
      BY <1>1, <1>8, LeavesKeeps DEF MarkdownRead, Returns, Works
    <2>. DEFINE c == Findings(subject[r])
    <2>3. /\ halves' = [halves EXCEPT ![r] = Append(halves[r], c)]
          /\ halves[r] # <<>> /\ halves[r] \in Seq(Checks)
          /\ UNCHANGED <<tool, ending, stdinClosed, sessionReport, adHocReports, subject>>
      BY <1>1, <1>8 DEF MarkdownRead, Rendered, Rest
    <2>4. /\ c \in Checks
          /\ subject[r] # "session" => c = subject[r]
      BY <1>1, <2>3, NamesAssumption DEF Rest, Explained, Findings, Checks
    <2>. HIDE DEF c
    <2>5. /\ Append(halves[r], c) \in Seq(Checks)
          /\ \A i \in DOMAIN Append(halves[r], c) :
               (i \in DOMAIN halves[r] /\ Append(halves[r], c)[i] = halves[r][i])
               \/ Append(halves[r], c)[i] = c
      BY <2>3, <2>4, SMT
    <2>6. halves' \in [Requests -> Seq(Checks)]
      BY <1>1, <2>3, <2>5 DEF Rest
    <2>7. Explained'
      <3>1. SUFFICES ASSUME NEW q \in Requests
                     PROVE  /\ halves'[q] # <<>> =>
                                 \/ subject'[q] \in Checks
                                 \/ subject'[q] = "session" /\ sessionReport' # None
                            /\ subject'[q] # "session" =>
                                 \A i \in DOMAIN halves'[q] : halves'[q][i] = subject'[q]
        BY DEF Explained
      <3>2. CASE q = r
        <4>1. halves'[r] = Append(halves[r], c)
          BY <1>1, <2>3 DEF Rest
        <4>. QED  BY <1>1, <2>3, <2>4, <2>5, <3>2, <4>1 DEF Rest, Explained
      <3>3. CASE q # r
        BY <1>1, <2>3, <3>3 DEF Rest, Explained
      <3>. QED  BY <3>2, <3>3
    <2>. QED  BY <1>1, <2>1, <2>2, <2>3, <2>6, <2>7, PartsNext DEF Rest, ending
  <1>9. CASE ReportFails(r)
    <2>1. /\ Core' /\ Worked' /\ Ended'
      BY <1>9, ReturnsKeeps DEF ReportFails
    <2>2. HCore'
      BY <1>1, <1>9, LeavesKeeps DEF ReportFails, Returns, Works
    <2>3. /\ subject' = [subject EXCEPT ![r] = None]
          /\ halves' = [halves EXCEPT ![r] = <<>>]
          /\ UNCHANGED <<tool, ending, stdinClosed, sessionReport, adHocReports>>
      BY <1>9 DEF ReportFails
    <2>4. <<>> \in Seq(Checks)
      BY SMT
    <2>5. /\ subject' \in [Requests -> Checks \cup {"session", None}]
          /\ halves' \in [Requests -> Seq(Checks)]
      BY <1>1, <2>3, <2>4 DEF Rest
    <2>6. Explained'
      BY <1>1, <2>3 DEF Rest, Explained
    <2>. QED  BY <1>1, <2>1, <2>2, <2>3, <2>5, <2>6, PartsNext DEF Rest, ending
  <1>. QED
    BY <1>2, <1>3, <1>4, <1>5, <1>6, <1>7, <1>8, <1>9 DEF Tool

\* A timeout answers for a class A tool that is still at work.
LEMMA TimeoutKeeps ==
  ASSUME IInv, NEW r \in Requests, Timeout(r)
  PROVE  IInv'
  <1>1. Core /\ HCore /\ Rest
    BY Parts
  <1>2. /\ stage[r] = "handling" /\ tool[r] \in ClassA
        /\ Record(r, "timeout", active)
        /\ UNCHANGED <<tool, work, ending, stdinClosed, reports, harness>>
    BY DEF Timeout
  <1>3. /\ Core'
        /\ stage' \in {[stage EXCEPT ![r] = "recording"], [stage EXCEPT ![r] = "settled"]}
        /\ verdict' \in {[verdict EXCEPT ![r] = "timeout"],
                         [verdict EXCEPT ![r] = "unrecorded"]}
    BY <1>1, <1>2, RecordKeeps DEF Recorded
  <1>4. HCore'
    BY <1>1, <1>2, HStillKeeps
  <1>5. Ended'
    BY <1>1, <1>2, <1>3, StageKeeps DEF Stages, InFlight
  <1>6. Worked'
    BY <1>1, <1>2, <1>3 DEF Core, Rest, Worked, ClassA, ClassB
  <1>. QED  BY <1>1, <1>2, <1>3, <1>4, <1>5, <1>6, RestKeeps, PartsNext

\* The answers are written, or dropped once the transport is closed.
LEMMA AnswerKeeps ==
  ASSUME IInv, NEW r \in Requests, Respond(r)
  PROVE  IInv'
  <1>1. Core /\ HCore /\ Rest
    BY Parts
  <1>2. /\ stage[r] = "settled"
        /\ stage' = [stage EXCEPT ![r] = IF phase = "serving" THEN "answered"
                                                             ELSE "dropped"]
        /\ UNCHANGED <<tool, work, verdict, ending, stdinClosed, reports, harness>>
    BY DEF Respond
  <1>3. Core'
    BY <1>1, RespondKeeps
  <1>4. HCore'
    BY <1>1, <1>2, HStillKeeps
  <1>5. Ended'
    BY <1>1, <1>2 DEF Core, Rest, Ended, EndOfInputDrains, ending
  <1>6. Worked'
    BY <1>1, <1>2 DEF Core, Rest, Worked, Finished
  <1>. QED  BY <1>1, <1>2, <1>3, <1>4, <1>5, <1>6, RestKeeps, PartsNext

\* The appends that succeed and fail.
LEMMA AppendKeeps ==
  ASSUME IInv, RecordWritten \/ RecordFails
  PROVE  IInv'
  <1>1. Core /\ HCore /\ Rest
    BY Parts
  <1>2. UNCHANGED <<tool, work, ending, stdinClosed, reports, harness>>
    BY DEF RecordWritten, RecordFails
  <1>3. HCore'
    BY <1>1, <1>2, HStillKeeps
  <1>4. CASE RecordWritten
    <2>1. /\ Core'
          /\ Head(chain) \in Requests /\ stage[Head(chain)] = "recording"
          /\ stage' = [stage EXCEPT ![Head(chain)] = "settled"]
          /\ verdict' = verdict
      BY <1>1, <1>4, WrittenKeeps DEF RecordWritten
    <2>2. Ended'
      BY <1>1, <1>2, <2>1, StageKeeps DEF Stages, InFlight
    <2>3. Worked'
      BY <1>1, <1>2, <2>1 DEF Core, Rest, Worked, Finished
    <2>. QED  BY <1>1, <1>2, <1>3, <2>1, <2>2, <2>3, RestKeeps, PartsNext
  <1>5. CASE RecordFails
    <2>1. /\ Core'
          /\ stage' = [r \in Requests |-> IF stage[r] = "recording" THEN "settled"
                                                                    ELSE stage[r]]
          /\ verdict' = [r \in Requests |-> IF stage[r] = "recording"
                                            THEN "unrecorded" ELSE verdict[r]]
      BY <1>1, <1>5, FailsKeeps
    <2>2. Ended'
      BY <1>1, <1>2, <2>1 DEF Rest, Ended, EndOfInputDrains, InFlight, ending
    <2>3. Worked'
      BY <1>1, <1>2, <2>1 DEF Rest, Worked, Finished
    <2>. QED  BY <1>1, <1>2, <1>3, <2>1, <2>2, <2>3, RestKeeps, PartsNext
  <1>. QED  BY <1>4, <1>5

\* What a step keeps that leaves the calls alone.
Quiet == UNCHANGED <<tool, stage, work, verdict, active, reports, harness>>

LEMMA QuietKeeps ==
  ASSUME IInv, Quiet,
         scheduled' \in BOOLEAN, deferred' \in BOOLEAN, stdinClosed' \in BOOLEAN,
         phase' \in {"booting", "connecting", "serving", "closing", "ended"},
         outcome' \in {"none", "graceful", "unhealthy", "not_booted"},
         cause' \in {"none", "eof", "audit", "other"},
         handle' \in {"none", "open", "closing", "closed"},
         UNCHANGED <<chain, poisoned, log>>,
         handle' \in {"none", "closed"} => chain = <<>>,
         Ended'
  PROVE  IInv'
  <1>1. Core /\ HCore /\ Rest
    BY Parts
  <1>2. Core'
    BY <1>1 DEF Quiet, Core, Counted, Handled, Chained, Logged
  <1>3. HCore'
    BY <1>1, HStillKeeps DEF Quiet
  <1>4. Worked'
    BY <1>1 DEF Quiet, Rest, Worked
  <1>5. Explained'
    BY <1>1, ExplainedStill DEF Quiet
  <1>. QED  BY <1>1, <1>2, <1>3, <1>4, <1>5, PartsNext DEF Quiet, Rest, reports

\* The shutdown controller decides, and the gate looks.
LEMMA ControllerKeeps ==
  ASSUME IInv, \/ StdinCloses \/ ImmediateFires \/ TimerFires \/ SignalArrives
               \/ TransportReports
  PROVE  IInv'
  <1>1. Core /\ HCore /\ Rest
    BY Parts
  <1>2. /\ Idle /\ Quiet /\ UNCHANGED <<phase, audit>>
        /\ stdinClosed' \in BOOLEAN
        /\ scheduled' \in BOOLEAN
        /\ deferred' \in BOOLEAN
    BY <1>1 DEF Core, Rest, Quiet, StdinCloses, ImmediateFires, TimerFires, SignalArrives,
                TransportReports, requests, counters, ending
  <1>3. \/ UNCHANGED <<outcome, cause>>
        \/ /\ outcome = "none"
           /\ outcome' \in {"graceful", "unhealthy"}
           /\ cause' \in {"audit", "other"}
        \/ /\ outcome = "none"
           /\ outcome' = "graceful"
           /\ cause' = "eof"
           /\ active = 0
    BY DEF StdinCloses, ImmediateFires, TimerFires, SignalArrives, TransportReports,
           Decide, GateOpen, ending
  <1>4. active = 0 => Handled = {}
    BY <1>1, HandledFinite, FS_EmptySet DEF Core, Counted
  <1>5. /\ \A r \in Requests : stage[r] # "settled"
        /\ phase # "serving" /\ outcome = "none" => \A r \in Requests : stage[r] = "new"
    BY <1>1, <1>2 DEF Idle, Rest, Ended
  <1>6. EndOfInputDrains'
    BY <1>1, <1>2, <1>3, <1>4, <1>5
       DEF Rest, Ended, EndOfInputDrains, Quiet, Handled, InFlight
  <1>7. Ended'
    BY <1>1, <1>2, <1>3, <1>6 DEF Rest, Ended, Quiet
  <1>8. /\ outcome' \in {"none", "graceful", "unhealthy", "not_booted"}
        /\ cause' \in {"none", "eof", "audit", "other"}
    BY <1>1, <1>3 DEF Rest
  <1>. QED
    BY <1>1, <1>2, <1>7, <1>8, QuietKeeps DEF Core, Rest, Chained, audit

\* startServer goes on.
LEMMA ServerKeeps ==
  ASSUME IInv, Boot \/ Connect \/ CloseTransport \/ CloseAudit \/ End
  PROVE  IInv'
  <1>1. Core /\ HCore /\ Rest
    BY Parts
  <1>2. /\ Quiet /\ UNCHANGED <<stdinClosed, chain, poisoned, log>>
        /\ scheduled' \in BOOLEAN
        /\ deferred' \in BOOLEAN
        /\ handle' \in {"none", "open", "closing", "closed"}
        /\ handle' \in {"none", "closed"} => chain = <<>>
    BY <1>1 DEF Core, Chained, Quiet, Boot, Connect, CloseTransport, CloseAudit, End, Open,
                CloseBegins, CloseEnds, requests, counters, ending, audit
  <1>3. \/ /\ phase \in {"booting", "connecting", "closing"}
           /\ phase' \in {"connecting", "serving", "closing", "ended"}
           /\ phase' \in {"connecting", "serving"} => phase # "closing"
           /\ phase' \in {"closing", "ended"} => outcome' # "none"
           /\ \/ UNCHANGED <<outcome, cause>>
              \/ outcome' = "not_booted" /\ cause' = "other"
        \/ /\ outcome # "none" /\ phase' = "closing"
           /\ UNCHANGED <<outcome, cause>>
    <2>1. phase = "closing" => outcome # "none"
      BY <1>1 DEF Rest, Ended
    <2>2. CASE Boot
      BY <2>2 DEF Boot
    <2>3. CASE Connect
      BY <2>3 DEF Connect
    <2>4. CASE CloseTransport
      BY <2>4 DEF CloseTransport
    <2>5. CASE CloseAudit
      BY <2>1, <2>5 DEF CloseAudit, ending
    <2>6. CASE End
      BY <2>1, <2>6 DEF End
    <2>. QED  BY <2>2, <2>3, <2>4, <2>5, <2>6
  <1>4. Ended'
    BY <1>1, <1>2, <1>3 DEF Rest, Ended, EndOfInputDrains, Quiet
  <1>5. /\ phase' \in {"booting", "connecting", "serving", "closing", "ended"}
        /\ outcome' \in {"none", "graceful", "unhealthy", "not_booted"}
        /\ cause' \in {"none", "eof", "audit", "other"}
    BY <1>1, <1>3 DEF Rest
  <1>. QED  BY <1>1, <1>2, <1>4, <1>5, QuietKeeps DEF Rest

LEMMA NextIInv == IInv /\ [Next]_vars => IInv'
  <1>1. SUFFICES ASSUME IInv, [Next]_vars PROVE IInv'
    OBVIOUS
  <1>2. ASSUME NEW r \in Requests, Tool(r) \/ Timeout(r) \/ Respond(r) \/ Call(r)
        PROVE  IInv'
    BY <1>1, <1>2, ToolKeeps, TimeoutKeeps, AnswerKeeps, CallKeeps
  <1>3. CASE RecordWritten \/ RecordFails
    BY <1>1, <1>3, AppendKeeps
  <1>4. CASE StdinCloses \/ ImmediateFires \/ TimerFires \/ SignalArrives \/ TransportReports
    BY <1>1, <1>4, ControllerKeeps
  <1>5. CASE Boot \/ Connect \/ CloseTransport \/ CloseAudit \/ End
    BY <1>1, <1>5, ServerKeeps
  <1>6. CASE UNCHANGED vars
    <2>1. Core /\ HCore /\ Rest
      BY <1>1, Parts
    <2>2. /\ Quiet /\ UNCHANGED <<scheduled, deferred, ending, stdinClosed, audit>>
      BY <1>6 DEF vars, Quiet, requests, counters
    <2>3. Ended'
      BY <2>1, <2>2 DEF Rest, Ended, EndOfInputDrains, Quiet, ending
    <2>. QED
      BY <1>1, <2>1, <2>2, <2>3, QuietKeeps DEF Core, Rest, Chained, ending, audit
  <1>. QED
    BY <1>1, <1>2, <1>3, <1>4, <1>5, <1>6 DEF Next, Progress, Outside

-----------------------------------------------------------------------------
(***************************************************************************)
(* The theorems.                                                           *)
(***************************************************************************)

\* The invariant behind all that follows: the counter counts the calls in
\* flight, the chain holds those that wait for their record, the queue those
\* that wait for their command.
THEOREM Invariance == Spec => []IInv
  BY InitIInv, NextIInv, PTL DEF Spec

\* Types.
THEOREM TypeCorrect == Spec => []TypeOK
  BY Invariance, PTL DEF IInv

\* An answered call is in the log, or was answered that it is not.
THEOREM AnswersRecorded == Spec => []AnswersAreRecorded
  <1>1. IInv => AnswersAreRecorded
    BY DEF IInv, TypeOK, Logged, AnswersAreRecorded, Finished, Recorded
  <1>. QED  BY <1>1, Invariance, PTL

\* A class B call is answered when its tool has stopped.
THEOREM EffectAwaited == Spec => []AnswerWaitsForEffect
  <1>1. IInv => AnswerWaitsForEffect
    BY DEF IInv, Worked, AnswerWaitsForEffect, Finished
  <1>. QED  BY <1>1, Invariance, PTL

\* Commands run one at a time, and the directory is put back.
THEOREM RunAlone == Spec => []CommandsRunAlone
  <1>1. IInv => CommandsRunAlone
    <2>1. SUFFICES ASSUME IInv PROVE CommandsRunAlone
      OBVIOUS
    <2>2. busy = {} \/ \E r \in Requests : busy = {r}
      BY <2>1 DEF IInv, TypeOK, Serial
    <2>3. Cardinality(busy) <= 1
      BY <2>2, FS_EmptySet, FS_Singleton
    <2>. QED  BY <2>1, <2>3 DEF IInv, Serial, CommandsRunAlone
  <1>. QED  BY <1>1, Invariance, PTL

\* The end of the input waits for the calls in flight and for their answers.
THEOREM InputDrained == Spec => []EndOfInputDrains
  <1>1. IInv => EndOfInputDrains
    BY DEF IInv, Ended
  <1>. QED  BY <1>1, Invariance, PTL

\* A closed log has every record that was accepted before a failure.
THEOREM RecordsKept == Spec => []AcceptedRecordsKept
  <1>1. IInv => AcceptedRecordsKept
    <2>1. SUFFICES ASSUME IInv, handle = "closed", NEW r \in Requests
                   PROVE  /\ stage[r] # "recording"
                          /\ verdict[r] \in {"result", "timeout", "denied"}
                               => r \in ToSet(log)
      BY DEF AcceptedRecordsKept
    <2>2. stage[r] # "recording"
      BY <2>1, EmptyToSet DEF IInv, Chained
    <2>3. verdict[r] \in {"result", "timeout", "denied"} => r \in ToSet(log)
      BY <2>1, <2>2 DEF IInv, TypeOK, Logged, Finished
    <2>. QED  BY <2>2, <2>3
  <1>. QED  BY <1>1, Invariance, PTL

\* Nothing is written behind a record that was lost.
THEOREM NoGap == Spec => NoRecordAfterGap
  <1>1. IInv /\ [Next]_vars => [poisoned => log' = log]_vars
    <2>1. SUFFICES ASSUME IInv, Next, poisoned PROVE log' = log
      BY DEF vars, audit
    <2>2. chain = <<>>
      BY <2>1 DEF IInv, Chained
    <2>3. ~Appended /\ ~AppendFailed
      BY <2>2 DEF Appended, AppendFailed
    <2>. QED
      BY <2>1, <2>3
         DEF Next, Progress, Outside, Tool, Call, List, Refuse, Invoke, Record, Extend,
             Returns, Timeout, DirectReturns, Begins, NotBegun, CheckEnds, MetadataRead,
             AsksForMarkdown, MarkdownRead, ReportFails, RecordWritten, RecordFails,
             Respond, StdinCloses, ImmediateFires, TimerFires, SignalArrives,
             TransportReports, Boot, Connect, CloseTransport, CloseAudit, End, Open,
             CloseBegins, CloseEnds, audit
  <1>. QED  BY <1>1, Invariance, PTL DEF Spec, NoRecordAfterGap

\* An explained ad hoc report is of one check.
THEOREM AdHoc == Spec => []AdHocReportExplained
  <1>1. IInv => AdHocReportExplained
    <2>1. SUFFICES ASSUME IInv, NEW r \in Requests, Len(halves[r]) = 2,
                          subject[r] # "session"
                   PROVE  halves[r][1] = halves[r][2]
      BY DEF AdHocReportExplained
    <2>2. halves[r] \in Seq(Checks)
      BY <2>1 DEF IInv, TypeOK
    <2>3. 1 \in DOMAIN halves[r] /\ 2 \in DOMAIN halves[r]
      BY <2>1, <2>2, SMT
    <2>. QED  BY <2>1, <2>3 DEF IInv, Explained
  <1>. QED  BY <1>1, Invariance, PTL

=============================================================================

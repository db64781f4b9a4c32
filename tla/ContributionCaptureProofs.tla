--------------------- MODULE ContributionCaptureProofs ---------------------
(***************************************************************************)
(* What a capture publishes, proved for any repository, user, store and    *)
(* number of attempts: it is one state of the repository, with its         *)
(* evidence in the store, and nothing of the capture goes on after it.     *)
(***************************************************************************)
EXTENDS ContributionCapture, WellFoundedInduction, TLAPS

Lists == {"scan", "rest", "before"}
Capturing == phase = "capturing"
Watched == reading.candidates \cup Extras

(***************************************************************************)
(* The store: what a put has done so far.                                  *)
(***************************************************************************)
StoreInv ==
  \A w \in Writers :
    /\ puts[w].at # "idle" => puts[w].digest \in Digests
    /\ puts[w].at = "publish" => objects[puts[w].digest] # "corrupt"
    /\ puts[w].at \in {"settling", "stored"} => objects[puts[w].digest] = "valid"

(***************************************************************************)
(* Calls are in flight only while a list is worked on; the sink has those  *)
(* whose payload waits, once each; what is being put is the head's.        *)
(***************************************************************************)
FlowInv ==
  /\ ~(Capturing /\ step \in Lists) => InFlight = {}
  /\ \A p \in Paths : flight[p] = "sinking" <=> \E i \in DOMAIN sink : sink[i] = p
  /\ \A i, j \in DOMAIN sink : sink[i] = sink[j] => i = j
  /\ puts["capture"] # Idle =>
       sink # <<>> /\ puts["capture"].digest = Waits(Head(sink))
  /\ \A p \in Paths : flight[p] = "sinking" =>
       /\ pass = "A"
       /\ p \in reading.candidates
       /\ Waits(p) \in Digests

(***************************************************************************)
(* How far a reading is.                                                   *)
(***************************************************************************)
Early == {"head", "status", "text", "untracked", "index"}

Acquired ==
  Capturing =>
    /\ step # "head" => reading.head \in [sha : Nat, tree : Trees]
    /\ step \notin {"head", "status"} => reading.status \in Answers
    /\ step \in {"index", "scan", "rest", "before", "derive", "compare"} =>
         reading.untracked \in SUBSET Paths
    /\ step \notin Early => reading.index \in Trees

ReadInv ==
  Capturing =>
    /\ step \in Early =>
         /\ \A p \in Paths : reading.seen[p] = Unread
         /\ reading.candidates = {}
    /\ step \notin Early => CheapCandidates(reading) \subseteq reading.candidates
    /\ step \in {"scan", "rest"} =>
         \A p \in Paths :
           /\ flight[p] \in {"todo", "observing"} => reading.seen[p] = Unread
           /\ flight[p] \in {"sinking", "done"} => reading.seen[p] # Unread
    /\ step = "rest" =>
         \A p \in Watched : reading.seen[p] = Unread => flight[p] # "none"
    /\ step \in {"before", "derive", "compare"} =>
         \A p \in Watched : reading.seen[p] # Unread
    /\ step = "before" => \A p \in Watched : flight[p] # "none"
    /\ step \in {"before", "derive"} => pass = "A"
    /\ step = "compare" => pass = "B"

(***************************************************************************)
(* What Pass A has kept of each side of a candidate.                       *)
(***************************************************************************)
Kept(p, c, side) ==
  /\ c \in Digests => objects[c] = "valid"
  /\ mirrors[side][p] = IF c \in Regular THEN c ELSE Absent

KeptInv ==
  /\ phase = "session" => mirrors = NoMirrors
  /\ Capturing /\ pass = "A" =>
       /\ step \in Early => mirrors = NoMirrors
       /\ step \in {"scan", "rest"} =>
            \A p \in Paths :
              /\ mirrors.before[p] = Absent
              /\ IF /\ p \in reading.candidates
                    /\ flight[p] \in {"none", "done"}
                    /\ reading.seen[p] # Unread
                 THEN Kept(p, reading.seen[p], "after")
                 ELSE mirrors.after[p] = Absent
       /\ step \in {"before", "derive"} =>
            \A p \in reading.candidates : Kept(p, reading.seen[p], "after")
       /\ step = "before" =>
            \A p \in reading.candidates :
              IF flight[p] = "done" THEN Kept(p, Restored(p), "before")
                                    ELSE mirrors.before[p] = Absent
       /\ step = "derive" =>
            \A p \in reading.candidates : Kept(p, Restored(p), "before")

(***************************************************************************)
(* What Pass A leaves to be published.                                     *)
(***************************************************************************)
Publishable == pass = "B" /\ phase \in {"capturing", "published"}

Evidence(r) == \A e \in Entries(r) :
                 \A c \in {e.before.worktree, e.after.worktree} \ {Absent} :
                   c \in Digests /\ objects[c] = "valid"

Applied(E, p) == CASE \E e \in E : e.to = p -> (CHOOSE e \in E : e.to = p).after
                   [] \E e \in E : e.from = p /\ e.to # p -> State(Absent, Absent)
                   [] OTHER -> Before(p)

Accounted(r) == \A E : E = Entries(r) => \A p \in r.candidates : Applied(E, p) = After(r, p)

Disjoint(r) ==
  \A e, f \in Entries(r) : e # f => {e.from, e.to} \cap {f.from, f.to} = {}

Hunks(e) == \/ /\ mirrors.before[e.to] = e.before.worktree
               /\ mirrors.after[e.to] = e.after.worktree
            \/ {e.before.worktree, e.after.worktree} \cap Links # {}
            \/ e.from # e.to /\ Absent \in {e.before.worktree, e.after.worktree}

FirstInv ==
  Publishable => \A r : r = first => /\ Evidence(r) /\ Accounted(r) /\ Disjoint(r)
                                     /\ \A e \in Entries(r) : Hunks(e)

(***************************************************************************)
(* The two readings and what lies between.  What was found is still there, *)
(* or gone, and if gone it will not be found again unless it is counted as *)
(* come back.                                                              *)
(***************************************************************************)
Late == {"scan", "rest", "before", "derive", "compare"}

Gone(x) == x \notin Found(repo) /\ (x \in left.contents \/ edits = MaxEdits)
GoneStatus(s) == Status(repo) # s /\ (s \in left.statuses \/ edits = MaxEdits)

Lasting(x) == x \in Found(repo) \/ Gone(x)
LastingStatus(s) == Status(repo) = s \/ GoneStatus(s)

\* Pass A.
LastingInv ==
  Capturing /\ pass = "A" =>
    /\ step # "head" =>
         /\ reading.head.sha <= repo.head.sha
         /\ reading.head.sha = repo.head.sha => reading.head = repo.head
    /\ step \notin {"head", "status"} => LastingStatus(reading.status)
    /\ step \in Late \cup {"index"} =>
         \/ reading.untracked = reading.status.others \ Excluded
         \/ GoneStatus(reading.status)
         \/ "status" \in returned
    /\ step \in Late => \A p \in Paths : Lasting(<<"index", p, reading.index[p]>>)
    /\ \A p \in Paths : reading.seen[p] # Unread => Lasting(<<"tree", p, reading.seen[p]>>)

\* What Pass A found and the moment between the passes.
AtWitness(x) == x \in Found(witness) \/ Gone(x) \/ "content" \in returned

WitnessInv ==
  Capturing /\ pass = "B" =>
    /\ witness \in Repositories
    /\ CheapCandidates(first) \subseteq first.candidates
    /\ \A p \in first.candidates \cup Extras : first.seen[p] # Unread
    /\ first.head.sha <= witness.head.sha
    /\ first.head.sha = witness.head.sha => first.head = witness.head
    /\ first.head.sha \in Nat
    /\ witness.head.sha <= repo.head.sha
    /\ \/ Status(witness) = first.status
       \/ GoneStatus(first.status)
       \/ "status" \in returned
    /\ \/ first.untracked = first.status.others \ Excluded
       \/ Status(witness) # first.status
       \/ "status" \in returned
    /\ \A p \in Paths : AtWitness(<<"index", p, first.index[p]>>)
    /\ \A p \in Paths : first.seen[p] # Unread => AtWitness(<<"tree", p, first.seen[p]>>)

\* What Pass B finds as Pass A did.
AgainInv ==
  Capturing /\ pass = "B" =>
    /\ step # "head" => witness.head.sha <= reading.head.sha
    /\ step \notin {"head", "status"} /\ reading.status = first.status =>
         Status(witness) = first.status \/ "status" \in returned
    /\ step \in Late =>
         \A p \in Paths : reading.index[p] = first.index[p] =>
           witness.index[p] = first.index[p] \/ "content" \in returned
    /\ \A p \in Paths : reading.seen[p] # Unread /\ reading.seen[p] = first.seen[p] =>
         witness.tree[p] = first.seen[p] \/ "content" \in returned

\* Snapshot, of any reading.
SnapshotOf(r, w) ==
  /\ r.head = w.head
  /\ \A e \in Entries(r) : e.after = In(w, e.to) /\ (e.from # e.to => ~Present(In(w, e.from)))
  /\ \A p \in Extras : r.seen[p] = w.tree[p]
  /\ \A p \in Paths \ UNION {{e.from, e.to} : e \in Entries(r)} :
       (w.index[p] # Absent \/ p \in Untracked(w) \/ Present(Before(p)))
         => In(w, p) = Before(p)

SnapInv ==
  phase = "published" =>
    /\ pass = "B"
    /\ returned = {} => \A r, w : r = first /\ w = witness => SnapshotOf(r, w)

IInv == /\ TypeOK /\ Acquired /\ StoreInv /\ FlowInv /\ ReadInv /\ KeptInv /\ FirstInv
        /\ LastingInv /\ WitnessInv /\ AgainInv /\ SnapInv

-----------------------------------------------------------------------------
(***************************************************************************)
(* Sequences without repetition, and the least of a set of numbers.        *)
(***************************************************************************)
LEMMA Queued ==
  ASSUME NEW S, NEW s \in Seq(S), NEW e \in S,
         \A i, j \in DOMAIN s : s[i] = s[j] => i = j,
         \A i \in DOMAIN s : s[i] # e
  PROVE  /\ Append(s, e) \in Seq(S)
         /\ \A i, j \in DOMAIN Append(s, e) : Append(s, e)[i] = Append(s, e)[j] => i = j
         /\ \A p : (\E i \in DOMAIN Append(s, e) : Append(s, e)[i] = p)
                     <=> p = e \/ \E i \in DOMAIN s : s[i] = p
         /\ s # <<>> => Head(Append(s, e)) = Head(s)
         /\ Append(s, e) # <<>>
  <1>1. /\ Append(s, e) \in Seq(S)
        /\ DOMAIN Append(s, e) = DOMAIN s \cup {Len(s) + 1}
        /\ \A i \in DOMAIN s : Append(s, e)[i] = s[i]
        /\ Append(s, e)[Len(s) + 1] = e
        /\ Len(s) + 1 \notin DOMAIN s
        /\ s # <<>> => Head(Append(s, e)) = Head(s)
        /\ Append(s, e) # <<>>
    BY SMT
  <1>. DEFINE t == Append(s, e)
              l == Len(s) + 1
  <1>2. /\ DOMAIN t = DOMAIN s \cup {l}
        /\ \A i \in DOMAIN s : t[i] = s[i]
        /\ t[l] = e
        /\ l \notin DOMAIN s
    BY <1>1
  <1>. HIDE DEF t, l
  <1>3. \A i, j \in DOMAIN t : t[i] = t[j] => i = j
    BY <1>2
  <1>4. \A p : (\E i \in DOMAIN t : t[i] = p) <=> p = e \/ \E i \in DOMAIN s : s[i] = p
    BY <1>2
  <1>. QED  BY <1>1, <1>3, <1>4 DEF t

LEMMA Taken ==
  ASSUME NEW S, NEW s \in Seq(S), s # <<>>,
         \A i, j \in DOMAIN s : s[i] = s[j] => i = j
  PROVE  /\ Head(s) \in S
         /\ \E i \in DOMAIN s : s[i] = Head(s)
         /\ Tail(s) \in Seq(S)
         /\ \A i, j \in DOMAIN Tail(s) : Tail(s)[i] = Tail(s)[j] => i = j
         /\ \A p : (\E i \in DOMAIN Tail(s) : Tail(s)[i] = p)
                     <=> p # Head(s) /\ \E i \in DOMAIN s : s[i] = p
  <1>1. /\ Head(s) \in S
        /\ Tail(s) \in Seq(S)
        /\ 1 \in DOMAIN s /\ s[1] = Head(s)
        /\ \A i \in DOMAIN Tail(s) : i + 1 \in DOMAIN s /\ Tail(s)[i] = s[i + 1] /\ i \in Nat
                                     /\ i + 1 # 1
        /\ \A i \in DOMAIN s : i # 1 => i - 1 \in DOMAIN Tail(s) /\ Tail(s)[i - 1] = s[i]
    BY SMT
  <1>2. \A i, j \in DOMAIN Tail(s) : Tail(s)[i] = Tail(s)[j] => i = j
    BY <1>1, SMT
  <1>. DEFINE t == Tail(s)
              h == Head(s)
  <1>3. /\ 1 \in DOMAIN s /\ s[1] = h
        /\ \A i \in DOMAIN t : i + 1 \in DOMAIN s /\ t[i] = s[i + 1] /\ i + 1 # 1
        /\ \A i \in DOMAIN s : i # 1 => i - 1 \in DOMAIN t /\ t[i - 1] = s[i]
    BY <1>1
  <1>. HIDE DEF t, h
  <1>4. \A p : (\E i \in DOMAIN t : t[i] = p) <=> p # h /\ \E i \in DOMAIN s : s[i] = p
    <2>1. ASSUME NEW i \in DOMAIN t
          PROVE  t[i] # h /\ \E j \in DOMAIN s : s[j] = t[i]
      BY <1>3
    <2>2. ASSUME NEW i \in DOMAIN s, s[i] # h
          PROVE  \E j \in DOMAIN t : t[j] = s[i]
      BY <1>3, <2>2
    <2>. QED  BY <2>1, <2>2
  <1>. QED  BY <1>1, <1>2, <1>4 DEF t, h

LEMMA Least ==
  ASSUME NEW S \in SUBSET Nat, S # {}
  PROVE  \E q \in S : \A s \in S : q <= s
  <1>1. PICK q \in S : \A s \in S : <<s, q>> \notin OpToRel(<, Nat)
    BY NatLessThanWellFounded, WFMin
  <1>2. \A s \in S : ~(s < q)
    BY <1>1 DEF OpToRel
  <1>. QED  BY <1>2, SMT

-----------------------------------------------------------------------------
(***************************************************************************)
(* Typing.                                                                 *)
(***************************************************************************)
Flights == {"none", "todo", "observing", "sinking", "done", "failed"}

\* The call for p is over, and at most one that was to do is begun.
LEMMA SettleMoves ==
  ASSUME flight \in [Paths -> Flights], NEW p \in Paths, NEW result \in {"done", "failed"},
         Settle(p, result)
  PROVE  /\ flight' \in [Paths -> Flights]
         /\ flight'[p] = result
         /\ \A q \in Paths \ {p} :
              flight'[q] = flight[q] \/ (flight[q] = "todo" /\ flight'[q] = "observing")
  <1>. DEFINE f == [flight EXCEPT ![p] = result]
              x == CHOOSE q \in Todo(f) : \A s \in Todo(f) : q <= s
  <1>1. /\ f \in [Paths -> Flights] /\ f[p] = result
        /\ \A q \in Paths \ {p} : f[q] = flight[q]
    BY DEF Flights
  <1>2. CASE flight' = f
    BY <1>1, <1>2
  <1>3. CASE Todo(f) # {} /\ flight' = [f EXCEPT ![x] = "observing"]
    <2>1. Todo(f) \in SUBSET Nat
      BY PathsAssumption DEF Todo
    <2>2. x \in Todo(f)
      BY <1>3, <2>1, Least
    <2>3. x \in Paths /\ f[x] = "todo" /\ x # p
      BY <2>2, <1>1 DEF Todo
    <2>. HIDE DEF f, x
    <2>. QED  BY <1>1, <1>3, <2>3 DEF Flights
  <1>. QED  BY <1>2, <1>3 DEF Settle

LEMMA LaunchTyped ==
  ASSUME NEW S, NEW n
  PROVE  /\ Launch(S, n) \in [Paths -> {"none", "todo", "observing"}]
         /\ \A p \in Paths : Launch(S, n)[p] = "none" <=> p \notin S
  BY DEF Launch

LEMMA NoFlightTyped ==
  /\ NoFlight \in [Paths -> Flights]
  /\ \A p \in Paths : NoFlight[p] = "none"
  BY DEF NoFlight, Flights

LEMMA NothingTyped ==
  /\ Nothing \in Readings
  /\ NoMirrors \in [before : Trees, after : Trees]
  BY DEF Nothing, NoMirrors, Readings, Trees, Contents

LEMMA InitTyped == Init => TypeOK
  <1>. SUFFICES ASSUME Init PROVE TypeOK
    OBVIOUS
  <1>1. StoreTypeOK
    BY HeldAssumption, MaxReadsAssumption
       DEF Init, StoreInit, StoreTypeOK, Idle, Steps
  <1>2. repo \in Repositories /\ saved \in Starts
    BY StartsAssumption DEF Init
  <1>3. edits \in 0 .. MaxEdits /\ attempt \in 0 .. MaxCaptureAttempts
    BY BoundsAssumption DEF Init
  <1>4. flight \in [Paths -> Flights] /\ sink \in Seq(Paths)
    BY NoFlightTyped DEF Init
  <1>5. {reading, first} \subseteq Readings /\ mirrors \in [before : Trees, after : Trees]
    BY NothingTyped DEF Init
  <1>. QED  BY <1>1, <1>2, <1>3, <1>4, <1>5 DEF Init, TypeOK, Flights

\* The user leaves a repository, and a HEAD of its own if there is another.
LEMMA UserEdits ==
  ASSUME TypeOK, User
  PROVE  \E r \in Repositories :
           Edit(r) /\ (r.head = repo.head \/ r.head.sha = repo.head.sha + 1)
  <1>1. repo = [head |-> repo.head, index |-> repo.index, tree |-> repo.tree]
        /\ repo.head \in [sha : Nat, tree : Trees]
        /\ repo.index \in Trees /\ repo.tree \in Trees
    BY DEF TypeOK, Repositories
  <1>. DEFINE Goal == \E r \in Repositories :
                        Edit(r) /\ (r.head = repo.head \/ r.head.sha = repo.head.sha + 1)
  <1>2. ASSUME NEW p \in Paths, Write(p) PROVE Goal
    <2>1. PICK c \in Contents : Edit([repo EXCEPT !.tree[p] = c])
      BY <1>2 DEF Write
    <2>2. [repo EXCEPT !.tree[p] = c] \in Repositories
          /\ [repo EXCEPT !.tree[p] = c].head = repo.head
      BY <1>1 DEF Repositories, Trees
    <2>. QED  BY <2>1, <2>2
  <1>3. ASSUME NEW p \in Paths, Stage(p) PROVE Goal
    <2>1. [repo EXCEPT !.index[p] = repo.tree[p]] \in Repositories
          /\ [repo EXCEPT !.index[p] = repo.tree[p]].head = repo.head
      BY <1>1 DEF Repositories, Trees
    <2>. QED  BY <1>3, <2>1 DEF Stage
  <1>4. ASSUME NEW p \in Paths, NEW q \in Paths, Move(p, q)
        PROVE  Goal
    <2>. DEFINE i == [repo.index EXCEPT ![q] = repo.index[p], ![p] = Absent]
                w == [repo.tree EXCEPT ![q] = repo.tree[p], ![p] = Absent]
    <2>1. i \in Trees /\ w \in Trees
      BY <1>1 DEF Trees, Contents
    <2>2. [repo EXCEPT !.index = i, !.tree = w] \in Repositories
          /\ [repo EXCEPT !.index = i, !.tree = w].head = repo.head
      BY <1>1, <2>1 DEF Repositories
    <2>3. Edit([repo EXCEPT !.index = i, !.tree = w])
      BY <1>4, <1>1 DEF Move
    <2>. QED  BY <2>2, <2>3
  <1>5. ASSUME Commit PROVE Goal
    <2>. DEFINE h == [sha |-> repo.head.sha + 1, tree |-> repo.index]
    <2>1. h \in [sha : Nat, tree : Trees]
      BY <1>1
    <2>2. [repo EXCEPT !.head = h] \in Repositories
          /\ [repo EXCEPT !.head = h].head.sha = repo.head.sha + 1
      BY <1>1, <2>1 DEF Repositories
    <2>3. Edit([repo EXCEPT !.head = h])
      BY <1>5 DEF Commit
    <2>. QED  BY <2>2, <2>3
  <1>. QED  BY <1>2, <1>3, <1>4, <1>5 DEF User

LEMMA RestoredTyped ==
  ASSUME saved \in Starts, NEW p \in Paths
  PROVE  Restored(p) \in Contents
  BY StartsAssumption DEF Restored, Repositories, Trees, Contents

LEMMA CandidatesAccepted ==
  ASSUME NEW r, NEW q \in Accepted(r)
  PROVE  q[1] \in r.candidates /\ q[2] \in r.candidates
  BY DEF Accepted

LEMMA NormalizedTyped ==
  ASSUME NEW m \in Trees, NEW r \in Readings
  PROVE  Normalized(m, r) \in Trees
  <1>. DEFINE moved == {q \in Accepted(r) : {Restored(q[1]), r.seen[q[2]]} \subseteq Regular}
  <1>1. \A q \in moved : q[1] \in Paths
    BY CandidatesAccepted DEF Readings
  <1>2. \A p \in Paths : (\E q \in moved : q[2] = p)
          => (CHOOSE q \in moved : q[2] = p) \in moved
    OBVIOUS
  <1>. HIDE DEF moved
  <1>3. \A p \in Paths : (\E q \in moved : q[2] = p)
          => m[(CHOOSE q \in moved : q[2] = p)[1]] \in Contents
    BY <1>1, <1>2 DEF Trees
  <1>4. Absent \in Contents /\ \A p \in Paths : m[p] \in Contents
    BY DEF Trees, Contents
  <1>5. [p \in Paths |->
           CASE \E q \in moved : q[2] = p -> m[(CHOOSE q \in moved : q[2] = p)[1]]
             [] \E q \in moved : q[1] = p -> Absent
             [] OTHER -> m[p]] \in Trees
    BY <1>3, <1>4 DEF Trees
  <1>. QED  BY <1>5 DEF Normalized, moved

\* A step of the store is typed, and it is by nobody else.
LEMMA PutTyped ==
  ASSUME StoreTypeOK, NEW w \in Writers, NEW d \in Digests, Put(w, d)
  PROVE  /\ puts' \in [Writers -> [at : Steps, digest : Digests \cup {Absent},
                                   reads : 0 .. MaxReads]]
         /\ puts'[w].at = "look" /\ puts'[w].digest = d /\ puts'[w] # Idle
         /\ \A v \in Writers \ {w} : puts'[v] = puts[v]
  BY MaxReadsAssumption DEF StoreTypeOK, Put, Steps, Idle

LEMMA IdleTyped == Idle \in [at : Steps, digest : Digests \cup {Absent}, reads : 0 .. MaxReads]
  BY MaxReadsAssumption DEF Idle, Steps

LEMMA PutStepTyped ==
  ASSUME StoreTypeOK, NEW w \in Writers, PutStep(w)
  PROVE  StoreTypeOK'
  <1>1. \A s \in Steps : At(w, s) =>
          puts' \in [Writers -> [at : Steps, digest : Digests \cup {Absent},
                                 reads : 0 .. MaxReads]]
    BY DEF StoreTypeOK, At
  <1>2. CASE Look(w)
    BY <1>1, <1>2 DEF Look, StoreTypeOK, Steps
  <1>3. CASE Publish(w)
    BY <1>1, <1>3 DEF Publish, StoreTypeOK, Steps
  <1>4. CASE Settles(w) \/ PublishFails(w)
    BY <1>1, <1>4 DEF Settles, PublishFails, StoreTypeOK, Steps
  <1>5. CASE Recover(w)
    <2>1. CASE puts[w].reads + 1 < MaxReads /\ puts' = [puts EXCEPT ![w].reads = @ + 1]
      BY <1>5, <2>1, MaxReadsAssumption DEF StoreTypeOK, Recover
    <2>. QED  BY <1>1, <1>5, <2>1 DEF Recover, StoreTypeOK, Steps
  <1>. QED  BY <1>2, <1>3, <1>4, <1>5 DEF PutStep

LEMMA TryTyped ==
  ASSUME NEW n \in 0 .. MaxCaptureAttempts, Try(n)
  PROVE  /\ attempt' \in 0 .. MaxCaptureAttempts
         /\ pass' = "A" /\ step' = "head"
         /\ {reading', first'} \subseteq Readings
         /\ witness' \in {Unread} \cup Repositories
         /\ returned' \subseteq {"content", "status"}
  BY NothingTyped DEF Try

LEMMA FailTyped == TypeOK /\ Fail => TypeOK'
  <1>. SUFFICES ASSUME TypeOK, Fail PROVE TypeOK'
    OBVIOUS
  <1>1. {reading', first'} \subseteq Readings /\ mirrors' \in [before : Trees, after : Trees]
    BY NothingTyped DEF Fail
  <1>. QED  BY <1>1 DEF Fail, TypeOK, work, store, StoreTypeOK

LEMMA CheapTyped ==
  ASSUME TypeOK, Acquired, Capturing, step = "index"
  PROVE  CheapCandidates(reading) \subseteq Paths
  <1>1. \A r : StatusPaths(Status(r)) \subseteq Paths
    BY DEF StatusPaths, Status
  <1>2. StatusPaths(Status(saved)) \subseteq Paths /\ StatusPaths(reading.status) \subseteq Paths
    BY <1>1 DEF Acquired, Answers
  <1>3. reading.untracked \subseteq Paths /\ Untracked(saved) \subseteq Paths
    BY DEF Acquired, Untracked, Status
  <1>. QED  BY <1>2, <1>3 DEF CheapCandidates, DeltaPaths

LEMMA UntrackedTyped ==
  ASSUME NEW r
  PROVE  Untracked(r) \in SUBSET Paths
  BY DEF Untracked, Status

LEMMA ReadingTyped ==
  ASSUME NEW r \in Readings, NEW R \in Repositories
  PROVE  /\ [r EXCEPT !.head = R.head] \in Readings
         /\ [r EXCEPT !.status = Status(R)] \in Readings
         /\ [r EXCEPT !.text = Status(R)] \in Readings
         /\ [r EXCEPT !.untracked = Untracked(R)] \in Readings
         /\ \A c \in SUBSET Paths :
              [r EXCEPT !.index = R.index, !.candidates = c] \in Readings
  <1>1. R.head \in [sha : Nat, tree : Trees] /\ R.index \in Trees
        /\ Status(R) \in Answers /\ Untracked(R) \in SUBSET Paths
    BY UntrackedTyped DEF Repositories, Answers
  <1>. HIDE DEF Answers, Trees
  <1>. QED  BY <1>1 DEF Readings

LEMMA ReadsTyped ==
  ASSUME TypeOK, Acquired,
         ReadHead \/ ReadStatus \/ ReadText \/ ReadUntracked \/ ReadIndex
  PROVE  (TypeOK /\ Acquired)'
  <1>1. repo \in Repositories /\ reading \in Readings
    BY DEF TypeOK
  <1>2. /\ repo.head \in [sha : Nat, tree : Trees] /\ repo.index \in Trees
        /\ Status(repo) \in Answers /\ Untracked(repo) \in SUBSET Paths
    BY <1>1, UntrackedTyped DEF Repositories, Answers
  <1>3. ASSUME NEW s, NEW n \in Early \cup {"scan"}, NEW r \in Readings, Reads(s, n, r),
               flight' \in [Paths -> Flights]
        PROVE  TypeOK' /\ Capturing /\ Capturing' /\ step = s /\ step' = n /\ reading' = r
    BY <1>3 DEF Reads, TypeOK, Early, Flights, world, store, StoreTypeOK, Capturing
  <1>4. flight \in [Paths -> Flights]
    BY DEF TypeOK, Flights
  <1>. USE DEF Early
  <1>5. CASE ReadHead
    <2>1. TypeOK' /\ step' = "status" /\ reading' = [reading EXCEPT !.head = repo.head]
      BY <1>1, <1>3, <1>4, <1>5, ReadingTyped DEF ReadHead
    <2>. QED  BY <1>1, <1>2, <2>1 DEF Acquired, Readings
  <1>6. CASE ReadStatus
    <2>1. TypeOK' /\ step = "status" /\ step' = "text" /\ Capturing
          /\ reading' = [reading EXCEPT !.status = Status(repo)]
      BY <1>1, <1>3, <1>4, <1>6, ReadingTyped DEF ReadStatus
    <2>2. reading'.head = reading.head /\ reading'.status = Status(repo)
      BY <1>1, <2>1 DEF Readings
    <2>. QED  BY <1>2, <2>1, <2>2 DEF Acquired
  <1>7. CASE ReadText
    <2>1. TypeOK' /\ step = "text" /\ step' = "untracked" /\ Capturing
          /\ reading' = [reading EXCEPT !.text = Status(repo)]
      BY <1>1, <1>3, <1>4, <1>7, ReadingTyped DEF ReadText
    <2>2. reading'.head = reading.head /\ reading'.status = reading.status
      BY <1>1, <2>1 DEF Readings
    <2>. QED  BY <2>1, <2>2 DEF Acquired
  <1>8. CASE ReadUntracked
    <2>1. TypeOK' /\ step = "untracked" /\ step' = "index" /\ Capturing
          /\ reading' = [reading EXCEPT !.untracked = Untracked(repo)]
      BY <1>1, <1>3, <1>4, <1>8, ReadingTyped DEF ReadUntracked
    <2>2. reading'.head = reading.head /\ reading'.status = reading.status
          /\ reading'.untracked = Untracked(repo)
      BY <1>1, <2>1 DEF Readings
    <2>. QED  BY <1>2, <2>1, <2>2 DEF Acquired
  <1>9. CASE ReadIndex
    <2>. DEFINE c == CheapCandidates(reading)
    <2>0. Capturing /\ step = "index"
      BY <1>9 DEF ReadIndex, Reads, Capturing
    <2>1. c \in SUBSET Paths
      BY <2>0, CheapTyped
    <2>2. flight' \in [Paths -> Flights]
      BY <1>9, LaunchTyped DEF ReadIndex, Flights
    <2>. HIDE DEF c
    <2>3. TypeOK' /\ step' = "scan"
          /\ reading' = [reading EXCEPT !.index = repo.index, !.candidates = c]
      BY <1>1, <1>3, <1>9, <2>1, <2>2, ReadingTyped DEF ReadIndex, c
    <2>4. reading'.head = reading.head /\ reading'.status = reading.status
          /\ reading'.untracked = reading.untracked /\ reading'.index = repo.index
      BY <1>1, <2>3 DEF Readings
    <2>. QED  BY <1>2, <2>0, <2>3, <2>4 DEF Acquired
  <1>. QED  BY <1>5, <1>6, <1>7, <1>8, <1>9

LEMMA EditTyped ==
  ASSUME TypeOK, Acquired, NEW r \in Repositories, Edit(r)
  PROVE  (TypeOK /\ Acquired)'
  <1>1. edits' \in 0 .. MaxEdits
    BY BoundsAssumption DEF TypeOK, Edit
  <1>2. returned' \subseteq {"content", "status"}
    BY DEF TypeOK, Edit
  <1>. QED  BY <1>1, <1>2 DEF Edit, TypeOK, Acquired, Capturing, work, store, StoreTypeOK

LEMMA ObserveTyped ==
  ASSUME TypeOK, Acquired, NEW p \in Paths, Observe(p) \/ ObserveFails(p)
  PROVE  (TypeOK /\ Acquired)'
  <1>1. flight \in [Paths -> Flights] /\ reading \in Readings
    BY DEF TypeOK, Flights
  <1>2. CASE ObserveFails(p)
    <2>1. flight' \in [Paths -> Flights]
      BY <1>1, <1>2, SettleMoves DEF ObserveFails
    <2>. QED  BY <1>2, <2>1 DEF ObserveFails, TypeOK, Acquired, Capturing, Flights, world, store,
                                StoreTypeOK
  <1>3. CASE Observe(p)
    <2>. DEFINE c == IF step = "before" THEN Restored(p) ELSE repo.tree[p]
                new == step = "scan" /\ c \in Regular /\ c # FileHash(p)
    <2>1. c \in Contents
      BY RestoredTyped DEF TypeOK, Repositories, Trees
    <2>2. /\ flight' \in [Paths -> Flights]
          /\ sink' \in Seq(Paths)
      <3>1. CASE flight' = [flight EXCEPT ![p] = "sinking"] /\ sink' = Append(sink, p)
        BY <1>1, <3>1 DEF TypeOK, Flights
      <3>2. CASE Settle(p, "done") /\ UNCHANGED sink
        BY <1>1, <3>2, SettleMoves DEF TypeOK
      <3>. QED  BY <1>3, <3>1, <3>2 DEF Observe
    <2>. HIDE DEF c, new
    <2>3. /\ reading' \in Readings
          /\ reading'.head = reading.head /\ reading'.status = reading.status
          /\ reading'.untracked = reading.untracked /\ reading'.index = reading.index
      <3>1. CASE reading' = reading
        BY <1>1, <3>1
      <3>2. CASE reading' = [reading EXCEPT !.seen[p] = c,
                                            !.candidates = @ \cup {q \in {p} : new}]
        BY <1>1, <2>1, <3>2 DEF Readings
      <3>. QED  BY <1>3, <3>1, <3>2 DEF Observe, c, new
    <2>4. step' = step /\ phase' = phase
      BY <1>3 DEF Observe
    <2>5. Acquired'
      BY <2>3, <2>4 DEF Acquired, Capturing
    <2>. QED  BY <1>3, <2>2, <2>3, <2>5
              DEF Observe, TypeOK, Flights, world, store, StoreTypeOK
  <1>. QED  BY <1>2, <1>3

\* A payload that waits is a file or a link, and waits for the candidate it is of.
LEMMA WaitingIsStored ==
  ASSUME TypeOK, FlowInv, sink # <<>>
  PROVE  /\ Head(sink) \in Paths
         /\ flight[Head(sink)] = "sinking"
         /\ Waits(Head(sink)) \in Digests
  <1>1. Head(sink) \in Paths /\ \E i \in DOMAIN sink : sink[i] = Head(sink)
    BY Taken DEF TypeOK, FlowInv
  <1>. QED  BY <1>1 DEF FlowInv

LEMMA StoreNextTyped ==
  ASSUME TypeOK, Acquired, FlowInv, StoreNext
  PROVE  (TypeOK /\ Acquired)'
  <1>1. StoreTypeOK'
    BY WaitingIsStored, WriterAssumption, PutTyped DEF StoreNext, TypeOK, StoreTypeOK
  <1>. QED  BY <1>1 DEF StoreNext, TypeOK, Acquired, Capturing, world

LEMMA StoreEndsTyped ==
  ASSUME TypeOK, Acquired, FlowInv, StoreEnds
  PROVE  (TypeOK /\ Acquired)'
  <1>. DEFINE p == Head(sink)
  <1>1. p \in Paths /\ sink' \in Seq(Paths)
    BY Taken DEF StoreEnds, TypeOK, FlowInv
  <1>2. flight' \in [Paths -> Flights]
    BY <1>1, SettleMoves DEF StoreEnds, TypeOK, Flights
  <1>3. StoreTypeOK'
    BY IdleTyped DEF StoreEnds, TypeOK, StoreTypeOK
  <1>4. Waits(p) \in Regular => Waits(p) \in Contents
    BY DEF Regular, Contents
  <1>5. mirrors' \in [before : Trees, after : Trees]
    BY <1>1, <1>4 DEF StoreEnds, TypeOK, Trees
  <1>. QED  BY <1>1, <1>2, <1>3, <1>5 DEF StoreEnds, TypeOK, Acquired, Capturing, Flights, world

\* A list that ends without a failure, and what the pass does next.
LEMMA ListMoves ==
  ASSUME TypeOK, ListEnds, ~Fail
  PROVE  /\ Capturing /\ InFlight = {} /\ ~Broken(flight) /\ Todo(flight) = {}
         /\ UNCHANGED <<world, saved, phase, attempt, pass, reading, first, sink, store, mirrors,
                        witness>>
         /\ \/ /\ step = "scan" /\ step' = "rest"
               /\ flight' = Launch({p \in Watched : reading.seen[p] = Unread}, 1)
            \/ /\ step = "rest" /\ pass = "A" /\ step' = "before"
               /\ flight' = Launch(Watched, 1)
            \/ /\ step = "rest" /\ pass = "B" /\ step' = "compare"
               /\ flight' = NoFlight
            \/ /\ step = "before" /\ step' = "derive"
               /\ flight' = NoFlight
  <1>1. step \in Lists /\ pass \in {"A", "B"}
    BY DEF ListEnds, TypeOK, Lists
  <1>2. CASE step = "scan"
    BY <1>2 DEF ListEnds, ListOver, Capturing, Watched
  <1>3. CASE step = "rest" /\ pass = "A"
    BY <1>3 DEF ListEnds, ListOver, Capturing, Watched
  <1>4. CASE step = "rest" /\ pass = "B"
    BY <1>4 DEF ListEnds, ListOver, Capturing, Watched
  <1>5. CASE step = "before"
    BY <1>5 DEF ListEnds, ListOver, Capturing, Watched
  <1>. QED  BY <1>1, <1>2, <1>3, <1>4, <1>5 DEF Lists

LEMMA ListEndsTyped ==
  ASSUME TypeOK, Acquired, ListEnds
  PROVE  (TypeOK /\ Acquired)'
  <1>1. CASE Fail
    BY <1>1, FailTyped DEF Fail, Acquired, Capturing
  <1>2. CASE ~Fail
    <2>1. /\ flight' \in [Paths -> Flights]
          /\ Capturing /\ step \notin Early /\ UNCHANGED <<phase, reading>>
          /\ step' \in {"rest", "before", "compare", "derive"}
      BY <1>2, ListMoves, LaunchTyped, NoFlightTyped DEF Flights, Early
    <2>2. /\ step \notin {"head", "status"}
          /\ step \in {"index", "scan", "rest", "before", "derive", "compare"}
      BY <2>1 DEF TypeOK, Early
    <2>3. Acquired'
      BY <2>1, <2>2 DEF Acquired, Early, Capturing
    <2>. QED  BY <1>2, <2>1, <2>3, ListMoves DEF TypeOK, Flights, world, store, StoreTypeOK
  <1>. QED  BY <1>1, <1>2

LEMMA DeriveTyped ==
  ASSUME TypeOK, Acquired, Derive
  PROVE  (TypeOK /\ Acquired)'
  <1>1. CASE Fail
    BY <1>1, FailTyped DEF Fail, Acquired, Capturing
  <1>2. CASE ~Fail
    <2>1. reading' \in Readings /\ first' \in Readings
      BY <1>2, NothingTyped DEF Derive, TypeOK
    <2>2. mirrors' \in [before : Trees, after : Trees]
      <3>1. mirrors.before \in Trees /\ reading \in Readings
        BY DEF TypeOK
      <3>2. Normalized(mirrors.before, reading) \in Trees
        BY <3>1, NormalizedTyped
      <3>. QED  BY <1>2, <3>2 DEF Derive, TypeOK
    <2>3. step' = "head"
      BY <1>2 DEF Derive
    <2>4. Acquired'
      BY <2>3 DEF Acquired, Early
    <2>5. /\ pass' = "B" /\ witness' = repo
          /\ UNCHANGED <<world, saved, phase, attempt, work>>
      BY <1>2 DEF Derive
    <2>. QED  BY <2>1, <2>2, <2>3, <2>4, <2>5 DEF TypeOK, world, work, store, StoreTypeOK
  <1>. QED  BY <1>1, <1>2

LEMMA CompareTyped ==
  ASSUME TypeOK, Acquired, Compare
  PROVE  (TypeOK /\ Acquired)'
  <1>1. CASE Fail
    BY <1>1, FailTyped DEF Fail, Acquired, Capturing
  <1>2. CASE Retry /\ MoreAttempts /\ UNCHANGED <<repo, edits, saved, phase, work>>
    <2>1. attempt + 1 \in 0 .. MaxCaptureAttempts
      BY <1>2, BoundsAssumption DEF MoreAttempts, TypeOK
    <2>2. /\ attempt' \in 0 .. MaxCaptureAttempts
          /\ pass' = "A" /\ step' = "head"
          /\ {reading', first'} \subseteq Readings
          /\ witness' \in {Unread} \cup Repositories
          /\ returned' \subseteq {"content", "status"}
      BY <1>2, <2>1, TryTyped DEF Retry
    <2>3. mirrors' \in [before : Trees, after : Trees]
      BY <1>2, NothingTyped DEF Retry
    <2>4. Acquired'
      BY <2>2 DEF Acquired, Early
    <2>. QED  BY <1>2, <2>2, <2>3, <2>4 DEF TypeOK, work, store, StoreTypeOK
  <1>3. CASE phase' = "published" /\ reading' = Nothing
             /\ UNCHANGED <<world, saved, attempt, pass, step, first, work, mirrors, witness>>
    BY <1>3, NothingTyped DEF TypeOK, Acquired, Capturing, world, work, store, StoreTypeOK
  <1>. QED  BY <1>1, <1>2, <1>3 DEF Compare

LEMMA StoringTyped ==
  ASSUME TypeOK, Acquired, NEW w \in Writers, Storing(w)
  PROVE  (TypeOK /\ Acquired)'
  <1>1. CASE PutStep(w)
    BY <1>1, PutStepTyped DEF Storing, TypeOK, Acquired, Capturing, world
  <1>2. CASE (\E d \in Shared : Put(w, d)) /\ UNCHANGED objects
    <2>1. StoreTypeOK'
      BY <1>2, PutTyped, SharedAssumption DEF TypeOK, StoreTypeOK
    <2>. QED  BY <2>1 DEF Storing, TypeOK, Acquired, Capturing, world
  <1>. QED  BY <1>1, <1>2 DEF Storing

LEMMA NextTyped ==
  ASSUME TypeOK, Acquired, FlowInv, [Next]_vars
  PROVE  (TypeOK /\ Acquired)'
  <1>1. CASE Begin
    <2>1. /\ attempt' \in 0 .. MaxCaptureAttempts
          /\ pass' = "A" /\ step' = "head"
          /\ {reading', first'} \subseteq Readings
          /\ witness' \in {Unread} \cup Repositories
          /\ returned' \subseteq {"content", "status"}
      BY <1>1, BoundsAssumption, TryTyped DEF Begin
    <2>2. /\ phase' = "capturing"
          /\ UNCHANGED <<repo, edits, saved, work, mirrors>>
      BY <1>1 DEF Begin
    <2>3. Acquired'
      BY <2>1 DEF Acquired, Early
    <2>. QED  BY <2>1, <2>2, <2>3 DEF TypeOK, work, store, StoreTypeOK
  <1>2. CASE ReadHead \/ ReadStatus \/ ReadText \/ ReadUntracked \/ ReadIndex
    BY <1>2, ReadsTyped
  <1>3. CASE GitFails
    BY <1>3, FailTyped DEF GitFails, Fail, Acquired, Capturing
  <1>4. CASE \E p \in Paths : Observe(p) \/ ObserveFails(p)
    BY <1>4, ObserveTyped
  <1>5. CASE StoreNext
    BY <1>5, StoreNextTyped
  <1>6. CASE StoreEnds
    BY <1>6, StoreEndsTyped
  <1>7. CASE ListEnds
    BY <1>7, ListEndsTyped
  <1>8. CASE Derive
    BY <1>8, DeriveTyped
  <1>9. CASE Compare
    BY <1>9, CompareTyped
  <1>10. CASE \E w \in Writers : Storing(w)
    BY <1>10, StoringTyped
  <1>11. CASE User
    BY <1>11, UserEdits, EditTyped
  <1>12. CASE UNCHANGED vars
    BY <1>12 DEF vars, world, work, store, TypeOK, Acquired, Capturing, StoreTypeOK
  <1>. QED  BY <1>1, <1>2, <1>3, <1>4, <1>5, <1>6, <1>7, <1>8, <1>9, <1>10, <1>11, <1>12,
              WriterAssumption DEF Next, Capture, Others

-----------------------------------------------------------------------------
(***************************************************************************)
(* The store.                                                              *)
(***************************************************************************)
LEMMA StoreStep ==
  ASSUME StoreTypeOK, StoreInv, NEW w \in Writers, PutStep(w)
  PROVE  /\ StoreInv'
         /\ \A d \in Digests : objects[d] # "absent" => objects'[d] = objects[d]
         /\ \A v \in Writers \ {w} : puts'[v] = puts[v]
         /\ puts'[w].digest = puts[w].digest
         /\ puts[w] # Idle /\ puts'[w] # Idle
  <1>1. /\ objects \in [Digests -> {"absent", "valid", "corrupt"}]
        /\ puts \in [Writers -> [at : Steps, digest : Digests \cup {Absent},
                                 reads : 0 .. MaxReads]]
    BY DEF StoreTypeOK
  <1>2. /\ puts[w].at # "idle"
        /\ puts[w].digest \in Digests
        /\ puts[w] # Idle
    BY DEF PutStep, Look, Publish, Settles, PublishFails, Recover, StoreInv, Idle
  <1>3. \A s : At(w, s) => /\ puts'[w].at = s /\ puts'[w].digest = puts[w].digest
                           /\ \A v \in Writers \ {w} : puts'[v] = puts[v]
    <2>1. puts[w] \in [at : Steps, digest : Digests \cup {Absent}, reads : 0 .. MaxReads]
      BY <1>1
    <2>. QED  BY <1>1, <2>1 DEF At
  <1>4. ASSUME UNCHANGED objects, NEW s \in {"publish", "stored", "refused", "recover"},
               At(w, s),
               s = "publish" => objects[puts[w].digest] # "corrupt",
               s = "stored" => objects[puts[w].digest] = "valid"
        PROVE  StoreInv' /\ puts'[w] # Idle
    <2>1. /\ puts'[w].at = s /\ puts'[w].digest = puts[w].digest
          /\ \A v \in Writers \ {w} : puts'[v] = puts[v]
      BY <1>3, <1>4
    <2>2. puts'[w] # Idle
      BY <2>1, <1>4 DEF Idle
    <2>. QED  BY <1>2, <1>4, <2>1, <2>2 DEF StoreInv
  <1>5. CASE Look(w)
    <2>1. CASE objects[puts[w].digest] = "valid" /\ At(w, "stored")
      BY <1>2, <1>3, <1>4, <1>5, <2>1 DEF Look
    <2>2. CASE objects[puts[w].digest] = "absent" /\ At(w, "publish")
      BY <1>2, <1>3, <1>4, <1>5, <2>2 DEF Look
    <2>3. CASE At(w, "refused")
      BY <1>2, <1>3, <1>4, <1>5, <2>3 DEF Look
    <2>. QED  BY <1>5, <2>1, <2>2, <2>3 DEF Look
  <1>6. CASE Publish(w)
    <2>1. puts'[w].at = "settling" /\ puts'[w].digest = puts[w].digest
      BY <1>3, <1>6 DEF Publish
    <2>2. \A d \in Digests : objects'[d] = IF d = puts[w].digest THEN "valid" ELSE objects[d]
      BY <1>1, <1>6 DEF Publish
    <2>3. objects[puts[w].digest] \in {"absent", "valid"}
      BY <1>1, <1>2, <1>6 DEF Publish, StoreInv
    <2>4. \A v \in Writers \ {w} : puts'[v] = puts[v]
      BY <1>3, <1>6 DEF Publish
    <2>5. StoreInv'
      <3>. SUFFICES ASSUME NEW v \in Writers
                    PROVE  /\ puts'[v].at # "idle" => puts'[v].digest \in Digests
                           /\ puts'[v].at = "publish" => objects'[puts'[v].digest] # "corrupt"
                           /\ puts'[v].at \in {"settling", "stored"}
                                => objects'[puts'[v].digest] = "valid"
        BY DEF StoreInv
      <3>1. CASE v = w
        BY <1>2, <2>1, <2>2, <3>1
      <3>2. CASE v # w
        BY <2>2, <2>4, <3>2 DEF StoreInv
      <3>. QED  BY <3>1, <3>2
    <2>6. puts'[w] # Idle
      BY <2>1 DEF Idle
    <2>. QED  BY <1>2, <2>1, <2>2, <2>3, <2>4, <2>5, <2>6
  <1>7. CASE Settles(w)
    BY <1>2, <1>3, <1>4, <1>7 DEF Settles, StoreInv
  <1>8. CASE PublishFails(w)
    BY <1>2, <1>3, <1>4, <1>8 DEF PublishFails
  <1>9. CASE Recover(w)
    <2>1. CASE puts' = [puts EXCEPT ![w].reads = @ + 1]
      <3>1. puts'[w].at = puts[w].at /\ puts'[w].digest = puts[w].digest
            /\ \A v \in Writers \ {w} : puts'[v] = puts[v]
        BY <1>1, <2>1
      <3>. QED  BY <1>2, <1>9, <3>1 DEF Recover, StoreInv, Idle
    <2>2. CASE objects[puts[w].digest] = "valid" /\ At(w, "stored")
      BY <1>2, <1>3, <1>4, <1>9, <2>2 DEF Recover
    <2>3. CASE At(w, "refused")
      BY <1>2, <1>3, <1>4, <1>9, <2>3 DEF Recover
    <2>. QED  BY <1>9, <2>1, <2>2, <2>3 DEF Recover
  <1>. QED  BY <1>2, <1>5, <1>6, <1>7, <1>8, <1>9 DEF PutStep

\* A put that begins, and one that is forgotten.
LEMMA StoreSet ==
  ASSUME StoreInv, NEW w \in Writers, UNCHANGED objects,
         \A v \in Writers \ {w} : puts'[v] = puts[v],
         \/ puts'[w].at = "look" /\ puts'[w].digest \in Digests
         \/ puts'[w] = Idle
  PROVE  StoreInv'
  BY DEF StoreInv, Idle

LEMMA StoreKeeps ==
  ASSUME TypeOK, StoreInv, FlowInv, [Next]_vars
  PROVE  /\ StoreInv'
         /\ \A d \in Digests : objects[d] # "absent" => objects'[d] = objects[d]
  <1>1. CASE UNCHANGED store
    BY <1>1 DEF store, StoreInv
  <1>2. CASE StoreNext
    <2>1. /\ Put("capture", Waits(Head(sink))) /\ Waits(Head(sink)) \in Digests
          /\ StoreTypeOK /\ UNCHANGED objects
      BY <1>2, WaitingIsStored DEF StoreNext, TypeOK
    <2>2. /\ puts'["capture"].at = "look" /\ puts'["capture"].digest \in Digests
          /\ \A v \in Writers \ {"capture"} : puts'[v] = puts[v]
      BY <2>1, WriterAssumption, PutTyped
    <2>. QED  BY <2>1, <2>2, WriterAssumption, StoreSet
  <1>3. CASE StoreEnds
    BY <1>3, WriterAssumption, StoreSet DEF StoreEnds, TypeOK, StoreTypeOK
  <1>4. CASE \E w \in Writers : Storing(w)
    <2>1. PICK w \in Writers : Storing(w)
      BY <1>4
    <2>2. CASE PutStep(w)
      BY <2>2, StoreStep DEF TypeOK
    <2>3. CASE (\E d \in Shared : Put(w, d)) /\ UNCHANGED objects
      <3>1. PICK d \in Digests : Put(w, d)
        BY <2>3, SharedAssumption
      <3>2. /\ puts'[w].at = "look" /\ puts'[w].digest \in Digests
            /\ \A v \in Writers \ {w} : puts'[v] = puts[v]
        BY <3>1, PutTyped DEF TypeOK
      <3>. QED  BY <2>3, <3>2, StoreSet
    <2>. QED  BY <2>1, <2>2, <2>3 DEF Storing
  <1>5. ASSUME Next, ~StoreNext, ~StoreEnds, ~\E w \in Writers : Storing(w)
        PROVE  UNCHANGED store
    <2>1. ASSUME Begin \/ ReadHead \/ ReadStatus \/ ReadText \/ ReadUntracked \/ ReadIndex
                 \/ GitFails \/ (\E p \in Paths : Observe(p) \/ ObserveFails(p))
          PROVE  UNCHANGED store
      BY <2>1 DEF Begin, ReadHead, ReadStatus, ReadText, ReadUntracked, ReadIndex, Reads,
                  GitFails, Fail, Observe, ObserveFails, work
    <2>2. ASSUME ListEnds \/ Derive \/ Compare
          PROVE  UNCHANGED store
      BY <2>2 DEF ListEnds, Derive, Compare, Fail, Retry, work
    <2>3. ASSUME User PROVE UNCHANGED store
      BY <2>3, UserEdits DEF Edit, work
    <2>. QED  BY <1>5, <2>1, <2>2, <2>3, WriterAssumption DEF Next, Capture, Others
  <1>. QED  BY <1>1, <1>2, <1>3, <1>4, <1>5 DEF vars, work, store

-----------------------------------------------------------------------------
(***************************************************************************)
(* The calls in flight and the payloads that wait.                         *)
(***************************************************************************)
LEMMA QuietIsIdle ==
  ASSUME TypeOK, FlowInv, InFlight = {}
  PROVE  sink = <<>> /\ puts["capture"] = Idle
  <1>1. sink # <<>> => flight[Head(sink)] = "sinking" /\ Head(sink) \in Paths
    BY WaitingIsStored
  <1>. QED  BY <1>1 DEF FlowInv, InFlight

\* With nothing in flight, before and after, nothing waits.
LEMMA QuietKeeps ==
  ASSUME TypeOK, FlowInv, InFlight = {}, UNCHANGED <<sink, puts>>,
         \A p \in Paths : flight'[p] # "sinking",
         ~(Capturing' /\ step' \in Lists) => InFlight' = {}
  PROVE  FlowInv'
  <1>1. sink' = <<>> /\ puts'["capture"] = Idle
    BY QuietIsIdle
  <1>2. \A p \in Paths : ~\E i \in DOMAIN sink' : sink'[i] = p
    BY <1>1
  <1>3. \A i, j \in DOMAIN sink' : sink'[i] = sink'[j] => i = j
    BY <1>1
  <1>. QED  BY <1>1, <1>2, <1>3 DEF FlowInv

LEMMA SameFlow ==
  ASSUME FlowInv, UNCHANGED <<phase, step, pass, flight, sink, saved, reading>>,
         puts'["capture"] # Idle =>
           puts["capture"] # Idle /\ puts'["capture"].digest = puts["capture"].digest
  PROVE  FlowInv'
  <1>1. \A p : Waits(p)' = Waits(p)
    BY DEF Waits, Restored, Untracked, Status
  <1>2. InFlight' = InFlight
    BY DEF InFlight
  <1>. QED  BY <1>1, <1>2 DEF FlowInv, Capturing

\* A file is observed: its content, and what that makes of the path.
LEMMA Observed ==
  ASSUME TypeOK, NEW p \in Paths, Observe(p)
  PROVE  \E c \in Contents, more \in SUBSET {p} :
           /\ flight[p] = "observing" /\ Capturing
           /\ step = "before" => c = Restored(p) /\ reading' = reading
           /\ step # "before" =>
                /\ c = repo.tree[p]
                /\ reading' = [reading EXCEPT !.seen[p] = c, !.candidates = @ \cup more]
           /\ reading'.candidates = reading.candidates
                \cup (IF step = "before" THEN {} ELSE more)
           /\ reading'.seen[p] = (IF step = "before" THEN reading.seen[p] ELSE c)
           /\ \A q \in Paths \ {p} : reading'.seen[q] = reading.seen[q]
           /\ Waits(p)' = c
           /\ \A q \in Paths \ {p} : Waits(q)' = Waits(q)
           /\ \/ /\ pass = "A" /\ c \in Digests /\ p \in reading'.candidates
                 /\ flight' = [flight EXCEPT ![p] = "sinking"]
                 /\ sink' = Append(sink, p)
              \/ /\ p \notin reading'.candidates \/ pass # "A" \/ c = Absent
                 /\ Settle(p, "done") /\ UNCHANGED sink
           /\ UNCHANGED <<world, saved, phase, attempt, pass, step, first, store, mirrors,
                          witness>>
  <1>. DEFINE c == IF step = "before" THEN Restored(p) ELSE repo.tree[p]
              new == step = "scan" /\ c \in Regular /\ c # FileHash(p)
              more == {q \in {p} : new}
  <1>1. c \in Contents
    BY RestoredTyped DEF TypeOK, Repositories, Trees
  <1>2. reading \in Readings
    BY DEF TypeOK
  <1>3. Restored(p)' = Restored(p) /\ \A q \in Paths : Restored(q)' = Restored(q)
    BY DEF Observe, Restored, Untracked, Status
  <1>4. /\ flight[p] = "observing" /\ Capturing
        /\ UNCHANGED <<world, saved, phase, attempt, pass, step, first, store, mirrors, witness>>
    BY DEF Observe, Capturing
  <1>5. more \in SUBSET {p} /\ (new <=> p \in more)
    OBVIOUS
  <1>6. step = "before" => ~new
    OBVIOUS
  <1>7. reading' = IF step = "before" THEN reading
                   ELSE [reading EXCEPT !.seen[p] = c, !.candidates = @ \cup more]
    BY DEF Observe
  <1>8. \/ /\ p \in reading.candidates \/ new
           /\ pass = "A" /\ c # Absent
           /\ flight' = [flight EXCEPT ![p] = "sinking"]
           /\ sink' = Append(sink, p)
        \/ /\ ~((p \in reading.candidates \/ new) /\ pass = "A" /\ c # Absent)
           /\ Settle(p, "done") /\ UNCHANGED sink
    BY DEF Observe, Payload
  <1>. HIDE DEF c, new, more
  <1>9. /\ reading'.candidates = reading.candidates
             \cup (IF step = "before" THEN {} ELSE more)
        /\ reading'.seen[p] = (IF step = "before" THEN reading.seen[p] ELSE c)
        /\ \A q \in Paths \ {p} : reading'.seen[q] = reading.seen[q]
    BY <1>2, <1>7 DEF Readings
  <1>10. Waits(p)' = c /\ \A q \in Paths \ {p} : Waits(q)' = Waits(q)
    <2>1. step = "before" => c = Restored(p)
      BY DEF c
    <2>. QED  BY <1>3, <1>4, <1>9, <2>1 DEF Waits
  <1>11. \/ /\ pass = "A" /\ c \in Digests /\ p \in reading'.candidates
            /\ flight' = [flight EXCEPT ![p] = "sinking"]
            /\ sink' = Append(sink, p)
         \/ /\ p \notin reading'.candidates \/ pass # "A" \/ c = Absent
            /\ Settle(p, "done") /\ UNCHANGED sink
    BY <1>1, <1>5, <1>6, <1>8, <1>9 DEF Contents
  <1>12. /\ step = "before" => c = Restored(p)
         /\ step # "before" => c = repo.tree[p]
    BY DEF c
  <1>. QED  BY <1>1, <1>4, <1>5, <1>7, <1>9, <1>10, <1>11, <1>12

LEMMA ObserveFlow ==
  ASSUME TypeOK, FlowInv, NEW p \in Paths, Observe(p)
  PROVE  FlowInv'
  <1>1. PICK c \in Contents, more \in SUBSET {p} :
           /\ flight[p] = "observing" /\ Capturing
           /\ reading'.candidates = reading.candidates
                \cup (IF step = "before" THEN {} ELSE more)
           /\ Waits(p)' = c
           /\ \A q \in Paths \ {p} : Waits(q)' = Waits(q)
           /\ \/ /\ pass = "A" /\ c \in Digests /\ p \in reading'.candidates
                 /\ flight' = [flight EXCEPT ![p] = "sinking"]
                 /\ sink' = Append(sink, p)
              \/ Settle(p, "done") /\ UNCHANGED sink
           /\ UNCHANGED <<world, saved, phase, attempt, pass, step, first, store, mirrors,
                          witness>>
    BY Observed
  <1>2. flight \in [Paths -> Flights] /\ sink \in Seq(Paths)
    BY DEF TypeOK, Flights
  <1>3. step \in Lists /\ step' = step /\ pass' = pass /\ Capturing' /\ puts' = puts
    BY <1>1 DEF FlowInv, InFlight, Capturing, store
  <1>4. \A q \in Paths : flight[q] = "sinking" => q # p /\ Waits(q)' \in Digests
    BY <1>1 DEF FlowInv
  <1>5. \A i \in DOMAIN sink : sink[i] # p /\ sink[i] \in Paths
    BY <1>1, <1>2 DEF FlowInv
  <1>6. \A q : q = Head(sink') => Waits(q)' = Waits(Head(sink))'
    BY DEF Waits, Restored
  <1>9. ASSUME Head(sink') = Head(sink), puts'["capture"] # Idle
        PROVE  sink # <<>> /\ puts'["capture"].digest = Waits(Head(sink))'
    <2>1. sink # <<>> /\ puts["capture"].digest = Waits(Head(sink))
      BY <1>3, <1>9 DEF FlowInv
    <2>2. PICK h \in Paths : h = Head(sink) /\ h # p
      BY <1>1, <2>1, WaitingIsStored
    <2>3. Waits(h)' = Waits(h)
      BY <1>1, <2>2
    <2>4. Waits(h)' = Waits(Head(sink))'
      BY <1>6, <1>9, <2>2
    <2>. QED  BY <1>3, <2>1, <2>2, <2>3, <2>4
  <1>7. CASE /\ pass = "A" /\ c \in Digests /\ p \in reading'.candidates
             /\ flight' = [flight EXCEPT ![p] = "sinking"]
             /\ sink' = Append(sink, p)
    <2>1. /\ \A i, j \in DOMAIN sink' : sink'[i] = sink'[j] => i = j
          /\ \A q : (\E i \in DOMAIN sink' : sink'[i] = q)
                      <=> q = p \/ \E i \in DOMAIN sink : sink[i] = q
          /\ sink # <<>> => Head(sink') = Head(sink)
          /\ sink' # <<>>
      BY <1>2, <1>5, <1>7, Queued DEF FlowInv
    <2>2. \A q \in Paths : flight'[q] = "sinking" <=> q = p \/ flight[q] = "sinking"
      BY <1>2, <1>7 DEF Flights
    <2>3. \A q \in Paths : flight'[q] = "sinking" => q \in reading'.candidates /\ Waits(q)' \in Digests
      BY <1>1, <1>4, <1>7, <2>2 DEF FlowInv
    <2>4. puts'["capture"] # Idle =>
            sink' # <<>> /\ puts'["capture"].digest = Waits(Head(sink))'
      BY <1>3, <1>9, <2>1 DEF FlowInv
    <2>. QED  BY <1>3, <1>7, <2>1, <2>2, <2>3, <2>4 DEF FlowInv
  <1>8. CASE Settle(p, "done") /\ UNCHANGED sink
    <2>1. /\ flight'[p] = "done"
          /\ \A q \in Paths \ {p} :
               flight'[q] = flight[q] \/ (flight[q] = "todo" /\ flight'[q] = "observing")
      BY <1>2, <1>8, SettleMoves
    <2>2. \A q \in Paths : flight'[q] = "sinking" <=> flight[q] = "sinking"
      BY <1>1, <2>1
    <2>3. \A q \in Paths : flight'[q] = "sinking" =>
            pass = "A" /\ q \in reading'.candidates /\ Waits(q)' \in Digests
      BY <1>1, <1>4, <2>2 DEF FlowInv
    <2>4. puts'["capture"] # Idle =>
            sink' # <<>> /\ puts'["capture"].digest = Waits(Head(sink))'
      BY <1>8, <1>9
    <2>. QED  BY <1>3, <1>8, <2>2, <2>3, <2>4 DEF FlowInv
  <1>. QED  BY <1>1, <1>7, <1>8

LEMMA ObserveFailsFlow ==
  ASSUME TypeOK, FlowInv, NEW p \in Paths, ObserveFails(p)
  PROVE  FlowInv'
  <1>1. /\ flight[p] = "observing"
        /\ UNCHANGED <<phase, step, pass, sink, saved, reading, puts>>
        /\ Settle(p, "failed")
    BY DEF ObserveFails, store
  <1>2. /\ flight'[p] = "failed"
        /\ \A q \in Paths \ {p} :
             flight'[q] = flight[q] \/ (flight[q] = "todo" /\ flight'[q] = "observing")
    BY <1>1, SettleMoves DEF TypeOK, Flights
  <1>3. \A q \in Paths : flight'[q] = "sinking" <=> flight[q] = "sinking"
    BY <1>1, <1>2
  <1>4. \A q : Waits(q)' = Waits(q)
    BY <1>1 DEF Waits, Restored, Untracked, Status
  <1>5. Capturing /\ step \in Lists
    BY <1>1 DEF FlowInv, InFlight
  <1>. QED  BY <1>1, <1>3, <1>4, <1>5 DEF FlowInv, Capturing

LEMMA StoreNextFlow ==
  ASSUME TypeOK, FlowInv, StoreNext
  PROVE  FlowInv'
  <1>1. puts'["capture"] # Idle /\ puts'["capture"].digest = Waits(Head(sink))
    BY WaitingIsStored, WriterAssumption, PutTyped DEF StoreNext, TypeOK
  <1>2. \A q : Waits(q)' = Waits(q)
    BY DEF StoreNext, Waits, Restored, Untracked, Status
  <1>3. /\ sink # <<>>
        /\ UNCHANGED <<phase, step, pass, flight, sink, saved, reading>>
    BY DEF StoreNext
  <1>. QED  BY <1>1, <1>2, <1>3 DEF FlowInv, Capturing, InFlight

LEMMA StoreEndsFlow ==
  ASSUME TypeOK, FlowInv, StoreEnds
  PROVE  FlowInv'
  <1>. DEFINE p == Head(sink)
              result == IF puts["capture"].at = "stored" THEN "done" ELSE "failed"
  <1>1. /\ sink # <<>> /\ sink' = Tail(sink)
        /\ Settle(p, result)
        /\ puts' = [puts EXCEPT !["capture"] = Idle]
        /\ UNCHANGED <<phase, step, pass, saved, reading>>
    BY DEF StoreEnds
  <1>2. p \in Paths /\ flight[p] = "sinking"
    BY <1>1, WaitingIsStored
  <1>3. /\ \A i, j \in DOMAIN sink' : sink'[i] = sink'[j] => i = j
        /\ \A q : (\E i \in DOMAIN sink' : sink'[i] = q)
                    <=> q # p /\ \E i \in DOMAIN sink : sink[i] = q
    <2>1. sink \in Seq(Paths) /\ \A i, j \in DOMAIN sink : sink[i] = sink[j] => i = j
      BY DEF TypeOK, FlowInv
    <2>2. /\ \A i, j \in DOMAIN Tail(sink) : Tail(sink)[i] = Tail(sink)[j] => i = j
          /\ \A q : (\E i \in DOMAIN Tail(sink) : Tail(sink)[i] = q)
                      <=> q # Head(sink) /\ \E i \in DOMAIN sink : sink[i] = q
      BY <1>1, <2>1, Taken
    <2>. QED  BY <1>1, <2>2
  <1>4. /\ flight'[p] \in {"done", "failed"}
        /\ \A q \in Paths \ {p} :
             flight'[q] = flight[q] \/ (flight[q] = "todo" /\ flight'[q] = "observing")
    BY <1>1, <1>2, SettleMoves DEF TypeOK, Flights
  <1>5. \A q \in Paths : flight'[q] = "sinking" <=> q # p /\ flight[q] = "sinking"
    BY <1>4
  <1>6. \A q : Waits(q)' = Waits(q)
    BY <1>1 DEF Waits, Restored, Untracked, Status
  <1>7. Capturing /\ step \in Lists
    BY <1>2 DEF FlowInv, InFlight
  <1>8. puts'["capture"] = Idle
    BY <1>1, WriterAssumption DEF TypeOK, StoreTypeOK
  <1>. HIDE DEF p
  <1>. QED  BY <1>1, <1>3, <1>5, <1>6, <1>7, <1>8 DEF FlowInv, Capturing

LEMMA NextFlow ==
  ASSUME TypeOK, StoreInv, FlowInv, [Next]_vars
  PROVE  FlowInv'
  <1>1. ASSUME Capturing => step \notin Lists \/ InFlight = {} PROVE InFlight = {}
    BY <1>1 DEF FlowInv
  <1>2. ASSUME InFlight = {}
        PROVE  \A p \in Paths : flight[p] # "sinking"
    BY <1>2 DEF InFlight
  <1>3. ASSUME InFlight = {}, UNCHANGED <<sink, puts, flight>> PROVE FlowInv'
    BY <1>2, <1>3, QuietKeeps DEF InFlight
  <1>4. CASE Begin
    BY <1>1, <1>3, <1>4 DEF Begin, Capturing, work, store
  <1>5. CASE ReadHead \/ ReadStatus \/ ReadText \/ ReadUntracked
    BY <1>1, <1>3, <1>5 DEF ReadHead, ReadStatus, ReadText, ReadUntracked, Reads, Lists, store
  <1>6. CASE ReadIndex
    <2>1. InFlight = {}
      BY <1>1, <1>6 DEF ReadIndex, Reads, Lists
    <2>2. Capturing' /\ step' \in Lists /\ UNCHANGED <<sink, puts>>
      BY <1>6 DEF ReadIndex, Reads, Lists, Capturing, store
    <2>3. \A p \in Paths : flight'[p] # "sinking"
      BY <1>6, LaunchTyped DEF ReadIndex
    <2>. QED  BY <2>1, <2>2, <2>3, QuietKeeps
  <1>7. CASE GitFails
    BY <1>1, <1>3, <1>7 DEF GitFails, Fail, Lists, work, store
  <1>8. CASE \E p \in Paths : Observe(p) \/ ObserveFails(p)
    BY <1>8, ObserveFlow, ObserveFailsFlow
  <1>9. CASE StoreNext
    BY <1>9, StoreNextFlow
  <1>10. CASE StoreEnds
    BY <1>10, StoreEndsFlow
  <1>11. CASE ListEnds
    <2>1. CASE Fail
      BY <1>3, <1>11, <2>1 DEF ListEnds, ListOver, Fail, work, store
    <2>2. CASE ~Fail
      <3>1. /\ InFlight = {} /\ UNCHANGED <<sink, puts>>
            /\ \A p \in Paths : flight'[p] \in {"none", "todo", "observing"}
            /\ Capturing'
            /\ step' \in Lists \/ \A p \in Paths : flight'[p] = "none"
        BY <1>11, <2>2, ListMoves, LaunchTyped, NoFlightTyped DEF store, Capturing, Lists
      <3>. QED  BY <3>1, QuietKeeps DEF InFlight
    <2>. QED  BY <2>1, <2>2
  <1>12. CASE Derive \/ Compare
    BY <1>1, <1>3, <1>12 DEF Derive, Compare, Fail, Retry, Lists, work, store
  <1>13. CASE \E w \in Writers : Storing(w)
    <2>1. PICK w \in Writers : Storing(w)
      BY <1>13
    <2>2. UNCHANGED <<phase, step, pass, flight, sink, saved, reading>>
      BY <2>1 DEF Storing
    <2>3. puts'["capture"] # Idle =>
            puts["capture"] # Idle /\ puts'["capture"].digest = puts["capture"].digest
      <3>1. CASE PutStep(w)
        BY <3>1, StoreStep, WriterAssumption DEF TypeOK
      <3>2. CASE w # "capture" /\ \E d \in Shared : Put(w, d)
        BY <3>2, SharedAssumption, PutTyped, WriterAssumption DEF TypeOK
      <3>. QED  BY <2>1, <3>1, <3>2 DEF Storing
    <2>. QED  BY <2>2, <2>3, SameFlow
  <1>14. CASE User
    BY <1>14, UserEdits, SameFlow DEF Edit, work, store
  <1>15. CASE UNCHANGED vars
    BY <1>15, SameFlow DEF vars, work, store
  <1>. QED  BY <1>4, <1>5, <1>6, <1>7, <1>8, <1>9, <1>10, <1>11, <1>12, <1>13, <1>14, <1>15,
              WriterAssumption DEF Next, Capture, Others

-----------------------------------------------------------------------------
(***************************************************************************)
(* The readings.                                                           *)
(***************************************************************************)
\* Nothing of a reading but files and candidates decides which are candidates
\* at no cost.
LEMMA SameCheap ==
  ASSUME UNCHANGED saved, reading'.head = reading.head, reading'.status = reading.status,
         reading'.untracked = reading.untracked
  PROVE  CheapCandidates(reading)' = CheapCandidates(reading)
  BY DEF CheapCandidates, StatusPaths, Status, Untracked, Renames, Alike, DeltaPaths

LEMMA ReadStart ==
  ASSUME step' = "head", reading' = Nothing
  PROVE  ReadInv'
  BY DEF ReadInv, Nothing, Early

LEMMA ReadSame ==
  ASSUME TypeOK, ReadInv, UNCHANGED <<phase, step, pass, reading, saved>>,
         \A q \in Paths :
           \/ flight'[q] = flight[q]
           \/ flight[q] = "todo" /\ flight'[q] = "observing"
           \/ flight[q] = "observing" /\ flight'[q] = "failed"
           \/ flight[q] = "sinking" /\ flight'[q] \in {"done", "failed"}
  PROVE  ReadInv'
  <1>1. CheapCandidates(reading)' = CheapCandidates(reading)
    BY SameCheap
  <1>2. Watched' = Watched /\ Watched \subseteq Paths
    BY ExtrasAssumption DEF Watched, TypeOK, Readings
  <1>3. ASSUME NEW q \in Paths
        PROVE  /\ flight'[q] \in {"todo", "observing"} => flight[q] \in {"todo", "observing"}
               /\ flight'[q] \in {"sinking", "done"} => flight[q] \in {"sinking", "done"}
               /\ flight[q] # "none" => flight'[q] # "none"
    OBVIOUS
  <1>. QED  BY <1>1, <1>2, <1>3 DEF ReadInv, Capturing

LEMMA ObserveRead ==
  ASSUME TypeOK, ReadInv, FlowInv, NEW p \in Paths, Observe(p)
  PROVE  ReadInv'
  <1>1. PICK c \in Contents, more \in SUBSET {p} :
           /\ flight[p] = "observing" /\ Capturing
           /\ step = "before" => c = Restored(p) /\ reading' = reading
           /\ step # "before" =>
                /\ c = repo.tree[p]
                /\ reading' = [reading EXCEPT !.seen[p] = c, !.candidates = @ \cup more]
           /\ reading'.candidates = reading.candidates
                \cup (IF step = "before" THEN {} ELSE more)
           /\ reading'.seen[p] = (IF step = "before" THEN reading.seen[p] ELSE c)
           /\ \A q \in Paths \ {p} : reading'.seen[q] = reading.seen[q]
           /\ \/ flight' = [flight EXCEPT ![p] = "sinking"]
              \/ Settle(p, "done")
           /\ UNCHANGED <<saved, phase, pass, step>>
    BY Observed
  <1>2. /\ flight'[p] \in {"sinking", "done"}
        /\ \A q \in Paths \ {p} :
             flight'[q] = flight[q] \/ (flight[q] = "todo" /\ flight'[q] = "observing")
    <2>1. flight \in [Paths -> Flights]
      BY DEF TypeOK, Flights
    <2>2. CASE flight' = [flight EXCEPT ![p] = "sinking"]
      BY <2>1, <2>2
    <2>. QED  BY <1>1, <2>1, <2>2, SettleMoves
  <1>3. step \in Lists
    BY <1>1 DEF FlowInv, InFlight
  <1>4. reading'.head = reading.head /\ reading'.status = reading.status
        /\ reading'.untracked = reading.untracked
    BY <1>1 DEF TypeOK, Readings
  <1>5. CheapCandidates(reading)' = CheapCandidates(reading)
    BY <1>1, <1>4, SameCheap
  <1>6. Watched \subseteq Paths /\ Watched' \subseteq Watched \cup {p} /\ Watched \subseteq Watched'
    BY <1>1, ExtrasAssumption DEF Watched, TypeOK, Readings
  <1>7. c # Unread
    BY UnreadAssumption
  <1>8. CASE step = "before"
    <2>1. Watched' = Watched
      BY <1>1, <1>8 DEF Watched
    <2>. QED  BY <1>1, <1>2, <1>5, <1>6, <1>8, <2>1 DEF ReadInv, Capturing, Early
  <1>9. CASE step \in {"scan", "rest"}
    BY <1>1, <1>2, <1>5, <1>6, <1>7, <1>9 DEF ReadInv, Capturing, Early
  <1>. QED  BY <1>3, <1>8, <1>9 DEF Lists

LEMMA ListRead ==
  ASSUME TypeOK, ReadInv, ListEnds, ~Fail
  PROVE  ReadInv'
  <1>1. /\ Capturing /\ Capturing' /\ UNCHANGED <<pass, reading, saved>>
        /\ CheapCandidates(reading)' = CheapCandidates(reading)
        /\ Watched' = Watched /\ Watched \subseteq Paths
    BY ListMoves, SameCheap, ExtrasAssumption DEF Capturing, Watched, TypeOK, Readings
  <1>2. \A p \in Paths : flight[p] \in {"none", "done"}
    BY ListMoves DEF InFlight, Broken, Todo, TypeOK
  <1>3. CASE step = "scan" /\ step' = "rest"
             /\ flight' = Launch({p \in Watched : reading.seen[p] = Unread}, 1)
    BY <1>1, <1>3, LaunchTyped DEF ReadInv, Early
  <1>4. ASSUME step = "rest" PROVE \A p \in Watched : reading.seen[p] # Unread
    BY <1>1, <1>2, <1>4 DEF ReadInv
  <1>5. CASE step = "rest" /\ pass = "A" /\ step' = "before" /\ flight' = Launch(Watched, 1)
    BY <1>1, <1>4, <1>5, LaunchTyped DEF ReadInv, Early
  <1>6. CASE step = "rest" /\ pass = "B" /\ step' = "compare" /\ flight' = NoFlight
    BY <1>1, <1>4, <1>6 DEF ReadInv, Early
  <1>7. CASE step = "before" /\ step' = "derive" /\ flight' = NoFlight
    BY <1>1, <1>7 DEF ReadInv, Early
  <1>. QED  BY <1>3, <1>5, <1>6, <1>7, ListMoves

LEMMA NextRead ==
  ASSUME TypeOK, Acquired, FlowInv, ReadInv, [Next]_vars
  PROVE  ReadInv'
  <1>1. ASSUME ~Capturing' PROVE ReadInv'
    BY <1>1 DEF ReadInv
  <1>2. CASE Begin
    BY <1>2, ReadStart DEF Begin, Try
  <1>3. CASE ReadHead \/ ReadStatus \/ ReadText \/ ReadUntracked
    <2>1. /\ Capturing /\ step \in Early /\ step' \in Early
          /\ reading'.seen = reading.seen /\ reading'.candidates = reading.candidates
      BY <1>3 DEF ReadHead, ReadStatus, ReadText, ReadUntracked, Reads, Capturing, Early,
                  TypeOK, Readings
    <2>. QED  BY <2>1 DEF ReadInv, Early
  <1>4. CASE ReadIndex
    <2>1. /\ Capturing /\ step = "index" /\ step' = "scan"
          /\ UNCHANGED saved
          /\ \A p \in Paths : flight'[p] \in {"none", "todo", "observing"}
          /\ reading'.seen = reading.seen
          /\ reading'.candidates = CheapCandidates(reading)
          /\ reading'.head = reading.head /\ reading'.status = reading.status
          /\ reading'.untracked = reading.untracked
      BY <1>4, LaunchTyped DEF ReadIndex, Reads, Capturing, TypeOK, Readings
    <2>2. CheapCandidates(reading)' = CheapCandidates(reading)
      BY <2>1, SameCheap
    <2>3. \A p \in Paths : reading'.seen[p] = Unread
      BY <2>1 DEF ReadInv, Early
    <2>. QED  BY <2>1, <2>2, <2>3 DEF ReadInv, Early
  <1>5. CASE Fail
    BY <1>1, <1>5 DEF Fail, Capturing
  <1>6. ASSUME NEW p \in Paths, Observe(p) PROVE ReadInv'
    BY <1>6, ObserveRead
  <1>7. ASSUME NEW p \in Paths, ObserveFails(p) PROVE ReadInv'
    <2>1. /\ UNCHANGED <<phase, step, pass, reading, saved>>
          /\ flight[p] = "observing" /\ Settle(p, "failed")
      BY <1>7 DEF ObserveFails
    <2>2. /\ flight'[p] = "failed"
          /\ \A q \in Paths \ {p} :
               flight'[q] = flight[q] \/ (flight[q] = "todo" /\ flight'[q] = "observing")
      BY <2>1, SettleMoves DEF TypeOK, Flights
    <2>. QED  BY <2>1, <2>2, ReadSame
  <1>8. CASE StoreEnds
    <2>. DEFINE p == Head(sink)
                result == IF puts["capture"].at = "stored" THEN "done" ELSE "failed"
    <2>1. /\ UNCHANGED <<phase, step, pass, reading, saved>>
          /\ sink # <<>> /\ Settle(p, result)
      BY <1>8 DEF StoreEnds
    <2>2. p \in Paths /\ flight[p] = "sinking"
      BY <2>1, WaitingIsStored
    <2>3. /\ flight'[p] \in {"done", "failed"}
          /\ \A q \in Paths \ {p} :
               flight'[q] = flight[q] \/ (flight[q] = "todo" /\ flight'[q] = "observing")
      BY <2>1, <2>2, SettleMoves DEF TypeOK, Flights
    <2>. HIDE DEF p
    <2>. QED  BY <2>1, <2>2, <2>3, ReadSame
  <1>9. CASE ListEnds /\ ~Fail
    BY <1>9, ListRead
  <1>10. CASE Derive /\ ~Fail
    BY <1>10, ReadStart DEF Derive
  <1>11. CASE Compare /\ ~Fail
    BY <1>1, <1>11, ReadStart DEF Compare, Retry, Try, Capturing
  <1>12. CASE StoreNext \/ User \/ (\E w \in Writers : Storing(w)) \/ UNCHANGED vars
    <2>1. UNCHANGED <<phase, step, pass, reading, saved, flight>>
      BY <1>12, UserEdits DEF StoreNext, Edit, Storing, vars, work
    <2>. QED  BY <2>1, ReadSame
  <1>. QED  BY <1>2, <1>3, <1>4, <1>5, <1>6, <1>7, <1>8, <1>9, <1>10, <1>11, <1>12,
              WriterAssumption DEF Next, Capture, Others, GitFails

-----------------------------------------------------------------------------
(***************************************************************************)
(* What Pass A keeps.                                                      *)
(***************************************************************************)
ObjectsGrow == \A d \in Digests : objects[d] # "absent" => objects'[d] = objects[d]

LEMMA SameRestored ==
  ASSUME UNCHANGED saved, NEW p
  PROVE  Restored(p)' = Restored(p)
  BY DEF Restored, Untracked, Status

\* What is kept stays so while the mirrors do.
LEMMA KeptStays ==
  ASSUME ObjectsGrow, NEW p, NEW c, NEW side, Kept(p, c, side),
         mirrors'[side][p] = mirrors[side][p]
  PROVE  /\ c \in Digests => objects'[c] = "valid"
         /\ mirrors'[side][p] = IF c \in Regular THEN c ELSE Absent
  BY DEF Kept, ObjectsGrow

LEMMA KeptSame ==
  ASSUME KeptInv, ObjectsGrow, UNCHANGED <<phase, step, pass, reading, saved, mirrors>>,
         \A q \in Paths :
           \/ flight'[q] = flight[q]
           \/ flight[q] \in {"todo", "observing"} /\ flight'[q] \in {"observing", "failed"}
           \/ flight[q] = "sinking" /\ flight'[q] = "failed",
         TypeOK
  PROVE  KeptInv'
  <1>1. \A q \in Paths : /\ flight'[q] \in {"none", "done"} <=> flight[q] \in {"none", "done"}
                         /\ flight'[q] = "done" <=> flight[q] = "done"
    OBVIOUS
  <1>2. \A q : Restored(q)' = Restored(q)
    BY SameRestored
  <1>3. reading.candidates \subseteq Paths
    BY DEF TypeOK, Readings
  <1>4. ASSUME NEW p, NEW c, NEW side, Kept(p, c, side)
        PROVE  /\ c \in Digests => objects'[c] = "valid"
               /\ mirrors'[side][p] = IF c \in Regular THEN c ELSE Absent
    BY <1>4, KeptStays
  <1>5. ASSUME Capturing, pass = "A", step \in {"scan", "rest"}, NEW p \in Paths
        PROVE  /\ mirrors'.before[p] = Absent
               /\ IF /\ p \in reading'.candidates
                     /\ flight'[p] \in {"none", "done"}
                     /\ reading'.seen[p] # Unread
                  THEN Kept(p, reading.seen[p], "after")'
                  ELSE mirrors'.after[p] = Absent
    BY <1>1, <1>4, <1>5 DEF KeptInv, Kept
  <1>6. ASSUME Capturing, pass = "A", step \in {"before", "derive"}, NEW p \in reading.candidates
        PROVE  Kept(p, reading.seen[p], "after")'
    BY <1>4, <1>6 DEF KeptInv, Kept
  <1>7. ASSUME Capturing, pass = "A", step = "before", NEW p \in reading.candidates
        PROVE  IF flight'[p] = "done" THEN Kept(p, Restored(p), "before")'
                                      ELSE mirrors'.before[p] = Absent
    BY <1>1, <1>2, <1>3, <1>4, <1>7 DEF KeptInv, Kept
  <1>8. ASSUME Capturing, pass = "A", step = "derive", NEW p \in reading.candidates
        PROVE  Kept(p, Restored(p), "before")'
    BY <1>2, <1>4, <1>8 DEF KeptInv, Kept
  <1>. QED  BY <1>5, <1>6, <1>7, <1>8 DEF KeptInv, Capturing

LEMMA ObserveKept ==
  ASSUME TypeOK, FlowInv, ReadInv, KeptInv, ObjectsGrow, NEW p \in Paths, Observe(p)
  PROVE  KeptInv'
  <1>1. PICK c \in Contents, more \in SUBSET {p} :
           /\ flight[p] = "observing" /\ Capturing
           /\ step = "before" => c = Restored(p) /\ reading' = reading
           /\ reading'.candidates = reading.candidates
                \cup (IF step = "before" THEN {} ELSE more)
           /\ reading'.seen[p] = (IF step = "before" THEN reading.seen[p] ELSE c)
           /\ \A q \in Paths \ {p} : reading'.seen[q] = reading.seen[q]
           /\ \/ flight' = [flight EXCEPT ![p] = "sinking"]
              \/ /\ p \notin reading'.candidates \/ pass # "A" \/ c = Absent
                 /\ Settle(p, "done")
           /\ UNCHANGED <<saved, phase, pass, step, mirrors>>
    BY Observed
  <1>2. SUFFICES ASSUME pass = "A" PROVE KeptInv'
    BY <1>1 DEF KeptInv, Capturing
  <1>3. /\ \/ flight'[p] = "sinking"
           \/ flight'[p] = "done" /\ (p \notin reading'.candidates \/ c = Absent)
        /\ \A q \in Paths \ {p} :
             flight'[q] = flight[q] \/ (flight[q] = "todo" /\ flight'[q] = "observing")
    <2>1. flight \in [Paths -> Flights]
      BY DEF TypeOK, Flights
    <2>2. CASE flight' = [flight EXCEPT ![p] = "sinking"]
      <3>1. flight'[p] = "sinking" /\ \A q \in Paths \ {p} : flight'[q] = flight[q]
        BY <2>1, <2>2
      <3>. QED  BY <3>1
    <2>. QED  BY <1>1, <1>2, <2>1, <2>2, SettleMoves
  <1>4. step \in Lists /\ Capturing' /\ reading.candidates \subseteq Paths
    BY <1>1 DEF FlowInv, InFlight, Capturing, TypeOK, Readings
  <1>5. \A q : Restored(q)' = Restored(q)
    BY <1>1, SameRestored
  <1>6. Absent \notin Digests /\ Absent \notin Regular /\ c # Unread
    BY DigestsAssumption, UnreadAssumption DEF Regular
  <1>7. CASE step \in {"scan", "rest"}
    <2>1. \A q \in Paths : mirrors'.before[q] = Absent
      BY <1>1, <1>2, <1>7 DEF KeptInv
    <2>2. mirrors'.after[p] = Absent
      BY <1>1, <1>2, <1>7 DEF KeptInv
    <2>3. ASSUME NEW q \in Paths
          PROVE  IF /\ q \in reading'.candidates
                    /\ flight'[q] \in {"none", "done"}
                    /\ reading'.seen[q] # Unread
                 THEN Kept(q, reading.seen[q], "after")'
                 ELSE mirrors'.after[q] = Absent
      <3>1. CASE q = p
        <4>1. /\ q \in reading'.candidates /\ flight'[q] \in {"none", "done"}
                => reading'.seen[q] = Absent
          BY <1>1, <1>3, <1>7, <3>1
        <4>. QED  BY <1>6, <2>2, <3>1, <4>1 DEF Kept
      <3>2. CASE q # p
        <4>1. /\ q \in reading'.candidates <=> q \in reading.candidates
              /\ reading'.seen[q] = reading.seen[q]
              /\ flight'[q] \in {"none", "done"} <=> flight[q] \in {"none", "done"}
          BY <1>1, <1>3, <3>2
        <4>2. mirrors'.after[q] = mirrors.after[q]
          BY <1>1
        <4>3. Kept(q, reading.seen[q], "after") => Kept(q, reading.seen[q], "after")'
          BY <4>1, <4>2 DEF Kept, ObjectsGrow
        <4>. QED  BY <1>1, <1>2, <1>7, <4>1, <4>2, <4>3 DEF KeptInv
      <3>. QED  BY <3>1, <3>2
    <2>. QED  BY <1>1, <1>7, <2>1, <2>3 DEF KeptInv, Capturing, Early
  <1>8. CASE step = "before"
    <2>1. reading' = reading
      BY <1>1, <1>8
    <2>2. ASSUME NEW q \in reading.candidates
          PROVE  Kept(q, reading.seen[q], "after")'
      BY <1>1, <1>2, <1>8, <2>1 DEF KeptInv, Kept, ObjectsGrow
    <2>3. ASSUME NEW q \in reading.candidates
          PROVE  IF flight'[q] = "done" THEN Kept(q, Restored(q), "before")'
                                        ELSE mirrors'.before[q] = Absent
      <3>1. CASE q = p
        <4>1. mirrors'.before[q] = Absent
          BY <1>1, <1>2, <1>8, <2>3, <3>1 DEF KeptInv
        <4>2. flight'[q] = "done" => Restored(q)' = Absent
          BY <1>1, <1>3, <1>5, <1>8, <2>1, <2>3, <3>1
        <4>. QED  BY <1>6, <4>1, <4>2 DEF Kept
      <3>2. CASE q # p
        <4>1. flight'[q] = "done" <=> flight[q] = "done"
          BY <1>3, <1>4, <2>3, <3>2
        <4>2. mirrors'.before[q] = mirrors.before[q]
          BY <1>1
        <4>3. Kept(q, Restored(q), "before") => Kept(q, Restored(q), "before")'
          BY <1>5, <4>2 DEF Kept, ObjectsGrow
        <4>. QED  BY <1>1, <1>2, <1>8, <2>3, <4>1, <4>2, <4>3 DEF KeptInv
      <3>. QED  BY <3>1, <3>2
    <2>. QED  BY <1>1, <1>8, <2>1, <2>2, <2>3 DEF KeptInv, Capturing, Early
  <1>. QED  BY <1>4, <1>7, <1>8 DEF Lists

LEMMA StoreEndsKept ==
  ASSUME TypeOK, StoreInv, FlowInv, ReadInv, KeptInv, StoreEnds
  PROVE  KeptInv'
  <1>1. /\ sink # <<>>
        /\ UNCHANGED <<phase, step, pass, saved, reading, objects>>
        /\ PutOver("capture")
    BY DEF StoreEnds
  <1>2. PICK p \in Paths : p = Head(sink) /\ flight[p] = "sinking" /\ Waits(p) \in Digests
    BY <1>1, WaitingIsStored
  <1>3. /\ pass = "A" /\ p \in reading.candidates /\ Capturing /\ Capturing' /\ step \in Lists
        /\ puts["capture"].digest = Waits(p)
    BY <1>1, <1>2 DEF FlowInv, InFlight, Capturing, PutOver, Idle
  <1>. DEFINE stored == puts["capture"].at = "stored"
              side == IF step = "before" THEN "before" ELSE "after"
  <1>4. /\ Settle(p, IF stored THEN "done" ELSE "failed")
        /\ mirrors' = IF stored /\ Waits(p) \in Regular
                      THEN [mirrors EXCEPT ![side][p] = Waits(p)] ELSE mirrors
    BY <1>2 DEF StoreEnds
  <1>5. stored => objects[Waits(p)] = "valid"
    BY <1>3, WriterAssumption DEF StoreInv
  <1>6. /\ flight'[p] = IF stored THEN "done" ELSE "failed"
        /\ \A q \in Paths \ {p} :
             flight'[q] = flight[q] \/ (flight[q] = "todo" /\ flight'[q] = "observing")
    BY <1>4, SettleMoves DEF TypeOK, Flights
  <1>. HIDE DEF stored
  <1>7. ASSUME ~stored PROVE KeptInv'
    <2>1. mirrors' = mirrors /\ ObjectsGrow
      BY <1>1, <1>4, <1>7 DEF ObjectsGrow
    <2>. QED  BY <1>1, <1>2, <1>6, <1>7, <2>1, KeptSame
  <1>8. ASSUME stored PROVE KeptInv'
    <2>1. /\ mirrors.before \in [Paths -> Contents] /\ mirrors.after \in [Paths -> Contents]
          /\ mirrors = [before |-> mirrors.before, after |-> mirrors.after]
      BY DEF TypeOK, Trees
    <2>2. \A q : Restored(q)' = Restored(q)
      BY <1>1, SameRestored
    <2>3. CASE step = "before"
      <3>1. /\ mirrors'.after = mirrors.after
            /\ \A q \in Paths \ {p} : mirrors'.before[q] = mirrors.before[q]
            /\ mirrors'.before[p] = IF Waits(p) \in Regular THEN Waits(p) ELSE mirrors.before[p]
        BY <1>4, <1>8, <2>1, <2>3
      <3>2. Waits(p) = Restored(p)
        BY <2>3 DEF Waits
      <3>3. mirrors.before[p] = Absent
        BY <1>2, <1>3, <2>3 DEF KeptInv
      <3>4. ASSUME NEW q \in reading.candidates
            PROVE  Kept(q, reading.seen[q], "after")'
        BY <1>1, <1>3, <2>3, <3>1 DEF KeptInv, Kept
      <3>5. Kept(p, Restored(p), "before")'
        BY <1>1, <1>5, <1>8, <2>2, <3>1, <3>2, <3>3 DEF Kept
      <3>6. ASSUME NEW q \in reading.candidates, q # p
            PROVE  IF flight'[q] = "done" THEN Kept(q, Restored(q), "before")'
                                          ELSE mirrors'.before[q] = Absent
        <4>1. q \in Paths
          BY DEF TypeOK, Readings
        <4>2. flight'[q] = "done" <=> flight[q] = "done"
          BY <1>6, <3>6, <4>1
        <4>3. Kept(q, Restored(q), "before") => Kept(q, Restored(q), "before")'
          BY <1>1, <2>2, <3>1, <3>6, <4>1 DEF Kept
        <4>. QED  BY <1>3, <2>3, <3>1, <3>6, <4>1, <4>2, <4>3 DEF KeptInv
      <3>. QED  BY <1>1, <1>3, <1>6, <1>8, <2>3, <3>4, <3>5, <3>6 DEF KeptInv, Early, Capturing
    <2>4. CASE step \in {"scan", "rest"}
      <3>1. /\ mirrors'.before = mirrors.before
            /\ \A q \in Paths \ {p} : mirrors'.after[q] = mirrors.after[q]
            /\ mirrors'.after[p] = IF Waits(p) \in Regular THEN Waits(p) ELSE mirrors.after[p]
        BY <1>4, <1>8, <2>1, <2>4
      <3>2. Waits(p) = reading.seen[p]
        BY <2>4 DEF Waits
      <3>3. mirrors.after[p] = Absent
        BY <1>2, <1>3, <2>4 DEF KeptInv
      <3>4. Kept(p, reading.seen[p], "after")'
        BY <1>1, <1>5, <1>8, <3>1, <3>2, <3>3 DEF Kept
      <3>5. ASSUME NEW q \in Paths, q # p
            PROVE  IF /\ q \in reading'.candidates
                      /\ flight'[q] \in {"none", "done"}
                      /\ reading'.seen[q] # Unread
                   THEN Kept(q, reading.seen[q], "after")'
                   ELSE mirrors'.after[q] = Absent
        <4>1. flight'[q] \in {"none", "done"} <=> flight[q] \in {"none", "done"}
          BY <1>6, <3>5
        <4>2. Kept(q, reading.seen[q], "after") => Kept(q, reading.seen[q], "after")'
          BY <1>1, <3>1, <3>5 DEF Kept
        <4>. QED  BY <1>1, <1>3, <2>4, <3>1, <3>5, <4>1, <4>2 DEF KeptInv
      <3>6. reading.seen[p] # Unread
        BY <1>2, <1>3, <2>4 DEF ReadInv
      <3>7. \A q \in Paths : mirrors'.before[q] = Absent
        BY <1>3, <2>4, <3>1 DEF KeptInv
      <3>8. ASSUME NEW q \in Paths
            PROVE  IF /\ q \in reading'.candidates
                      /\ flight'[q] \in {"none", "done"}
                      /\ reading'.seen[q] # Unread
                   THEN Kept(q, reading.seen[q], "after")'
                   ELSE mirrors'.after[q] = Absent
        <4>1. CASE q = p
          BY <1>1, <1>3, <1>6, <1>8, <3>4, <3>6, <4>1
        <4>. QED  BY <3>5, <4>1
      <3>. QED  BY <1>1, <1>3, <2>4, <3>7, <3>8 DEF KeptInv, Early, Capturing
    <2>. QED  BY <1>3, <2>3, <2>4 DEF Lists
  <1>. QED  BY <1>7, <1>8

LEMMA ListKept ==
  ASSUME TypeOK, ReadInv, KeptInv, ListEnds, ~Fail
  PROVE  KeptInv'
  <1>1. /\ Capturing /\ Capturing' /\ UNCHANGED <<pass, reading, saved, mirrors, objects>>
        /\ Watched \subseteq Paths /\ reading.candidates \subseteq Watched
    BY ListMoves, ExtrasAssumption DEF Capturing, Watched, TypeOK, Readings, store
  <1>2. \A p \in Paths : flight[p] \in {"none", "done"}
    BY ListMoves DEF InFlight, Broken, Todo, TypeOK
  <1>3. /\ \A p, c, side : Kept(p, c, side)' <=> Kept(p, c, side)
        /\ \A p : Restored(p)' = Restored(p)
    BY <1>1, SameRestored DEF Kept
  <1>4. SUFFICES ASSUME pass = "A" PROVE KeptInv'
    BY <1>1 DEF KeptInv, Capturing
  <1>5. CASE step = "scan" /\ step' = "rest"
             /\ flight' = Launch({p \in Watched : reading.seen[p] = Unread}, 1)
    <2>1. ASSUME NEW p \in Paths
          PROVE  /\ mirrors'.before[p] = Absent
                 /\ IF /\ p \in reading'.candidates
                       /\ flight'[p] \in {"none", "done"}
                       /\ reading'.seen[p] # Unread
                    THEN Kept(p, reading.seen[p], "after")'
                    ELSE mirrors'.after[p] = Absent
      <3>1. flight'[p] \in {"none", "done"} <=> ~(p \in Watched /\ reading.seen[p] = Unread)
        BY <1>5, LaunchTyped
      <3>2. Kept(p, reading.seen[p], "after")' <=> Kept(p, reading.seen[p], "after")
        BY <1>1 DEF Kept
      <3>. QED  BY <1>1, <1>2, <1>4, <1>5, <3>1, <3>2 DEF KeptInv
    <2>. QED  BY <1>1, <1>5, <2>1 DEF KeptInv, Early, Capturing
  <1>6. CASE step = "rest" /\ step' = "before" /\ flight' = Launch(Watched, 1)
    <2>1. ASSUME NEW p \in reading.candidates
          PROVE  Kept(p, reading.seen[p], "after")' /\ mirrors'.before[p] = Absent
      <3>1. p \in Paths /\ reading.seen[p] # Unread
        BY <1>1, <1>2, <1>6 DEF ReadInv
      <3>2. Kept(p, reading.seen[p], "after")' <=> Kept(p, reading.seen[p], "after")
        BY <1>1 DEF Kept
      <3>. QED  BY <1>1, <1>2, <1>4, <1>6, <3>1, <3>2 DEF KeptInv
    <2>2. \A p \in Paths : flight'[p] # "done"
      BY <1>6, LaunchTyped
    <2>. QED  BY <1>1, <1>6, <2>1, <2>2 DEF KeptInv, Early, Capturing
  <1>7. CASE step = "before" /\ step' = "derive"
    <2>1. ASSUME NEW p \in reading.candidates
          PROVE  Kept(p, reading.seen[p], "after")' /\ Kept(p, Restored(p), "before")'
      <3>1. flight[p] = "done"
        BY <1>1, <1>2, <1>7 DEF ReadInv
      <3>2. /\ Kept(p, reading.seen[p], "after")' <=> Kept(p, reading.seen[p], "after")
            /\ Kept(p, Restored(p), "before")' <=> Kept(p, Restored(p), "before")
        BY <1>1, <1>3 DEF Kept
      <3>. QED  BY <1>1, <1>4, <1>7, <3>1, <3>2 DEF KeptInv
    <2>. QED  BY <1>1, <1>7, <2>1 DEF KeptInv, Early, Capturing
  <1>. QED  BY <1>4, <1>5, <1>6, <1>7, ListMoves

LEMMA NextKept ==
  ASSUME TypeOK, StoreInv, FlowInv, ReadInv, KeptInv, [Next]_vars
  PROVE  KeptInv'
  <1>1. ObjectsGrow
    BY StoreKeeps DEF ObjectsGrow
  <1>2. CASE Begin
    BY <1>2 DEF Begin, Try, KeptInv, Capturing, Early
  <1>3. CASE ReadHead \/ ReadStatus \/ ReadText \/ ReadUntracked
    BY <1>3 DEF ReadHead, ReadStatus, ReadText, ReadUntracked, Reads, KeptInv, Capturing, Early
  <1>4. CASE ReadIndex
    <2>1. /\ Capturing /\ step = "index" /\ step' = "scan"
          /\ UNCHANGED <<phase, pass, mirrors>>
          /\ reading'.seen = reading.seen
      BY <1>4 DEF ReadIndex, Reads, Capturing, TypeOK, Readings
    <2>2. \A p \in Paths : reading'.seen[p] = Unread
      BY <2>1 DEF ReadInv, Early
    <2>3. pass = "A" => mirrors' = NoMirrors
      BY <2>1 DEF KeptInv, Early
    <2>. QED  BY <2>1, <2>2, <2>3 DEF KeptInv, Early, NoMirrors, Capturing
  <1>5. CASE Fail
    BY <1>5 DEF Fail, KeptInv, Capturing
  <1>6. ASSUME NEW p \in Paths, Observe(p) PROVE KeptInv'
    BY <1>1, <1>6, ObserveKept
  <1>7. ASSUME NEW p \in Paths, ObserveFails(p) PROVE KeptInv'
    <2>1. /\ UNCHANGED <<phase, step, pass, reading, saved, mirrors>>
          /\ flight[p] = "observing" /\ Settle(p, "failed")
      BY <1>7 DEF ObserveFails
    <2>2. /\ flight'[p] = "failed"
          /\ \A q \in Paths \ {p} :
               flight'[q] = flight[q] \/ (flight[q] = "todo" /\ flight'[q] = "observing")
      BY <2>1, SettleMoves DEF TypeOK, Flights
    <2>. QED  BY <1>1, <2>1, <2>2, KeptSame
  <1>8. CASE StoreEnds
    BY <1>8, StoreEndsKept
  <1>9. CASE ListEnds /\ ~Fail
    BY <1>9, ListKept
  <1>10. CASE Derive /\ ~Fail
    BY <1>10 DEF Derive, KeptInv, Capturing
  <1>11. CASE Compare /\ ~Fail
    BY <1>11 DEF Compare, Retry, Try, KeptInv, Capturing, Early
  <1>12. CASE StoreNext \/ User \/ (\E w \in Writers : Storing(w)) \/ UNCHANGED vars
    <2>1. CASE UNCHANGED <<phase, step, pass, reading, saved, mirrors, flight>>
      BY <1>1, <2>1, KeptSame
    <2>. QED  BY <1>12, <2>1, UserEdits DEF StoreNext, Edit, Storing, vars, work
  <1>. QED  BY <1>2, <1>3, <1>4, <1>5, <1>6, <1>7, <1>8, <1>9, <1>10, <1>11, <1>12,
              WriterAssumption DEF Next, Capture, Others, GitFails

-----------------------------------------------------------------------------
(***************************************************************************)
(* The entries.                                                            *)
(***************************************************************************)
LEMMA SameEntries ==
  ASSUME UNCHANGED saved
  PROVE  /\ \A p : Before(p)' = Before(p)
         /\ \A r : Entries(r)' = Entries(r)
  <1>1. \A p : Restored(p)' = Restored(p)
    BY SameRestored
  <1>2. \A p : Before(p)' = Before(p)
    BY <1>1 DEF Before, State
  <1>3. \A r : Proposals(r)' = Proposals(r)
    BY DEF Proposals, Renames, Alike
  <1>4. \A r : Accepted(r)' = Accepted(r)
    BY <1>2, <1>3 DEF Accepted, Present, After, State
  <1>5. \A from, to, op, r : Entry(from, to, op, r)' = Entry(from, to, op, r)
    BY <1>2 DEF Entry, After, State
  <1>6. \A b, a : Operation(b, a)' = Operation(b, a)
    BY DEF Operation, Present, TypeChanged, Kind
  <1>. QED  BY <1>2, <1>4, <1>5, <1>6 DEF Entries, After, State

LEMMA EntryIs ==
  ASSUME NEW from, NEW to, NEW op, NEW r
  PROVE  /\ Entry(from, to, op, r).from = from /\ Entry(from, to, op, r).to = to
         /\ Entry(from, to, op, r).before = Before(from)
         /\ Entry(from, to, op, r).after = After(r, to)
  BY DEF Entry

\* An entry is of an accepted rename or of one other candidate that changed.
LEMMA TwoKinds ==
  ASSUME NEW r, NEW e \in Entries(r)
  PROVE  \/ \E q \in Accepted(r) : e = Entry(q[1], q[2], "renamed", r)
         \/ \E p \in r.candidates : /\ \A q \in Accepted(r) : p # q[1] /\ p # q[2]
                                    /\ e = Entry(p, p, Operation(Before(p), After(r, p)), r)
  BY DEF Entries

\* A rename goes from a path that was there to one that was not.
LEMMA RenameMoves ==
  ASSUME NEW r, NEW q \in Accepted(r)
  PROVE  /\ q[1] \in r.candidates /\ q[2] \in r.candidates /\ q[1] # q[2]
         /\ \A s \in Accepted(r) : q[1] # s[2]
         /\ After(r, q[1]) = State(Absent, Absent)
  <1>1. /\ q[1] \in r.candidates /\ q[2] \in r.candidates
        /\ Present(Before(q[1])) /\ ~Present(After(r, q[1]))
        /\ \A s \in Accepted(r) : ~Present(Before(s[2]))
    BY DEF Accepted
  <1>2. After(r, q[1]) = State(Absent, Absent)
    BY <1>1 DEF Present, After, State
  <1>. QED  BY <1>1, <1>2

LEMMA EntriesAccount ==
  ASSUME NEW r
  PROVE  Accounted(r)
  <1>. SUFFICES ASSUME NEW p \in r.candidates
                PROVE  Applied(Entries(r), p) = After(r, p)
    BY DEF Accounted
  <1>. DEFINE E == Entries(r)
  <1>1. \A e \in E : e.to = p => e.after = After(r, p)
    BY TwoKinds, EntryIs
  <1>2. ASSUME NEW e \in E, e.from = p, e.to # p
        PROVE  After(r, p) = State(Absent, Absent)
    <2>1. PICK q \in Accepted(r) : e = Entry(q[1], q[2], "renamed", r)
      BY <1>2, TwoKinds, EntryIs
    <2>. QED  BY <1>2, <2>1, EntryIs, RenameMoves
  <1>4. CASE \E e \in E : e.to = p \/ (e.from = p /\ e.to # p)
    <2>. DEFINE c1 == \E e \in E : e.to = p
                c2 == \E e \in E : e.from = p /\ e.to # p
                v == (CHOOSE e \in E : e.to = p).after
    <2>1. c1 => v = After(r, p)
      BY <1>1
    <2>2. c2 => State(Absent, Absent) = After(r, p)
      BY <1>2
    <2>3. c1 \/ c2
      BY <1>4
    <2>4. Applied(E, p) = CASE c1 -> v [] c2 -> State(Absent, Absent) [] OTHER -> Before(p)
      BY DEF Applied
    <2>. HIDE DEF c1, c2, v
    <2>. QED  BY <2>1, <2>2, <2>3, <2>4
  <1>3. CASE (~\E e \in E : e.to = p) /\ ~\E e \in E : e.from = p /\ e.to # p
    <2>1. ASSUME NEW q \in Accepted(r) PROVE p # q[1] /\ p # q[2]
      <3>1. Entry(q[1], q[2], "renamed", r) \in E
        BY DEF Entries
      <3>. QED  BY <1>3, <3>1, EntryIs, RenameMoves
    <2>2. Before(p) = After(r, p)
      <3>1. SUFFICES ASSUME Before(p) # After(r, p) PROVE FALSE
        OBVIOUS
      <3>2. p \notin UNION {{q[1], q[2]} : q \in Accepted(r)}
        BY <2>1
      <3>3. Entry(p, p, Operation(Before(p), After(r, p)), r) \in E
        BY <3>1, <3>2 DEF Entries
      <3>. QED  BY <1>3, <3>3, EntryIs
    <2>. QED  BY <1>3, <2>2 DEF Applied
  <1>. QED  BY <1>3, <1>4

LEMMA EntriesDisjoint ==
  ASSUME NEW r, ~Conflict(r)
  PROVE  Disjoint(r)
  <1>. SUFFICES ASSUME NEW e \in Entries(r), NEW f \in Entries(r), e # f
                PROVE  {e.from, e.to} \cap {f.from, f.to} = {}
    BY DEF Disjoint
  <1>1. ASSUME NEW q \in Accepted(r), NEW s \in Accepted(r),
               e = Entry(q[1], q[2], "renamed", r), f = Entry(s[1], s[2], "renamed", r)
        PROVE  {e.from, e.to} \cap {f.from, f.to} = {}
    <2>1. q[1] # s[1] /\ q[2] # s[2]
      BY <1>1 DEF Conflict
    <2>2. q[1] # s[2] /\ s[1] # q[2]
      BY RenameMoves
    <2>. QED  BY <1>1, <2>1, <2>2, EntryIs
  <1>. QED  BY <1>1, TwoKinds, EntryIs

\* What the mirrors hold of a renamed and of any other candidate.
LEMMA NormalizedIs ==
  ASSUME NEW m \in Trees, NEW r \in Readings, ~Conflict(r)
  PROVE  /\ \A p \in Paths : (\A q \in Accepted(r) : p # q[1] /\ p # q[2])
                               => Normalized(m, r)[p] = m[p]
         /\ \A q \in Accepted(r) : {Restored(q[1]), r.seen[q[2]]} \subseteq Regular
              => Normalized(m, r)[q[2]] = m[q[1]]
  <1>. DEFINE moved == {q \in Accepted(r) : {Restored(q[1]), r.seen[q[2]]} \subseteq Regular}
  <1>1. \A p \in Paths : Normalized(m, r)[p] =
          CASE \E q \in moved : q[2] = p -> m[(CHOOSE q \in moved : q[2] = p)[1]]
            [] \E q \in moved : q[1] = p -> Absent
            [] OTHER -> m[p]
    BY DEF Normalized
  <1>2. ASSUME NEW p \in Paths, \A q \in Accepted(r) : p # q[1] /\ p # q[2]
        PROVE  Normalized(m, r)[p] = m[p]
    <2>1. (~\E q \in moved : q[2] = p) /\ (~\E q \in moved : q[1] = p)
      BY <1>2
    <2>. HIDE DEF moved
    <2>. QED  BY <1>1, <2>1
  <1>3. ASSUME NEW q \in Accepted(r), {Restored(q[1]), r.seen[q[2]]} \subseteq Regular
        PROVE  Normalized(m, r)[q[2]] = m[q[1]]
    <2>1. q \in moved /\ q[2] \in Paths
      BY <1>3, CandidatesAccepted DEF Readings
    <2>2. ASSUME NEW s \in moved, s[2] = q[2] PROVE s = q
      BY <2>1, <2>2 DEF Conflict
    <2>3. (CHOOSE s \in moved : s[2] = q[2]) = q
      BY <2>1, <2>2
    <2>4. ~\E s \in moved : s[1] = q[2]
      BY RenameMoves
    <2>. HIDE DEF moved
    <2>. QED  BY <1>1, <2>1, <2>3, <2>4
  <1>. QED  BY <1>2, <1>3

LEMMA ContentKinds ==
  ASSUME NEW c \in Contents
  PROVE  c \in Regular \/ c \in Links \/ c = Absent
  BY DEF Contents, Regular

LEMMA DeriveFirst ==
  ASSUME TypeOK, ReadInv, KeptInv, Derive, ~Fail
  PROVE  FirstInv'
  <1>. PICK r \in Readings : r = reading
    BY DEF TypeOK
  <1>. PICK m \in Trees : m = mirrors.before
    BY DEF TypeOK
  <1>1. /\ Capturing /\ step = "derive" /\ pass = "A" /\ ~Conflict(r)
        /\ first' = r /\ mirrors'.before = Normalized(m, r) /\ mirrors'.after = mirrors.after
        /\ UNCHANGED <<saved, objects>>
    <2>1. Capturing /\ step = "derive" /\ ~Conflict(r)
      BY DEF Derive, Capturing
    <2>2. pass = "A"
      BY <2>1 DEF ReadInv
    <2>3. first' = r /\ mirrors' = [mirrors EXCEPT !.before = Normalized(mirrors.before, reading)]
          /\ UNCHANGED <<saved, objects>>
      BY DEF Derive, work, store
    <2>4. mirrors'.before = Normalized(m, r) /\ mirrors'.after = mirrors.after
      BY <2>3 DEF TypeOK
    <2>. QED  BY <2>1, <2>2, <2>3, <2>4
  <1>2. ASSUME NEW p \in r.candidates
        PROVE  /\ Kept(p, r.seen[p], "after") /\ Kept(p, Restored(p), "before")
               /\ p \in Paths /\ r.seen[p] \in Contents /\ Restored(p) \in Contents
    <2>1. p \in Paths /\ r.seen[p] # Unread
      BY <1>1, <1>2, ExtrasAssumption DEF ReadInv, Watched, Readings
    <2>. QED  BY <1>1, <1>2, <2>1, RestoredTyped DEF KeptInv, Readings, TypeOK
  <1>3. \A p \in r.candidates : /\ m[p] = IF Restored(p) \in Regular THEN Restored(p) ELSE Absent
                                /\ mirrors'.after[p] = IF r.seen[p] \in Regular THEN r.seen[p]
                                                                               ELSE Absent
    BY <1>1, <1>2 DEF Kept
  <1>4. \A p : Before(p).worktree = Restored(p) /\ After(r, p).worktree = r.seen[p]
    BY DEF Before, After, State
  <1>5. ASSUME NEW e \in Entries(r)
        PROVE  /\ e.from \in r.candidates /\ e.to \in r.candidates
               /\ e.before.worktree = Restored(e.from) /\ e.after.worktree = r.seen[e.to]
    BY <1>4, TwoKinds, EntryIs, RenameMoves
  <1>6. Evidence(r)'
    <2>1. ASSUME NEW e \in Entries(r),
                 NEW c \in {e.before.worktree, e.after.worktree} \ {Absent}
          PROVE  c \in Digests /\ objects'[c] = "valid"
      BY <1>1, <1>2, <1>5, <2>1 DEF Kept, Contents
    <2>. QED  BY <1>1, <2>1, SameEntries DEF Evidence
  <1>7. Accounted(r)'
    <2>1. \A E, p : Applied(E, p)' = Applied(E, p)
      BY <1>1, SameEntries DEF Applied, State
    <2>2. Accounted(r) /\ Entries(r)' = Entries(r)
      BY <1>1, EntriesAccount, SameEntries
    <2>. QED  BY <2>1, <2>2 DEF Accounted, After, State
  <1>8. Disjoint(r)'
    BY <1>1, SameEntries, EntriesDisjoint DEF Disjoint
  <1>9. ASSUME NEW e \in Entries(r)
        PROVE  Hunks(e)'
    <2>1. CASE \E p \in r.candidates : /\ \A q \in Accepted(r) : p # q[1] /\ p # q[2]
                                       /\ e = Entry(p, p, Operation(Before(p), After(r, p)), r)
      <3>1. PICK p \in r.candidates : /\ \A q \in Accepted(r) : p # q[1] /\ p # q[2]
                                      /\ e = Entry(p, p, Operation(Before(p), After(r, p)), r)
        BY <2>1
      <3>2. e.to = p /\ e.before.worktree = Restored(p) /\ e.after.worktree = r.seen[p]
        BY <1>5, <3>1, EntryIs
      <3>3. mirrors'.before[p] = m[p]
        BY <1>1, <1>2, <3>1, NormalizedIs
      <3>4. /\ Restored(p) \in Regular \/ Restored(p) \in Links \/ Restored(p) = Absent
            /\ r.seen[p] \in Regular \/ r.seen[p] \in Links \/ r.seen[p] = Absent
        BY <1>2, <3>1, ContentKinds
      <3>. QED  BY <1>3, <3>1, <3>2, <3>3, <3>4 DEF Hunks
    <2>2. CASE \E q \in Accepted(r) : e = Entry(q[1], q[2], "renamed", r)
      <3>1. PICK q \in Accepted(r) : e = Entry(q[1], q[2], "renamed", r)
        BY <2>2
      <3>2. /\ e.from = q[1] /\ e.to = q[2] /\ q[1] # q[2]
            /\ q[1] \in r.candidates /\ q[2] \in r.candidates
            /\ e.before.worktree = Restored(q[1]) /\ e.after.worktree = r.seen[q[2]]
        BY <1>5, <3>1, EntryIs, RenameMoves
      <3>3. /\ Restored(q[1]) \in Regular \/ Restored(q[1]) \in Links \/ Restored(q[1]) = Absent
            /\ r.seen[q[2]] \in Regular \/ r.seen[q[2]] \in Links \/ r.seen[q[2]] = Absent
        BY <1>2, <3>2, ContentKinds
      <3>4. CASE {Restored(q[1]), r.seen[q[2]]} \subseteq Regular
        <4>1. mirrors'.before[q[2]] = m[q[1]]
          BY <1>1, <3>4, NormalizedIs
        <4>. QED  BY <1>3, <3>2, <3>4, <4>1 DEF Hunks
      <3>. QED  BY <3>2, <3>3, <3>4 DEF Hunks
    <2>. QED  BY <2>1, <2>2, TwoKinds
  <1>10. \A e \in Entries(r)' : Hunks(e)'
    BY <1>1, <1>9, SameEntries
  <1>. QED  BY <1>1, <1>6, <1>7, <1>8, <1>10 DEF FirstInv

LEMMA NextFirst ==
  ASSUME TypeOK, StoreInv, FlowInv, ReadInv, KeptInv, FirstInv, [Next]_vars
  PROVE  FirstInv'
  <1>1. ASSUME UNCHANGED <<first, saved, mirrors>>, Publishable' => Publishable
        PROVE  FirstInv'
    <2>. SUFFICES ASSUME Publishable, NEW r, r = first
                  PROVE  /\ Evidence(r)' /\ Accounted(r)' /\ Disjoint(r)'
                         /\ (\A e \in Entries(r) : Hunks(e))'
      BY <1>1 DEF FirstInv
    <2>1. /\ Evidence(r) /\ Accounted(r) /\ Disjoint(r)
          /\ \A e \in Entries(r) : Hunks(e)
      BY DEF FirstInv
    <2>2. Entries(r)' = Entries(r) /\ \A E, p : Applied(E, p)' = Applied(E, p)
      BY <1>1, SameEntries DEF Applied, State
    <2>3. \A c : objects[c] = "valid" /\ c \in Digests => objects'[c] = "valid"
      BY StoreKeeps
    <2>4. ASSUME NEW e \in Entries(r),
                 NEW c \in {e.before.worktree, e.after.worktree} \ {Absent}
          PROVE  c \in Digests /\ objects'[c] = "valid"
      BY <2>1, <2>3 DEF Evidence
    <2>5. Evidence(r)'
      BY <2>2, <2>4 DEF Evidence
    <2>6. Accounted(r)' /\ Disjoint(r)'
      BY <2>1, <2>2 DEF Accounted, Disjoint, After, State
    <2>7. (\A e \in Entries(r) : Hunks(e))'
      BY <1>1, <2>1, <2>2 DEF Hunks
    <2>. QED  BY <2>5, <2>6, <2>7
  <1>2. CASE Begin \/ Fail
    BY <1>2 DEF Begin, Fail, Try, FirstInv, Publishable
  <1>3. CASE ReadHead \/ ReadStatus \/ ReadText \/ ReadUntracked \/ ReadIndex
    BY <1>1, <1>3 DEF ReadHead, ReadStatus, ReadText, ReadUntracked, ReadIndex, Reads, Publishable
  <1>4. CASE \E p \in Paths : Observe(p) \/ ObserveFails(p)
    BY <1>1, <1>4 DEF Observe, ObserveFails, Publishable
  <1>5. CASE StoreNext
    BY <1>1, <1>5 DEF StoreNext, Publishable
  <1>6. CASE StoreEnds
    <2>1. pass = "A" /\ pass' = "A"
      BY <1>6, WaitingIsStored DEF StoreEnds, FlowInv
    <2>. QED  BY <2>1 DEF FirstInv, Publishable
  <1>7. CASE ListEnds /\ ~Fail
    BY <1>1, <1>7, ListMoves DEF Publishable
  <1>8. CASE Derive /\ ~Fail
    BY <1>8, DeriveFirst
  <1>9. CASE Compare /\ ~Fail
    <2>1. CASE pass' = "A"
      BY <2>1 DEF FirstInv, Publishable
    <2>2. CASE UNCHANGED <<first, saved, mirrors, pass>> /\ phase = "capturing"
      BY <1>1, <2>2 DEF Publishable
    <2>. QED  BY <1>9, <2>1, <2>2 DEF Compare, Retry, Try
  <1>10. CASE \E w \in Writers : Storing(w)
    BY <1>1, <1>10 DEF Storing, Publishable
  <1>11. CASE User
    BY <1>1, <1>11, UserEdits DEF Edit, Publishable
  <1>12. CASE UNCHANGED vars
    BY <1>1, <1>12 DEF vars, Publishable
  <1>. QED  BY <1>2, <1>3, <1>4, <1>5, <1>6, <1>7, <1>8, <1>9, <1>10, <1>11, <1>12,
              WriterAssumption DEF Next, Capture, Others, GitFails

-----------------------------------------------------------------------------
(***************************************************************************)
(* What was found, and the moment between the passes.                      *)
(***************************************************************************)
LEMMA FoundIs ==
  ASSUME NEW r, NEW p \in Paths, NEW v
  PROVE  /\ <<"index", p, v>> \in Found(r) <=> v = r.index[p]
         /\ <<"tree", p, v>> \in Found(r) <=> v = r.tree[p]
  BY DEF Found

\* What a step of the user does to what was found.
LEMMA EditMoves ==
  ASSUME TypeOK, Capturing, NEW r, Edit(r)
  PROVE  /\ \A x : Lasting(x) => Lasting(x)'
         /\ \A x : Gone(x) => Gone(x)' \/ "content" \in returned'
         /\ \A s : LastingStatus(s) => LastingStatus(s)'
         /\ \A s : GoneStatus(s) => GoneStatus(s)' \/ "status" \in returned'
         /\ returned \subseteq returned'
  <1>1. /\ edits < MaxEdits /\ edits' = edits + 1 /\ repo' = r
        /\ left' = IF edits' = MaxEdits THEN NothingLeft
                   ELSE [contents |-> left.contents \cup (Found(repo) \ Found(r)),
                         statuses |-> left.statuses \cup ({Status(repo)} \ {Status(r)})]
        /\ returned' = returned
             \cup {x \in {"content"} : Found(r) \cap left.contents # {}}
             \cup {x \in {"status"} : Status(r) \in left.statuses}
    BY DEF Edit, Capturing
  <1>2. edits # MaxEdits
    BY <1>1, BoundsAssumption DEF TypeOK
  <1>3. Found(repo)' = Found(r) /\ Status(repo)' = Status(r)
    BY <1>1 DEF Found, Status
  <1>4. edits' # MaxEdits =>
          /\ left'.contents = left.contents \cup (Found(repo) \ Found(r))
          /\ left'.statuses = left.statuses \cup ({Status(repo)} \ {Status(r)})
    BY <1>1
  <1>5. /\ \A x : Lasting(x)' <=> x \in Found(r) \/ Gone(x)'
        /\ \A x : Gone(x)' <=> x \notin Found(r) /\ (x \in left'.contents \/ edits' = MaxEdits)
        /\ \A s : LastingStatus(s)' <=> Status(r) = s \/ GoneStatus(s)'
        /\ \A s : GoneStatus(s)' <=> Status(r) # s /\ (s \in left'.statuses \/ edits' = MaxEdits)
    BY <1>3 DEF Lasting, Gone, LastingStatus, GoneStatus
  <1>6. \A x : Lasting(x) => Lasting(x)'
    BY <1>2, <1>4, <1>5 DEF Lasting, Gone
  <1>7. \A x : Gone(x) => Gone(x)' \/ "content" \in returned'
    BY <1>1, <1>2, <1>4, <1>5 DEF Gone
  <1>8. \A s : LastingStatus(s) => LastingStatus(s)'
    BY <1>2, <1>4, <1>5 DEF LastingStatus, GoneStatus
  <1>9. \A s : GoneStatus(s) => GoneStatus(s)' \/ "status" \in returned'
    BY <1>1, <1>2, <1>4, <1>5 DEF GoneStatus
  <1>. QED  BY <1>1, <1>6, <1>7, <1>8, <1>9

LEMMA WorldStays ==
  ASSUME UNCHANGED world
  PROVE  /\ \A x : Lasting(x)' <=> Lasting(x)
         /\ \A x : Gone(x)' <=> Gone(x)
         /\ \A s : LastingStatus(s)' <=> LastingStatus(s)
         /\ \A s : GoneStatus(s)' <=> GoneStatus(s)
         /\ returned' = returned /\ repo' = repo
  <1>1. Found(repo)' = Found(repo) /\ Status(repo)' = Status(repo)
        /\ UNCHANGED <<repo, edits, left, returned>>
    BY DEF world, Found, Status
  <1>. QED  BY <1>1 DEF Lasting, Gone, LastingStatus, GoneStatus

\* Steps that read nothing.
LEMMA LastingSame ==
  ASSUME LastingInv, WitnessInv, AgainInv,
         UNCHANGED <<world, saved, phase, pass, first, witness>>,
         reading' = reading,
         step' = step \/ (step \in Late /\ step' \in Late)
  PROVE  (LastingInv /\ WitnessInv /\ AgainInv)'
  <1>1. /\ \A s \in {"head", "status"} : step' = s <=> step = s
        /\ step' \in Late \cup {"index"} <=> step \in Late \cup {"index"}
        /\ step' \in Late <=> step \in Late
    BY DEF Late
  <1>2. LastingInv'
    BY <1>1, WorldStays DEF LastingInv, Capturing
  <1>3. WitnessInv'
    <2>1. CheapCandidates(first)' = CheapCandidates(first)
      BY DEF CheapCandidates, StatusPaths, Status, Untracked, Renames, Alike, DeltaPaths
    <2>2. \A x : AtWitness(x)' <=> AtWitness(x)
      BY WorldStays DEF AtWitness, Found
    <2>3. Status(witness)' = Status(witness)
      BY DEF Status
    <2>. QED  BY <2>1, <2>2, <2>3, WorldStays DEF WitnessInv, Capturing
  <1>4. AgainInv'
    <2>1. Status(witness)' = Status(witness)
      BY DEF Status
    <2>. QED  BY <1>1, <2>1, WorldStays DEF AgainInv, Capturing
  <1>. QED  BY <1>2, <1>3, <1>4

LEMMA EditLasting ==
  ASSUME TypeOK, Acquired, LastingInv, WitnessInv, AgainInv, NEW r \in Repositories, Edit(r),
         r.head = repo.head \/ r.head.sha = repo.head.sha + 1
  PROVE  (LastingInv /\ WitnessInv /\ AgainInv)'
  <1>. SUFFICES ASSUME Capturing PROVE (LastingInv /\ WitnessInv /\ AgainInv)'
    BY DEF Edit, Capturing, LastingInv, WitnessInv, AgainInv
  <1>1. /\ \A x : Lasting(x) => Lasting(x)'
        /\ \A x : Gone(x) => Gone(x)' \/ "content" \in returned'
        /\ \A s : LastingStatus(s) => LastingStatus(s)'
        /\ \A s : GoneStatus(s) => GoneStatus(s)' \/ "status" \in returned'
        /\ returned \subseteq returned'
    BY EditMoves
  <1>2. UNCHANGED <<saved, phase, pass, step, reading, first, witness>> /\ repo' = r
    BY DEF Edit
  <1>3. /\ r.head.sha \in Nat /\ repo.head.sha \in Nat
        /\ r.head = repo.head \/ r.head.sha = repo.head.sha + 1
    BY DEF TypeOK, Repositories
  <1>4. LastingInv'
    <2>. SUFFICES ASSUME pass = "A" PROVE LastingInv'
      BY <1>2 DEF LastingInv
    <2>1. ASSUME step # "head"
          PROVE  /\ reading.head.sha <= r.head.sha
                 /\ reading.head.sha = r.head.sha => reading.head = r.head
      <3>1. /\ reading.head.sha <= repo.head.sha
            /\ reading.head.sha = repo.head.sha => reading.head = repo.head
        BY <2>1 DEF LastingInv
      <3>2. CASE r.head = repo.head
        BY <3>1, <3>2
      <3>3. CASE r.head.sha = repo.head.sha + 1
        <4>1. reading.head.sha \in Int
          BY <2>1 DEF Acquired
        <4>. QED  BY <1>3, <3>1, <3>3, <4>1
      <3>. QED  BY <1>3, <3>2, <3>3
    <2>2. step \notin {"head", "status"} => LastingStatus(reading.status)'
      BY <1>1, <1>2 DEF LastingInv
    <2>3. step \in Late \cup {"index"} =>
            \/ reading.untracked = reading.status.others \ Excluded
            \/ GoneStatus(reading.status)'
            \/ "status" \in returned'
      BY <1>1, <1>2 DEF LastingInv
    <2>4. /\ step \in Late => \A p \in Paths : Lasting(<<"index", p, reading.index[p]>>)'
          /\ \A p \in Paths : reading.seen[p] # Unread => Lasting(<<"tree", p, reading.seen[p]>>)'
      BY <1>1, <1>2 DEF LastingInv
    <2>. QED  BY <1>2, <2>1, <2>2, <2>3, <2>4 DEF LastingInv, Capturing
  <1>5. ASSUME pass = "B"
        PROVE  WitnessInv' /\ AgainInv'
    <2>1. CheapCandidates(first)' = CheapCandidates(first)
      BY <1>2 DEF CheapCandidates, StatusPaths, Status, Untracked, Renames, Alike, DeltaPaths
    <2>2. \A x : AtWitness(x) => AtWitness(x)'
      BY <1>1, <1>2 DEF AtWitness, Found
    <2>3. Status(witness)' = Status(witness)
      BY <1>2 DEF Status
    <2>4. witness.head.sha <= r.head.sha
      <3>1. witness.head.sha <= repo.head.sha /\ witness.head.sha \in Nat
        BY <1>5 DEF WitnessInv, Repositories
      <3>2. CASE r.head = repo.head
        BY <3>1, <3>2
      <3>. QED  BY <1>3, <3>1, <3>2
    <2>5. \A p \in Paths : AtWitness(<<"index", p, first.index[p]>>)'
      BY <1>2, <1>5, <2>2 DEF WitnessInv
    <2>6. \A p \in Paths : first.seen[p] # Unread => AtWitness(<<"tree", p, first.seen[p]>>)'
      BY <1>2, <1>5, <2>2 DEF WitnessInv
    <2>7. \/ Status(witness) = first.status
          \/ GoneStatus(first.status)'
          \/ "status" \in returned'
      BY <1>1, <1>2, <1>5 DEF WitnessInv
    <2>8. WitnessInv'
      BY <1>1, <1>2, <1>5, <2>1, <2>3, <2>4, <2>5, <2>6, <2>7 DEF WitnessInv, Capturing
    <2>9. AgainInv'
      BY <1>1, <1>2, <1>5, <2>3 DEF AgainInv, Capturing
    <2>. QED  BY <2>8, <2>9
  <1>. QED  BY <1>2, <1>4, <1>5 DEF WitnessInv, AgainInv

LEMMA ReadsLasting ==
  ASSUME TypeOK, Acquired, ReadInv, LastingInv, WitnessInv, AgainInv,
         ReadHead \/ ReadStatus \/ ReadText \/ ReadUntracked \/ ReadIndex
  PROVE  (LastingInv /\ WitnessInv /\ AgainInv)'
  <1>1. Capturing /\ UNCHANGED <<world, saved, phase, pass, first, witness>>
    BY DEF ReadHead, ReadStatus, ReadText, ReadUntracked, ReadIndex, Reads, Capturing
  <1>2. WitnessInv'
    <2>1. CheapCandidates(first)' = CheapCandidates(first)
      BY <1>1 DEF CheapCandidates, StatusPaths, Status, Untracked, Renames, Alike, DeltaPaths
    <2>2. \A x : AtWitness(x)' <=> AtWitness(x)
      BY <1>1, WorldStays DEF AtWitness, Found
    <2>3. Status(witness)' = Status(witness)
      BY <1>1 DEF Status
    <2>. QED  BY <1>1, <2>1, <2>2, <2>3, WorldStays DEF WitnessInv, Capturing
  <1>3. /\ reading \in Readings /\ repo \in Repositories
        /\ \A p \in Paths : reading.seen[p] = Unread
        /\ \A s : LastingStatus(s)' <=> LastingStatus(s)
        /\ \A s : GoneStatus(s)' <=> GoneStatus(s)
        /\ returned' = returned /\ repo' = repo
    <2>1. step \in Early
      BY DEF ReadHead, ReadStatus, ReadText, ReadUntracked, ReadIndex, Reads, Early
    <2>. QED  BY <1>1, <2>1, WorldStays DEF TypeOK, ReadInv
  <1>4. Status(witness)' = Status(witness)
    BY <1>1 DEF Status
  <1>5. CASE ReadHead
    <2>1. step' = "status" /\ reading' = [reading EXCEPT !.head = repo.head]
      BY <1>5 DEF ReadHead, Reads
    <2>2. reading'.head = repo.head /\ reading'.seen = reading.seen
      BY <1>3, <2>1 DEF Readings
    <2>3. repo.head.sha \in Nat
      BY <1>3 DEF Repositories
    <2>4. LastingInv'
      BY <1>1, <1>3, <2>1, <2>2, <2>3 DEF LastingInv, Late, Capturing
    <2>5. AgainInv'
      BY <1>1, <1>3, <2>1, <2>2 DEF AgainInv, WitnessInv, Late, Capturing
    <2>. QED  BY <1>2, <2>4, <2>5
  <1>6. CASE ReadStatus
    <2>1. step = "status" /\ step' = "text" /\ reading' = [reading EXCEPT !.status = Status(repo)]
      BY <1>6 DEF ReadStatus, Reads
    <2>2. reading'.head = reading.head /\ reading'.seen = reading.seen
          /\ reading'.status = Status(repo)
      BY <1>3, <2>1 DEF Readings
    <2>3. Status(repo)' = Status(repo) /\ LastingStatus(Status(repo))
      BY <1>3 DEF LastingStatus, Status
    <2>4. LastingInv'
      BY <1>1, <1>3, <2>1, <2>2, <2>3 DEF LastingInv, Late, Capturing
    <2>5. pass = "B" /\ Status(repo) = first.status =>
            Status(witness) = first.status \/ "status" \in returned
      BY <1>1 DEF WitnessInv, GoneStatus
    <2>6. AgainInv'
      BY <1>1, <1>3, <1>4, <2>1, <2>2, <2>5 DEF AgainInv, Late, Capturing
    <2>. QED  BY <1>2, <2>4, <2>6
  <1>7. CASE ReadText
    <2>1. step = "text" /\ step' = "untracked" /\ reading' = [reading EXCEPT !.text = Status(repo)]
      BY <1>7 DEF ReadText, Reads
    <2>2. reading'.head = reading.head /\ reading'.seen = reading.seen
          /\ reading'.status = reading.status
      BY <1>3, <2>1 DEF Readings
    <2>4. LastingInv'
      BY <1>1, <1>3, <2>1, <2>2 DEF LastingInv, Late, Capturing
    <2>5. AgainInv'
      BY <1>1, <1>3, <1>4, <2>1, <2>2 DEF AgainInv, Late, Capturing
    <2>. QED  BY <1>2, <2>4, <2>5
  <1>8. CASE ReadUntracked
    <2>1. step = "untracked" /\ step' = "index"
          /\ reading' = [reading EXCEPT !.untracked = Untracked(repo)]
      BY <1>8 DEF ReadUntracked, Reads
    <2>2. reading'.head = reading.head /\ reading'.seen = reading.seen
          /\ reading'.status = reading.status /\ reading'.untracked = Untracked(repo)
      BY <1>3, <2>1 DEF Readings
    <2>3. pass = "A" =>
            \/ Untracked(repo) = reading.status.others \ Excluded
            \/ GoneStatus(reading.status)
      BY <1>1, <2>1 DEF LastingInv, LastingStatus, Untracked
    <2>4. LastingInv'
      BY <1>1, <1>3, <2>1, <2>2, <2>3 DEF LastingInv, Late, Capturing
    <2>5. AgainInv'
      BY <1>1, <1>3, <1>4, <2>1, <2>2 DEF AgainInv, Late, Capturing
    <2>. QED  BY <1>2, <2>4, <2>5
  <1>9. CASE ReadIndex
    <2>1. step = "index" /\ step' = "scan"
          /\ reading' = [reading EXCEPT !.index = repo.index,
                                        !.candidates = CheapCandidates(reading)]
      BY <1>9 DEF ReadIndex, Reads
    <2>2. reading'.head = reading.head /\ reading'.seen = reading.seen
          /\ reading'.status = reading.status /\ reading'.untracked = reading.untracked
          /\ reading'.index = repo.index
      BY <1>3, <2>1 DEF Readings
    <2>3. \A p \in Paths : <<"index", p, repo.index[p]>> \in Found(repo)
      BY FoundIs
    <2>4. Found(repo)' = Found(repo)
      BY <1>3 DEF Found
    <2>5. (\A p \in Paths : Lasting(<<"index", p, reading.index[p]>>))'
      BY <2>2, <2>3, <2>4 DEF Lasting
    <2>6. LastingInv'
      BY <1>1, <1>3, <2>1, <2>2, <2>5 DEF LastingInv, Late, Capturing
    <2>7. ASSUME pass = "B", NEW p \in Paths, repo.index[p] = first.index[p]
          PROVE  witness.index[p] = first.index[p] \/ "content" \in returned
      <3>1. ~Gone(<<"index", p, first.index[p]>>)
        BY <2>3, <2>7 DEF Gone
      <3>2. <<"index", p, first.index[p]>> \in Found(witness) \/ "content" \in returned
        BY <1>1, <2>7, <3>1 DEF WitnessInv, AtWitness
      <3>. QED  BY <3>2, FoundIs
    <2>8. AgainInv'
      BY <1>1, <1>3, <1>4, <2>1, <2>2, <2>7 DEF AgainInv, Late, Capturing
    <2>. QED  BY <1>2, <2>6, <2>8
  <1>. QED  BY <1>5, <1>6, <1>7, <1>8, <1>9

LEMMA ObserveLasting ==
  ASSUME TypeOK, LastingInv, WitnessInv, AgainInv, FlowInv, NEW p \in Paths, Observe(p)
  PROVE  (LastingInv /\ WitnessInv /\ AgainInv)'
  <1>1. PICK c \in Contents, more \in SUBSET {p} :
          /\ Capturing
          /\ step = "before" => reading' = reading
          /\ step # "before" =>
               /\ c = repo.tree[p]
               /\ reading' = [reading EXCEPT !.seen[p] = c, !.candidates = @ \cup more]
          /\ reading'.seen[p] = (IF step = "before" THEN reading.seen[p] ELSE c)
          /\ \A q \in Paths \ {p} : reading'.seen[q] = reading.seen[q]
          /\ UNCHANGED <<world, saved, phase, pass, step, first, witness>>
    BY Observed
  <1>2. CASE step = "before"
    BY <1>1, <1>2, LastingSame
  <1>3. CASE step # "before"
    <2>1. step \in Late
      BY <1>1 DEF Observe, FlowInv, InFlight, Lists, Late
    <2>2. /\ reading'.head = reading.head /\ reading'.status = reading.status
          /\ reading'.untracked = reading.untracked /\ reading'.index = reading.index
          /\ reading'.seen[p] = repo.tree[p]
          /\ \A q \in Paths \ {p} : reading'.seen[q] = reading.seen[q]
      <3>1. reading \in Readings
        BY DEF TypeOK
      <3>. HIDE DEF TypeOK
      <3>. QED  BY <1>1, <1>3, <3>1 DEF Readings
    <2>3. /\ \A x : Lasting(x)' <=> Lasting(x)
          /\ \A x : Gone(x)' <=> Gone(x)
          /\ \A s : LastingStatus(s)' <=> LastingStatus(s)
          /\ \A s : GoneStatus(s)' <=> GoneStatus(s)
          /\ returned' = returned /\ repo' = repo
      BY <1>1, WorldStays
    <2>4. Found(repo)' = Found(repo)
      BY <2>3 DEF Found
    <2>5. <<"tree", p, repo.tree[p]>> \in Found(repo)
      BY FoundIs
    <2>6. WitnessInv'
      <3>. saved' = saved /\ first' = first
        BY <1>1
      <3>1. CheapCandidates(first)' = CheapCandidates(first)
        BY DEF CheapCandidates, StatusPaths, Status, Untracked, Renames, Alike, DeltaPaths
      <3>2. \A x : AtWitness(x)' <=> AtWitness(x)
        BY <1>1, <2>3 DEF AtWitness, Found
      <3>3. Status(witness)' = Status(witness)
        BY <1>1 DEF Status
      <3>. QED  BY <1>1, <2>3, <3>1, <3>2, <3>3 DEF WitnessInv, Capturing
    <2>7. CASE pass = "A"
      <3>1. \A x : x \in Found(repo) => Lasting(x)
        BY DEF Lasting
      <3>2. ASSUME NEW q \in Paths, NEW v, v = reading'.seen[q], v # Unread
            PROVE  Lasting(<<"tree", q, v>>)'
        <4>1. Lasting(<<"tree", q, v>>)
          BY <1>1, <2>2, <2>5, <2>7, <3>1, <3>2 DEF LastingInv
        <4>. QED  BY <2>3, <4>1
      <3>3. ASSUME NEW q \in Paths, NEW v, v = reading'.index[q]
            PROVE  Lasting(<<"index", q, v>>)'
        <4>1. Lasting(<<"index", q, v>>)
          BY <1>1, <2>1, <2>2, <2>7, <3>3 DEF LastingInv
        <4>. QED  BY <2>3, <4>1
      <3>4. (\A q \in Paths : reading.seen[q] # Unread => Lasting(<<"tree", q, reading.seen[q]>>))'
        BY <3>2 DEF Lasting
      <3>5. (\A q \in Paths : Lasting(<<"index", q, reading.index[q]>>))'
        BY <3>3 DEF Lasting
      <3>6. LastingInv'
        BY <1>1, <2>1, <2>2, <2>3, <2>7, <3>4, <3>5 DEF LastingInv, Capturing
      <3>. QED  BY <1>1, <2>6, <2>7, <3>6 DEF AgainInv
    <2>8. CASE pass # "A"
      <3>1. repo.tree[p] # Unread
        BY UnreadAssumption DEF TypeOK, Repositories, Trees
      <3>2. ASSUME pass = "B", repo.tree[p] = first.seen[p]
            PROVE  witness.tree[p] = first.seen[p] \/ "content" \in returned
        <4>1. ~Gone(<<"tree", p, first.seen[p]>>)
          BY <2>5, <3>2 DEF Gone
        <4>2. <<"tree", p, first.seen[p]>> \in Found(witness) \/ "content" \in returned
          BY <1>1, <3>1, <3>2, <4>1 DEF WitnessInv, AtWitness
        <4>. QED  BY <4>2, FoundIs
      <3>3. Status(witness)' = Status(witness)
        BY <1>1 DEF Status
      <3>4. AgainInv'
        BY <1>1, <2>1, <2>2, <2>3, <3>2, <3>3 DEF AgainInv, Capturing, Late
      <3>. QED  BY <1>1, <2>6, <2>8, <3>4 DEF LastingInv
    <2>. QED  BY <2>7, <2>8
  <1>. QED  BY <1>2, <1>3

\* The moment between the passes.
LEMMA DeriveLasting ==
  ASSUME TypeOK, Acquired, ReadInv, LastingInv, Derive, ~Fail
  PROVE  (LastingInv /\ WitnessInv /\ AgainInv)'
  <1>. PICK r \in Readings : r = reading
    BY DEF TypeOK
  <1>. PICK w \in Repositories : w = repo
    BY DEF TypeOK
  <1>1. Capturing /\ step = "derive" /\ step \in Late /\ pass = "A"
    BY DEF Derive, Capturing, ReadInv, Late
  <1>2. /\ first' = r /\ witness' = w /\ repo' = w /\ pass' = "B" /\ step' = "head"
        /\ reading' = Nothing
        /\ UNCHANGED <<world, saved, phase>>
    BY DEF Derive, world
  <1>3. /\ \A x : Gone(x)' <=> Gone(x)
        /\ \A s : GoneStatus(s)' <=> GoneStatus(s)
        /\ returned' = returned
    BY <1>2, WorldStays
  <1>4. LastingInv' /\ AgainInv'
    BY <1>2 DEF LastingInv, AgainInv, Nothing, Late
  <1>5. CheapCandidates(r)' = CheapCandidates(r) /\ CheapCandidates(r) \subseteq r.candidates
    BY <1>1, <1>2 DEF ReadInv, Early, CheapCandidates, StatusPaths, Status, Untracked, Renames,
                      Alike, DeltaPaths
  <1>6. \A p \in r.candidates \cup Extras : r.seen[p] # Unread
    BY <1>1 DEF ReadInv, Watched
  <1>7. /\ r.head.sha <= w.head.sha /\ r.head.sha \in Nat /\ w.head.sha \in Nat
        /\ r.head.sha = w.head.sha => r.head = w.head
    BY <1>1 DEF LastingInv, Acquired, Repositories, Early
  <1>8. /\ Status(w) = r.status \/ GoneStatus(r.status)'
        /\ \/ r.untracked = r.status.others \ Excluded
           \/ Status(w) # r.status
           \/ "status" \in returned'
    BY <1>1, <1>3 DEF LastingInv, LastingStatus, GoneStatus
  <1>9. \A x : Lasting(x) => AtWitness(x)'
    BY <1>2, <1>3 DEF Lasting, AtWitness
  <1>10. /\ \A p \in Paths : AtWitness(<<"index", p, r.index[p]>>)'
         /\ \A p \in Paths : r.seen[p] # Unread => AtWitness(<<"tree", p, r.seen[p]>>)'
    BY <1>1, <1>9 DEF LastingInv
  <1>11. /\ (\A p \in Paths : AtWitness(<<"index", p, first.index[p]>>))'
         /\ (\A p \in Paths : first.seen[p] # Unread => AtWitness(<<"tree", p, first.seen[p]>>))'
    BY <1>2, <1>10 DEF AtWitness
  <1>12. Status(witness)' = Status(w) /\ CheapCandidates(first)' = CheapCandidates(r)
    BY <1>2, <1>5 DEF CheapCandidates, StatusPaths, Status, Untracked, Renames, Alike, DeltaPaths
  <1>13. GoneStatus(first.status)' <=> GoneStatus(r.status)'
    BY <1>2 DEF GoneStatus
  <1>. QED  BY <1>2, <1>4, <1>5, <1>6, <1>7, <1>8, <1>11, <1>12, <1>13 DEF WitnessInv

LEMMA NextLasting ==
  ASSUME TypeOK, Acquired, FlowInv, ReadInv, LastingInv, WitnessInv, AgainInv, [Next]_vars
  PROVE  (LastingInv /\ WitnessInv /\ AgainInv)'
  <1>1. ASSUME ~Capturing' PROVE (LastingInv /\ WitnessInv /\ AgainInv)'
    BY <1>1 DEF LastingInv, WitnessInv, AgainInv
  <1>2. ASSUME pass' = "A", step' = "head", reading' = Nothing
        PROVE  (LastingInv /\ WitnessInv /\ AgainInv)'
    BY <1>2 DEF LastingInv, WitnessInv, AgainInv, Nothing, Late
  <1>3. CASE Begin
    BY <1>2, <1>3 DEF Begin, Try
  <1>4. CASE ReadHead \/ ReadStatus \/ ReadText \/ ReadUntracked \/ ReadIndex
    BY <1>4, ReadsLasting
  <1>5. CASE Fail
    BY <1>1, <1>5 DEF Fail, Capturing
  <1>6. ASSUME NEW p \in Paths, Observe(p)
        PROVE  (LastingInv /\ WitnessInv /\ AgainInv)'
    BY <1>6, ObserveLasting
  <1>7. ASSUME NEW p \in Paths, ObserveFails(p)
        PROVE  (LastingInv /\ WitnessInv /\ AgainInv)'
    <2>1. UNCHANGED <<world, saved, phase, pass, step, reading, first, witness>>
      BY <1>7 DEF ObserveFails
    <2>. QED  BY <2>1, LastingSame
  <1>8. CASE StoreNext \/ StoreEnds \/ UNCHANGED vars \/ \E w \in Writers : Storing(w)
    <2>1. UNCHANGED <<world, saved, phase, pass, step, reading, first, witness>>
      BY <1>8 DEF StoreNext, StoreEnds, Storing, vars
    <2>. QED  BY <2>1, LastingSame
  <1>9. CASE ListEnds /\ ~Fail
    <2>1. /\ UNCHANGED <<world, saved, phase, pass, reading, first, witness>>
          /\ step \in Late /\ step' \in Late
      BY <1>9, ListMoves DEF Late
    <2>. QED  BY <2>1, LastingSame
  <1>10. CASE Derive /\ ~Fail
    BY <1>10, DeriveLasting
  <1>11. CASE Compare /\ ~Fail
    BY <1>1, <1>2, <1>11 DEF Compare, Retry, Try, Capturing
  <1>12. CASE User
    BY <1>12, UserEdits, EditLasting
  <1>. QED  BY <1>3, <1>4, <1>5, <1>6, <1>7, <1>8, <1>9, <1>10, <1>11, <1>12,
              WriterAssumption DEF Next, Capture, Others, GitFails

-----------------------------------------------------------------------------
(***************************************************************************)
(* What is published.                                                      *)
(***************************************************************************)
\* A path git status is silent about.
LEMMA Silent ==
  ASSUME NEW r, NEW p \in Paths, p \notin StatusPaths(Status(r))
  PROVE  /\ r.head.tree[p] = r.index[p]
         /\ r.index[p] = Absent \/ r.index[p] = r.tree[p]
  <1>. DEFINE a == Letter(r.head.tree[p], r.index[p])
              b == IF r.index[p] = Absent THEN "same" ELSE Letter(r.index[p], r.tree[p])
  <1>1. <<p, a, b>> \in {<<q, "same", "same">> : q \in Paths}
    <2>. SUFFICES ASSUME <<p, a, b>> \notin {<<q, "same", "same">> : q \in Paths}
                  PROVE  FALSE
      OBVIOUS
    <2>1. <<p, a, b>> \in Status(r).tracked
      BY DEF Status
    <2>2. <<p, a, b>>[1] \in StatusPaths(Status(r))
      BY <2>1 DEF StatusPaths
    <2>. QED  BY <2>2
  <1>2. a = "same" /\ b = "same"
    BY <1>1
  <1>3. \A c, d : Letter(c, d) = "same" => c = d
    BY DEF Letter
  <1>. QED  BY <1>2, <1>3

\* The two readings agree, and so each does with what was in between.
LEMMA FenceAgrees ==
  ASSUME TypeOK, Acquired, ReadInv, WitnessInv, AgainInv, Capturing, step = "compare",
         CompareFence(first, reading) = {}, returned = {},
         NEW r, r = first, NEW w, w = witness
  PROVE  /\ w \in Repositories
         /\ r.head = w.head /\ Status(w) = r.status /\ r.untracked = Untracked(w)
         /\ \A p \in Paths : r.index[p] = w.index[p]
         /\ \A p \in r.candidates \cup Extras : r.seen[p] = w.tree[p]
         /\ CheapCandidates(r) \subseteq r.candidates /\ r.candidates \subseteq Paths
  <1>1. pass = "B" /\ \A p \in Watched : reading.seen[p] # Unread
    BY DEF ReadInv
  <1>2. /\ first.head.sha = reading.head.sha /\ first.index = reading.index
        /\ first.status = reading.status /\ first.candidates = reading.candidates
        /\ States(first, first.candidates) = States(reading, reading.candidates)
        /\ States(first, Extras \ first.candidates)
             = States(reading, Extras \ reading.candidates)
    <2>1. \A m \in {"afterHeadSha", "endIndex", "afterStatusZRaw", "candidates",
                    "candidatePathStates", "additionalObservationPathStates"} :
            m \notin CompareFence(first, reading)
      OBVIOUS
    <2>. QED  BY <2>1 DEF CompareFence
  <1>3. ASSUME NEW a, NEW b, NEW S, States(a, S) = States(b, S), NEW p \in S
        PROVE  a.seen[p] = b.seen[p]
    <2>1. <<p, After(a, p)>> \in States(b, S)
      BY <1>3 DEF States
    <2>2. After(a, p) = After(b, p)
      BY <2>1 DEF States
    <2>. QED  BY <2>2 DEF After, State
  <1>4. r \in Readings
    BY DEF TypeOK
  <1>5. \A p \in r.candidates \cup Extras : /\ p \in Paths
                                            /\ reading.seen[p] = r.seen[p]
                                            /\ reading.seen[p] # Unread
    BY <1>1, <1>2, <1>3, <1>4, ExtrasAssumption DEF Watched, Readings
  <1>6. /\ w \in Repositories
        /\ w.head.sha <= r.head.sha /\ r.head.sha <= w.head.sha
        /\ r.head.sha = w.head.sha => r.head = w.head
        /\ r.head.sha \in Nat
    BY <1>1, <1>2 DEF WitnessInv, AgainInv
  <1>7. w.head.sha \in Nat
    BY <1>6 DEF Repositories
  <1>8. r.head = w.head
    BY <1>6, <1>7
  <1>9. Status(w) = r.status
    BY <1>1, <1>2 DEF AgainInv
  <1>10. r.untracked = Untracked(w)
    BY <1>1, <1>9 DEF WitnessInv, Untracked
  <1>11. \A p \in Paths : r.index[p] = w.index[p]
    BY <1>1, <1>2 DEF AgainInv, Late
  <1>12. \A p \in r.candidates \cup Extras : r.seen[p] = w.tree[p]
    BY <1>1, <1>5 DEF AgainInv
  <1>13. CheapCandidates(r) \subseteq r.candidates /\ r.candidates \subseteq Paths
    BY <1>1, <1>4 DEF WitnessInv, Readings
  <1>. QED  BY <1>6, <1>8, <1>9, <1>10, <1>11, <1>12, <1>13

\* A reading that agrees with a repository where it looked describes it.
LEMMA Described ==
  ASSUME NEW r, NEW w \in Repositories,
         r.head = w.head, Status(w) = r.status, r.untracked = Untracked(w),
         \A p \in Paths : r.index[p] = w.index[p],
         \A p \in r.candidates \cup Extras : r.seen[p] = w.tree[p],
         CheapCandidates(r) \subseteq r.candidates, r.candidates \subseteq Paths
  PROVE  SnapshotOf(r, w)
  <1>1. \A p \in r.candidates : After(r, p) = In(w, p)
    BY DEF After, In
  <1>2. ASSUME NEW e \in Entries(r)
        PROVE  /\ e.after = In(w, e.to)
               /\ e.from # e.to => ~Present(In(w, e.from))
    <2>1. CASE \E q \in Accepted(r) : e = Entry(q[1], q[2], "renamed", r)
      <3>1. PICK q \in Accepted(r) : e = Entry(q[1], q[2], "renamed", r)
        BY <2>1
      <3>2. q[1] \in r.candidates /\ q[2] \in r.candidates /\ After(r, q[1]) = State(Absent, Absent)
        BY RenameMoves
      <3>3. ~Present(State(Absent, Absent))
        BY DEF Present, State
      <3>. QED  BY <1>1, <3>1, <3>2, <3>3, EntryIs
    <2>2. CASE \E p \in r.candidates : e = Entry(p, p, Operation(Before(p), After(r, p)), r)
      BY <1>1, <2>2, EntryIs
    <2>. QED  BY <2>1, <2>2, TwoKinds
  <1>3. ASSUME NEW p \in Paths, p \notin UNION {{e.from, e.to} : e \in Entries(r)},
               w.index[p] # Absent \/ p \in Untracked(w) \/ Present(Before(p))
        PROVE  In(w, p) = Before(p)
    <2>1. CASE p \in r.candidates
      <3>1. ASSUME NEW q \in Accepted(r)
            PROVE  p # q[1] /\ p # q[2]
        <4>1. Entry(q[1], q[2], "renamed", r) \in Entries(r)
          BY DEF Entries
        <4>. QED  BY <1>3, <4>1, EntryIs
      <3>2. Before(p) = After(r, p)
        <4>. SUFFICES ASSUME Before(p) # After(r, p)
                      PROVE  FALSE
          OBVIOUS
        <4>1. Entry(p, p, Operation(Before(p), After(r, p)), r) \in Entries(r)
          BY <2>1, <3>1 DEF Entries
        <4>. QED  BY <1>3, <4>1, EntryIs
      <3>. QED  BY <1>1, <2>1, <3>2
    <2>2. CASE p \notin r.candidates
      <3>1. /\ p \notin StatusPaths(Status(saved)) /\ p \notin StatusPaths(Status(w))
            /\ ~(p \in Untracked(saved) /\ saved.tree[p] \in Regular)
            /\ p \notin DeltaPaths(w.head) /\ p \notin Untracked(w)
        BY <2>2 DEF CheapCandidates
      <3>2. /\ saved.head.tree[p] = saved.index[p]
            /\ saved.index[p] = Absent \/ saved.index[p] = saved.tree[p]
            /\ w.head.tree[p] = w.index[p]
            /\ w.index[p] = Absent \/ w.index[p] = w.tree[p]
            /\ saved.head.tree[p] = w.head.tree[p]
        BY <3>1, Silent DEF DeltaPaths
      <3>3. CASE w.index[p] # Absent
        BY <3>2, <3>3 DEF In, Before, Restored
      <3>4. CASE w.index[p] = Absent
        <4>1. Restored(p) = Absent /\ saved.index[p] = Absent
          BY <3>1, <3>2, <3>4 DEF Restored
        <4>2. ~Present(Before(p))
          BY <4>1 DEF Before, State, Present
        <4>. QED  BY <1>3, <3>1, <3>4, <4>2
      <3>. QED  BY <3>3, <3>4
    <2>. QED  BY <2>1, <2>2
  <1>. QED  BY <1>2, <1>3 DEF SnapshotOf

LEMMA NextSnap ==
  ASSUME TypeOK, Acquired, ReadInv, WitnessInv, AgainInv, SnapInv, [Next]_vars
  PROVE  SnapInv'
  <1>1. ASSUME phase' # "published" PROVE SnapInv'
    BY <1>1 DEF SnapInv
  <1>2. ASSUME NEW r, NEW w, SnapshotOf(r, w), UNCHANGED saved
        PROVE  SnapshotOf(r, w)'
    <2>1. /\ \A p : Before(p)' = Before(p)
          /\ Entries(r)' = Entries(r)
          /\ Untracked(w)' = Untracked(w)
      BY <1>2, SameEntries DEF Untracked, Status
    <2>. QED  BY <1>2, <2>1 DEF SnapshotOf, In, State, Present
  <1>3. CASE phase = "published" /\ UNCHANGED <<phase, pass, first, saved, witness, returned>>
    BY <1>2, <1>3 DEF SnapInv
  <1>4. CASE Compare /\ phase' = "published"
    <2>1. /\ Capturing /\ step = "compare" /\ CompareFence(first, reading) = {}
          /\ UNCHANGED <<pass, first, saved, witness, returned>>
      BY <1>4 DEF Compare, Retry, Fail, world, Capturing
    <2>3. pass = "B"
      BY <2>1 DEF ReadInv
    <2>. SUFFICES ASSUME returned = {}, NEW r, r = first, NEW w, w = witness
                  PROVE  SnapshotOf(r, w)'
      BY <2>1, <2>3 DEF SnapInv
    <2>2. SnapshotOf(r, w)
      BY <2>1, FenceAgrees, Described
    <2>. QED  BY <1>2, <2>1, <2>2
  <1>5. CASE Next /\ ~Compare
    <2>1. \/ phase' # "published"
          \/ phase = "published" /\ UNCHANGED <<phase, pass, first, saved, witness, returned>>
      BY <1>5, UserEdits, ListMoves
         DEF Next, Capture, Others, Begin, Reads, ReadHead, ReadStatus, ReadText, ReadUntracked,
             ReadIndex, GitFails, Fail, Observe, ObserveFails, StoreNext, StoreEnds, Derive,
             Storing, Edit, world, Capturing
    <2>. QED  BY <1>1, <1>3, <2>1
  <1>6. CASE UNCHANGED vars
    BY <1>1, <1>3, <1>6 DEF vars, world
  <1>. QED  BY <1>1, <1>4, <1>5, <1>6

-----------------------------------------------------------------------------
LEMMA InitIInv == Init => IInv
  <1>. SUFFICES ASSUME Init PROVE IInv
    OBVIOUS
  <1>1. phase = "session" /\ flight = NoFlight /\ sink = <<>> /\ puts = [w \in Writers |-> Idle]
        /\ mirrors = NoMirrors
    BY DEF Init, StoreInit
  <1>2. TypeOK
    BY InitTyped
  <1>3. StoreInv
    BY <1>1 DEF StoreInv, Idle
  <1>4. FlowInv
    <2>1. InFlight = {} /\ \A p \in Paths : flight[p] # "sinking"
      BY <1>1, NoFlightTyped DEF InFlight
    <2>2. \A p \in Paths : ~\E i \in DOMAIN sink : sink[i] = p
      BY <1>1
    <2>. QED  BY <1>1, <2>1, <2>2, WriterAssumption DEF FlowInv
  <1>. QED  BY <1>1, <1>2, <1>3, <1>4
            DEF IInv, Acquired, ReadInv, KeptInv, FirstInv, Publishable, LastingInv, WitnessInv,
                AgainInv, SnapInv, Capturing

LEMMA NextKeepsIInv == IInv /\ [Next]_vars => IInv'
  <1>. SUFFICES ASSUME IInv, [Next]_vars PROVE IInv'
    OBVIOUS
  <1>1. (TypeOK /\ Acquired)'
    BY NextTyped DEF IInv
  <1>2. StoreInv' /\ FlowInv'
    BY StoreKeeps, NextFlow DEF IInv
  <1>3. ReadInv' /\ KeptInv' /\ FirstInv'
    BY NextRead, NextKept, NextFirst DEF IInv
  <1>4. (LastingInv /\ WitnessInv /\ AgainInv)' /\ SnapInv'
    BY NextLasting, NextSnap DEF IInv
  <1>. QED  BY <1>1, <1>2, <1>3, <1>4 DEF IInv

(***************************************************************************)
(* The inductive invariant of the capture.                                 *)
(***************************************************************************)
THEOREM Invariance == Spec => []IInv
  BY InitIInv, NextKeepsIInv, PTL DEF Spec

(***************************************************************************)
(* Every variable keeps its type, and no more attempts are made than       *)
(* MAX_CAPTURE_ATTEMPTS.                                                   *)
(***************************************************************************)
THEOREM TypeCorrect == Spec => []TypeOK
  BY Invariance, PTL DEF IInv

(***************************************************************************)
(* What putObject says is stored is there, whole, whoever else stores it.  *)
(***************************************************************************)
THEOREM StoredIsKept == Spec => []StoredIsThere
  <1>1. IInv => StoredIsThere
    BY DEF IInv, StoreInv, StoredIsThere
  <1>. QED  BY <1>1, Invariance, PTL

(***************************************************************************)
(* No object of the store is ever replaced, damaged or removed.            *)
(***************************************************************************)
THEOREM EvidenceStays == Spec => ObjectsStay
  <1>1. IInv /\ [Next]_vars
          => [\A d \in Digests : objects[d] # "absent" => objects'[d] = objects[d]]_objects
    BY StoreKeeps DEF IInv
  <1>. QED  BY <1>1, Invariance, PTL DEF Spec, ObjectsStay

(***************************************************************************)
(* When a capture returns or throws, none of its calls and no put of its   *)
(* is still under way (mapWithConcurrency, serializeCalls).                *)
(***************************************************************************)
THEOREM NothingAfter == Spec => []NothingAfterCleanup
  <1>1. IInv => NothingAfterCleanup
    <2>. SUFFICES ASSUME IInv, phase \in {"published", "failed"}
                  PROVE  InFlight = {} /\ sink = <<>> /\ puts["capture"] = Idle
      BY DEF NothingAfterCleanup
    <2>1. InFlight = {}
      BY DEF IInv, FlowInv, Capturing
    <2>. QED  BY <2>1, QuietIsIdle DEF IInv
  <1>. QED  BY <1>1, Invariance, PTL

(***************************************************************************)
(* Every file or link a published entry refers to is in the store, whole.  *)
(***************************************************************************)
THEOREM Resolvable == Spec => []EvidenceResolves
  <1>1. IInv => EvidenceResolves
    <2>. SUFFICES ASSUME IInv, Published
                  PROVE  \A e \in Entries(first) :
                           \A c \in {e.before.worktree, e.after.worktree} \ {Absent} :
                             objects[c] = "valid"
      BY DEF EvidenceResolves
    <2>1. Publishable
      BY DEF IInv, SnapInv, Publishable, Published
    <2>. QED  BY <2>1 DEF IInv, FirstInv, Evidence
  <1>. QED  BY <1>1, Invariance, PTL

(***************************************************************************)
(* The entries turn the checkpoint's states into the session's, no path is *)
(* in two of them, and their hunks are the difference of their two states. *)
(***************************************************************************)
THEOREM Reconstructible == Spec => []EntriesReconstruct
  <1>1. IInv => EntriesReconstruct
    <2>. SUFFICES ASSUME IInv, Published
                  PROVE  /\ \A p \in first.candidates :
                              Applied(Entries(first), p) = After(first, p)
                         /\ Disjoint(first)
                         /\ \A e \in Entries(first) : Hunks(e)
      BY DEF EntriesReconstruct, Applied, Disjoint, Hunks
    <2>1. Publishable
      BY DEF IInv, SnapInv, Publishable, Published
    <2>. QED  BY <2>1 DEF IInv, FirstInv, Accounted
  <1>. QED  BY <1>1, Invariance, PTL

(***************************************************************************)
(* What is published was all true at the moment between the two passes,    *)
(* unless a content or an answer of git status came back meanwhile: the    *)
(* fence of captureContribution, for any repository and any editing.       *)
(***************************************************************************)
THEOREM ProvenSnapshot == Spec => []PublishedIsSnapshot
  <1>1. IInv => PublishedIsSnapshot
    <2>1. ASSUME SnapshotOf(first, witness)
          PROVE  Snapshot(witness)
      BY <2>1 DEF SnapshotOf, Snapshot
    <2>. QED  BY <2>1 DEF IInv, SnapInv, PublishedIsSnapshot, Published
  <1>. QED  BY <1>1, Invariance, PTL

=============================================================================

------------------------ MODULE ContributionCapture ------------------------
(***************************************************************************)
(* captureContribution (git/src/contribution.ts): what a session changed,  *)
(* as entries over the state its checkpoint saved, read from a repository  *)
(* that its user goes on editing.  One attempt reads everything twice and  *)
(* publishes what it read first if the second reading agrees; after a few  *)
(* attempts it gives up.                                                   *)
(*                                                                         *)
(* A path has three contents: in HEAD, in the index, and in the worktree.  *)
(* A git command reads in one step; files are observed one by one, by a    *)
(* few workers (git/src/concurrency.ts), and what they hold goes to the    *)
(* object store one payload at a time.                                     *)
(***************************************************************************)
EXTENDS ObjectStore, SequencesExt

CONSTANTS
  Paths,      \* numbers: lists of paths are in ascending order
  Links,      \* the contents that are symbolic links
  Excluded,   \* rollback.exclude at the checkpoint: untracked paths left out
  Extras,     \* additionalObservationPaths
  Limit,      \* of calls in flight: 16 in the code
  MaxCaptureAttempts,  \* 3 in the code
  MaxEdits,   \* bound: the steps of the user, in session and during capture
  Shared,     \* the digests another process stores as well
  Starts,     \* the states of the repository at the checkpoint
  Unread      \* not read

ASSUME PathsAssumption == Paths \subseteq Nat /\ IsFiniteSet(Paths)
ASSUME LinksAssumption == Links \subseteq Digests
ASSUME ExtrasAssumption == Extras \subseteq Paths
ASSUME SharedAssumption == Shared \subseteq Digests
ASSUME WriterAssumption == "capture" \in Writers
ASSUME BoundsAssumption ==
  Limit \in Nat \ {0} /\ MaxCaptureAttempts \in Nat \ {0} /\ MaxEdits \in Nat

Contents == Digests \cup {Absent}
Trees == [Paths -> Contents]
Repositories == [head : [sha : Nat, tree : Trees], index : Trees, tree : Trees]
ASSUME StartsAssumption == Starts \subseteq Repositories
ASSUME UnreadAssumption == Unread \notin Contents \cup Repositories

VARIABLES
  repo,      \* HEAD, the index and the worktree
  edits,     \* the steps the user has taken
  saved,     \* the three at the checkpoint
  phase,     \* "session", "capturing", "published", "failed"
  attempt,   \* of the capture
  pass,      \* "A" or "B"
  step,      \* what the pass does next
  reading,   \* what the pass has read
  first,     \* what Pass A of this attempt has read
  flight,    \* the paths of the list being worked on
  sink,      \* the paths whose payload waits to be stored, the next one first
  mirrors,   \* the files written for the diff
  witness,   \* history: the repository between the two passes
  left,      \* history: what the user changed away from in this attempt
  returned   \* history: what the user came back to, "content" or "status"

world == <<repo, edits, left, returned>>
work == <<flight, sink, store>>
vars == <<world, saved, phase, attempt, pass, step, reading, first, work, mirrors,
          witness>>

-----------------------------------------------------------------------------
(***************************************************************************)
(* What git and the file system say of a repository.                       *)
(***************************************************************************)

Regular == Digests \ Links

\* The letter of a change in git's status.
Letter(old, new) == IF old = new THEN "same"
                    ELSE CASE old = Absent -> "added"
                           [] new = Absent -> "deleted"
                           [] OTHER -> "modified"

\* The renames git sees: a file that is gone, and a new one that resembles it
\* (regular files do, links only if they are equal), each paired once.
Alike(c, d) == c = d \/ {c, d} \subseteq Regular
Renames(old, new) ==
  LET pairs == {q \in Paths \X Paths :
                  /\ old[q[1]] # Absent /\ new[q[1]] = Absent
                  /\ old[q[2]] = Absent /\ new[q[2]] # Absent
                  /\ Alike(old[q[1]], new[q[2]])}
      once(R) == \A q, s \in R : (q[1] = s[1] \/ q[2] = s[2]) => q = s
  IN  CHOOSE R \in SUBSET pairs :
        once(R) /\ \A S \in SUBSET pairs : (once(S) /\ R \subseteq S) => S = R

\* git status: the tracked paths with both letters, the renames it stages, and
\* the untracked paths, which no exclusion hides.
Status(r) ==
  [tracked |-> {<<p, Letter(r.head.tree[p], r.index[p]),
                  IF r.index[p] = Absent THEN "same" ELSE Letter(r.index[p], r.tree[p])>> :
                p \in Paths} \ {<<p, "same", "same">> : p \in Paths},
   renames |-> Renames(r.head.tree, r.index),
   others |-> {p \in Paths : r.index[p] = Absent /\ r.tree[p] # Absent}]

StatusPaths(s) == {t[1] : t \in s.tracked}

\* git ls-files --others, without the excluded.
Untracked(r) == Status(r).others \ Excluded

\* git diff --name-status between the commit of the checkpoint and HEAD.
DeltaPaths(h) == {p \in Paths : saved.head.tree[p] # h.tree[p]}

\* What the checkpoint restores into a fresh worktree: of untracked paths only
\* the regular files that are not excluded.
Restored(p) == IF \/ saved.index[p] # Absent
                  \/ p \in Untracked(saved) /\ saved.tree[p] \in Regular
               THEN saved.tree[p] ELSE Absent

\* The hash the manifest has of a tracked regular file.
FileHash(p) == IF saved.index[p] # Absent /\ saved.tree[p] \in Regular
               THEN saved.tree[p] ELSE Absent

-----------------------------------------------------------------------------
(***************************************************************************)
(* A reading: PathStates, candidates, the fence.                           *)
(***************************************************************************)
Nothing == [head |-> Unread, status |-> Unread, text |-> Unread, untracked |-> Unread,
            index |-> Unread, seen |-> [p \in Paths |-> Unread], candidates |-> {}]

\* The candidates that need no look at the files.
CheapCandidates(r) ==
  StatusPaths(Status(saved)) \cup {p \in Untracked(saved) : saved.tree[p] \in Regular}
  \cup StatusPaths(r.status) \cup DeltaPaths(r.head) \cup r.untracked

\* A PathState: the worktree as observed, the index as it was listed.
State(w, i) == [worktree |-> w, index |-> i]
After(r, p) == State(r.seen[p], r.index[p])
Before(p) == State(Restored(p), saved.index[p])
Present(s) == s.worktree # Absent \/ s.index # Absent

Inventory(r) == {<<p, r.seen[p]>> : p \in {q \in Paths : r.index[q] # Absent
                                                         /\ r.seen[q] \in Regular}}
States(r, S) == {<<p, After(r, p)>> : p \in S}

\* Fault: only what git tracks is compared.
FaultCompareFence(a, b) ==
  {m \in {"endIndex", "trackedStatus", "inventory", "candidates"} :
     CASE m = "endIndex" -> a.index # b.index
       [] m = "trackedStatus" -> a.status.tracked # b.status.tracked
       [] m = "inventory" -> Inventory(a) # Inventory(b)
       [] m = "candidates" -> a.candidates # b.candidates}

\* compareFence: the members in which two readings differ.
CompareFence(a, b) ==
  {m \in {"afterHeadSha", "endIndex", "trackedStatus", "afterStatusText",
          "afterStatusZRaw", "endUntracked", "inventory", "candidates",
          "candidatePathStates", "additionalObservationPathStates"} :
     CASE m = "afterHeadSha" -> a.head.sha # b.head.sha
       [] m = "endIndex" -> a.index # b.index
       [] m = "trackedStatus" -> a.status.tracked # b.status.tracked
       [] m = "afterStatusText" -> a.text # b.text
       [] m = "afterStatusZRaw" -> a.status # b.status
       [] m = "endUntracked" -> a.untracked # b.untracked
       [] m = "inventory" -> Inventory(a) # Inventory(b)
       [] m = "candidates" -> a.candidates # b.candidates
       [] m = "candidatePathStates" ->
            States(a, a.candidates) # States(b, b.candidates)
       [] m = "additionalObservationPathStates" ->
            States(a, Extras \ a.candidates) # States(b, Extras \ b.candidates)}

-----------------------------------------------------------------------------
(***************************************************************************)
(* The entries that Pass A's reading r makes.                              *)
(***************************************************************************)
\* collectRenameProposals, of both authorities.
Proposals(r) == Renames(saved.head.tree, r.head.tree) \cup r.status.renames

\* Fault: what git calls a rename is one, though the old file is there again.
FaultAccepted(r) ==
  {q \in Proposals(r) :
     /\ q[1] \in r.candidates /\ q[2] \in r.candidates
     /\ Present(Before(q[1])) /\ ~Present(Before(q[2]))
     /\ Present(After(r, q[2]))}

\* acceptRenameProposals: the session moved the file if the states say so.
Accepted(r) ==
  {q \in Proposals(r) :
     /\ q[1] \in r.candidates /\ q[2] \in r.candidates
     /\ Present(Before(q[1])) /\ ~Present(Before(q[2]))
     /\ ~Present(After(r, q[1])) /\ Present(After(r, q[2]))}

\* assertNoRenameConflicts.
Conflict(r) == \E q, s \in Accepted(r) : q # s /\ (q[1] = s[1] \/ q[2] = s[2])

Kind(c) == CASE c = Absent -> "absent" [] c \in Links -> "symlink" [] OTHER -> "regular"
TypeChanged(c, d) == c # Absent /\ d # Absent /\ Kind(c) # Kind(d)

\* classifyOperation, for a path that was not renamed.
Operation(b, a) ==
  CASE ~Present(b) /\ Present(a) -> "added"
    [] Present(b) /\ ~Present(a) -> "deleted"
    [] TypeChanged(b.worktree, a.worktree) \/ TypeChanged(b.index, a.index) ->
         "type_changed"
    [] OTHER -> "modified"

\* deriveFacets (file modes are part of the contents here).
Facets(b, a) ==
  {f \in {"content_changed", "index_changed", "worktree_kind_changed"} :
     CASE f = "content_changed" ->
            /\ b.worktree # a.worktree
            /\ Absent \notin {b.worktree, a.worktree}
            /\ Kind(b.worktree) = Kind(a.worktree)
       [] f = "index_changed" -> b.index # a.index
       [] f = "worktree_kind_changed" -> TypeChanged(b.worktree, a.worktree)}

Entry(from, to, op, r) ==
  [from |-> from, to |-> to, operation |-> op,
   facets |-> Facets(Before(from), After(r, to)),
   before |-> Before(from), after |-> After(r, to)]

\* deriveDraftEntries: renames first, then what they leave and what changed.
Entries(r) ==
  LET renamed == UNION {{q[1], q[2]} : q \in Accepted(r)}
  IN  {Entry(q[1], q[2], "renamed", r) : q \in Accepted(r)}
      \cup {Entry(p, p, Operation(Before(p), After(r, p)), r) :
            p \in {q \in r.candidates \ renamed : Before(q) # After(r, q)}}

\* normalizeRenameMirrors: the saved file of a renamed regular one is moved in
\* the mirror m.
Normalized(m, r) ==
  LET moved == {q \in Accepted(r) : {Restored(q[1]), r.seen[q[2]]} \subseteq Regular}
  IN  [p \in Paths |->
         CASE \E q \in moved : q[2] = p -> m[(CHOOSE q \in moved : q[2] = p)[1]]
           [] \E q \in moved : q[1] = p -> Absent
           [] OTHER -> m[p]]

-----------------------------------------------------------------------------
NoMirrors == [before |-> [p \in Paths |-> Absent], after |-> [p \in Paths |-> Absent]]
NothingLeft == [contents |-> {}, statuses |-> {}]
NoFlight == [p \in Paths |-> "none"]

Init ==
  /\ StoreInit
  /\ saved \in Starts
  /\ repo = saved
  /\ edits = 0
  /\ phase = "session"
  /\ attempt = 0
  /\ pass = "A"
  /\ step = "head"
  /\ reading = Nothing
  /\ first = Nothing
  /\ flight = NoFlight
  /\ sink = <<>>
  /\ mirrors = NoMirrors
  /\ witness = Unread
  /\ left = NothingLeft
  /\ returned = {}

-----------------------------------------------------------------------------
(***************************************************************************)
(* The user.                                                               *)
(***************************************************************************)
\* What a reading may find in r, and what git says of it.
Found(r) == {<<"index", p, r.index[p]>> : p \in Paths}
            \cup {<<"tree", p, r.tree[p]>> : p \in Paths}

\* The user makes r of the repository; what is left and found again counts
\* while a capture is under way.
Edit(r) ==
  /\ phase \in {"session", "capturing"}
  /\ edits < MaxEdits
  /\ edits' = edits + 1
  /\ repo' = r
  /\ IF phase = "capturing"
     THEN /\ left' = IF edits' = MaxEdits THEN NothingLeft  \* there is no way back
                     ELSE [contents |-> left.contents \cup (Found(repo) \ Found(r)),
                           statuses |-> left.statuses \cup ({Status(repo)} \ {Status(r)})]
          /\ returned' = returned
               \cup {x \in {"content"} : Found(r) \cap left.contents # {}}
               \cup {x \in {"status"} : Status(r) \in left.statuses}
     ELSE UNCHANGED <<left, returned>>
  /\ UNCHANGED <<saved, phase, attempt, pass, step, reading, first, work, mirrors, witness>>

\* A file is written, replaced or removed.
Write(p) == \E c \in Contents \ {repo.tree[p]} : Edit([repo EXCEPT !.tree[p] = c])

\* git add, or git rm --cached of a file that is gone.
Stage(p) == /\ repo.index[p] # repo.tree[p]
            /\ Edit([repo EXCEPT !.index[p] = repo.tree[p]])

\* git commit.
Commit == /\ repo.index # repo.head.tree
          /\ Edit([repo EXCEPT !.head = [sha |-> @.sha + 1, tree |-> repo.index]])

\* git mv.
Move(p, q) ==
  /\ repo.index[p] # Absent /\ repo.tree[p] # Absent
  /\ repo.index[q] = Absent /\ repo.tree[q] = Absent
  /\ Edit([repo EXCEPT !.index = [@ EXCEPT ![q] = repo.index[p], ![p] = Absent],
                       !.tree = [@ EXCEPT ![q] = repo.tree[p], ![p] = Absent]])

User == \/ \E p \in Paths : Write(p) \/ Stage(p)
        \/ \E p, q \in Paths : Move(p, q)
        \/ Commit

-----------------------------------------------------------------------------
(***************************************************************************)
(* The attempts.                                                           *)
(***************************************************************************)
\* The attempt n, from its Pass A.
Try(n) ==
  /\ attempt' = n
  /\ pass' = "A"
  /\ step' = "head"
  /\ reading' = Nothing
  /\ first' = Nothing
  /\ witness' = Unread
  /\ left' = NothingLeft
  /\ returned' = {}

Begin == /\ phase = "session"
         /\ phase' = "capturing"
         /\ Try(1)
         /\ UNCHANGED <<repo, edits, saved, work, mirrors>>

\* Whatever is thrown ends the capture; nothing is published.
Fail == /\ phase' = "failed"
        /\ reading' = Nothing
        /\ first' = Nothing
        /\ mirrors' = NoMirrors
        /\ witness' = Unread
        /\ left' = NothingLeft
        /\ returned' = {}
        /\ UNCHANGED <<repo, edits, saved, attempt, pass, step, work>>

-----------------------------------------------------------------------------
(***************************************************************************)
(* acquireLive: what git says, one command at a time.                      *)
(***************************************************************************)
Reads(s, next, r) ==
  /\ phase = "capturing"
  /\ step = s
  /\ reading' = r
  /\ step' = next
  /\ UNCHANGED <<world, saved, phase, attempt, pass, first, sink, store, mirrors, witness>>

ReadHead == Reads("head", "status", [reading EXCEPT !.head = repo.head])
            /\ UNCHANGED flight
ReadStatus == Reads("status", "text", [reading EXCEPT !.status = Status(repo)])
              /\ UNCHANGED flight
ReadText == Reads("text", "untracked", [reading EXCEPT !.text = Status(repo)])
            /\ UNCHANGED flight
ReadUntracked == Reads("untracked", "index", [reading EXCEPT !.untracked = Untracked(repo)])
                 /\ UNCHANGED flight

\* The first n calls of the list S start at once.
Launch(S, n) ==
  [p \in Paths |-> IF p \notin S THEN "none"
                   ELSE IF Cardinality({q \in S : q < p}) < n THEN "observing" ELSE "todo"]

ReadIndex ==
  /\ Reads("index", "scan", [reading EXCEPT !.index = repo.index,
                                            !.candidates = CheapCandidates(reading)])
  /\ flight' = Launch({p \in Paths : repo.index[p] # Absent}, Limit)

\* A git command fails (the diff of the mirrors is one).
GitFails == /\ phase = "capturing"
            /\ step \in {"head", "status", "text", "untracked", "index", "derive"}
            /\ Fail

-----------------------------------------------------------------------------
(***************************************************************************)
(* mapWithConcurrency over the index ("scan"), then one at a time what it  *)
(* did not meet ("rest"), and in Pass A the checkpoint's side ("before").  *)
(***************************************************************************)
InFlight == {p \in Paths : flight[p] \in {"observing", "sinking"}}
Broken(f) == \E p \in Paths : f[p] = "failed"
Todo(f) == {p \in Paths : f[p] = "todo"}

\* The call for p is over: unless one has failed the next one starts.
Settle(p, result) ==
  LET f == [flight EXCEPT ![p] = result]
  IN  flight' = IF Broken(f) \/ Todo(f) = {} THEN f
                ELSE [f EXCEPT ![CHOOSE q \in Todo(f) : \A s \in Todo(f) : q <= s] = "observing"]

\* What of c, the content of a candidate, goes to the store: all there is.
\* Fault: a link's target is thought not to be an object.
FaultPayload(c) == c \in Regular
Payload(c) == c # Absent

\* observePathState: the file is read, and in the scan one that the checkpoint
\* does not know so becomes a candidate.  In Pass A the payload of a candidate
\* waits for the sink.
Observe(p) ==
  LET c == IF step = "before" THEN Restored(p) ELSE repo.tree[p]
      new == step = "scan" /\ c \in Regular /\ c # FileHash(p)
      candidate == p \in reading.candidates \/ new
  IN  /\ phase = "capturing"
      /\ flight[p] = "observing"
      /\ reading' = IF step = "before" THEN reading
                    ELSE [reading EXCEPT !.seen[p] = c,
                                         !.candidates = @ \cup {q \in {p} : new}]
      /\ IF candidate /\ pass = "A" /\ Payload(c)
         THEN /\ flight' = [flight EXCEPT ![p] = "sinking"]
              /\ sink' = Append(sink, p)
         ELSE Settle(p, "done") /\ UNCHANGED sink
      /\ UNCHANGED <<world, saved, phase, attempt, pass, step, first, store, mirrors,
                     witness>>

\* The file cannot be read.
ObserveFails(p) ==
  /\ phase = "capturing"
  /\ flight[p] = "observing"
  /\ Settle(p, "failed")
  /\ UNCHANGED <<world, saved, phase, attempt, pass, step, reading, first, sink, store,
                 mirrors, witness>>

Waits(p) == IF step = "before" THEN Restored(p) ELSE reading.seen[p]

\* serializeCalls: the payloads are stored one at a time.
StoreNext ==
  /\ sink # <<>>
  /\ puts["capture"] = Idle
  /\ Put("capture", Waits(Head(sink)))
  /\ UNCHANGED <<world, saved, phase, attempt, pass, step, reading, first, flight, sink,
                 objects, mirrors, witness>>

\* One is over: a regular file that is stored goes into the mirror as well.
StoreEnds ==
  LET p == Head(sink)
      side == IF step = "before" THEN "before" ELSE "after"
      stored == puts["capture"].at = "stored"
  IN  /\ sink # <<>>
      /\ PutOver("capture")
      /\ puts' = [puts EXCEPT !["capture"] = Idle]
      /\ sink' = Tail(sink)
      /\ Settle(p, IF stored THEN "done" ELSE "failed")
      /\ mirrors' = IF stored /\ Waits(p) \in Regular
                    THEN [mirrors EXCEPT ![side][p] = Waits(p)] ELSE mirrors
      /\ UNCHANGED <<world, saved, phase, attempt, pass, step, reading, first, objects,
                     witness>>

\* Fault: the list ends only when there is nothing left of it.
FaultListOver == InFlight = {} /\ Todo(flight) = {}

\* Nothing is in flight, and nothing will be.
ListOver == InFlight = {} /\ (Broken(flight) \/ Todo(flight) = {})

\* The list has been worked through.
ListEnds ==
  LET watched == reading.candidates \cup Extras
  IN  /\ phase = "capturing"
      /\ step \in {"scan", "rest", "before"}
      /\ ListOver
      /\ \/ Broken(flight) /\ Fail
         \/ /\ ~Broken(flight)
            /\ CASE step = "scan" ->
                      /\ step' = "rest"
                      /\ flight' = Launch({p \in watched : reading.seen[p] = Unread}, 1)
                 [] step = "rest" /\ pass = "A" ->
                      step' = "before" /\ flight' = Launch(watched, 1)
                 [] step = "rest" /\ pass = "B" ->
                      step' = "compare" /\ flight' = NoFlight
                 [] step = "before" ->
                      step' = "derive" /\ flight' = NoFlight
            /\ UNCHANGED <<world, saved, phase, attempt, pass, reading, first, sink, store,
                           mirrors, witness>>

-----------------------------------------------------------------------------
(***************************************************************************)
(* The entries, the second pass, the verdict.                              *)
(***************************************************************************)
\* The entries are derived from Pass A, and Pass B begins.
Derive ==
  /\ phase = "capturing"
  /\ step = "derive"
  /\ IF Conflict(reading) THEN Fail
     ELSE /\ mirrors' = [mirrors EXCEPT !.before = Normalized(@, reading)]
          /\ first' = reading
          /\ reading' = Nothing
          /\ pass' = "B"
          /\ step' = "head"
          /\ witness' = repo
          /\ UNCHANGED <<world, saved, phase, attempt, work>>

\* The next attempt, with mirrors of its own.
Retry == Try(attempt + 1) /\ mirrors' = NoMirrors

MoreAttempts == attempt < MaxCaptureAttempts

\* Nothing moved between the passes, or else all is read again, a few times.
Compare ==
  /\ phase = "capturing"
  /\ step = "compare"
  /\ \/ /\ CompareFence(first, reading) = {}
        /\ phase' = "published"
        /\ reading' = Nothing
        /\ UNCHANGED <<world, saved, attempt, pass, step, first, work, mirrors, witness>>
     \/ /\ CompareFence(first, reading) # {}
        /\ MoreAttempts
        /\ Retry
        /\ UNCHANGED <<repo, edits, saved, phase, work>>
     \/ /\ CompareFence(first, reading) # {}
        /\ ~MoreAttempts
        /\ Fail

\* The store at work for w.  Another process has one put to make, which bounds
\* the model, as it matters, while a payload is waiting.
Storing(w) == /\ phase = "capturing"
              /\ \/ PutStep(w)
                 \/ /\ w # "capture" /\ puts[w] = Idle
                    /\ sink # <<>>
                    /\ \E d \in Shared : Put(w, d)
                    /\ UNCHANGED objects
              /\ UNCHANGED <<world, saved, phase, attempt, pass, step, reading, first, flight,
                             sink, mirrors, witness>>

Capture ==
  \/ Begin \/ ReadHead \/ ReadStatus \/ ReadText \/ ReadUntracked \/ ReadIndex
  \/ GitFails
  \/ \E p \in Paths : Observe(p) \/ ObserveFails(p)
  \/ StoreNext \/ StoreEnds \/ ListEnds \/ Derive \/ Compare
  \/ Storing("capture")

Others == \E w \in Writers \ {"capture"} : Storing(w)

Next == Capture \/ Others \/ User

Spec == Init /\ [][Next]_vars

\* A capture that was begun goes on; nobody else has to.
FairSpec == Spec /\ WF_vars(Capture)

-----------------------------------------------------------------------------
Answers == {Status(r) : r \in Repositories}

Readings == [head : {Unread} \cup [sha : Nat, tree : Trees],
             status : {Unread} \cup Answers,
             text : {Unread} \cup Answers,
             untracked : {Unread} \cup SUBSET Paths,
             index : {Unread} \cup Trees,
             seen : [Paths -> {Unread} \cup Contents],
             candidates : SUBSET Paths]

TypeOK ==
  /\ StoreTypeOK
  /\ repo \in Repositories /\ saved \in Starts
  /\ edits \in 0 .. MaxEdits
  /\ phase \in {"session", "capturing", "published", "failed"}
  /\ attempt \in 0 .. MaxCaptureAttempts
  /\ pass \in {"A", "B"}
  /\ step \in {"head", "status", "text", "untracked", "index", "scan", "rest", "before",
               "derive", "compare"}
  /\ {reading, first} \subseteq Readings
  /\ flight \in [Paths -> {"none", "todo", "observing", "sinking", "done", "failed"}]
  /\ sink \in Seq(Paths)
  /\ mirrors \in [before : Trees, after : Trees]
  /\ witness \in {Unread} \cup Repositories
  /\ returned \subseteq {"content", "status"}

Published == phase = "published"
In(r, p) == State(r.tree[p], r.index[p])

\* Pass A is what the repository was at w: HEAD, the state after the session of
\* every entry and of every observed extra; and a path without an entry is as
\* the checkpoint has it.
Snapshot(w) ==
  /\ first.head = w.head
  /\ \A e \in Entries(first) : /\ e.after = In(w, e.to)
                               /\ e.from # e.to => ~Present(In(w, e.from))
  /\ \A p \in Extras : first.seen[p] = w.tree[p]
  /\ \A p \in Paths \ UNION {{e.from, e.to} : e \in Entries(first)} :
       (w.index[p] # Absent \/ p \in Untracked(w) \/ Present(Before(p)))
         => In(w, p) = Before(p)

\* What is published was all true at one moment, the one between the two
\* passes, if since the attempt began no file, no index entry and no answer of
\* git status has come to be again what it was before
\* (captureContribution's fence).
PublishedIsSnapshot == (Published /\ returned = {}) => Snapshot(witness)

\* Every file or link an entry refers to is in the store, whole, although files
\* are read and stored by several workers and other processes store the same
\* (consumePayload, observe once).
EvidenceResolves ==
  Published =>
    \A e \in Entries(first) : \A c \in {e.before.worktree, e.after.worktree} \ {Absent} :
      objects[c] = "valid"

\* What the entries say is what happened.  They account for every candidate:
\* from the checkpoint's states they give the session's, whatever git calls a
\* rename, and no path is in two of them (acceptRenameProposals,
\* deriveDraftEntries).  And the hunks of an entry are the difference of its two
\* states: the mirrors they are taken from hold just these, whatever earlier
\* attempts wrote; one that was moved and is gone from the worktree has none
\* (captureContribution's mirrors, normalizeRenameMirrors, deriveContentDelta).
EntriesReconstruct ==
  LET E == Entries(first)
      Applied(p) == CASE \E e \in E : e.to = p -> (CHOOSE e \in E : e.to = p).after
                      [] \E e \in E : e.from = p /\ e.to # p -> State(Absent, Absent)
                      [] OTHER -> Before(p)
  IN  Published =>
        /\ \A p \in first.candidates : Applied(p) = After(first, p)
        /\ \A e, f \in E : e # f => {e.from, e.to} \cap {f.from, f.to} = {}
        /\ \A e \in E :
             \/ /\ mirrors.before[e.to] = e.before.worktree
                /\ mirrors.after[e.to] = e.after.worktree
             \/ {e.before.worktree, e.after.worktree} \cap Links # {}
             \/ e.from # e.to /\ Absent \in {e.before.worktree, e.after.worktree}

\* When the capture returns or throws, nothing of it goes on: no file is being
\* read, no payload waits and none is being stored, so that the cleanup that
\* follows removes directories nobody writes to (mapWithConcurrency).
NothingAfterCleanup ==
  phase \in {"published", "failed"} =>
    InFlight = {} /\ sink = <<>> /\ puts["capture"] = Idle

\* A capture ends, published or not, however the user edits
\* (MAX_CAPTURE_ATTEMPTS, mapWithConcurrency, serializeCalls).
CaptureEnds == (phase = "capturing") ~> (phase \in {"published", "failed"})

=============================================================================

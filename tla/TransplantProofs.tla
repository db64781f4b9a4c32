-------------------------- MODULE TransplantProofs --------------------------
(***************************************************************************)
(* Transplant for any tree of paths, any contents and any edits: nothing   *)
(* of the user's is destroyed that was there when the fence looked, and    *)
(* what the receipt says of a path is so.  And for an execution beside     *)
(* which nobody edits anything: the order of the schedule suits the tree,  *)
(* and the verification raises no alarm over it.                           *)
(***************************************************************************)
EXTENDS Transplant, SequenceTheorems, TLAPS

After_plan == {"freeze", "prepare", "fence", "execute", "verify"}
After_freeze == After_plan \ {"freeze"}
After_prepare == After_freeze \ {"prepare"}

(* What the plan is made of: the paths to be written are as the session    *)
(* left them, the other selected ones as they were before it, and the      *)
(* parents to be made are none of the selected paths.                      *)
Planned ==
  pc \in After_plan =>
    /\ plan.writes \subseteq selected
    /\ \A p \in plan.writes : plan.seen[p] = After(p)
    /\ \A p \in selected \ plan.writes : plan.seen[p] = Before(p)
    /\ \A a \in DOMAIN plan.parents :
         a \in Paths \ selected /\ plan.parents[a].requiredBy \subseteq plan.writes

(* S agrees with the plan, and holds every path of it.                     *)
Frozen ==
  pc \in After_freeze =>
    /\ selected \cup DOMAIN plan.parents \subseteq DOMAIN frozen.domain.states
    /\ \A p \in selected : frozen.domain.states[p] = plan.seen[p]
    /\ \A a \in DOMAIN plan.parents : frozen.domain.states[a].node = Absent

Scheduled ==
  /\ pc \in After_prepare => DOMAIN states = Obligations
  /\ pc = "fence" => \A o \in Obligations : states[o] = "pending"

(* What an obligation that is still to come will find at its path.         *)
Intact(o) ==
  CASE o.phase = "removal" -> repo.tree[o.path] = After(o.path).node
    [] o.phase = "directory" -> repo.tree[o.path] = Absent
    [] o.phase = "leaf" -> repo.tree[o.path] \in {After(o.path).node, Absent}
    [] o.phase = "index" -> repo.index[o.path] = After(o.path).entry

Unharmed ==
  pc = "execute" =>
    \A o \in Obligations : states[o] = "pending" /\ o.path \notin late => Intact(o)

(* A path none of whose obligations was entered is as the session left it. *)
NotEntered(p) == \A o \in Obligations : p \in Attributed(o) => states[o] = "pending"
Untouched ==
  pc \in {"execute", "verify"} =>
    \A p \in plan.writes \ late : NotEntered(p) => State(repo, p) = After(p)

Inv == Planned /\ Frozen /\ Scheduled /\ Unharmed /\ Untouched /\ ReportIsTrue

-----------------------------------------------------------------------------
(* The variables keep their types.                                         *)

LEMMA InitTypes == Init => TypeOK
<1> SUFFICES ASSUME Init PROVE TypeOK
  OBVIOUS
<1> PICK s \in Scenarios :
      /\ oracle = s.oracle /\ ended = s.ended /\ repo = s.ended
      /\ budget = s.edits
      /\ selected \in SUBSET Candidates(s.oracle, s.ended) \ {{}}
  BY DEF Init
<1>1. {oracle, ended, repo} \subseteq Worlds /\ budget \in Nat
  BY ScenariosAssumption
<1>2. selected \subseteq Paths
  BY DEF Candidates, Listed, Indexed
<1> QED
  BY <1>1, <1>2 DEF Init, TypeOK, Steps, Endings

LEMMA PutNode ==
  ASSUME NEW w \in Worlds, NEW p, NEW n \in Nodes
  PROVE  [w EXCEPT !.tree[p] = n] \in Worlds
  BY DEF Worlds

LEMMA PutEntry ==
  ASSUME NEW w \in Worlds, NEW p, NEW e \in Entries
  PROVE  [w EXCEPT !.index[p] = e] \in Worlds
  BY DEF Worlds

LEMMA BeforeTypes ==
  ASSUME TypeOK, NEW p \in Paths
  PROVE  Before(p).node \in Nodes /\ Before(p).entry \in Entries
  BY DEF TypeOK, Worlds, Before, State

(* What an obligation is: one of a path to be written, or a parent.        *)
LEMMA ObligationShape ==
  ASSUME NEW o \in Obligations
  PROVE  /\ o.phase \in {"removal", "directory", "leaf", "index"}
         /\ o = [phase |-> o.phase, path |-> o.path]
         /\ o.phase = "removal" => o.path \in Removals
         /\ o.phase = "directory" => o.path \in DOMAIN plan.parents
         /\ o.phase = "leaf" => o.path \in LeafWrites
         /\ o.phase = "index" => o.path \in IndexWrites
         /\ o.phase # "directory" => o.path \in plan.writes
  BY DEF Obligations, Removals, LeafWrites, IndexWrites

LEMMA ObligationPath ==
  ASSUME TypeOK, Planned, pc \in After_plan, NEW o \in Obligations
  PROVE  /\ o.path \in Paths
         /\ o.phase = "directory" => o.path \notin selected
         /\ o.phase # "directory" => o.path \in selected
<1>1. selected \subseteq Paths
  BY DEF TypeOK
<1> QED
  BY <1>1, ObligationShape DEF Planned

LEMMA EffectTypes ==
  ASSUME TypeOK, NEW o, o.path \in Paths
  PROVE  /\ o.phase \in {"removal", "directory", "leaf", "index"} => Effect(o) \in Worlds
         /\ Halfway(o) \subseteq Worlds
<1>1. repo \in Worlds
  BY DEF TypeOK
<1>2. Before(o.path).node \in Nodes /\ Before(o.path).entry \in Entries
  BY BeforeTypes
<1>3. {Absent, Directory, Torn} \subseteq Nodes
  BY DEF Nodes, Leaves, Regular
<1>4. ASSUME o.phase \in {"removal", "directory", "leaf", "index"} PROVE Effect(o) \in Worlds
  BY <1>1, <1>2, <1>3, <1>4, PutNode, PutEntry DEF Effect, Transplanted
<1>5. Halfway(o) \subseteq Worlds
  BY <1>1, <1>3, PutNode DEF Halfway
<1> QED
  BY <1>4, <1>5

LEMMA EditTypes ==
  ASSUME TypeOK, NEW p \in Paths
  PROVE  Edited(p) \subseteq Worlds
<1>1. repo \in Worlds
  BY DEF TypeOK
<1>2. Files \cup Links \cup {Absent, Directory} \subseteq Nodes
  BY DEF Nodes, Leaves, Regular
<1>3. Files \cup Links \cup {Absent} \subseteq Entries
  BY DEF Entries
<1>4. ASSUME NEW w \in Edited(p) PROVE w \in Worlds
  <2>1. \/ \E n \in Files \cup Links \cup {Absent, Directory} : w = [repo EXCEPT !.tree[p] = n]
        \/ \E e \in Files \cup Links \cup {Absent} : w = [repo EXCEPT !.index[p] = e]
    BY <1>4 DEF Edited
  <2>2. CASE \E n \in Files \cup Links \cup {Absent, Directory} : w = [repo EXCEPT !.tree[p] = n]
    BY <2>2, <1>1, <1>2, PutNode
  <2>3. CASE \E e \in Files \cup Links \cup {Absent} : w = [repo EXCEPT !.index[p] = e]
    <3> PICK e \in Files \cup Links \cup {Absent} : w = [repo EXCEPT !.index[p] = e]
      BY <2>3
    <3> QED
      BY <1>1, <1>3, PutEntry
  <2> QED
    BY <2>1, <2>2, <2>3
<1> QED
  BY <1>4

LEMMA NextTypes == TypeOK /\ Planned /\ Scheduled /\ [Next]_vars => TypeOK'
<1> SUFFICES ASSUME TypeOK, Planned, Scheduled, [Next]_vars PROVE TypeOK'
  OBVIOUS
<1> USE DEF TypeOK, Steps, Endings
<1>1. CASE PlanSelectiveRestore
  BY <1>1 DEF PlanSelectiveRestore, Stop
<1>2. CASE Freeze
  BY <1>2 DEF Freeze, Stop
<1>3. CASE Prepare
  BY <1>3 DEF Prepare, Stop
<1>4. CASE FinalFence
  BY <1>4 DEF FinalFence, Stop
<1>5. ASSUME NEW o \in DOMAIN states, Execute(o) PROVE TypeOK'
  <2>1. pc = "execute" /\ o \in Obligations
    BY <1>5 DEF Execute, Scheduled, After_prepare, After_freeze, After_plan
  <2>2. o.path \in Paths /\ o.phase \in {"removal", "directory", "leaf", "index"}
    BY <2>1, ObligationPath, ObligationShape DEF After_plan
  <2>3. repo' \in Worlds
    BY <1>5, <2>2, EffectTypes DEF Execute
  <2>4. \A q \in DOMAIN states' : states'[q] \in {"pending", "attempted", "completed"}
    BY <1>5 DEF Execute, Becomes
  <2> QED
    BY <1>5, <2>1, <2>3, <2>4 DEF Execute
<1>6. CASE VerifyPostTransplantState
  <2>1. \A p, live : Outcome(p, live) \in Outcomes
    BY DEF Outcome, Outcomes, ExecutionStatus
  <2> QED
    BY <1>6, <2>1 DEF VerifyPostTransplantState, Stop
<1>7. ASSUME NEW p \in Paths, UserEdits(p) PROVE TypeOK'
  BY <1>7, EditTypes DEF UserEdits
<1>8. CASE UserCommits
  BY <1>8 DEF UserCommits
<1>9. CASE UNCHANGED vars
  BY <1>9 DEF vars
<1> QED
  BY <1>1, <1>2, <1>3, <1>4, <1>5, <1>6, <1>7, <1>8, <1>9 DEF Next, Transaction

-----------------------------------------------------------------------------
(* The invariant, one step of the transaction after the other.             *)

LEMMA InitInv == Init => Inv
  BY DEF Init, Inv, Planned, Frozen, Scheduled, Unharmed, Untouched, ReportIsTrue,
         After_plan, After_freeze, After_prepare

(* The planner writes a path only if it found it as the session left it.   *)
LEMMA PlanKeeps ==
  ASSUME TypeOK, Inv, PlanSelectiveRestore
  PROVE  Inv'
<1>1. /\ pc' \in {"done", "freeze"} /\ ending' # "verified"
      /\ UNCHANGED <<oracle, ended, selected>>
  BY DEF PlanSelectiveRestore, Stop, TypeOK
<1>2. CASE pc' = "done"
  BY <1>1, <1>2 DEF Inv, Planned, Frozen, Scheduled, Unharmed, Untouched, ReportIsTrue,
         After_plan, After_freeze, After_prepare
<1>3. CASE pc' = "freeze"
  <2> DEFINE observed == [p \in Paths |-> State(repo, p)]
             topology == Topology(observed, [p \in Paths |-> MembersAmong(repo, Below(p))])
  <2>1. plan' = topology /\ selected \subseteq Paths
    BY DEF PlanSelectiveRestore, TypeOK
  <2>2. \A p \in selected : Verdict(p, observed[p]) # "conflict"
    BY <1>3, <2>1 DEF PlanSelectiveRestore, Stop
  <2>3. /\ topology.seen = [p \in selected |-> observed[p]]
        /\ topology.writes = {p \in selected : Verdict(p, observed[p]) = "restore_required"}
    BY DEF Topology
  <2>4. \A p \in topology.writes : topology.seen[p] = After(p)
    BY <2>3 DEF Verdict
  <2>5. \A p \in selected \ topology.writes : topology.seen[p] = Before(p)
    BY <2>2, <2>3 DEF Verdict
  <2>6. \A a \in DOMAIN topology.parents :
          a \in Paths \ selected /\ topology.parents[a].requiredBy \subseteq topology.writes
    BY <2>1, PathsAssumption DEF Topology
  <2>7. Planned'
    BY <1>1, <2>1, <2>3, <2>4, <2>5, <2>6 DEF Planned, Before, After
  <2> QED
    BY <1>1, <1>3, <2>7 DEF Inv, Frozen, Scheduled, Unharmed, Untouched, ReportIsTrue,
         After_freeze, After_prepare, After_plan
<1> QED
  BY <1>1, <1>2, <1>3

(* S is what the plan was made of, where the plan will write.              *)
LEMMA FreezeKeeps ==
  ASSUME TypeOK, Inv, Freeze
  PROVE  Inv'
<1>1. /\ pc = "freeze" /\ pc' \in {"done", "prepare"} /\ ending' # "verified"
      /\ UNCHANGED <<oracle, ended, selected, plan>>
  BY DEF Freeze, Stop, TypeOK
<1>2. CASE pc' = "done"
  BY <1>1, <1>2 DEF Inv, Planned, Frozen, Scheduled, Unharmed, Untouched, ReportIsTrue,
         After_plan, After_freeze, After_prepare
<1>3. CASE pc' = "prepare"
  <2> DEFINE snapshot == Capture(repo, ProtectedPaths(repo))
  <2>1. frozen'.domain = snapshot /\ Stable(snapshot)
    BY <1>3 DEF Freeze, Stop
  <2>2. selected \cup DOMAIN plan.parents \subseteq DOMAIN snapshot.states
    BY DEF Capture, ProtectedPaths
  <2>3. \A p \in selected : snapshot.states[p] = plan.seen[p]
    BY <2>1 DEF Stable
  <2>4. \A a \in DOMAIN plan.parents : snapshot.states[a].node = Absent
    BY <2>1 DEF Stable, Topology
  <2>5. Planned'
    BY <1>1 DEF Inv, Planned, Before, After, After_plan
  <2>6. Frozen'
    BY <1>1, <2>1, <2>2, <2>3, <2>4 DEF Frozen
  <2> QED
    BY <1>1, <1>3, <2>5, <2>6 DEF Inv, Scheduled, Unharmed, Untouched, ReportIsTrue,
         After_freeze, After_prepare, After_plan
<1> QED
  BY <1>1, <1>2, <1>3

LEMMA PrepareKeeps ==
  ASSUME TypeOK, Inv, Prepare
  PROVE  Inv'
<1>1. /\ pc = "prepare" /\ pc' \in {"done", "fence"} /\ ending' # "verified"
      /\ UNCHANGED <<oracle, ended, selected, plan, frozen>>
  BY DEF Prepare, Stop, TypeOK
<1>2. CASE pc' = "done"
  BY <1>1, <1>2 DEF Inv, Planned, Frozen, Scheduled, Unharmed, Untouched, ReportIsTrue,
         After_plan, After_freeze, After_prepare
<1>3. CASE pc' = "fence"
  <2>1. Planned' /\ Frozen'
    BY <1>1 DEF Inv, Planned, Frozen, Before, After, After_plan, After_freeze
  <2>2. Obligations' = Obligations
    BY <1>1 DEF Obligations, Removals, LeafWrites, IndexWrites, Before
  <2>3. Scheduled'
    BY <1>3, <2>2 DEF Prepare, Stop, Scheduled
  <2> QED
    BY <1>1, <1>3, <2>1, <2>3 DEF Inv, Unharmed, Untouched, ReportIsTrue
<1> QED
  BY <1>1, <1>2, <1>3

(* What the fence lets through is as S has it.                             *)
LEMMA FenceKeeps ==
  ASSUME TypeOK, Inv, FinalFence
  PROVE  Inv'
<1>1. /\ pc = "fence" /\ pc' \in {"done", "execute"} /\ ending' # "verified"
      /\ UNCHANGED <<oracle, ended, selected, plan, frozen, repo, states, late>>
  BY DEF FinalFence, Stop, TypeOK
<1>2. CASE pc' = "done"
  BY <1>1, <1>2 DEF Inv, Planned, Frozen, Scheduled, Unharmed, Untouched, ReportIsTrue,
         After_plan, After_freeze, After_prepare
<1>3. CASE pc' = "execute"
  <2>1. Planned' /\ Frozen'
    BY <1>1 DEF Inv, Planned, Frozen, Before, After, After_plan, After_freeze
  <2>2. Obligations' = Obligations
    BY <1>1 DEF Obligations, Removals, LeafWrites, IndexWrites, Before
  <2>3. Scheduled'
    BY <1>1, <1>3, <2>2 DEF Inv, Scheduled, After_prepare, After_freeze, After_plan
  <2>4. \A p \in DOMAIN frozen.domain.states : State(repo, p) = frozen.domain.states[p]
    BY <1>3 DEF FinalFence, Stop, Unmoved, Capture
  <2>5. /\ \A p \in plan.writes : State(repo, p) = After(p)
        /\ \A a \in DOMAIN plan.parents : State(repo, a).node = Absent
    BY <1>1, <2>4 DEF Inv, Planned, Frozen, After_plan, After_freeze
  <2>6. ASSUME NEW o \in Obligations PROVE Intact(o)
    <3>1. o.phase # "directory" => /\ repo.tree[o.path] = After(o.path).node
                                   /\ repo.index[o.path] = After(o.path).entry
      BY <2>5, ObligationShape DEF State
    <3>2. o.phase = "directory" => repo.tree[o.path] = Absent
      BY <2>5, ObligationShape DEF State
    <3> QED
      BY <3>1, <3>2, ObligationShape DEF Intact
  <2>7. Unharmed'
    BY <1>1, <2>2, <2>6 DEF Unharmed, Intact, After, State
  <2>8. Untouched'
    BY <1>1, <2>5 DEF Untouched, After, State
  <2> QED
    BY <1>1, <1>3, <2>1, <2>3, <2>7, <2>8 DEF Inv, ReportIsTrue
<1> QED
  BY <1>1, <1>2, <1>3

(* What the primitive of o changes: at its path, the tree or the index.    *)
LEMMA ExecuteFrame ==
  ASSUME TypeOK, NEW o \in Obligations, Execute(o), o.path \in Paths
  PROVE  /\ \A p \in Paths \ {o.path} : State(repo', p) = State(repo, p)
         /\ o.phase = "index" => repo'.tree = repo.tree
         /\ o.phase # "index" => repo'.index = repo.index
<1>1. repo \in Worlds /\ o.phase \in {"removal", "directory", "leaf", "index"}
  BY ObligationShape DEF TypeOK
<1>2. repo' = repo \/ repo' = Effect(o) \/ repo' \in Halfway(o)
  BY DEF Execute
<1>3. CASE repo' = repo
  BY <1>3
<1>4. CASE repo' = Effect(o)
  BY <1>1, <1>4 DEF Effect, Transplanted, Worlds, State
<1>5. CASE repo' \in Halfway(o)
  BY <1>1, <1>5 DEF Halfway, Worlds, State
<1> QED
  BY <1>2, <1>3, <1>4, <1>5

(* A due obligation finds what it was made for, so a removal of p leaves   *)
(* nothing there for the leaf of p to meet, and no other step touches p.   *)
LEMMA ExecuteKeeps ==
  ASSUME TypeOK, Inv, NEW o \in DOMAIN states, Execute(o)
  PROVE  Inv'
<1>1. /\ pc = "execute" /\ pc' \in {"execute", "verify"}
      /\ UNCHANGED <<oracle, ended, selected, plan, frozen, late, ending, report>>
      /\ states[o] = "pending"
      /\ \A q \in DOMAIN states : Precedes(q, o) => states[q] = "completed"
  BY DEF Execute, Due
<1>2. /\ DOMAIN states = Obligations /\ o \in Obligations
      /\ DOMAIN states' = DOMAIN states
      /\ states'[o] \in {"completed", "attempted"}
      /\ \A q \in Obligations \ {o} : states'[q] = states[q]
  BY <1>1 DEF Inv, Scheduled, After_prepare, After_freeze, After_plan, Execute, Becomes
<1>3. o.path \in Paths
  BY <1>1, <1>2, ObligationPath DEF Inv, After_plan
<1>4. Planned' /\ Frozen'
  BY <1>1 DEF Inv, Planned, Frozen, Before, After, After_plan, After_freeze
<1>5. Obligations' = Obligations
  BY <1>1 DEF Obligations, Removals, LeafWrites, IndexWrites, Before
<1>6. Scheduled'
  BY <1>1, <1>2, <1>5 DEF Scheduled
<1>7. ASSUME NEW q \in Obligations, states'[q] = "pending", q.path \notin late
      PROVE  Intact(q)'
  <2>1. q # o /\ states[q] = "pending" /\ Intact(q)
    BY <1>1, <1>2, <1>7 DEF Inv, Unharmed
  <2>2. q.path \in Paths
    BY <1>1, ObligationPath DEF Inv, After_plan
  <2>3. CASE q.path # o.path
    <3>1. repo'.tree[q.path] = repo.tree[q.path] /\ repo'.index[q.path] = repo.index[q.path]
      BY <1>2, <1>3, <2>2, <2>3, ExecuteFrame DEF State
    <3> QED
      BY <1>1, <2>1, <3>1 DEF Intact, After
  <2>4. CASE q.path = o.path
    <3>1. q.phase # o.phase
      BY <1>2, <2>1, <2>4, ObligationShape
    <3>2. q.phase # "directory" /\ o.phase # "directory"
      BY <1>1, <1>2, <2>4, <3>1, ObligationPath, ObligationShape DEF Inv, After_plan
    <3>3. ~ Rank[q.phase] < Rank[o.phase]
      BY <1>1, <1>2, <2>1 DEF Precedes
    <3>4. \/ o.phase = "removal" /\ q.phase \in {"leaf", "index"}
          \/ o.phase = "leaf" /\ q.phase = "index"
      BY <1>2, <3>1, <3>2, <3>3, ObligationShape DEF Rank
    <3>5. CASE q.phase = "index"
      BY <1>1, <1>2, <1>3, <2>1, <3>4, <3>5, ExecuteFrame DEF Intact, After
    <3>6. CASE q.phase = "leaf"
      <4>1. o.phase = "removal"
        BY <3>4, <3>6
      <4>2. repo'.tree[o.path] \in {repo.tree[o.path], Absent}
        BY <1>3, <4>1 DEF Execute, Effect, Halfway, TypeOK, Worlds
      <4> QED
        BY <1>1, <2>1, <2>4, <3>6, <4>2 DEF Intact, After
    <3> QED
      BY <3>4, <3>5, <3>6
  <2> QED
    BY <2>3, <2>4
<1>8. Unharmed'
  BY <1>1, <1>5, <1>7 DEF Unharmed
<1>9. ASSUME NEW p \in plan.writes \ late, NotEntered(p)'
      PROVE  State(repo', p) = After(p)
  <2>1. p \notin Attributed(o)
    BY <1>1, <1>2, <1>5, <1>9 DEF NotEntered, Attributed
  <2>2. p \in selected /\ p \in Paths
    BY <1>1 DEF Inv, Planned, After_plan, TypeOK
  <2>3. p # o.path
    BY <1>1, <1>2, <2>1, <2>2, ObligationPath DEF Attributed, Inv, After_plan
  <2>4. NotEntered(p)
    BY <1>1, <1>2, <1>5, <1>9, <2>1 DEF NotEntered, Attributed
  <2> QED
    BY <1>1, <1>2, <1>3, <1>9, <2>2, <2>3, <2>4, ExecuteFrame DEF Inv, Untouched
<1>10. Untouched'
  BY <1>1, <1>9 DEF Untouched, State, After
<1>11. ReportIsTrue'
  BY <1>1 DEF TypeOK, ReportIsTrue
<1> QED
  BY <1>4, <1>6, <1>8, <1>10, <1>11 DEF Inv

(* The verdict on a path rests on what was just read there, and on S.      *)
LEMMA VerifyKeeps ==
  ASSUME TypeOK, Inv, VerifyPostTransplantState
  PROVE  Inv'
<1>1. /\ pc = "verify" /\ pc' = "done" /\ ending' = "verified"
      /\ UNCHANGED <<oracle, ended, selected, repo, plan, frozen, states, late>>
  BY DEF VerifyPostTransplantState, Stop
<1> DEFINE live == Capture(repo, DOMAIN frozen.domain.states)
<1>2. report'.outcomes = [p \in selected |-> Outcome(p, live)]
  BY DEF VerifyPostTransplantState
<1>3. ASSUME NEW p \in selected
      PROVE  /\ Outcome(p, live) \in {"restored", "already_at_before"} => State(repo, p) = Before(p)
             /\ Outcome(p, live) = "not_attempted" => State(repo, p) = After(p) \/ p \in late
  <2>1. live.states[p] = State(repo, p) /\ frozen.domain.states[p] = plan.seen[p]
    BY <1>1 DEF Inv, Frozen, After_plan, After_freeze, Capture
  <2>2. CASE p \notin plan.writes
    <3>1. plan.seen[p] = Before(p)
      BY <1>1, <2>2 DEF Inv, Planned, After_plan
    <3> QED
      BY <2>1, <2>2, <3>1 DEF Outcome, Unattributed
  <2>3. CASE p \in plan.writes
    <3>1. Outcome(p, live) # "already_at_before"
      BY <2>3 DEF Outcome, ExecutionStatus
    <3>2. Outcome(p, live) = "restored" => State(repo, p) = Before(p)
      BY <2>1, <2>3 DEF Outcome, ExecutionStatus, NotRestored
    <3>3. ASSUME Outcome(p, live) = "not_attempted" PROVE State(repo, p) = After(p) \/ p \in late
      <4>1. ExecutionStatus(p) = "not_attempted"
        BY <2>3, <3>3 DEF Outcome
      <4>2. {states[o] : o \in {q \in DOMAIN states : p \in Attributed(q)}} = {"pending"}
        BY <4>1 DEF ExecutionStatus
      <4>3. DOMAIN states = Obligations
        BY <1>1 DEF Inv, Scheduled, After_prepare, After_freeze, After_plan
      <4>4. NotEntered(p)
        BY <4>2, <4>3 DEF NotEntered
      <4> QED
        BY <1>1, <2>3, <4>4 DEF Inv, Untouched
    <3> QED
      BY <3>1, <3>2, <3>3
  <2> QED
    BY <2>2, <2>3
<1>4. ReportIsTrue'
  BY <1>1, <1>2, <1>3 DEF ReportIsTrue, State, Before, After
<1> QED
  BY <1>1, <1>4 DEF Inv, Planned, Frozen, Scheduled, Unharmed, Untouched,
       After_plan, After_freeze, After_prepare

LEMMA EditFrame ==
  ASSUME TypeOK, NEW p \in Paths, UserEdits(p)
  PROVE  \A q \in Paths \ {p} : State(repo', q) = State(repo, q)
<1>1. repo \in Worlds
  BY DEF TypeOK
<1>2. \/ \E n : repo' = [repo EXCEPT !.tree[p] = n]
      \/ \E e : repo' = [repo EXCEPT !.index[p] = e]
  BY DEF UserEdits, Edited
<1> QED
  BY <1>1, <1>2 DEF Worlds, State

(* An edit since the fence is remembered, and only of its own path can     *)
(* nothing more be said.                                                   *)
LEMMA EditKeeps ==
  ASSUME TypeOK, Inv, NEW e \in Paths, UserEdits(e)
  PROVE  Inv'
<1>1. /\ pc # "done" /\ late \subseteq late'
      /\ pc \in {"execute", "verify"} => e \in late'
      /\ UNCHANGED <<oracle, ended, selected, pc, plan, frozen, states, report, ending>>
  BY DEF UserEdits
<1>2. Planned' /\ Frozen'
  BY <1>1 DEF Inv, Planned, Frozen, Before, After
<1>3. Obligations' = Obligations
  BY <1>1 DEF Obligations, Removals, LeafWrites, IndexWrites, Before
<1>4. Scheduled'
  BY <1>1, <1>3 DEF Inv, Scheduled
<1>5. ASSUME pc = "execute", NEW o \in Obligations, states[o] = "pending", o.path \notin late'
      PROVE  Intact(o)'
  <2>1. Intact(o) /\ o.path # e
    BY <1>1, <1>5 DEF Inv, Unharmed
  <2>2. o.path \in Paths
    BY <1>5, ObligationPath DEF Inv, After_plan
  <2>3. repo'.tree[o.path] = repo.tree[o.path] /\ repo'.index[o.path] = repo.index[o.path]
    BY <2>1, <2>2, EditFrame DEF State
  <2> QED
    BY <1>1, <2>1, <2>3 DEF Intact, After
<1>6. Unharmed'
  BY <1>1, <1>3, <1>5 DEF Unharmed
<1>7. ASSUME pc \in {"execute", "verify"}, NEW p \in plan.writes \ late', NotEntered(p)'
      PROVE  State(repo', p) = After(p)
  <2>1. NotEntered(p) /\ p # e /\ p \in plan.writes \ late
    BY <1>1, <1>3, <1>7 DEF NotEntered, Attributed
  <2>2. p \in Paths
    BY <1>7 DEF Inv, Planned, After_plan, TypeOK
  <2> QED
    BY <1>7, <2>1, <2>2, EditFrame DEF Inv, Untouched
<1>8. Untouched'
  BY <1>1, <1>7 DEF Untouched, State, After
<1>9. ReportIsTrue'
  BY <1>1 DEF TypeOK, ReportIsTrue
<1> QED
  BY <1>2, <1>4, <1>6, <1>8, <1>9 DEF Inv

(* A commit moves HEAD, and a stutter nothing.                             *)
LEMMA CommitKeeps ==
  ASSUME Inv, UserCommits \/ UNCHANGED vars
  PROVE  Inv'
<1>1. UNCHANGED <<oracle, ended, selected, repo, pc, plan, frozen, states, late, report, ending>>
  BY DEF UserCommits, vars
<1>2. Planned' /\ Frozen'
  BY <1>1 DEF Inv, Planned, Frozen, Before, After
<1>3. Obligations' = Obligations
  BY <1>1 DEF Obligations, Removals, LeafWrites, IndexWrites, Before
<1>4. Scheduled'
  BY <1>1, <1>3 DEF Inv, Scheduled
<1>5. Unharmed'
  BY <1>1, <1>3 DEF Inv, Unharmed, Intact, After
<1>6. Untouched'
  BY <1>1, <1>3 DEF Inv, Untouched, NotEntered, Attributed, After, State
<1>7. ReportIsTrue'
  BY <1>1 DEF Inv, ReportIsTrue, State, Before, After
<1> QED
  BY <1>2, <1>4, <1>5, <1>6, <1>7 DEF Inv

LEMMA NextInv == TypeOK /\ Inv /\ [Next]_vars => Inv'
  BY PlanKeeps, FreezeKeeps, PrepareKeeps, FenceKeeps, ExecuteKeeps, VerifyKeeps,
     EditKeeps, CommitKeeps DEF Next, Transaction

-----------------------------------------------------------------------------
(* Of a step of the execution, path by path.                               *)
LEMMA OnlyWork ==
  ASSUME TypeOK, Inv, [Next]_vars, pc = "execute", states' # states,
         NEW p \in Paths, State(repo', p) # State(repo, p)
  PROVE  /\ p \in Operations
         /\ p \in late \/ /\ repo.tree[p] \in {After(p).node, Absent, repo'.tree[p]}
                          /\ repo.index[p] \in {After(p).entry, repo'.index[p]}
<1>1. PICK o \in DOMAIN states : Execute(o)
  BY DEF Next, Transaction, vars, PlanSelectiveRestore, Freeze, Prepare, FinalFence,
         VerifyPostTransplantState, UserEdits, UserCommits
<1>2. o \in Obligations /\ states[o] = "pending"
  BY <1>1 DEF Inv, Scheduled, After_prepare, After_freeze, After_plan, Execute, Due
<1>3. o.path \in Paths
  BY <1>2, ObligationPath DEF Inv, After_plan
<1>4. /\ p = o.path
      /\ o.phase = "index" => repo'.tree = repo.tree
      /\ o.phase # "index" => repo'.index = repo.index
  BY <1>1, <1>2, <1>3, ExecuteFrame
<1>5. p \in Operations
  BY <1>2, <1>4, ObligationShape DEF Operations
<1>6. p \in late \/ Intact(o)
  BY <1>2, <1>4 DEF Inv, Unharmed
<1> QED
  BY <1>2, <1>4, <1>5, <1>6, ObligationShape DEF Intact

(* The variables keep their types and the invariant holds, at every step   *)
(* of every rollback.                                                      *)
THEOREM TransplantInvariant == Spec => [](TypeOK /\ Inv)
<1>1. Init => TypeOK /\ Inv
  BY InitTypes, InitInv
<1>2. TypeOK /\ Inv /\ [Next]_vars => (TypeOK /\ Inv)'
  BY NextTypes, NextInv DEF Inv
<1> QED
  BY <1>1, <1>2, PTL DEF Spec

(* The plan, S, the schedule, the receipt and the user's checkout are of   *)
(* their types throughout (SelectivePlan, ProtectedStateMap, Schedule,     *)
(* PostTransplantVerification).                                            *)
THEOREM TypeCorrect == Spec => []TypeOK
  BY TransplantInvariant, PTL

(* What the receipt says of a path is so, whatever the tree, the selection *)
(* and the edits (verifyPostTransplantState).                              *)
THEOREM ReceiptIsTrue == Spec => []ReportIsTrue
<1>1. TypeOK /\ Inv => ReportIsTrue
  BY DEF Inv
<1> QED
  BY <1>1, TransplantInvariant, PTL

(* The execution changes only paths of the plan, and there only what the   *)
(* session left or what was edited since the fence (executeSelective-      *)
(* Transplant).                                                            *)
THEOREM OnlySessionWorkDestroyed == Spec => NothingElseDestroyed
<1>1. TypeOK /\ Inv /\ [Next]_vars =>
        [pc = "execute" /\ states' # states => \A p \in Paths :
           State(repo', p) # State(repo, p) =>
             /\ p \in Operations
             /\ p \in late \/ /\ repo.tree[p] \in {After(p).node, Absent, repo'.tree[p]}
                              /\ repo.index[p] \in {After(p).entry, repo'.index[p]}]_vars
  BY OnlyWork
<1> QED
  BY <1>1, TransplantInvariant, PTL DEF Spec, NothingElseDestroyed

-----------------------------------------------------------------------------
(* Paths.                                                                  *)
LEMMA PathType ==
  ASSUME NEW p \in Paths
  PROVE  p \in Seq(Nat) /\ Len(p) \in Nat \ {0}
<1>1. p \in Seq(Nat) /\ p # <<>>
  BY PathsAssumption DEF Root
<1> QED
  BY <1>1

LEMMA PathsEqual ==
  ASSUME NEW p \in Seq(Nat), NEW q \in Seq(Nat), Len(p) = Len(q),
         \A i \in 1 .. Len(p) : p[i] = q[i]
  PROVE  p = q
  BY SeqEqual

LEMMA Cut ==
  ASSUME NEW p \in Seq(Nat), NEW n \in 0 .. Len(p)
  PROVE  /\ SubSeq(p, 1, n) \in Seq(Nat)
         /\ Len(SubSeq(p, 1, n)) = n
         /\ \A i \in 1 .. n : SubSeq(p, 1, n)[i] = p[i]
<1>1. n \in Int /\ \A i \in 1 .. n : p[i] \in Nat
  OBVIOUS
<1> QED
  BY <1>1, SubSeqProperties

LEMMA AncestorIs ==
  ASSUME NEW p \in Paths, NEW a \in Paths
  PROVE  a \in Ancestors(p) <=> Len(a) < Len(p) /\ \A i \in 1 .. Len(a) : a[i] = p[i]
<1>1. /\ p \in Seq(Nat) /\ Len(p) \in Nat \ {0}
      /\ a \in Seq(Nat) /\ Len(a) \in Nat \ {0}
  BY PathType
<1>2. ASSUME a \in Ancestors(p)
      PROVE  Len(a) < Len(p) /\ \A i \in 1 .. Len(a) : a[i] = p[i]
  <2>1. PICK n \in 1 .. Len(p) - 1 : a = SubSeq(p, 1, n)
    BY <1>2 DEF Ancestors
  <2> QED
    BY <1>1, <2>1, Cut
<1>3. ASSUME Len(a) < Len(p), \A i \in 1 .. Len(a) : a[i] = p[i]
      PROVE  a \in Ancestors(p)
  <2>1. a = SubSeq(p, 1, Len(a))
    BY <1>1, <1>3, Cut, PathsEqual
  <2>2. Len(a) \in 1 .. Len(p) - 1
    BY <1>1, <1>3
  <2> QED
    BY <2>1, <2>2 DEF Ancestors
<1> QED
  BY <1>2, <1>3

LEMMA PrefixIs ==
  ASSUME NEW p \in Paths, NEW q \in Paths
  PROVE  IsPrefix(p, q) <=> p = q \/ p \in Ancestors(q)
<1>1. /\ p \in Seq(Nat) /\ Len(p) \in Nat \ {0}
      /\ q \in Seq(Nat) /\ Len(q) \in Nat \ {0}
  BY PathType
<1>2. SubSeq(p, 1, Len(p)) = p
  BY <1>1, SubSeqFull
<1>3. ASSUME Len(p) <= Len(q)
      PROVE  SubSeq(q, 1, Len(p)) = p <=> \A i \in 1 .. Len(p) : p[i] = q[i]
  BY <1>1, <1>3, Cut, PathsEqual
<1>4. IsPrefix(p, q) <=> Len(p) <= Len(q) /\ \A i \in 1 .. Len(p) : p[i] = q[i]
  BY <1>2, <1>3 DEF IsPrefix
<1>5. Len(p) = Len(q) /\ (\A i \in 1 .. Len(p) : p[i] = q[i]) => p = q
  BY <1>1, PathsEqual
<1> QED
  BY <1>1, <1>4, <1>5, AncestorIs

(* What is below a path has it among its ancestors, and is one of its      *)
(* children or below one.                                                  *)
LEMMA BelowIs ==
  ASSUME NEW p \in Paths
  PROVE  Below(p) = {q \in Paths : p \in Ancestors(q)}
<1>1. \A q \in Paths : p \in Ancestors(q) => p # q
  BY PathType, AncestorIs
<1> QED
  BY <1>1, PrefixIs DEF Below, IsStrictPrefix

LEMMA Shorter ==
  ASSUME NEW p \in Paths, NEW a \in Ancestors(p)
  PROVE  a \in Paths /\ Len(a) \in Nat /\ Len(p) \in Nat /\ Len(a) < Len(p)
<1>1. a \in Paths
  BY PathsAssumption
<1> QED
  BY <1>1, PathType, AncestorIs

LEMMA AncestorsNest ==
  ASSUME NEW p \in Paths, NEW a \in Ancestors(p), NEW b \in Ancestors(a)
  PROVE  b \in Ancestors(p)
<1>1. a \in Paths /\ b \in Paths
  BY Shorter
<1>2. /\ Len(a) < Len(p) /\ \A i \in 1 .. Len(a) : a[i] = p[i]
      /\ Len(b) < Len(a) /\ \A i \in 1 .. Len(b) : b[i] = a[i]
  BY <1>1, AncestorIs
<1>3. Len(a) \in Nat /\ Len(b) \in Nat /\ Len(p) \in Nat
  BY <1>1, PathType
<1>4. Len(b) < Len(p) /\ \A i \in 1 .. Len(b) : b[i] = p[i]
  BY <1>2, <1>3
<1> QED
  BY <1>1, <1>4, AncestorIs

LEMMA ChildAbove ==
  ASSUME NEW p \in Paths, NEW q \in Below(p)
  PROVE  \E c \in Children(p) : c = q \/ c \in Ancestors(q)
<1>1. /\ q \in Paths /\ p \in Ancestors(q)
      /\ p \in Seq(Nat) /\ Len(p) \in Nat \ {0}
      /\ q \in Seq(Nat) /\ Len(q) \in Nat \ {0}
      /\ Len(p) < Len(q) /\ \A i \in 1 .. Len(p) : p[i] = q[i]
  BY BelowIs, PathType, AncestorIs
<1>2. CASE Len(q) = Len(p) + 1
  BY <1>1, <1>2, PrefixIs DEF Children
<1>3. CASE Len(q) # Len(p) + 1
  <2> DEFINE c == SubSeq(q, 1, Len(p) + 1)
  <2>1. /\ c \in Seq(Nat) /\ Len(c) = Len(p) + 1
        /\ \A i \in 1 .. Len(p) + 1 : c[i] = q[i]
    BY <1>1, Cut
  <2>2. c \in Ancestors(q)
    <3>1. Len(p) + 1 \in 1 .. Len(q) - 1
      BY <1>1, <1>3
    <3> QED
      BY <3>1 DEF Ancestors
  <2>3. c \in Paths
    BY <2>2, <1>1, Shorter
  <2>4. p \in Ancestors(c)
    <3>1. Len(p) < Len(c) /\ \A i \in 1 .. Len(p) : p[i] = c[i]
      BY <1>1, <2>1
    <3> QED
      BY <2>3, <3>1, AncestorIs
  <2>5. c \in Children(p)
    BY <2>1, <2>3, <2>4, PrefixIs DEF Children
  <2> QED
    BY <2>2, <2>5
<1> QED
  BY <1>2, <1>3

LEMMA ChildIs ==
  ASSUME NEW p \in Paths, NEW q \in Children(p)
  PROVE  q \in Paths /\ q \in Below(p) /\ p \in Ancestors(q) /\ Len(q) = Len(p) + 1
<1>1. q \in Paths /\ Len(q) = Len(p) + 1 /\ IsPrefix(p, q)
  BY DEF Children
<1>2. p # q
  BY <1>1, PathType
<1> QED
  BY <1>1, <1>2, PrefixIs, BelowIs

LEMMA ParentIs ==
  ASSUME NEW p \in Paths
  PROVE  Parent(p) = Root \/ Parent(p) \in Ancestors(p)
<1>1. PICK n \in Nat : Len(p) = n + 1
  <2>1. Len(p) \in Nat \ {0}
    BY PathType
  <2> QED
    BY <2>1
<1>2. CASE n = 0
  <2>1. Parent(p) = SubSeq(p, 1, 0)
    BY <1>1, <1>2 DEF Parent, Front
  <2> QED
    BY <2>1, SubSeqEmpty DEF Root
<1>3. CASE n # 0
  <2>1. n \in 1 .. Len(p) - 1 /\ Len(p) - 1 = n
    BY <1>1, <1>3
  <2> QED
    BY <2>1 DEF Parent, Front, Ancestors
<1> QED
  BY <1>2, <1>3

-----------------------------------------------------------------------------
(* Of an execution beside which nothing is edited more is known: every     *)
(* path is where the obligations completed so far have taken it.           *)

(* Nothing is below what is no directory.                                  *)
Solid == \A p \in Paths : repo.tree[p] # Absent =>
           \A a \in Ancestors(p) : repo.tree[a] = Directory

(* The planner's verdict on the selected paths.                            *)
Judged ==
  pc \in After_plan =>
    plan.writes = {p \in selected : Verdict(p, plan.seen[p]) = "restore_required"}

(* S tells the same of a path that is protected and watched, and has the   *)
(* topology that the plan relies on: what goes with a directory is         *)
(* selected or a directory; what is to be written has directories above    *)
(* it, or will have; and no two index entries will be nested.              *)
Roots == RecursiveRoots \cup ImmediateRoots
Around(r) == IF r \in RecursiveRoots THEN Below(r) ELSE Children(r)

Shows(r, q, node) ==
  LET members == frozen.domain.watches[r]
  IN /\ node # Absent <=> q \in DOMAIN members
     /\ node # Absent => members[q] = KindOf(node)

Wanted == {p \in plan.writes : Before(p).node # Absent}

Foreseen ==
  LET snapshot == frozen.domain
  IN /\ \A r \in RecursiveRoots : \A q \in DOMAIN snapshot.watches[r] :
          IF q \in selected THEN Before(q).node = Absent
          ELSE snapshot.watches[r][q] = "directory"
     /\ \A p \in Wanted : \A a \in Ancestors(p) :
          /\ a \in DOMAIN snapshot.states
          /\ IF a \in selected THEN Before(a).node = Directory
             ELSE a \in DOMAIN plan.parents \/ snapshot.states[a].node = Directory
     /\ \A a \in DOMAIN plan.parents :
          /\ \E p \in Wanted : a \in Ancestors(p)
          /\ plan.parents[a].target = [snapshot.states[a] EXCEPT !.node = Directory]
     /\ \A p \in selected : Before(p).entry # Absent => \A q \in Related(p) :
          IF q \in selected THEN Before(q).entry = Absent
          ELSE q \in DOMAIN snapshot.states => snapshot.states[q].entry = Absent

Stabilized ==
  pc \in After_freeze =>
    /\ Foreseen
    /\ DOMAIN frozen.domain.states \subseteq Paths
    /\ \A p \in DOMAIN frozen.domain.states :
         frozen.domain.states[p] \in [node : Nodes, entry : Entries]
    /\ DOMAIN frozen.domain.watches = Roots
    /\ \A r \in Roots : DOMAIN frozen.domain.watches[r] \subseteq Around(r)
    /\ \A r \in Roots : \A q \in Around(r) \cap DOMAIN frozen.domain.states :
         Shows(r, q, frozen.domain.states[q].node)

(* The schedule runs in its order and ends with the first failure.         *)
InOrder ==
  /\ pc \in After_prepare => Schedulable
  /\ pc \in {"execute", "verify"} =>
       \A o, q \in Obligations :
         states[q] # "pending" /\ Precedes(o, q) => states[o] = "completed"
  /\ pc = "execute" => \A o \in Obligations : states[o] # "attempted"
  /\ pc = "verify" /\ stopped = "none" => \A o \in Obligations : states[o] = "completed"
  /\ stopped # "none" => pc \in {"verify", "done"}

(* What the obligations completed so far have made of S at p.              *)
Completed(phase, p) == ObligationState(phase, p) = "completed"

NodeNow(p) ==
  IF Completed("leaf", p) THEN Before(p).node
  ELSE IF Completed("directory", p) THEN Directory
  ELSE IF Completed("removal", p) THEN Absent
  ELSE frozen.domain.states[p].node

EntryNow(p) ==
  IF Completed("index", p) THEN Before(p).entry ELSE frozen.domain.states[p].entry

Followed(p) ==
  /\ repo.index[p] = EntryNow(p)
  /\ \/ repo.tree[p] = NodeNow(p)
     \/ ObligationState("leaf", p) = "attempted" /\ repo.tree[p] \in {Torn, Absent}

(* The rest of what is watched, and of the index, is as S has it.          *)
Undisturbed ==
  /\ \A r \in Roots : \A q \in Around(r) \ Operations : Shows(r, q, repo.tree[q])
  /\ Indexed(repo) \subseteq DOMAIN frozen.domain.states

OnSchedule ==
  pc \in {"execute", "verify"} /\ late = {} =>
    /\ \A p \in DOMAIN frozen.domain.states : Followed(p)
    /\ Undisturbed

Course == Solid /\ Judged /\ Stabilized /\ InOrder /\ OnSchedule

-----------------------------------------------------------------------------
(* What NodeKind tells apart.                                              *)
LEMMA NodeKinds ==
  ASSUME NEW n \in Nodes
  PROVE  /\ NodeKind(n) = "directory" <=> n = Directory
         /\ NodeKind(n) = "absent" <=> n = Absent
         /\ NodeKind(n) = "other" <=> n = Special
         /\ NodeKind(n) = "regular" <=> n \in Regular
         /\ NodeKind(n) = "symlink" <=> n \in Links
<1>1. \/ n \in Regular /\ NodeKind(n) = "regular"
      \/ n \in Links /\ NodeKind(n) = "symlink"
      \/ n = Special /\ NodeKind(n) = "other"
      \/ n = Directory /\ NodeKind(n) = "directory"
      \/ n = Absent /\ NodeKind(n) = "absent"
  BY NodesAssumption DEF Nodes, Leaves, NodeKind
<1> QED
  BY <1>1, NodesAssumption

LEMMA TornNode == Torn \in Regular /\ Torn # Absent /\ Torn # Directory
  BY NodesAssumption DEF Regular

(* A leaf is written where no directory is.                                *)
LEMMA LeafPlace ==
  ASSUME TypeOK, Inv, Schedulable, pc = "execute", NEW o \in Obligations,
         o.phase = "leaf", Able(o)
  PROVE  /\ o.path \in Paths /\ o.path \in selected
         /\ repo.tree[o.path] # Directory
         /\ Before(o.path).node \in Nodes \ {Directory, Absent}
<1>1. o.path \in Paths /\ o.path \in selected /\ o.path \in LeafWrites /\ o.path \in plan.writes
  BY ObligationPath, ObligationShape DEF Inv, After_plan
<1>2. Before(o.path).node \in Nodes \ {Directory, Absent}
  BY <1>1, BeforeTypes DEF Schedulable, LeafWrites
<1>3. NodeKind(repo.tree[o.path]) \in {"absent", NodeKind(Before(o.path).node)}
  BY DEF Able
<1>4. repo.tree[o.path] \in Nodes
  BY <1>1 DEF TypeOK, Worlds
<1> QED
  BY <1>1, <1>2, <1>3, <1>4, NodeKinds

LEMMA SolidStep ==
  ASSUME TypeOK, Inv, Solid, InOrder, [Next]_vars
  PROVE  Solid'
<1>1. repo' = repo => Solid'
  BY DEF Solid
<1>2. ASSUME NEW o \in DOMAIN states, Execute(o), repo' # repo
      PROVE  Solid'
  <2> DEFINE p == o.path
  <2>1. pc = "execute" /\ o \in Obligations /\ Able(o)
    BY <1>2 DEF Execute, Inv, Scheduled, After_prepare, After_freeze, After_plan
  <2>2. p \in Paths /\ repo \in Worlds
    BY <2>1, ObligationPath DEF Inv, After_plan, TypeOK
  <2>3. o.phase \in {"removal", "directory", "leaf", "index"}
    BY <2>1, ObligationShape
  <2>4. repo' = Effect(o) \/ repo' \in Halfway(o)
    BY <1>2 DEF Execute
  <2>5. CASE o.phase = "removal"
    <3>1. repo'.tree = [repo.tree EXCEPT ![p] = Absent]
      BY <1>2, <2>2, <2>4, <2>5 DEF Effect, Halfway, Worlds
    <3>2. \A c \in Children(p) : repo.tree[c] = Absent
      BY <2>1, <2>5 DEF Able
    <3>3. ASSUME NEW q \in Paths, repo'.tree[q] # Absent, NEW a \in Ancestors(q)
          PROVE  repo'.tree[a] = Directory
      <4>1. q # p /\ repo.tree[q] # Absent
        BY <2>2, <3>1, <3>3 DEF Worlds
      <4>2. \A b \in Ancestors(q) : b \in Paths /\ repo.tree[b] = Directory
        BY <4>1, Shorter DEF Solid
      <4>3. a # p
        <5>1. SUFFICES ASSUME p \in Ancestors(q) PROVE FALSE
          BY <3>3
        <5>2. q \in Below(p)
          BY <2>2, <5>1, BelowIs
        <5>3. PICK c \in Children(p) : c = q \/ c \in Ancestors(q)
          BY <2>2, <5>2, ChildAbove
        <5> QED
          BY <3>2, <4>1, <4>2, <5>3, NodesAssumption
      <4> QED
        BY <2>2, <3>1, <3>3, <4>2, <4>3 DEF Worlds
    <3> QED
      BY <3>3 DEF Solid
  <2>6. CASE o.phase = "directory"
    <3>1. repo'.tree = [repo.tree EXCEPT ![p] = Directory]
      BY <1>2, <2>2, <2>4, <2>6 DEF Effect, Halfway, Worlds
    <3>2. Reachable(p)
      BY <2>1, <2>6 DEF Able
    <3> QED
      BY <2>2, <3>1, <3>2, Shorter DEF Solid, Reachable, Worlds
  <2>7. CASE o.phase = "leaf"
    <3>1. \E n \in {Before(p).node, Torn, Absent} : repo'.tree = [repo.tree EXCEPT ![p] = n]
      BY <1>2, <2>2, <2>4, <2>7 DEF Effect, Halfway, Worlds
    <3>2. repo.tree[p] # Directory
      BY <2>1, <2>7, LeafPlace DEF InOrder, After_prepare, After_freeze, After_plan
    <3>3. Reachable(p)
      BY <2>1, <2>7 DEF Able
    <3>4. ASSUME NEW q \in Paths, repo'.tree[q] # Absent, NEW a \in Ancestors(q)
          PROVE  repo'.tree[a] = Directory
      <4>1. a \in Paths /\ p \notin Ancestors(p)
        BY <2>2, <3>4, Shorter
      <4>2. repo.tree[a] = Directory
        BY <2>2, <3>1, <3>3, <3>4 DEF Solid, Reachable, Worlds
      <4> QED
        BY <2>2, <3>1, <3>2, <4>1, <4>2 DEF Worlds
    <3> QED
      BY <3>4 DEF Solid
  <2>8. CASE o.phase = "index"
    <3>1. repo'.tree = repo.tree
      BY <1>2, <2>2, <2>4, <2>8 DEF Effect, Transplanted, Halfway, Worlds
    <3> QED
      BY <3>1 DEF Solid
  <2> QED
    BY <2>3, <2>5, <2>6, <2>7, <2>8
<1>3. ASSUME NEW e \in Paths, UserEdits(e)
      PROVE  Solid'
  <2>1. Coherent(repo')
    BY <1>3 DEF UserEdits, Edited
  <2> QED
    BY <2>1 DEF Coherent, Solid
<1>4. \/ repo' = repo
      \/ \E o \in DOMAIN states : Execute(o) /\ repo' # repo
      \/ \E e \in Paths : UserEdits(e)
  BY DEF Next, Transaction, vars, PlanSelectiveRestore, Freeze, Prepare, FinalFence,
         VerifyPostTransplantState, UserCommits
<1> QED
  BY <1>1, <1>2, <1>3, <1>4

-----------------------------------------------------------------------------
(* What is watched are directories of the repository, or its root.         *)
LEMMA RootsArePaths ==
  ASSUME TypeOK, Planned, pc \in After_plan
  PROVE  /\ RecursiveRoots \subseteq Paths
         /\ TouchesTree \subseteq Paths
         /\ \A r \in Roots : r = Root \/ r \in Paths
<1>1. plan.writes \subseteq Paths /\ DOMAIN plan.parents \subseteq Paths
  BY DEF TypeOK, Planned
<1>2. RecursiveRoots \subseteq Paths /\ TouchesTree \subseteq Paths
  BY <1>1 DEF RecursiveRoots, TouchesTree
<1>3. \A p \in TouchesTree : Parent(p) = Root \/ Parent(p) \in Paths
  BY <1>2, ParentIs, Shorter
<1> QED
  BY <1>2, <1>3 DEF Roots, ImmediateRoots

(* A watch shows what is around the root of it, whatever has become of the *)
(* root.                                                                   *)
LEMMA WatchesShow ==
  ASSUME TypeOK, Planned, Solid, pc \in After_plan, NEW r \in Roots
  PROVE  /\ DOMAIN WatchesOf(repo)[r] \subseteq Around(r)
         /\ \A q \in Around(r) :
              /\ repo.tree[q] # Absent <=> q \in DOMAIN WatchesOf(repo)[r]
              /\ repo.tree[q] # Absent => WatchesOf(repo)[r][q] = KindOf(repo.tree[q])
<1>1. (r = Root /\ r \notin RecursiveRoots) \/ r \in Paths
  BY RootsArePaths, PathsAssumption
<1>2. CASE r = Root \/ repo.tree[r] = Directory
  <2>1. WatchesOf(repo)[r] = MembersAmong(repo, Around(r))
    BY <1>1, <1>2 DEF WatchesOf, Roots, Around
  <2> QED
    BY <2>1 DEF MembersAmong
<1>3. CASE r # Root /\ repo.tree[r] # Directory
  <2>1. WatchesOf(repo)[r] = <<>>
    BY <1>3 DEF WatchesOf, Roots
  <2>2. DOMAIN WatchesOf(repo)[r] = {}
    BY <2>1
  <2>3. \A q \in Around(r) : q \in Paths /\ r \in Ancestors(q)
    BY <1>1, <1>3, BelowIs, ChildIs DEF Around
  <2>4. \A q \in Around(r) : repo.tree[q] = Absent
    BY <1>3, <2>3 DEF Solid
  <2> QED
    BY <2>2, <2>4
<1> QED
  BY <1>2, <1>3

(* What a topology without a conflict grants.                              *)
Grants(topology, observed, members) ==
  LET wanted == {p \in topology.writes : Before(p).node # Absent}
  IN /\ topology.writes = {p \in selected : Verdict(p, observed[p]) = "restore_required"}
     /\ \A p \in topology.writes : Destroys(p, observed[p]) => Uncovered(members[p]) = {}
     /\ \A p \in wanted : \A a \in Ancestors(p) :
          IF a \in selected THEN Before(a).node = Directory
          ELSE \/ a \in topology.dependencies /\ observed[a].node = Directory
               \/ a \in DOMAIN topology.parents
     /\ \A a \in DOMAIN topology.parents :
          /\ \E p \in wanted : a \in Ancestors(p)
          /\ topology.parents[a].target = [observed[a] EXCEPT !.node = Directory]
     /\ \A a \in topology.dependencies : \E p \in wanted : a \in Ancestors(p)
     /\ ~IndexCollision({p \in DOMAIN observed : observed[p].entry # Absent})

LEMMA Granted ==
  ASSUME NEW observed, NEW members, ~Topology(observed, members).conflict
  PROVE  Grants(Topology(observed, members), observed, members)
<1> DEFINE writes == {p \in selected : Verdict(p, observed[p]) = "restore_required"}
           wanted == {p \in writes : Before(p).node # Absent}
           needed == UNION {Ancestors(p) : p \in wanted}
           asked == needed \ selected
           kept == {a \in asked : observed[a].node = Directory}
           created == {a \in asked : observed[a].node = Absent}
           t == Topology(observed, members)
<1>1. /\ t.writes = writes /\ t.dependencies = kept
      /\ DOMAIN t.parents = created
      /\ \A a \in created : t.parents[a].target = [observed[a] EXCEPT !.node = Directory]
  BY DEF Topology
<1>2. /\ \A p \in writes : Destroys(p, observed[p]) => Uncovered(members[p]) = {}
      /\ \A a \in needed \cap selected : Before(a).node = Directory
      /\ asked = kept \cup created
      /\ ~IndexCollision({p \in DOMAIN observed : observed[p].entry # Absent})
  BY DEF Topology
<1>3. ASSUME NEW p \in wanted, NEW a \in Ancestors(p)
      PROVE  IF a \in selected THEN Before(a).node = Directory
             ELSE \/ a \in t.dependencies /\ observed[a].node = Directory
                  \/ a \in DOMAIN t.parents
  <2>1. a \in needed
    BY <1>3
  <2> QED
    BY <1>1, <1>2, <2>1
<1>4. \A a \in created \cup kept : \E p \in wanted : a \in Ancestors(p)
  OBVIOUS
<1> QED
  BY <1>1, <1>2, <1>3, <1>4 DEF Grants

-----------------------------------------------------------------------------
(* What the plan fixes.                                                    *)
LEMMA Fixed ==
  ASSUME UNCHANGED <<oracle, ended, selected, plan>>
  PROVE  /\ \A p : Before(p)' = Before(p)
         /\ TouchesTree' = TouchesTree
         /\ RecursiveRoots' = RecursiveRoots
         /\ Roots' = Roots
         /\ \A r : Around(r)' = Around(r)
         /\ Wanted' = Wanted
         /\ Obligations' = Obligations
         /\ Operations' = Operations
<1>1. \A p : Before(p)' = Before(p)
  BY DEF Before, State
<1>2. TouchesTree' = TouchesTree
  BY <1>1 DEF TouchesTree
<1>3. RecursiveRoots' = RecursiveRoots
  BY <1>1 DEF RecursiveRoots, Destroys
<1>4. Roots' = Roots /\ \A r : Around(r)' = Around(r)
  BY <1>2, <1>3 DEF Roots, ImmediateRoots, Around
<1>5. Wanted' = Wanted /\ Operations' = Operations
  BY <1>1 DEF Wanted, Operations
<1>6. Obligations' = Obligations
  BY <1>1 DEF Obligations, Removals, LeafWrites, IndexWrites
<1> QED
  BY <1>1, <1>2, <1>3, <1>4, <1>5, <1>6

(* The kinds of nodes that a verdict lets through.                         *)
LEMMA WrittenKinds ==
  ASSUME Judged, pc \in After_plan, NEW p \in plan.writes
  PROVE  /\ p \in selected /\ plan.seen[p] # Before(p)
         /\ Special \notin {plan.seen[p].node, Before(p).node}
  BY DEF Judged, Verdict, Unsupported

LEMMA PlanJudged == PlanSelectiveRestore /\ TypeOK /\ pc' # "done" => Judged'
<1> SUFFICES ASSUME PlanSelectiveRestore, TypeOK, pc' # "done" PROVE Judged'
  OBVIOUS
<1> DEFINE observed == [p \in Paths |-> State(repo, p)]
           members == [p \in Paths |-> MembersAmong(repo, Below(p))]
<1>1. plan' = Topology(observed, members) /\ ~Topology(observed, members).conflict
      /\ UNCHANGED <<oracle, ended, selected>> /\ selected \subseteq Paths
  BY DEF PlanSelectiveRestore, Stop, TypeOK
<1>2. plan'.writes = {p \in selected : Verdict(p, observed[p]) = "restore_required"}
      /\ plan'.seen = [p \in selected |-> observed[p]]
  BY <1>1 DEF Topology
<1>3. plan'.writes = {p \in selected : Verdict(p, plan'.seen[p]) = "restore_required"}
  BY <1>2
<1> QED
  BY <1>1, <1>3 DEF Judged, Verdict, Before, After, State, Unsupported

(* What a frozen and stabilized plan can rely on.                          *)
LEMMA FreezeForesees ==
  ASSUME TypeOK, Inv, Solid, Judged, Freeze, pc' # "done"
  PROVE  Stabilized'
<1> DEFINE S == Capture(repo, ProtectedPaths(repo))
           again == Topology(S.states, S.watches)
<1>1. /\ frozen'.domain = S /\ Stable(S) /\ pc = "freeze" /\ pc' = "prepare"
      /\ UNCHANGED <<oracle, ended, selected, plan>>
  BY DEF Freeze, Stop
<1>2. pc \in After_plan /\ Planned /\ selected \subseteq Paths
  BY <1>1 DEF After_plan, Inv, TypeOK
<1>3. /\ \A p \in selected : S.states[p] = plan.seen[p]
      /\ ~again.conflict
      /\ again.dependencies = plan.dependencies
      /\ again.parents = plan.parents
  BY <1>1 DEF Stable
<1>4. /\ DOMAIN S.states = ProtectedPaths(repo)
      /\ \A p \in ProtectedPaths(repo) : S.states[p] = State(repo, p)
      /\ S.watches = WatchesOf(repo)
  BY DEF Capture
<1>5. Grants(again, S.states, S.watches)
  BY <1>3, Granted
<1> HIDE DEF S, again
<1>6. again.writes = plan.writes
  <2>1. again.writes = {p \in selected : Verdict(p, S.states[p]) = "restore_required"}
    BY <1>5 DEF Grants
  <2> QED
    BY <1>2, <1>3, <2>1 DEF Judged
<1>7. Wanted \subseteq Paths /\ plan.writes \subseteq selected
  BY <1>2 DEF Wanted, Planned
<1>8. DOMAIN S.states \subseteq Paths
  <2>1. plan.dependencies \subseteq Paths
    BY <1>3, <1>5, <1>6, <1>7, Shorter DEF Grants, Wanted
  <2>2. \A p \in TouchesTree : Parent(p) = Root \/ Parent(p) \in Paths
    BY <1>2, RootsArePaths, ParentIs, Shorter
  <2>3. DOMAIN plan.parents \subseteq Paths /\ Listed(repo) \subseteq Paths
    BY <1>2 DEF Planned, Listed, Indexed
  <2> QED
    BY <1>2, <1>4, <2>1, <2>2, <2>3 DEF ProtectedPaths
<1>9. DOMAIN S.watches = Roots
  BY <1>4 DEF WatchesOf, Roots
<1>10. ASSUME NEW r \in Roots, NEW q \in Around(r) \cap DOMAIN S.states
      PROVE  /\ S.states[q].node # Absent <=> q \in DOMAIN S.watches[r]
             /\ S.states[q].node # Absent => S.watches[r][q] = KindOf(S.states[q].node)
  <2>1. S.states[q] = State(repo, q)
    BY <1>4, <1>10
  <2>2. S.states[q].node = repo.tree[q]
    BY <2>1 DEF State
  <2> QED
    BY <1>2, <1>4, <1>10, <2>2, WatchesShow
<1>11. ASSUME NEW r \in RecursiveRoots, NEW q \in DOMAIN S.watches[r]
       PROVE  IF q \in selected THEN Before(q).node = Absent ELSE S.watches[r][q] = "directory"
  <2>1. r \in plan.writes /\ Destroys(r, S.states[r])
    BY <1>3, <1>7, <1>11 DEF RecursiveRoots
  <2>2. Uncovered(S.watches[r]) = {}
    BY <1>3, <1>6, <2>1, <1>5 DEF Grants
  <2> QED
    BY <1>11, <2>2 DEF Uncovered
<1>12. ASSUME NEW p \in Wanted, NEW a \in Ancestors(p)
       PROVE  /\ a \in DOMAIN S.states
              /\ IF a \in selected THEN Before(a).node = Directory
                 ELSE a \in DOMAIN plan.parents \/ S.states[a].node = Directory
  <2>1. IF a \in selected THEN Before(a).node = Directory
        ELSE \/ a \in plan.dependencies /\ S.states[a].node = Directory
             \/ a \in DOMAIN plan.parents
    BY <1>3, <1>6, <1>12, <1>5 DEF Grants, Wanted
  <2> QED
    BY <1>4, <2>1 DEF ProtectedPaths
<1>13. ASSUME NEW a \in DOMAIN plan.parents
       PROVE  /\ \E p \in Wanted : a \in Ancestors(p)
              /\ plan.parents[a].target = [S.states[a] EXCEPT !.node = Directory]
  BY <1>3, <1>6, <1>13, <1>5 DEF Grants, Wanted
<1>14. ASSUME NEW p \in selected, Before(p).entry # Absent, NEW q \in Related(p)
       PROVE  IF q \in selected THEN Before(q).entry = Absent
              ELSE q \in DOMAIN S.states => S.states[q].entry = Absent
  <2> DEFINE population == {x \in DOMAIN S.states : S.states[x].entry # Absent}
             projected == (population \ selected) \cup {x \in selected : Before(x).entry # Absent}
  <2>1. ~IndexCollision(population)
    BY <1>3, <1>5 DEF Grants
  <2>2. \A x \in projected : Ancestors(x) \cap projected = {}
    BY <2>1 DEF IndexCollision
  <2>3. p \in projected /\ p \in Paths
    BY <1>2, <1>14
  <2>4. q \in Ancestors(p) \/ p \in Ancestors(q)
    BY <1>14, <2>3, BelowIs DEF Related
  <2>5. q \notin projected
    BY <2>2, <2>3, <2>4
  <2> QED
    BY <2>5
<1>15. /\ Roots' = Roots /\ RecursiveRoots' = RecursiveRoots /\ Wanted' = Wanted
       /\ \A r : Around(r)' = Around(r)
       /\ \A p : Before(p)' = Before(p)
  BY <1>1, Fixed
<1>16. ASSUME NEW p \in DOMAIN S.states
       PROVE  S.states[p] \in [node : Nodes, entry : Entries]
  <2>1. S.states[p] = State(repo, p) /\ p \in Paths /\ repo \in Worlds
    BY <1>4, <1>8, <1>16 DEF TypeOK
  <2> QED
    BY <2>1 DEF State, Worlds
<1>17. \A r \in Roots : DOMAIN S.watches[r] \subseteq Around(r)
  BY <1>2, <1>4, WatchesShow
<1>18. Foreseen'
  BY <1>1, <1>11, <1>12, <1>13, <1>14, <1>15 DEF Foreseen
<1> QED
  BY <1>1, <1>8, <1>9, <1>10, <1>15, <1>16, <1>17, <1>18 DEF Stabilized, Shows

-----------------------------------------------------------------------------
(* The order of the schedule, one step after the other.                    *)
LEMMA InOrderStep ==
  ASSUME TypeOK, Inv, InOrder, [Next]_vars
  PROVE  InOrder'
<1> USE DEF After_prepare, After_freeze, After_plan
<1>1. CASE PlanSelectiveRestore \/ Freeze
  BY <1>1 DEF PlanSelectiveRestore, Freeze, Stop, InOrder
<1>2. CASE Prepare
  BY <1>2 DEF Prepare, Stop, InOrder, Schedulable, Before, State
<1>3. CASE FinalFence
  <2>1. /\ pc = "fence" /\ pc' \in {"execute", "done"}
        /\ UNCHANGED <<oracle, ended, selected, plan, states, stopped>>
    BY <1>3 DEF FinalFence, Stop
  <2>2. Obligations' = Obligations /\ Schedulable /\ stopped = "none"
    BY <2>1, Fixed DEF InOrder
  <2>3. \A o \in Obligations : states'[o] = "pending"
    BY <2>1 DEF Inv, Scheduled
  <2> QED
    BY <2>1, <2>2, <2>3 DEF InOrder, Schedulable, Before, State
<1>4. ASSUME NEW o \in DOMAIN states, Execute(o) PROVE InOrder'
  <2>1. /\ pc = "execute" /\ o \in Obligations /\ DOMAIN states = Obligations
        /\ UNCHANGED <<oracle, ended, selected, plan>>
        /\ states[o] = "pending"
        /\ \A q \in Obligations : Precedes(q, o) => states[q] = "completed"
    BY <1>4 DEF Execute, Due, Inv, Scheduled
  <2>2. Obligations' = Obligations /\ Schedulable /\ stopped = "none"
    BY <2>1, Fixed DEF InOrder
  <2>3. /\ \A q \in Obligations \ {o} : states'[q] = states[q]
        /\ \/ /\ states'[o] = "completed" /\ stopped' = "none"
              /\ \/ pc' = "execute"
                 \/ pc' = "verify" /\ \A q \in Obligations \ {o} : states[q] = "completed"
           \/ states'[o] = "attempted" /\ stopped' # "none" /\ pc' = "verify"
    BY <1>4, <2>1, <2>2 DEF Execute, Becomes
  <2>4. ASSUME NEW q \in Obligations, NEW x \in Obligations, states'[x] # "pending", Precedes(q, x)
        PROVE  states'[q] = "completed"
    <3>1. CASE x = o
      BY <2>1, <2>3, <2>4, <3>1
    <3>2. CASE x # o
      <4>1. states[q] = "completed"
        BY <2>1, <2>3, <2>4, <3>2 DEF InOrder
      <4> QED
        BY <2>1, <2>3, <4>1
    <3> QED
      BY <3>1, <3>2
  <2>5. Schedulable'
    BY <2>1, <2>2 DEF Schedulable, Before, State
  <2> QED
    BY <2>1, <2>2, <2>3, <2>4, <2>5 DEF InOrder
<1>5. CASE VerifyPostTransplantState
  BY <1>5 DEF VerifyPostTransplantState, Stop, InOrder
<1>6. ASSUME UNCHANGED <<oracle, ended, selected, plan, states, pc, stopped>> PROVE InOrder'
  <2>1. Obligations' = Obligations
    BY <1>6, Fixed
  <2> QED
    BY <1>6, <2>1 DEF InOrder, Schedulable, Before, State
<1>7. (\E p \in Paths : UserEdits(p)) \/ UserCommits \/ UNCHANGED vars =>
        UNCHANGED <<oracle, ended, selected, plan, states, pc, stopped>>
  BY DEF UserEdits, UserCommits, vars
<1> QED
  BY <1>1, <1>2, <1>3, <1>4, <1>5, <1>6, <1>7 DEF Next, Transaction

(* No obligation of a later phase has begun.                               *)
LEMMA NotYet ==
  ASSUME InOrder, pc = "execute", NEW o \in Obligations, NEW q \in Obligations,
         states[o] = "pending", Rank[o.phase] < Rank[q.phase]
  PROVE  states[q] = "pending"
<1>1. Precedes(o, q)
  BY DEF Precedes
<1> QED
  BY <1>1 DEF InOrder

LEMMA ObligationOf ==
  ASSUME Inv, pc \in After_prepare, NEW phase, NEW p
  PROVE  ObligationState(phase, p) =
           IF [phase |-> phase, path |-> p] \in Obligations
           THEN states[[phase |-> phase, path |-> p]] ELSE "absent"
  BY DEF Inv, Scheduled, ObligationState

(* Which obligations there may be at a path.                               *)
LEMMA ObligationsAt ==
  ASSUME TypeOK, Inv, pc \in After_prepare, NEW p
  PROVE  /\ Completed("directory", p) => p \in DOMAIN plan.parents /\ p \notin selected
         /\ Completed("removal", p) => p \in Removals /\ p \in selected
         /\ ObligationState("leaf", p) # "absent" => p \in LeafWrites /\ p \in selected
         /\ Completed("index", p) => p \in IndexWrites /\ p \in selected
<1> DEFINE at(phase) == [phase |-> phase, path |-> p]
<1>1. Planned /\ pc \in After_plan
  BY DEF Inv, After_prepare, After_freeze, After_plan
<1>2. \A phase : ObligationState(phase, p) # "absent" => at(phase) \in Obligations
  BY ObligationOf
<1>3. \A phase : at(phase).phase = phase /\ at(phase).path = p
  OBVIOUS
<1>4. at("directory") \in Obligations => p \in DOMAIN plan.parents /\ p \notin selected
  BY <1>1, <1>3, ObligationShape, ObligationPath
<1>5. at("removal") \in Obligations => p \in Removals /\ p \in selected
  BY <1>1, <1>3, ObligationShape, ObligationPath
<1>6. at("leaf") \in Obligations => p \in LeafWrites /\ p \in selected
  BY <1>1, <1>3, ObligationShape, ObligationPath
<1>7. at("index") \in Obligations => p \in IndexWrites /\ p \in selected
  BY <1>1, <1>3, ObligationShape, ObligationPath
<1> QED
  BY <1>2, <1>4, <1>5, <1>6, <1>7 DEF Completed

-----------------------------------------------------------------------------
(* Every path goes where its obligations take it.                          *)
LEMMA SameCourse ==
  ASSUME UNCHANGED <<oracle, ended, selected, plan, frozen, repo, states>>
  PROVE  /\ \A p : Followed(p)' = Followed(p)
         /\ Undisturbed' = Undisturbed
<1>1. /\ Roots' = Roots /\ Operations' = Operations
      /\ \A r : Around(r)' = Around(r)
      /\ \A p : Before(p)' = Before(p)
  BY Fixed
<1>2. \A p : Followed(p)' = Followed(p)
  BY <1>1 DEF Followed, EntryNow, NodeNow, Completed, ObligationState
<1>3. \A r, q, node : Shows(r, q, node)' = Shows(r, q, node)
  BY DEF Shows
<1>4. Undisturbed' = Undisturbed
  BY <1>1, <1>3 DEF Undisturbed, Indexed
<1> QED
  BY <1>2, <1>4

(* The fence has found everything as S has it.                             *)
LEMMA FenceFollows ==
  ASSUME TypeOK, Inv, Solid, Stabilized, FinalFence, pc' # "done"
  PROVE  (\A p \in DOMAIN frozen.domain.states : Followed(p)) /\ Undisturbed
<1>1. pc = "fence" /\ pc \in After_prepare /\ pc \in After_plan /\ pc \in After_freeze
  BY DEF FinalFence, After_prepare, After_freeze, After_plan
<1>2. /\ DOMAIN frozen.domain.states = ProtectedPaths(repo)
      /\ \A p \in ProtectedPaths(repo) : frozen.domain.states[p] = State(repo, p)
      /\ frozen.domain.watches = WatchesOf(repo)
  BY DEF FinalFence, Stop, Unmoved, Capture
<1>3. \A phase, p : ~Completed(phase, p)
  BY <1>1, ObligationOf DEF Completed, Inv, Scheduled
<1>4. ASSUME NEW p \in DOMAIN frozen.domain.states PROVE Followed(p)
  <2>1. frozen.domain.states[p] = State(repo, p)
    BY <1>2, <1>4
  <2> QED
    BY <1>3, <2>1 DEF Followed, NodeNow, EntryNow, State
<1>5. \A r \in Roots : \A q \in Around(r) : Shows(r, q, repo.tree[q])
  BY <1>1, <1>2, WatchesShow DEF Shows, Inv
<1>6. Indexed(repo) \subseteq DOMAIN frozen.domain.states
  BY <1>2 DEF ProtectedPaths, Listed
<1> QED
  BY <1>4, <1>5, <1>6 DEF Undisturbed

(* What a step of the execution makes of its own path.                     *)
LEMMA StepFollows ==
  ASSUME TypeOK, Inv, Stabilized, InOrder, NEW o \in DOMAIN states, Execute(o),
         o.path \in DOMAIN frozen.domain.states, Followed(o.path)
  PROVE  Followed(o.path)'
<1> DEFINE p == o.path
           at(phase) == [phase |-> phase, path |-> p]
<1>1. /\ pc = "execute" /\ pc \in After_prepare /\ pc \in After_plan
      /\ DOMAIN states = Obligations /\ o \in Obligations
      /\ UNCHANGED <<oracle, ended, selected, plan, frozen>>
      /\ states[o] = "pending"
  BY DEF Execute, Due, Inv, Scheduled, After_prepare, After_freeze, After_plan
<1>2. p \in Paths /\ repo \in Worlds
  BY <1>1, ObligationPath DEF Inv, TypeOK
<1>3. o = at(o.phase) /\ o.phase \in {"removal", "directory", "leaf", "index"}
  BY <1>1, ObligationShape
<1>4. /\ \A phase : phase # o.phase => ObligationState(phase, p)' = ObligationState(phase, p)
      /\ ObligationState(o.phase, p) = "pending"
      /\ ObligationState(o.phase, p)' = states'[o]
  <2>1. DOMAIN states' = DOMAIN states /\ \A q \in DOMAIN states \ {o} : states'[q] = states[q]
    BY DEF Execute, Becomes
  <2>2. \A phase : phase # o.phase => at(phase) # o
    BY <1>3
  <2> QED
    BY <1>1, <1>3, <2>1, <2>2 DEF ObligationState
<1>5. /\ frozen' = frozen /\ \A q : Before(q)' = Before(q)
  BY <1>1, Fixed
<1>6. \A phase : Rank[o.phase] < Rank[phase] /\ phase \in {"removal", "directory", "leaf", "index"}
        => ObligationState(phase, p) \in {"pending", "absent"}
  <2> SUFFICES ASSUME NEW phase \in {"removal", "directory", "leaf", "index"},
                      Rank[o.phase] < Rank[phase], at(phase) \in Obligations
               PROVE  states[at(phase)] = "pending"
    BY <1>1, ObligationOf
  <2> QED
    BY <1>1, NotYet
<1>7. o.phase \in {"removal", "leaf", "index"} => ~Completed("directory", p)
  BY <1>1, ObligationsAt, ObligationPath DEF Inv
<1>8. o.phase = "directory" => ObligationState("leaf", p) = "absent"
  BY <1>1, ObligationsAt, ObligationPath DEF Inv
<1>9. repo.index[p] = EntryNow(p)
  BY DEF Followed
<1>10. repo.tree[p] = NodeNow(p)
  <2>1. ObligationState("leaf", p) # "attempted"
    BY <1>1, ObligationOf DEF InOrder
  <2> QED
    BY <2>1 DEF Followed
<1>11. CASE /\ Able(o) /\ repo' = Effect(o) /\ states'[o] = "completed"
  <2>1. CASE o.phase = "removal"
    <3>1. repo'.tree[p] = Absent /\ repo'.index[p] = repo.index[p]
      BY <1>2, <1>11, <2>1 DEF Effect, Worlds
    <3>2. ObligationState("leaf", p) \in {"pending", "absent"}
      BY <1>6, <2>1 DEF Rank
    <3>3. NodeNow(p)' = Absent
      BY <1>4, <1>7, <1>11, <2>1, <3>2 DEF NodeNow, Completed
    <3>4. EntryNow(p)' = EntryNow(p)
      BY <1>4, <1>5, <2>1 DEF EntryNow, Completed
    <3> QED
      BY <1>9, <3>1, <3>3, <3>4 DEF Followed
  <2>2. CASE o.phase = "directory"
    <3>1. repo'.tree[p] = Directory /\ repo'.index[p] = repo.index[p]
      BY <1>2, <1>11, <2>2 DEF Effect, Worlds
    <3>2. NodeNow(p)' = Directory
      BY <1>4, <1>8, <1>11, <2>2 DEF NodeNow, Completed
    <3>3. EntryNow(p)' = EntryNow(p)
      BY <1>4, <1>5, <2>2 DEF EntryNow, Completed
    <3> QED
      BY <1>9, <3>1, <3>2, <3>3 DEF Followed
  <2>3. CASE o.phase = "leaf"
    <3>1. repo'.tree[p] = Before(p).node /\ repo'.index[p] = repo.index[p]
      BY <1>2, <1>11, <2>3 DEF Effect, Worlds
    <3>2. NodeNow(p)' = Before(p).node
      BY <1>4, <1>5, <1>11, <2>3 DEF NodeNow, Completed
    <3>3. EntryNow(p)' = EntryNow(p)
      BY <1>4, <1>5, <2>3 DEF EntryNow, Completed
    <3> QED
      BY <1>9, <3>1, <3>2, <3>3 DEF Followed
  <2>4. CASE o.phase = "index"
    <3>1. repo'.tree[p] = repo.tree[p] /\ repo'.index[p] = Before(p).entry
      BY <1>2, <1>11, <2>4 DEF Effect, Transplanted, Worlds
    <3>2. NodeNow(p)' = NodeNow(p)
      BY <1>4, <1>5, <2>4 DEF NodeNow, Completed
    <3>3. EntryNow(p)' = Before(p).entry
      BY <1>4, <1>5, <1>11, <2>4 DEF EntryNow, Completed
    <3> QED
      BY <1>10, <3>1, <3>2, <3>3 DEF Followed
  <2> QED
    BY <1>3, <2>1, <2>2, <2>3, <2>4
<1>12. CASE states'[o] = "attempted"
  <2>1. \A phase : Completed(phase, p)' = Completed(phase, p)
    BY <1>4, <1>12 DEF Completed
  <2>2. NodeNow(p)' = NodeNow(p) /\ EntryNow(p)' = EntryNow(p)
    BY <1>5, <2>1 DEF NodeNow, EntryNow
  <2>3. repo' = repo \/ repo' \in Halfway(o)
    BY <1>12 DEF Execute, Becomes
  <2>4. CASE repo' = repo
    BY <1>9, <1>10, <2>2, <2>4 DEF Followed
  <2>5. CASE repo' # repo
    <3>1. o.phase = "leaf" /\ repo'.tree[p] \in {Torn, Absent} /\ repo'.index[p] = repo.index[p]
      BY <1>2, <2>3, <2>5 DEF Halfway, Worlds
    <3> QED
      BY <1>4, <1>9, <1>12, <2>2, <3>1 DEF Followed
  <2> QED
    BY <2>4, <2>5
<1> QED
  BY <1>1, <1>11, <1>12 DEF Execute, Becomes

LEMMA ExecuteFollows ==
  ASSUME TypeOK, Inv, Stabilized, InOrder, NEW o \in DOMAIN states, Execute(o),
         \A p \in DOMAIN frozen.domain.states : Followed(p), Undisturbed
  PROVE  (\A p \in DOMAIN frozen.domain.states : Followed(p)') /\ Undisturbed'
<1>1. /\ pc = "execute" /\ pc \in After_freeze /\ pc \in After_plan
      /\ DOMAIN states = Obligations /\ o \in Obligations
      /\ UNCHANGED <<oracle, ended, selected, plan, frozen>>
  BY DEF Execute, Inv, Scheduled, After_prepare, After_freeze, After_plan
<1>2. o.path \in Paths
  BY <1>1, ObligationPath DEF Inv
<1>3. o.path \in DOMAIN frozen.domain.states /\ o.path \in Operations
  BY <1>1, ObligationShape, ObligationPath DEF Inv, Frozen, Operations
<1>4. \A q \in Paths \ {o.path} : State(repo', q) = State(repo, q)
  BY <1>1, <1>2, ExecuteFrame
<1>5. \A q \in Paths \ {o.path} : repo'.tree[q] = repo.tree[q] /\ repo'.index[q] = repo.index[q]
  BY <1>4 DEF State
<1>6. /\ Roots' = Roots /\ Operations' = Operations
      /\ \A r : Around(r)' = Around(r)
      /\ \A p : Before(p)' = Before(p)
  BY <1>1, Fixed
<1>7. ASSUME NEW p \in DOMAIN frozen.domain.states PROVE Followed(p)'
  <2>1. CASE p = o.path
    BY <1>3, <2>1, StepFollows
  <2>2. CASE p # o.path
    <3>1. p \in Paths
      BY <1>1, <1>7 DEF Stabilized
    <3>2. repo'.tree[p] = repo.tree[p] /\ repo'.index[p] = repo.index[p]
      BY <1>5, <2>2, <3>1
    <3>3. \A phase : [phase |-> phase, path |-> p] # o
      BY <2>2
    <3>4. DOMAIN states' = DOMAIN states /\ \A q \in DOMAIN states \ {o} : states'[q] = states[q]
      BY DEF Execute, Becomes
    <3>5. \A phase : ObligationState(phase, p)' = ObligationState(phase, p)
      BY <3>3, <3>4 DEF ObligationState
    <3>6. NodeNow(p)' = NodeNow(p) /\ EntryNow(p)' = EntryNow(p)
      BY <1>1, <1>6, <3>5 DEF NodeNow, EntryNow, Completed
    <3> QED
      BY <1>7, <3>2, <3>5, <3>6 DEF Followed
  <2> QED
    BY <2>1, <2>2
<1>8. ASSUME NEW r \in Roots, NEW q \in Around(r) \ Operations
      PROVE  Shows(r, q, repo.tree[q])'
  <2>1. q \in Paths /\ q # o.path
    BY <1>3, <1>8 DEF Around, Below, Children
  <2>2. repo'.tree[q] = repo.tree[q]
    BY <1>5, <2>1
  <2> QED
    BY <1>1, <1>8, <2>2 DEF Undisturbed, Shows
<1>9. Indexed(repo') \subseteq DOMAIN frozen.domain.states
  <2> SUFFICES ASSUME NEW q \in Paths, repo'.index[q] # Absent, q # o.path
               PROVE  q \in DOMAIN frozen.domain.states
    BY <1>3 DEF Indexed
  <2> QED
    BY <1>5 DEF Undisturbed, Indexed
<1> QED
  BY <1>1, <1>6, <1>7, <1>8, <1>9 DEF Undisturbed, Shows, Indexed

(* Course, at every step.                                                  *)
LEMMA InitCourse == Init => Course
<1> SUFFICES ASSUME Init PROVE Course
  OBVIOUS
<1>1. PICK s \in Scenarios : repo = s.ended
  BY DEF Init
<1>2. Coherent(repo)
  BY <1>1, ScenariosAssumption
<1> QED
  BY <1>2 DEF Init, Course, Coherent, Solid, Judged, Stabilized, InOrder, OnSchedule,
         After_plan, After_freeze, After_prepare

LEMMA JudgedStep ==
  ASSUME TypeOK, Judged, [Next]_vars
  PROVE  Judged'
<1>1. CASE PlanSelectiveRestore
  BY <1>1, PlanJudged DEF Judged, After_plan
<1>2. CASE ~PlanSelectiveRestore
  <2>1. UNCHANGED <<oracle, ended, selected, plan>> /\ (pc' \in After_plan => pc \in After_plan)
    BY <1>2 DEF Next, Transaction, Freeze, Prepare, FinalFence, Execute,
         VerifyPostTransplantState, UserEdits, UserCommits, vars, Stop, After_plan
  <2> QED
    BY <2>1 DEF Judged, Verdict, Before, After, State, Unsupported
<1> QED
  BY <1>1, <1>2

LEMMA StabilizedStep ==
  ASSUME TypeOK, Inv, Solid, Judged, Stabilized, [Next]_vars
  PROVE  Stabilized'
<1>1. CASE PlanSelectiveRestore
  BY <1>1 DEF PlanSelectiveRestore, Stop, Stabilized, After_freeze, After_plan
<1>2. CASE Freeze
  <2>1. CASE pc' = "done"
    BY <2>1 DEF Stabilized, After_freeze, After_plan
  <2>2. CASE pc' # "done"
    BY <1>2, <2>2, FreezeForesees
  <2> QED
    BY <2>1, <2>2
<1>3. CASE ~PlanSelectiveRestore /\ ~Freeze
  <2>1. /\ UNCHANGED <<oracle, ended, selected, plan, frozen>>
        /\ pc' \in After_freeze => pc \in After_freeze
    BY <1>3 DEF Next, Transaction, Prepare, FinalFence, Execute,
         VerifyPostTransplantState, UserEdits, UserCommits, vars, Stop, After_freeze, After_plan
  <2>2. /\ Roots' = Roots /\ RecursiveRoots' = RecursiveRoots /\ Wanted' = Wanted
        /\ \A r : Around(r)' = Around(r)
        /\ \A p : Before(p)' = Before(p)
    BY <2>1, Fixed
  <2>3. Foreseen' = Foreseen
    BY <2>1, <2>2 DEF Foreseen
  <2> QED
    BY <2>1, <2>2, <2>3 DEF Stabilized, Shows
<1> QED
  BY <1>1, <1>2, <1>3

LEMMA OnScheduleStep ==
  ASSUME TypeOK, Inv, Solid, Stabilized, InOrder, OnSchedule, [Next]_vars
  PROVE  OnSchedule'
<1> SUFFICES ASSUME pc' \in {"execute", "verify"}, late' = {}
             PROVE  (\A p \in DOMAIN frozen.domain.states : Followed(p))' /\ Undisturbed'
  BY DEF OnSchedule
<1>1. CASE FinalFence
  <2>1. UNCHANGED <<oracle, ended, selected, plan, frozen, repo, states>> /\ pc' # "done"
    BY <1>1 DEF FinalFence, Stop
  <2> QED
    BY <1>1, <2>1, FenceFollows, SameCourse
<1>2. ASSUME NEW o \in DOMAIN states, Execute(o)
      PROVE  (\A p \in DOMAIN frozen.domain.states : Followed(p))' /\ Undisturbed'
  <2>1. pc = "execute" /\ late' = late /\ frozen' = frozen
    BY <1>2 DEF Execute
  <2>2. (\A p \in DOMAIN frozen.domain.states : Followed(p)) /\ Undisturbed
    BY <2>1 DEF OnSchedule
  <2> QED
    BY <1>2, <2>1, <2>2, ExecuteFollows
<1>3. ASSUME NEW e \in Paths, UserEdits(e) PROVE FALSE
  BY <1>3 DEF UserEdits
<1>4. CASE UserCommits \/ UNCHANGED vars
  <2>1. UNCHANGED <<oracle, ended, selected, plan, frozen, repo, states, pc, late>>
    BY <1>4 DEF UserCommits, vars
  <2> QED
    BY <2>1, SameCourse DEF OnSchedule
<1>5. CASE PlanSelectiveRestore \/ Freeze \/ Prepare \/ VerifyPostTransplantState
  BY <1>5 DEF PlanSelectiveRestore, Freeze, Prepare, VerifyPostTransplantState, Stop
<1> QED
  BY <1>1, <1>2, <1>3, <1>4, <1>5 DEF Next, Transaction

THEOREM CourseKept == Spec => []Course
<1>1. Init => Course
  BY InitCourse
<1>2. TypeOK /\ Inv /\ Course /\ [Next]_vars => Course'
  BY SolidStep, JudgedStep, StabilizedStep, InOrderStep, OnScheduleStep DEF Course
<1> QED
  BY <1>1, <1>2, TransplantInvariant, PTL DEF Spec

-----------------------------------------------------------------------------
(* A primitive that refuses although nobody has edited anything.           *)
Untroubled == /\ TypeOK /\ Inv /\ Course
              /\ pc = "execute" /\ late = {}

LEMMA Followable ==
  ASSUME Untroubled
  PROVE  /\ pc \in After_prepare /\ pc \in After_freeze /\ pc \in After_plan
         /\ Planned /\ Frozen /\ Foreseen /\ Schedulable
         /\ DOMAIN states = Obligations
         /\ \A o \in Obligations : states[o] \in {"pending", "completed"}
         /\ \A p \in DOMAIN frozen.domain.states :
              p \in Paths /\ repo.tree[p] = NodeNow(p) /\ repo.index[p] = EntryNow(p)
         /\ Undisturbed
<1>1. pc \in After_prepare /\ pc \in After_freeze /\ pc \in After_plan
  BY DEF Untroubled, After_prepare, After_freeze, After_plan
<1>2. DOMAIN states = Obligations /\ \A o \in Obligations : states[o] \in {"pending", "completed"}
  BY <1>1 DEF Untroubled, Inv, Scheduled, Course, InOrder, TypeOK
<1>3. \A p : ObligationState("leaf", p) # "attempted"
  BY <1>2 DEF ObligationState
<1>4. \A p \in DOMAIN frozen.domain.states : Followed(p)
  BY DEF Untroubled, Course, OnSchedule
<1>5. Stabilized /\ InOrder /\ Undisturbed
  BY DEF Untroubled, Course, OnSchedule
<1> QED
  BY <1>1, <1>2, <1>3, <1>4, <1>5 DEF Untroubled, Inv, Stabilized, InOrder, Followed

(* What precedes a due obligation is completed.                            *)
LEMMA DueOrder ==
  ASSUME Untroubled, NEW o \in Obligations, Due(o),
         NEW phase, NEW p, [phase |-> phase, path |-> p] \in Obligations,
         Precedes([phase |-> phase, path |-> p], o)
  PROVE  Completed(phase, p)
  BY Followable DEF Due, Completed, ObligationState

LEMMA DueLater ==
  ASSUME Untroubled, NEW o \in Obligations, Due(o), NEW phase, NEW p,
         Rank[o.phase] < Rank[phase]
  PROVE  ~Completed(phase, p)
<1> SUFFICES ASSUME [phase |-> phase, path |-> p] \in Obligations
             PROVE  states[[phase |-> phase, path |-> p]] = "pending"
  BY Followable DEF Completed, ObligationState
<1> QED
  BY NotYet DEF Due, Untroubled, Course

(* The directories above what is to be written are there once those to be  *)
(* made are.                                                               *)
LEMMA AncestorReady ==
  ASSUME Untroubled, NEW p \in Wanted, NEW a \in Ancestors(p),
         a \in DOMAIN plan.parents => Completed("directory", a)
  PROVE  repo.tree[a] = Directory
<1>1. /\ a \in DOMAIN frozen.domain.states
      /\ IF a \in selected THEN Before(a).node = Directory
         ELSE a \in DOMAIN plan.parents \/ frozen.domain.states[a].node = Directory
  BY Followable DEF Foreseen
<1>2. repo.tree[a] = NodeNow(a)
  BY <1>1, Followable
<1>3. /\ Completed("directory", a) => a \in DOMAIN plan.parents /\ a \notin selected
      /\ Completed("removal", a) => a \in plan.writes /\ a \in selected
      /\ Completed("leaf", a) => a \in plan.writes /\ a \in selected
  BY Followable, ObligationsAt DEF Untroubled, Completed, Removals, LeafWrites
<1>4. CASE a \in selected
  <2>1. a \notin plan.writes
    BY <1>1, <1>4, Followable DEF Schedulable
  <2>2. frozen.domain.states[a] = Before(a)
    BY <1>4, <2>1, Followable DEF Planned, Frozen
  <2> QED
    BY <1>1, <1>2, <1>3, <1>4, <2>1, <2>2 DEF NodeNow
<1>5. CASE a \notin selected
  BY <1>1, <1>2, <1>3, <1>5 DEF NodeNow
<1> QED
  BY <1>4, <1>5

(* A member of a directory that is to go, and is still there, is one that  *)
(* nobody selected.                                                        *)
LEMMA MemberLeft ==
  ASSUME Untroubled, NEW o \in Obligations, Due(o), o.phase = "removal",
         o.path \in RecursiveRoots, NEW q \in Below(o.path), repo.tree[q] # Absent
  PROVE  q \notin selected /\ repo.tree[q] = Directory
<1> DEFINE p == o.path
           members == frozen.domain.watches[p]
<1>1. /\ p \in Paths /\ q \in Paths /\ p \in Roots /\ q \in Around(p)
      /\ Len(p) \in Nat /\ Len(q) \in Nat /\ Len(p) < Len(q)
  <2>1. p \in Paths
    BY Followable, ObligationPath DEF Untroubled
  <2>2. q \in Paths /\ p \in Ancestors(q)
    BY <2>1, BelowIs
  <2> QED
    BY <2>1, <2>2, Shorter DEF Roots, Around
<1>2. ~Completed("leaf", q) /\ ~Completed("directory", q)
  BY DueLater DEF Rank
<1>3. q \in DOMAIN frozen.domain.states =>
        ~Completed("removal", q) /\ repo.tree[q] = frozen.domain.states[q].node
  BY <1>2, Followable DEF NodeNow
<1>4. q \in DOMAIN members /\ members[q] = KindOf(repo.tree[q])
  <2>1. CASE q \in DOMAIN frozen.domain.states
    <3>1. Shows(p, q, frozen.domain.states[q].node)
      BY <1>1, <2>1, Followable DEF Untroubled, Course, Stabilized
    <3> QED
      BY <1>3, <2>1, <3>1 DEF Shows
  <2>2. CASE q \notin DOMAIN frozen.domain.states
    <3>1. q \notin Operations
      BY <2>2, Followable DEF Operations, Planned, Frozen
    <3>2. Shows(p, q, repo.tree[q])
      BY <1>1, <3>1, Followable DEF Undisturbed
    <3> QED
      BY <3>2 DEF Shows
  <2> QED
    BY <2>1, <2>2
<1>5. IF q \in selected THEN Before(q).node = Absent ELSE members[q] = "directory"
  BY <1>4, Followable DEF Foreseen
<1>6. q \notin selected
  <2> SUFFICES ASSUME q \in selected PROVE FALSE
    OBVIOUS
  <2>1. /\ q \in DOMAIN frozen.domain.states /\ frozen.domain.states[q] = plan.seen[q]
        /\ plan.seen[q].node = repo.tree[q] /\ Before(q).node = Absent
    BY <1>3, <1>5, Followable DEF Frozen
  <2>2. q \in plan.writes
    BY <2>1, Followable DEF Planned
  <2>3. repo.tree[q] \in Nodes /\ Absent \in Nodes
    BY <1>1 DEF Untroubled, TypeOK, Worlds, Nodes
  <2>4. q \in Removals
    BY <2>1, <2>2, <2>3, NodeKinds DEF Removals
  <2>5. [phase |-> "removal", path |-> q] \in Obligations
    BY <2>4 DEF Obligations
  <2>6. Precedes([phase |-> "removal", path |-> q], o)
    BY <1>1 DEF Precedes, DeepestFirst
  <2> QED
    BY <1>3, <2>1, <2>5, <2>6, DueOrder
<1> QED
  BY <1>4, <1>5, <1>6 DEF KindOf

(* A removal refuses only over a directory that nobody selected.           *)
LEMMA RemovalRefused ==
  ASSUME Untroubled, NEW o \in Obligations, Due(o), o.phase = "removal", ~Able(o)
  PROVE  HoldsStructure(o)
<1> DEFINE p == o.path
<1>1. p \in Removals /\ p \in plan.writes /\ p \in Paths /\ states[o] = "pending"
  BY Followable, ObligationShape, ObligationPath DEF Untroubled, Due
<1>2. repo.tree[p] = plan.seen[p].node
  BY <1>1, Followable DEF Untroubled, Inv, Unharmed, Intact, Planned
<1>3. /\ repo.tree[p] \notin {Absent, Special}
      /\ NodeKind(repo.tree[p]) # NodeKind(Before(p).node)
  BY <1>1, <1>2, Followable, WrittenKinds DEF Removals, Untroubled, Course
<1>4. Reachable(p)
  BY <1>1, <1>3 DEF Untroubled, Course, Solid, Reachable
<1>5. PICK q \in Children(p) : repo.tree[q] # Absent
  BY <1>3, <1>4 DEF Able
<1>6. q \in Below(p) /\ q \in Paths /\ p \in Ancestors(q)
  BY <1>1, ChildIs
<1>7. repo.tree[p] = Directory
  BY <1>5, <1>6 DEF Untroubled, Course, Solid
<1>8. Before(p).node # Directory
  BY <1>3, <1>7
<1>9. p \in RecursiveRoots
  BY <1>1, <1>2, <1>7, <1>8 DEF RecursiveRoots, Destroys
<1>10. q \notin selected /\ repo.tree[q] = Directory
  BY <1>5, <1>6, <1>9, MemberLeft
<1> QED
  BY <1>6, <1>10 DEF HoldsStructure

(* A parent is made where its own parents are.                             *)
LEMMA DirectoryAble ==
  ASSUME Untroubled, NEW o \in Obligations, Due(o), o.phase = "directory"
  PROVE  Able(o)
<1> DEFINE p == o.path
<1>1. p \in DOMAIN plan.parents /\ p \in Paths /\ states[o] = "pending"
  BY Followable, ObligationShape, ObligationPath DEF Untroubled, Due
<1>2. repo.tree[p] = Absent
  BY <1>1 DEF Untroubled, Inv, Unharmed, Intact
<1>3. PICK x \in Wanted : p \in Ancestors(x)
  BY <1>1, Followable DEF Foreseen
<1>4. x \in Paths
  BY Followable DEF Wanted, Planned, Untroubled, TypeOK
<1>5. ASSUME NEW b \in Ancestors(p) PROVE repo.tree[b] = Directory
  <2>1. b \in Ancestors(x)
    BY <1>3, <1>4, <1>5, AncestorsNest
  <2>2. ASSUME b \in DOMAIN plan.parents PROVE Completed("directory", b)
    <3>1. [phase |-> "directory", path |-> b] \in Obligations
      BY <2>2 DEF Obligations
    <3>2. Precedes([phase |-> "directory", path |-> b], o)
      BY <1>1, <1>5, Shorter DEF Precedes, ShallowestFirst
    <3> QED
      BY <3>1, <3>2, DueOrder
  <2> QED
    BY <2>1, <2>2, AncestorReady
<1> QED
  BY <1>2, <1>5 DEF Able, Reachable

(* A leaf is written where its parents are and nothing of another kind is. *)
LEMMA LeafAble ==
  ASSUME Untroubled, NEW o \in Obligations, Due(o), o.phase = "leaf"
  PROVE  Able(o)
<1> DEFINE p == o.path
<1>1. p \in LeafWrites /\ p \in plan.writes /\ p \in Paths /\ states[o] = "pending"
  BY Followable, ObligationShape, ObligationPath DEF Untroubled, Due
<1>2. p \in Wanted /\ Before(p).node # Absent
  BY <1>1 DEF LeafWrites, Wanted
<1>3. ASSUME NEW a \in Ancestors(p) PROVE repo.tree[a] = Directory
  <2>1. ASSUME a \in DOMAIN plan.parents PROVE Completed("directory", a)
    <3>1. [phase |-> "directory", path |-> a] \in Obligations
      BY <2>1 DEF Obligations
    <3>2. Precedes([phase |-> "directory", path |-> a], o)
      BY DEF Precedes, Rank
    <3> QED
      BY <3>1, <3>2, DueOrder
  <2> QED
    BY <1>2, <1>3, <2>1, AncestorReady
<1>4. repo.tree[p] \in {plan.seen[p].node, Absent}
  BY <1>1, Followable DEF Untroubled, Inv, Unharmed, Intact, Planned
<1>5. repo.tree[p] \in Nodes
  BY <1>1 DEF Untroubled, TypeOK, Worlds
<1>6. NodeKind(repo.tree[p]) \in {"absent", NodeKind(Before(p).node)}
  <2>1. CASE repo.tree[p] = Absent
    BY <1>5, <2>1, NodeKinds
  <2>2. CASE repo.tree[p] # Absent
    <3> SUFFICES ASSUME NodeKind(repo.tree[p]) # NodeKind(Before(p).node) PROVE FALSE
      OBVIOUS
    <3>1. p \in Removals
      BY <1>1, <1>4, <2>2 DEF Removals
    <3>2. [phase |-> "removal", path |-> p] \in Obligations
      BY <3>1 DEF Obligations
    <3>3. Completed("removal", p)
      <4>1. Precedes([phase |-> "removal", path |-> p], o)
        BY DEF Precedes, Rank
      <4> QED
        BY <3>2, <4>1, DueOrder
    <3>4. ~Completed("leaf", p)
      <4>1. o = [phase |-> "leaf", path |-> p]
        BY ObligationShape
      <4> QED
        BY <1>1, <4>1 DEF Completed, ObligationState
    <3>5. p \in selected /\ ~Completed("directory", p)
      BY <1>1, Followable, ObligationsAt DEF Untroubled, Planned
    <3>6. repo.tree[p] = NodeNow(p)
      BY <3>5, Followable DEF Frozen
    <3> QED
      BY <2>2, <3>3, <3>4, <3>5, <3>6 DEF NodeNow
  <2> QED
    BY <2>1, <2>2
<1> QED
  BY <1>3, <1>6 DEF Able, Reachable

(* An index entry is refused only for one that is still to be dropped.     *)
LEMMA IndexRefused ==
  ASSUME Untroubled, NEW o \in Obligations, Due(o), o.phase = "index", ~Able(o)
  PROVE  WrittenTooEarly(o)
<1> DEFINE p == o.path
<1>1. p \in plan.writes /\ p \in selected /\ p \in Paths
  BY Followable, ObligationShape, ObligationPath DEF Untroubled
<1>2. PICK q \in Related(p) : Before(p).entry # Absent /\ q \in Paths /\ repo.index[q] # Absent
  BY DEF Able, Accepts, Indexed
<1>3. q \in DOMAIN frozen.domain.states
  BY <1>2, Followable DEF Undisturbed, Indexed
<1>4. repo.index[q] = EntryNow(q)
  BY <1>3, Followable
<1>5. IF q \in selected THEN Before(q).entry = Absent ELSE frozen.domain.states[q].entry = Absent
  BY <1>1, <1>2, <1>3, Followable DEF Foreseen
<1>6. Completed("index", q) => q \in selected
  BY Followable, ObligationsAt DEF Untroubled
<1>7. ~Completed("index", q) /\ repo.index[q] = frozen.domain.states[q].entry
  BY <1>2, <1>4, <1>5, <1>6 DEF EntryNow
<1>8. q \in selected
  BY <1>2, <1>5, <1>7
<1>9. plan.seen[q].entry = repo.index[q] /\ Before(q).entry = Absent
  BY <1>5, <1>7, <1>8, Followable DEF Frozen
<1>10. q \in plan.writes
  BY <1>2, <1>8, <1>9, Followable DEF Planned
<1>11. [phase |-> "index", path |-> q] \in Obligations
  BY <1>2, <1>9, <1>10 DEF Obligations, IndexWrites
<1>12. ObligationState("index", q) = "pending"
  BY <1>7, <1>11, Followable DEF Completed, ObligationState
<1> QED
  BY <1>2, <1>12 DEF WrittenTooEarly

LEMMA RefusalExplained ==
  ASSUME Untroubled, NEW o \in Obligations, Due(o), ~Able(o)
  PROVE  HoldsStructure(o) \/ WrittenTooEarly(o)
<1>1. o.phase \in {"removal", "directory", "leaf", "index"}
  BY ObligationShape
<1> QED
  BY <1>1, RemovalRefused, DirectoryAble, LeafAble, IndexRefused

LEMMA RefusalStep ==
  ASSUME TypeOK, Inv, Course, RefusalsExplained, [Next]_vars
  PROVE  RefusalsExplained'
<1>1. ASSUME NEW o \in DOMAIN states, Execute(o), stopped' = "refused", late' = {}
      PROVE  states'[o] = "attempted" /\ (HoldsStructure(o) \/ WrittenTooEarly(o))'
  <2>1. /\ Untroubled /\ Due(o) /\ ~Able(o) /\ stopped = "none"
        /\ states'[o] = "attempted" /\ repo' = repo
        /\ UNCHANGED selected
        /\ \A q \in DOMAIN states \ {o} : states'[q] = states[q]
        /\ DOMAIN states' = DOMAIN states
    BY <1>1 DEF Execute, Becomes, Untroubled, Course, InOrder
  <2>2. o \in Obligations
    BY <2>1, Followable
  <2>3. HoldsStructure(o) \/ WrittenTooEarly(o)
    BY <2>1, <2>2, RefusalExplained
  <2>4. HoldsStructure(o) => HoldsStructure(o)'
    BY <2>1 DEF HoldsStructure
  <2>5. ASSUME WrittenTooEarly(o) PROVE WrittenTooEarly(o)'
    <3>1. o.path \in Paths
      BY <2>1, <2>2, Followable, ObligationPath
    <3>2. PICK q \in Related(o.path) : ObligationState("index", q) = "pending" /\ repo.index[q] # Absent
      BY <2>5 DEF WrittenTooEarly
    <3>3. q # o.path
      <4>1. o.path \notin Ancestors(o.path) /\ o.path \notin Below(o.path)
        BY <3>1, Shorter, BelowIs
      <4> QED
        BY <4>1 DEF Related
    <3>4. ObligationState("index", q)' = "pending"
      BY <2>1, <3>2, <3>3 DEF ObligationState
    <3> QED
      BY <2>1, <2>5, <3>2, <3>4 DEF WrittenTooEarly
  <2> QED
    BY <2>1, <2>3, <2>4, <2>5
<1>2. ASSUME UNCHANGED <<repo, states, stopped, selected>>, late' = {} => late = {}
      PROVE  RefusalsExplained'
  BY <1>2 DEF RefusalsExplained, HoldsStructure, WrittenTooEarly, ObligationState
<1>3. stopped # "refused" /\ stopped' = stopped => RefusalsExplained'
  BY DEF RefusalsExplained
<1>4. CASE PlanSelectiveRestore \/ Freeze \/ Prepare \/ FinalFence
  BY <1>3, <1>4 DEF PlanSelectiveRestore, Freeze, Prepare, FinalFence, Course, InOrder
<1>5. CASE \E o \in DOMAIN states : Execute(o)
  <2> PICK o \in DOMAIN states : Execute(o)
    BY <1>5
  <2>1. o \in DOMAIN states'
    BY DEF Execute, Becomes
  <2> QED
    BY <1>1, <2>1 DEF RefusalsExplained
<1>6. CASE VerifyPostTransplantState \/ UserCommits \/ UNCHANGED vars
  BY <1>2, <1>6 DEF VerifyPostTransplantState, UserCommits, vars
<1>7. ASSUME NEW e \in Paths, UserEdits(e) PROVE RefusalsExplained'
  <2>1. stopped # "none" => late' # {}
    BY <1>7 DEF UserEdits, Course, InOrder
  <2> QED
    BY <1>7, <2>1 DEF UserEdits, RefusalsExplained
<1> QED
  BY <1>4, <1>5, <1>6, <1>7 DEF Next, Transaction

(* After the fence a primitive refuses only over what the user did since,  *)
(* or over one of the two shapes the plan could have foreseen: the order   *)
(* of the schedule suits every other tree of any depth                     *)
(* (transplant-schedule.ts).                                               *)
THEOREM OrderSuits == Spec => []RefusalsExplained
<1>1. Init => RefusalsExplained
  BY DEF Init, RefusalsExplained
<1>2. TypeOK /\ Inv /\ Course /\ RefusalsExplained /\ [Next]_vars => RefusalsExplained'
  BY RefusalStep
<1> QED
  BY <1>1, <1>2, CourseKept, TransplantInvariant, PTL DEF Spec

-----------------------------------------------------------------------------
(* The verification of an execution beside which nobody has edited         *)
(* anything.                                                               *)
Verifying == /\ TypeOK /\ Inv /\ Course
             /\ pc = "verify" /\ late = {}

LEMMA Verifiable ==
  ASSUME Verifying
  PROVE  /\ pc \in After_prepare /\ pc \in After_freeze /\ pc \in After_plan
         /\ Planned /\ Frozen /\ Foreseen /\ Schedulable /\ Judged /\ Solid
         /\ DOMAIN states = Obligations
         /\ \A p \in DOMAIN frozen.domain.states :
              /\ p \in Paths /\ Followed(p)
              /\ frozen.domain.states[p] \in [node : Nodes, entry : Entries]
         /\ Undisturbed
<1>1. pc \in After_prepare /\ pc \in After_freeze /\ pc \in After_plan
  BY DEF Verifying, After_prepare, After_freeze, After_plan
<1>2. DOMAIN states = Obligations
  BY <1>1 DEF Verifying, Inv, Scheduled
<1> QED
  BY <1>1, <1>2 DEF Verifying, Course, Inv, Stabilized, InOrder, OnSchedule

(* The states of the obligations at p, of which the judgement is made.     *)
LEMMA StatusOf ==
  ASSUME Verifying, NEW p \in plan.writes
  PROVE  /\ \A phase \in {"removal", "leaf", "index"} :
              LET o == [phase |-> phase, path |-> p]
              IN o \in Obligations /\ states[o] # "pending" => ExecutionStatus(p) # "not_attempted"
         /\ \A phase \in {"removal", "leaf", "index"} :
              LET o == [phase |-> phase, path |-> p]
              IN /\ o \in Obligations /\ states[o] # "completed"
                      => ExecutionStatus(p) # "execution_complete"
                 /\ o \in Obligations /\ states[o] \notin {"completed", "pending"}
                      => ExecutionStatus(p) = "failed"
         /\ \A o \in Obligations : p \in Attributed(o) /\ states[o] # "completed"
              => ExecutionStatus(p) # "execution_complete"
<1> DEFINE mine == {states[o] : o \in {q \in DOMAIN states : p \in Attributed(q)}}
<1>1. ExecutionStatus(p) = IF mine = {"completed"} THEN "execution_complete"
                           ELSE IF mine = {"pending"} THEN "not_attempted" ELSE "failed"
  BY DEF ExecutionStatus
<1>2. \A o \in Obligations : p \in Attributed(o) => states[o] \in mine
  BY Verifiable
<1> HIDE DEF mine
<1>3. ASSUME NEW phase \in {"removal", "leaf", "index"},
             [phase |-> phase, path |-> p] \in Obligations
      PROVE  states[[phase |-> phase, path |-> p]] \in mine
  <2>1. p \in Attributed([phase |-> phase, path |-> p])
    BY <1>3 DEF Attributed
  <2> QED
    BY <1>2, <1>3, <2>1
<1>4. \A s \in mine : /\ s # "pending" => ExecutionStatus(p) # "not_attempted"
                      /\ s # "completed" => ExecutionStatus(p) # "execution_complete"
                      /\ s \notin {"completed", "pending"} => ExecutionStatus(p) = "failed"
  BY <1>1
<1> QED
  BY <1>2, <1>3, <1>4

LEMMA HalfDone ==
  ASSUME Verifying, NEW p \in plan.writes, Completed("removal", p),
         p \in LeafWrites, ~Completed("leaf", p)
  PROVE  ExecutionStatus(p) = "failed"
<1> DEFINE r == [phase |-> "removal", path |-> p]
           l == [phase |-> "leaf", path |-> p]
<1>1. r \in Obligations /\ states[r] = "completed"
  BY Verifiable DEF Completed, ObligationState
<1>2. l \in Obligations
  BY DEF Obligations
<1>3. states[l] # "completed"
  BY <1>2, Verifiable DEF Completed, ObligationState
<1>4. ExecutionStatus(p) \in {"execution_complete", "not_attempted", "failed"}
  BY DEF ExecutionStatus
<1> QED
  BY <1>1, <1>2, <1>3, <1>4, StatusOf

(* No change is left unattributed.                                         *)
LEMMA NothingUnattributed ==
  ASSUME Verifying, NEW live, NEW p \in DOMAIN frozen.domain.states,
         live.states[p] = State(repo, p)
  PROVE  ~Unattributed(p, live)
<1> SUFFICES ASSUME State(repo, p) # frozen.domain.states[p]
             PROVE  IF p \in selected
                    THEN p \in plan.writes /\ ExecutionStatus(p) # "not_attempted"
                    ELSE p \in DOMAIN plan.parents /\ ObligationState("directory", p) # "pending"
  BY DEF Unattributed
<1> DEFINE at(phase) == [phase |-> phase, path |-> p]
<1>1. frozen.domain.states[p] \in [node : Nodes, entry : Entries]
  BY Verifiable
<1>2. repo.tree[p] # frozen.domain.states[p].node \/ repo.index[p] # frozen.domain.states[p].entry
  BY <1>1 DEF State
<1>3. PICK phase \in {"removal", "directory", "leaf", "index"} :
        ObligationState(phase, p) \in {"completed", "attempted"}
  BY <1>2, Verifiable DEF Followed, NodeNow, EntryNow, Completed
<1>4. at(phase) \in Obligations /\ states[at(phase)] # "pending"
  BY <1>3, Verifiable DEF ObligationState
<1>5. at(phase).phase = phase /\ at(phase).path = p
  OBVIOUS
<1>6. CASE phase = "directory"
  <2>1. p \in DOMAIN plan.parents /\ p \notin selected
    BY <1>4, <1>5, <1>6, Verifiable, ObligationShape, ObligationPath DEF Verifying
  <2> QED
    BY <1>3, <1>6, <2>1
<1>7. CASE phase # "directory"
  <2>1. p \in plan.writes /\ p \in selected
    BY <1>4, <1>5, <1>7, Verifiable, ObligationShape, ObligationPath DEF Verifying
  <2> QED
    BY <1>3, <1>4, <1>7, <2>1, StatusOf
<1> QED
  BY <1>6, <1>7

(* What is completed is restored.                                          *)
LEMMA CompleteRestored ==
  ASSUME Verifying, NEW p \in plan.writes, ExecutionStatus(p) = "execution_complete"
  PROVE  State(repo, p) = Before(p)
<1>1. /\ p \in selected /\ p \in Paths /\ p \in DOMAIN frozen.domain.states
      /\ frozen.domain.states[p] = plan.seen[p] /\ plan.seen[p] = After(p)
      /\ Followed(p)
  BY Verifiable DEF Planned, Frozen
<1>2. \A phase \in {"removal", "leaf", "index"} :
        [phase |-> phase, path |-> p] \in Obligations => Completed(phase, p)
  BY StatusOf, Verifiable DEF Completed, ObligationState
<1>3. /\ p \in Removals => Completed("removal", p)
      /\ p \in LeafWrites => Completed("leaf", p)
      /\ p \in IndexWrites => Completed("index", p)
  BY <1>2 DEF Obligations
<1>4. /\ ~Completed("directory", p)
      /\ Completed("removal", p) => p \in Removals
      /\ ObligationState("leaf", p) # "absent" => p \in LeafWrites
      /\ Completed("index", p) => p \in IndexWrites
  BY <1>1, Verifiable, ObligationsAt DEF Verifying
<1>5. repo.tree[p] = NodeNow(p) /\ repo.index[p] = EntryNow(p)
  BY <1>1, <1>3, <1>4 DEF Followed, Completed
<1>6. EntryNow(p) = Before(p).entry
  BY <1>1, <1>3, <1>4 DEF EntryNow, IndexWrites
<1>7. NodeNow(p) = Before(p).node
  <2>1. CASE p \in LeafWrites
    BY <1>3, <2>1 DEF NodeNow
  <2>2. CASE Before(p).node = plan.seen[p].node
    <3>1. p \notin Removals /\ p \notin LeafWrites
      BY <2>2 DEF Removals, LeafWrites
    <3> QED
      BY <1>1, <1>4, <2>2, <3>1 DEF NodeNow, Completed
  <2>3. CASE Before(p).node = Absent /\ plan.seen[p].node # Absent
    <3>1. plan.seen[p].node \in Nodes /\ Before(p).node \in Nodes
      BY <1>1, Verifiable, BeforeTypes DEF Verifying
    <3>2. p \in Removals /\ p \notin LeafWrites
      BY <2>3, <3>1, NodeKinds DEF Removals, LeafWrites
    <3> QED
      BY <1>3, <1>4, <2>3, <3>2 DEF NodeNow, Completed
  <2> QED
    BY <2>1, <2>2, <2>3 DEF LeafWrites
<1> QED
  BY <1>5, <1>6, <1>7 DEF State, Before

(* A parent that was made is as the plan has it.                           *)
LEMMA ParentsVerified ==
  ASSUME Verifying, NEW live, NEW a \in DOMAIN frozen.domain.states,
         live.states[a] = State(repo, a)
  PROVE  ~ParentNotVerified(a, live)
<1> SUFFICES ASSUME a \in DOMAIN plan.parents, Completed("directory", a)
             PROVE  State(repo, a) = plan.parents[a].target
  BY DEF ParentNotVerified, Completed
<1>1. ObligationState("leaf", a) = "absent" /\ ~Completed("index", a)
  BY Verifiable, ObligationsAt DEF Verifying
<1>2. repo.tree[a] = Directory /\ repo.index[a] = frozen.domain.states[a].entry
  BY <1>1, Verifiable DEF Followed, NodeNow, EntryNow, Completed
<1>3. plan.parents[a].target = [frozen.domain.states[a] EXCEPT !.node = Directory]
  BY Verifiable DEF Foreseen
<1>4. frozen.domain.states[a] \in [node : Nodes, entry : Entries]
  BY Verifiable
<1> QED
  BY <1>2, <1>3, <1>4 DEF State

-----------------------------------------------------------------------------
(* A member of a watched directory that the plan accounts for.             *)
EffectOf(from, now) ==
  IF now = Absent THEN "disappear" ELSE IF from = Absent THEN "appear" ELSE "kind_change"
Differ(from, now) ==
  \/ from = Absent /\ now # Absent
  \/ from # Absent /\ now = Absent
  \/ from # Absent /\ now # Absent /\ KindOf(from) # KindOf(now)

(* What was watched of a path that is written has changed only as the plan *)
(* has it, unless the path is half replaced.                               *)
LEMMA WriteAccounted ==
  ASSUME Verifying, NEW q \in plan.writes,
         Differ(plan.seen[q].node, repo.tree[q])
  PROVE  Authorized(q, EffectOf(plan.seen[q].node, repo.tree[q])) \/ HalfReplaced(q)
<1> DEFINE from == plan.seen[q].node
           to == Before(q).node
           now == repo.tree[q]
           effect == EffectOf(from, now)
<1>1. /\ q \in Paths /\ q \in Operations /\ q \in DOMAIN frozen.domain.states
      /\ frozen.domain.states[q] = plan.seen[q] /\ Followed(q)
  BY Verifiable DEF Planned, Frozen, Operations
<1>2. /\ from \in Nodes /\ to \in Nodes /\ to # Directory /\ now \in Nodes
  BY <1>1, Verifiable, BeforeTypes DEF Verifying, TypeOK, Worlds, Schedulable
<1>3. /\ ~Completed("directory", q)
      /\ Completed("removal", q) => q \in Removals
      /\ ObligationState("leaf", q) # "absent" => q \in LeafWrites
  BY <1>1, Verifiable, ObligationsAt DEF Verifying, Planned
<1>4. q \in LeafWrites => to # Absent /\ to # from
  BY DEF LeafWrites
<1>5. q \in Removals => from # Absent /\ (to # Absent => q \in LeafWrites)
  BY DEF Removals, LeafWrites
<1>6. \/ Completed("leaf", q) /\ now = to /\ q \in LeafWrites
      \/ ~Completed("leaf", q) /\ Completed("removal", q) /\ now = Absent
      \/ ~Completed("leaf", q) /\ now = from
      \/ ObligationState("leaf", q) = "attempted" /\ now \in {Torn, Absent} /\ q \in LeafWrites
  BY <1>1, <1>3 DEF Followed, NodeNow, Completed
<1>7. ObligationState("leaf", q) = "attempted" => ExecutionStatus(q) = "failed"
  <2> SUFFICES ASSUME ObligationState("leaf", q) = "attempted"
               PROVE  ExecutionStatus(q) = "failed"
    OBVIOUS
  <2>1. /\ [phase |-> "leaf", path |-> q] \in Obligations
        /\ states[[phase |-> "leaf", path |-> q]] = "attempted"
    BY Verifiable DEF ObligationState
  <2> QED
    BY <2>1, StatusOf
<1>8. /\ Observed(q).node = from /\ Target(q).node = to
      /\ KindOf(to) = "leaf" /\ (Completed("leaf", q) => MayHaveMutated("leaf", q))
      /\ (Completed("removal", q) => MayHaveMutated("removal", q))
      /\ (ObligationState("leaf", q) = "attempted" => MayHaveMutated("leaf", q))
  BY <1>2 DEF Observed, Target, KindOf, Completed, MayHaveMutated
<1>9. /\ to = Absent /\ from # Absent /\ MayHaveMutated("removal", q) => Authorized(q, "disappear")
      /\ to # Absent /\ from = Absent /\ MayHaveMutated("leaf", q) => Authorized(q, "appear")
      /\ to # Absent /\ from # Absent /\ KindOf(from) # KindOf(to) /\ MayHaveMutated("leaf", q)
           => Authorized(q, "kind_change")
  BY <1>1, <1>8 DEF Authorized
<1>10. ExecutionStatus(q) = "failed" /\ to # Absent /\ now = Absent => HalfReplaced(q)
  BY DEF HalfReplaced
<1>11. Differ(from, now)
  OBVIOUS
<1>12. SUFFICES Authorized(q, effect) \/ HalfReplaced(q)
  OBVIOUS
<1> HIDE DEF from, to, now, effect
<1>13. CASE now = Absent
  <2>1. from # Absent /\ effect = "disappear"
    BY <1>11, <1>13 DEF Differ, EffectOf, effect
  <2>2. CASE to = Absent
    BY <1>4, <1>6, <1>8, <1>9, <1>13, <2>1, <2>2
  <2>3. CASE to # Absent
    <3>1. ExecutionStatus(q) = "failed"
      BY <1>3, <1>5, <1>6, <1>7, <1>13, <2>1, <2>3, HalfDone
    <3> QED
      BY <1>10, <1>13, <2>3, <3>1
  <2> QED
    BY <2>2, <2>3
<1>14. CASE now # Absent /\ from = Absent
  <2>1. effect = "appear"
    BY <1>14 DEF EffectOf, effect
  <2> QED
    BY <1>4, <1>6, <1>8, <1>9, <1>14, <2>1
<1>15. CASE now # Absent /\ from # Absent
  <2>1. effect = "kind_change" /\ KindOf(from) # KindOf(now)
    BY <1>11, <1>15 DEF EffectOf, Differ, effect
  <2>2. KindOf(Torn) = "leaf"
    BY TornNode DEF KindOf
  <2>3. to # Absent /\ MayHaveMutated("leaf", q) /\ KindOf(now) = "leaf"
    BY <1>4, <1>6, <1>8, <1>15, <2>1, <2>2
  <2> QED
    BY <1>8, <1>9, <1>15, <2>1, <2>3
<1> QED
  BY <1>13, <1>14, <1>15

LEMMA ParentAccounted ==
  ASSUME Verifying, NEW a \in DOMAIN plan.parents,
         Differ(frozen.domain.states[a].node, repo.tree[a])
  PROVE  Authorized(a, EffectOf(frozen.domain.states[a].node, repo.tree[a]))
<1>1. /\ a \in Paths \ selected /\ a \in Operations /\ a \notin plan.writes
      /\ a \in DOMAIN frozen.domain.states
      /\ frozen.domain.states[a].node = Absent /\ Followed(a)
      /\ frozen.domain.states[a] \in [node : Nodes, entry : Entries]
  BY Verifiable DEF Planned, Frozen, Operations
<1>2. plan.parents[a].target.node = Directory
  BY <1>1, Verifiable DEF Foreseen
<1>3. ~Completed("removal", a) /\ ObligationState("leaf", a) = "absent"
  BY <1>1, Verifiable, ObligationsAt DEF Verifying
<1>4. Completed("directory", a) /\ repo.tree[a] = Directory
  BY <1>1, <1>3 DEF Followed, NodeNow, Completed, Differ
<1>5. EffectOf(frozen.domain.states[a].node, repo.tree[a]) = "appear"
  BY <1>1, <1>4, NodesAssumption DEF EffectOf
<1>6. MayHaveMutated("directory", a) /\ KindOf(Directory) = "directory"
  BY <1>4 DEF MayHaveMutated, Completed, KindOf
<1>7. Observed(a).node = Absent /\ Target(a).node = Directory
  BY <1>1, <1>2 DEF Observed, Target
<1>8. Authorized(a, "appear")
  BY <1>1, <1>6, <1>7, NodesAssumption DEF Authorized
<1> QED
  BY <1>5, <1>8

(* Of what is watched, nothing changes without the plan.                   *)
LEMMA EffectsExplained ==
  ASSUME Verifying, NEW r \in Roots,
         NEW q \in DOMAIN Effects(frozen.domain.watches[r], WatchesOf(repo)[r])
  PROVE  \/ Authorized(q, Effects(frozen.domain.watches[r], WatchesOf(repo)[r])[q])
         \/ HalfReplaced(q)
<1> DEFINE was == frozen.domain.watches[r]
           is == WatchesOf(repo)[r]
<1>1. /\ q \in DOMAIN was \cup DOMAIN is
      /\ q \in DOMAIN was \cap DOMAIN is => was[q] # is[q]
      /\ Effects(was, is)[q] = IF q \notin DOMAIN is THEN "disappear"
                               ELSE IF q \notin DOMAIN was THEN "appear" ELSE "kind_change"
  BY DEF Effects
<1>2. /\ DOMAIN is \subseteq Around(r)
      /\ \A x \in Around(r) : /\ repo.tree[x] # Absent <=> x \in DOMAIN is
                              /\ repo.tree[x] # Absent => is[x] = KindOf(repo.tree[x])
  BY Verifiable, WatchesShow DEF Verifying
<1>3. /\ DOMAIN was \subseteq Around(r)
      /\ \A x \in Around(r) \cap DOMAIN frozen.domain.states :
           Shows(r, x, frozen.domain.states[x].node)
      /\ \A x \in Around(r) \ Operations : Shows(r, x, repo.tree[x])
  BY Verifiable DEF Verifying, Course, Stabilized, Undisturbed
<1>4. q \in Around(r)
  BY <1>1, <1>2, <1>3
<1>5. q \in Operations
  <2> SUFFICES ASSUME q \notin Operations PROVE FALSE
    OBVIOUS
  <2>1. Shows(r, q, repo.tree[q])
    BY <1>3, <1>4
  <2> QED
    BY <1>1, <1>2, <1>4, <2>1 DEF Shows
<1>6. q \in DOMAIN frozen.domain.states
  BY <1>5, Verifiable DEF Operations, Planned, Frozen
<1> DEFINE from == frozen.domain.states[q].node
           now == repo.tree[q]
<1>7. /\ from # Absent <=> q \in DOMAIN was
      /\ from # Absent => was[q] = KindOf(from)
      /\ now # Absent <=> q \in DOMAIN is
      /\ now # Absent => is[q] = KindOf(now)
  BY <1>2, <1>3, <1>4, <1>6 DEF Shows
<1> HIDE DEF was, is, from, now
<1>8. Differ(from, now) /\ Effects(was, is)[q] = EffectOf(from, now)
  BY <1>1, <1>7 DEF Differ, EffectOf
<1>9. CASE q \in plan.writes
  <2>1. from = plan.seen[q].node
    BY <1>9, Verifiable DEF Planned, Frozen, from
  <2> QED
    BY <1>8, <1>9, <2>1, WriteAccounted DEF was, is, from, now
<1>10. CASE q \in DOMAIN plan.parents
  BY <1>8, <1>10, ParentAccounted DEF was, is, from, now
<1> QED
  BY <1>5, <1>9, <1>10 DEF Operations

-----------------------------------------------------------------------------
(* A schedule that ran to its end owes nothing to any path.                *)
LEMMA AllComplete ==
  ASSUME Verifying, stopped = "none", NEW p \in plan.writes
  PROVE  ExecutionStatus(p) = "execution_complete"
<1> DEFINE mine == {states[o] : o \in {q \in DOMAIN states : p \in Attributed(q)}}
<1>1. \A o \in DOMAIN states : states[o] = "completed"
  BY Verifiable DEF Verifying, Course, InOrder
<1>2. /\ p \in Paths /\ p \in selected /\ plan.seen[p] # Before(p)
      /\ plan.seen[p] \in [node : Nodes, entry : Entries]
  BY Verifiable, WrittenKinds DEF Planned, Frozen
<1>3. plan.seen[p].node # Before(p).node \/ plan.seen[p].entry # Before(p).entry
  BY <1>2 DEF Before, State
<1>4. \E o \in Obligations : p \in Attributed(o)
  <2> DEFINE at(phase) == [phase |-> phase, path |-> p]
  <2>1. p \in IndexWrites => at("index") \in Obligations
    BY DEF Obligations
  <2>2. p \in LeafWrites => at("leaf") \in Obligations
    BY DEF Obligations
  <2>3. p \in Removals => at("removal") \in Obligations
    BY DEF Obligations
  <2>4. p \in IndexWrites \cup LeafWrites \cup Removals
    BY <1>2, <1>3, NodeKinds, BeforeTypes DEF IndexWrites, LeafWrites, Removals, Verifying
  <2>5. \A phase \in {"index", "leaf", "removal"} : p \in Attributed(at(phase))
    BY DEF Attributed
  <2> QED
    BY <2>1, <2>2, <2>3, <2>4, <2>5
<1>5. mine = {"completed"}
  BY <1>1, <1>4, Verifiable
<1> QED
  BY <1>5 DEF ExecutionStatus

LEMMA VerifyExplained ==
  ASSUME Verifying, VerifyPostTransplantState, head = frozen.head
  PROVE  AlarmsExplained'
<1> DEFINE paths == DOMAIN frozen.domain.states
           live == Capture(repo, paths)
<1>1. /\ report'.outcomes = [p \in selected |-> Outcome(p, live)]
      /\ report'.violations =
           Marked("unattributed_change", {p \in paths : Unattributed(p, live)})
           \cup Marked("candidate_not_restored", {p \in paths : NotRestored(p, live)})
           \cup Marked("planned_effect_not_verified", {p \in paths : ParentNotVerified(p, live)})
           \cup Marked("unauthorized_topology_change", Unauthorized(live))
           \cup Marked("head_moved", IF head = frozen.head THEN {} ELSE {Root})
      /\ UNCHANGED <<oracle, ended, selected, repo, head, plan, frozen, states, stopped, late>>
  BY DEF VerifyPostTransplantState
<1>2. live.watches = WatchesOf(repo) /\ \A p \in paths : live.states[p] = State(repo, p)
  BY DEF Capture
<1> HIDE DEF live
<1>3. \A p \in paths : ~Unattributed(p, live) /\ ~ParentNotVerified(p, live)
  BY <1>2, NothingUnattributed, ParentsVerified
<1>4. \A p \in paths : ~NotRestored(p, live)
  BY <1>2, CompleteRestored DEF NotRestored
<1>5. \A q \in Unauthorized(live) : HalfReplaced(q)
  <2> SUFFICES ASSUME NEW q \in Unauthorized(live) PROVE HalfReplaced(q)
    OBVIOUS
  <2>1. PICK r \in DOMAIN frozen.domain.watches :
          LET effects == Effects(frozen.domain.watches[r], live.watches[r])
          IN q \in DOMAIN effects /\ ~Authorized(q, effects[q])
    BY DEF Unauthorized
  <2>2. r \in Roots
    BY Verifiable DEF Verifying, Course, Stabilized
  <2>3. live.watches[r] = WatchesOf(repo)[r]
    BY <1>2
  <2> QED
    BY <2>1, <2>2, <2>3, EffectsExplained
<1>6. \A v \in report'.violations : v[1] = "unauthorized_topology_change" /\ HalfReplaced(v[2])
  BY <1>1, <1>3, <1>4, <1>5 DEF Marked
<1>7. ASSUME stopped = "none", NEW p \in selected
      PROVE  Outcome(p, live) \in {"restored", "already_at_before"}
  <2>1. p \in paths
    BY Verifiable DEF Frozen
  <2>2. p \in plan.writes => ExecutionStatus(p) = "execution_complete"
    BY <1>7, AllComplete
  <2> QED
    BY <1>3, <1>4, <2>1, <2>2 DEF Outcome
<1>8. \A q : HalfReplaced(q)' <=> HalfReplaced(q)
  BY <1>1 DEF HalfReplaced, ExecutionStatus, Attributed, Before, State
<1> QED
  BY <1>1, <1>6, <1>7, <1>8 DEF AlarmsExplained

LEMMA AlarmStep ==
  ASSUME TypeOK, Inv, Course, AlarmsExplained, [Next]_vars
  PROVE  AlarmsExplained'
<1>1. CASE VerifyPostTransplantState
  <2>1. UNCHANGED <<head, frozen, late>> /\ pc = "verify"
    BY <1>1 DEF VerifyPostTransplantState
  <2>2. CASE late = {} /\ head = frozen.head
    BY <1>1, <2>1, <2>2, VerifyExplained DEF Verifying
  <2>3. CASE ~(late = {} /\ head = frozen.head)
    BY <2>1, <2>3 DEF AlarmsExplained
  <2> QED
    BY <2>2, <2>3
<1>2. CASE UNCHANGED vars
  <2>1. \A q : HalfReplaced(q)' <=> HalfReplaced(q)
    BY <1>2 DEF vars, HalfReplaced, ExecutionStatus, Attributed, Before, State
  <2> QED
    BY <1>2, <2>1 DEF vars, AlarmsExplained
<1>3. CASE ~VerifyPostTransplantState /\ ~UNCHANGED vars
  <2>1. ending' # "verified"
    BY <1>3 DEF TypeOK, Next, Transaction, PlanSelectiveRestore, Freeze, Prepare, FinalFence,
       Execute, UserEdits, UserCommits, Stop
  <2> QED
    BY <2>1 DEF AlarmsExplained
<1> QED
  BY <1>1, <1>2, <1>3

(* The verification raises no alarm over the program's own work, for every *)
(* tree of paths and every selection (post-transplant-verification.ts).    *)
THEOREM NoFalseAlarm == Spec => []AlarmsExplained
<1>1. Init => AlarmsExplained
  BY DEF Init, AlarmsExplained
<1>2. AlarmsExplained /\ TypeOK /\ Inv /\ Course /\ [Next]_vars => AlarmsExplained'
  BY AlarmStep
<1> QED
  BY <1>1, <1>2, TransplantInvariant, CourseKept, PTL DEF Spec
=============================================================================

--------------------------- MODULE RuntimeProofs ---------------------------
(***************************************************************************)
(* Theorems about the threads of the mesh runtime, for every set of tasks, *)
(* processes, models and patches and every risk: what a replan costs, that *)
(* a replanned task is held, and what the phase of a task rests on.        *)
(***************************************************************************)
EXTENDS MeshRuntime, TLAPS

\* The results that stand behind the phase a role brings its task to.
Backing(role) ==
  CASE Target(role) = "SUPERVISOR_REVIEW" -> {"integrate", "checks"}
    [] Target(role) = "MACHINE_CHECKS" -> {"integrate"}
    [] OTHER -> {}

RowFields == {"state", "owner", "lease", "due", "version", "worker", "supervisor", "total"}
NodeFields == {"state", "owner", "lease", "due", "attempts", "token"}
RunFields ==
  {"process", "node", "attempts", "model", "step", "goal", "tries", "seen", "want",
   "answer", "patch", "child", "ok", "finished"}

Submitted(t) == task[t].state # "ABSENT"

\* A task's row: once submitted a task stays, and none is before the root.
TaskOK(t) ==
  /\ DOMAIN task[t] = RowFields
  /\ task[t].version \in Nat
  /\ task[t].state \in Cont!States \cup {"ABSENT"}
  /\ Submitted(t) => Submitted(RootTask)

\* A node belongs to a planned task; it waits for what backs its phase; its owner runs it.
NodeOK(n) ==
  /\ DOMAIN node[n] = NodeFields
  /\ node[n].owner # None => node[n].state = "RUNNING"
  /\ node[n].state # "ABSENT" =>
       /\ Planned(n[1]) /\ Submitted(n[1])
       /\ \A x \in Backing(n[2]) : <<n, <<n[1], x>>>> \in deps

Descends(t) ==
  /\ Parent(t) \in Tasks /\ Planned(Parent(t)) /\ Submitted(Parent(t))
  /\ Smaller(plan[t], plan[Parent(t)])
  /\ plan[t].repairs \in 0..plan[Parent(t)].repairs

PlanOK(t) ==
  Planned(t) =>
    /\ plan[t] \in Contracts
    /\ t = RootTask \/ Submitted(t)
    /\ plan[t].of # None => Descends(t)

\* An answer that asks for a replan raises the risk or spends a repair.
AnswerOK(r) ==
  r.answer.kind = "replan" =>
    /\ r.answer.consume \in BOOLEAN /\ r.answer.reason \in Reasons
    /\ r.answer.risk \in 0..MaxRisk
    /\ IF r.answer.consume THEN r.answer.risk = plan[r.node[1]].risk
       ELSE r.answer.risk > plan[r.node[1]].risk

\* A transition is based on a row that, unless it has been written since, is behind the node.
HopOK(r) ==
  /\ r.seen \in Nat /\ r.seen <= task[r.node[1]].version
  /\ r.seen = task[r.node[1]].version =>
       /\ Behind(task[r.node[1]].state, r.node[2])
       /\ r.want = Hop(task[r.node[1]].state, r.node[2])

\* Where a run is, and what it may rest on there.
StepOK(r) ==
  /\ r.goal \in {"work", "budget"}
  /\ r.goal = "budget" => r.answer.kind = "replan"
  /\ r.step \in {"sync", "hop"} => ~ r.finished
  /\ r.step \in {"begin", "work"} => r.goal = "work" /\ ~ r.finished
  /\ r.step \in {"budget", "submit"} => r.answer.kind = "replan" /\ ~ r.finished
  /\ r.step = "submit" => ~ Exhausted(r)
  /\ r.step = "contain" => r.finished
  /\ r.step = "control" => r.want = ControlState(r) /\ (r.finished \/ r.answer.kind = "replan")
  /\ r.step = "hop" => HopOK(r)
  /\ r.step = "graph" /\ r.child \in Tasks => Planned(r.child) /\ Submitted(r.child)

RunOK(r) ==
  /\ DOMAIN r = RunFields
  /\ r.node \in Nodes /\ r.process \in Processes
  /\ Planned(r.node[1]) /\ Submitted(r.node[1])
  /\ \A x \in Backing(r.node[2]) : Succeeded(r.node[1], x)
  /\ AnswerOK(r) /\ StepOK(r)

RInv ==
  /\ DOMAIN task = Tasks /\ DOMAIN node = Nodes /\ DOMAIN plan = Tasks
  /\ Planned(RootTask)
  /\ \A t \in Tasks : TaskOK(t) /\ PlanOK(t)
  /\ \A n \in Nodes : NodeOK(n)
  /\ \A r \in runs : RunOK(r)

\* What stays out of the phases of the mesh: a task that was planned anew, or is about to be.
HInv ==
  /\ ReplannedHeld
  /\ \A r \in runs : r.step = "submit" => ~ InPhases(task[r.node[1]].state)

-----------------------------------------------------------------------------
\* The phases in their order, and the roles whose results are waited for.
LEMMA PhaseOrder ==
  /\ InPhases("READY") /\ Place("READY", Phases) = 1
  /\ InPhases("PLANNING") /\ Place("PLANNING", Phases) = 2
  /\ InPhases("WORKER_IMPLEMENTING") /\ Place("WORKER_IMPLEMENTING", Phases) = 3
  /\ InPhases("MACHINE_CHECKS") /\ Place("MACHINE_CHECKS", Phases) = 4
  /\ InPhases("SUPERVISOR_REVIEW") /\ Place("SUPERVISOR_REVIEW", Phases) = 5
<1>1. DOMAIN Phases = 1..5
  BY DEF Phases
<1>2. /\ Phases[1] = "READY" /\ Phases[2] = "PLANNING" /\ Phases[3] = "WORKER_IMPLEMENTING"
      /\ Phases[4] = "MACHINE_CHECKS" /\ Phases[5] = "SUPERVISOR_REVIEW"
  BY DEF Phases
<1>3. \A i, j \in 1..5 : Phases[i] = Phases[j] => i = j
  BY <1>2
<1>4. \A i \in 1..5 : Place(Phases[i], Phases) = i /\ InPhases(Phases[i])
  <2> TAKE i \in 1..5
  <2>1. Place(Phases[i], Phases) \in 1..5 /\ Phases[Place(Phases[i], Phases)] = Phases[i]
    BY <1>1 DEF Place
  <2> QED  BY <1>1, <1>3, <2>1 DEF InPhases, ToSet
<1> QED  BY <1>2, <1>4

LEMMA PhaseStates ==
  \A s : InPhases(s) <=>
    s \in {"READY", "PLANNING", "WORKER_IMPLEMENTING", "MACHINE_CHECKS", "SUPERVISOR_REVIEW"}
<1>1. DOMAIN Phases = 1..5
  BY DEF Phases
<1>2. /\ Phases[1] = "READY" /\ Phases[2] = "PLANNING" /\ Phases[3] = "WORKER_IMPLEMENTING"
      /\ Phases[4] = "MACHINE_CHECKS" /\ Phases[5] = "SUPERVISOR_REVIEW"
  BY DEF Phases
<1> QED  BY <1>1, <1>2 DEF InPhases, ToSet

\* A hop stays in the phases, and enters a late one only for a node that what backs it precedes.
LEMMA HopBacked ==
  ASSUME NEW s, NEW role, Behind(s, role)
  PROVE  /\ InPhases(Hop(s, role))
         /\ Hop(s, role) = "SUPERVISOR_REVIEW" => "checks" \in Backing(role)
         /\ Hop(s, role) = "MACHINE_CHECKS" => "integrate" \in Backing(role)
<1>1. Target(role) \in {"PLANNING", "WORKER_IMPLEMENTING", "MACHINE_CHECKS", "SUPERVISOR_REVIEW"}
  BY DEF Target
<1>2. /\ Phases[1] = "READY" /\ Phases[2] = "PLANNING" /\ Phases[3] = "WORKER_IMPLEMENTING"
      /\ Phases[4] = "MACHINE_CHECKS" /\ Phases[5] = "SUPERVISOR_REVIEW"
  BY DEF Phases
<1>3. s \in {"READY", "PLANNING", "WORKER_IMPLEMENTING", "MACHINE_CHECKS", "SUPERVISOR_REVIEW"}
  BY PhaseStates DEF Behind
<1>4. Place(s, Phases) < Place(Target(role), Phases)
  BY DEF Behind
<1>5. CASE s = "READY"
  BY <1>1, <1>2, <1>5, PhaseOrder DEF Hop
<1>6. CASE s = "PLANNING"
  BY <1>1, <1>2, <1>6, PhaseOrder DEF Hop
<1>7. CASE s = "WORKER_IMPLEMENTING"
  <2>1. Hop(s, role) = "MACHINE_CHECKS"
    BY <1>2, <1>7, PhaseOrder DEF Hop
  <2>2. Target(role) \in {"MACHINE_CHECKS", "SUPERVISOR_REVIEW"}
    BY <1>1, <1>4, <1>7, PhaseOrder
  <2> QED  BY <2>1, <2>2, PhaseOrder DEF Backing
<1>8. CASE s = "MACHINE_CHECKS"
  <2>1. Hop(s, role) = "SUPERVISOR_REVIEW"
    BY <1>2, <1>8, PhaseOrder DEF Hop
  <2>2. Target(role) = "SUPERVISOR_REVIEW"
    BY <1>1, <1>4, <1>8, PhaseOrder
  <2> QED  BY <2>1, <2>2, PhaseOrder DEF Backing
<1>9. CASE s = "SUPERVISOR_REVIEW"
  BY <1>1, <1>4, <1>9, PhaseOrder
<1> QED  BY <1>3, <1>5, <1>6, <1>7, <1>8, <1>9

\* What backs a phase is among what a node of that phase waits for, in a plan of any risk.
LEMMA BackingNeeded ==
  ASSUME NEW risk, NEW role \in Roles
  PROVE  Backing(role) \subseteq Needs(role, risk) \cap Roles
<1>1. {"integrate", "checks"} \subseteq Roles
  BY DEF Roles, Members, GuardedMembers
<1>2. role \in GuardedMembers \cup BoundedMembers \cup FullMembers
  BY DEF Roles, Members
<1>3. CASE role \in {"index", "scout", "plan", "adjudicate", "oracle", "implement", "integrate"}
  BY <1>3 DEF Backing, Target
<1>4. CASE role = "checks"
  <2>1. Target(role) = "MACHINE_CHECKS" /\ Needs(role, risk) = {"integrate"}
    BY <1>4 DEF Target, Needs
  <2> QED  BY <1>1, <2>1 DEF Backing
<1>5. CASE role \in {"review1", "review2"}
  <2>1. Target(role) = "SUPERVISOR_REVIEW" /\ Needs(role, risk) = {"integrate", "checks"}
    BY <1>5 DEF Target, Needs
  <2> QED  BY <1>1, <2>1 DEF Backing
<1>6. CASE role = "supervise"
  <2>1. Target(role) = "SUPERVISOR_REVIEW"
        /\ Needs(role, risk) = {"integrate", "checks", "review1", "review2"}
    BY <1>6 DEF Target, Needs
  <2> QED  BY <1>1, <2>1 DEF Backing
<1>7. CASE role = "release"
  <2>1. Target(role) = "SUPERVISOR_REVIEW" /\ Needs(role, risk) = {"integrate", "checks", "supervise"}
    BY <1>7 DEF Target, Needs
  <2> QED  BY <1>1, <2>1 DEF Backing
<1> QED
  BY <1>2, <1>3, <1>4, <1>5, <1>6, <1>7 DEF GuardedMembers, BoundedMembers, FullMembers

\* A plan of a smaller risk has no other roles.
LEMMA MembersAreRoles ==
  ASSUME NEW risk \in 0..MaxRisk
  PROVE  Members(risk) \subseteq Roles
<1>1. MaxRisk \in 0..4
  BY RuntimeAssumption
<1>2. (risk >= 2 => MaxRisk >= 2) /\ (risk >= 3 => MaxRisk >= 3)
  BY <1>1
<1> QED  BY <1>2 DEF Roles, Members

LEMMA TransitionsStayInStates ==
  \A s \in Cont!States : Cont!TRANSITIONS[s] \subseteq Cont!States
BY DEF Cont!TRANSITIONS, Cont!States, Cont!RUNNABLE_STATES, Cont!DELAYED_STATES, Cont!TERMINAL_STATES

-----------------------------------------------------------------------------
\* What no step does to a task: take it back, or move it without a new version.
TaskGrows(t) ==
  /\ TaskOK(t)'
  /\ task'[t].version >= task[t].version
  /\ Submitted(t) => /\ Submitted(t)'
                     /\ task'[t].version = task[t].version => task'[t].state = task[t].state
TasksGrow == DOMAIN task' = Tasks /\ \A t \in Tasks : TaskGrows(t)

LEMMA TasksStay ==
  ASSUME RInv, UNCHANGED task
  PROVE  TasksGrow
BY DEF RInv, TaskOK, TasksGrow, TaskGrows, Submitted, RowFields

LEMMA TaskSubmitted ==
  ASSUME RInv, NEW t, Cont!SubmitTask(t),
         t \in Tasks => t = RootTask \/ Submitted(RootTask)
  PROVE  TasksGrow /\ \A u \in Tasks : task'[u] # task[u] => u = t /\ ~ Submitted(u) /\ task'[u].state = "READY"
<1>1. task' = [task EXCEPT ![t] = [task[t] EXCEPT !.state = "READY"]] /\ task[t].state = "ABSENT"
  BY DEF Cont!SubmitTask
<1>2. \A u \in Tasks : u # t => task'[u] = task[u]
  BY <1>1 DEF RInv
<1>3. ASSUME t \in Tasks
      PROVE  /\ DOMAIN task'[t] = RowFields /\ task'[t].state = "READY"
             /\ task'[t].version = task[t].version
  BY <1>1, <1>3 DEF RInv, TaskOK, RowFields
<1>4. "READY" \in Cont!States
  BY DEF Cont!States, Cont!RUNNABLE_STATES
<1>5. DOMAIN task' = Tasks
  BY <1>1 DEF RInv
<1>6. RootTask \in Tasks
  BY RuntimeAssumption
<1>7. \A u \in Tasks : TaskGrows(u)
  <2> TAKE u \in Tasks
  <2>1. Submitted(RootTask) => Submitted(RootTask)'
    BY <1>1, <1>2, <1>6 DEF Submitted
  <2>2. CASE u = t
    BY <1>1, <1>3, <1>4, <2>1, <2>2 DEF TaskGrows, TaskOK, Submitted, RInv
  <2>3. CASE u # t
    BY <1>2, <2>1, <2>3 DEF TaskGrows, TaskOK, Submitted, RInv
  <2> QED  BY <2>2, <2>3
<1> QED  BY <1>1, <1>2, <1>3, <1>5, <1>7 DEF TasksGrow, Submitted

LEMMA TaskMoved ==
  ASSUME RInv, NEW t \in Tasks, NEW target, Cont!TransitionAllowed(t, target),
         task' = [task EXCEPT ![t] = Cont!TransitionedRow(task[t], target, FALSE)]
  PROVE  TasksGrow /\ task'[t].state = target /\ \A u \in Tasks : u # t => task'[u] = task[u]
<1>1. Submitted(t) /\ target \in Cont!States /\ target # "ABSENT"
  <2>1. task[t].state \in Cont!States
    BY DEF RInv, TaskOK, Cont!TransitionAllowed
  <2>2. target \in Cont!States
    BY <2>1, TransitionsStayInStates DEF Cont!TransitionAllowed
  <2> QED  BY <2>1, <2>2 DEF Submitted, Cont!States, Cont!RUNNABLE_STATES, Cont!DELAYED_STATES, Cont!TERMINAL_STATES
<1>2. /\ DOMAIN task'[t] = RowFields /\ task'[t].state = target
      /\ task'[t].version = task[t].version + 1
  BY DEF RInv, TaskOK, Cont!TransitionedRow, Cont!Bump, RowFields
<1>3. \A u \in Tasks : u # t => task'[u] = task[u]
  BY DEF RInv
<1>4. DOMAIN task' = Tasks /\ RootTask \in Tasks
  BY RuntimeAssumption DEF RInv
<1>5. \A u \in Tasks : TaskOK(u)
  BY DEF RInv
<1>6. Submitted(RootTask) => Submitted(RootTask)'
  BY <1>1, <1>2, <1>3, <1>4 DEF Submitted
<1>7. \A u \in Tasks : TaskGrows(u)
  <2> TAKE u \in Tasks
  <2>1. TaskOK(u) /\ task[u].version \in Nat
    BY <1>5 DEF TaskOK
  <2>2. \A v \in Nat : v >= v /\ v + 1 >= v /\ v + 1 # v /\ v + 1 \in Nat
    OBVIOUS
  <2>3. CASE u = t
    BY <1>1, <1>2, <1>6, <2>1, <2>2, <2>3 DEF TaskGrows, TaskOK, Submitted
  <2>4. CASE u # t
    BY <1>3, <1>6, <2>1, <2>2, <2>4 DEF TaskGrows, TaskOK, Submitted
  <2> QED  BY <2>3, <2>4
<1> QED  BY <1>2, <1>3, <1>4, <1>7 DEF TasksGrow

-----------------------------------------------------------------------------
\* What no step does to a node that is there: only its owner ends it, and a result is final.
NodeMoves(n) ==
  /\ DOMAIN node'[n] = NodeFields
  /\ node'[n].owner # None => node'[n].state = "RUNNING"
  /\ node[n].state = "SUCCEEDED" => node'[n].state = "SUCCEEDED"
NodesMove == DOMAIN node' = Nodes /\ deps \subseteq deps' /\ \A n \in Nodes : NodeMoves(n)
NoneAdded == \A n \in Nodes : node'[n].state # "ABSENT" => node[n].state # "ABSENT"

LEMMA NodesStay ==
  ASSUME RInv, UNCHANGED meshStore
  PROVE  NodesMove /\ NoneAdded
<1>1. node' = node /\ deps' = deps
  BY DEF meshStore
<1>2. DOMAIN node = Nodes /\ \A n \in Nodes : NodeOK(n)
  BY DEF RInv
<1> QED  BY <1>1, <1>2 DEF NodeOK, NodesMove, NodeMoves, NoneAdded

LEMMA RecoverMoves ==
  ASSUME RInv, Mesh!RecoverExpired
  PROVE  NodesMove /\ NoneAdded
<1>1. DOMAIN node = Nodes /\ \A n \in Nodes : NodeOK(n)
  BY DEF RInv
<1>2. DOMAIN node' = Nodes /\ deps' = deps
  BY DEF Mesh!RecoverExpired
<1>3. ASSUME NEW n \in Nodes
      PROVE  NodeMoves(n) /\ (node'[n].state # "ABSENT" => node[n].state # "ABSENT")
  <2>1. DOMAIN node[n] = NodeFields /\ NodeOK(n)
    BY <1>1 DEF NodeOK
  <2>2. CASE n \in Mesh!Expired
    <3>1. node'[n] = Mesh!RecoveredRow(node[n]) /\ node[n].state = "RUNNING"
      BY <2>2 DEF Mesh!RecoverExpired, Mesh!Expired
    <3>2. DOMAIN node'[n] = NodeFields /\ node'[n].owner = None
      BY <2>1, <3>1 DEF Mesh!RecoveredRow, Mesh!Unleased, NodeFields
    <3> QED  BY <3>1, <3>2 DEF NodeMoves
  <2>3. CASE n \notin Mesh!Expired
    <3>1. node'[n] = node[n]
      BY <2>3 DEF Mesh!RecoverExpired
    <3> QED  BY <2>1, <3>1 DEF NodeMoves, NodeOK
  <2> QED  BY <2>2, <2>3
<1> QED  BY <1>2, <1>3 DEF NodesMove, NoneAdded

LEMMA ClaimMoves ==
  ASSUME RInv, NEW p \in Processes, NEW limit, NEW C \in SUBSET Mesh!Eligible,
         Mesh!ClaimReady(p, limit, C)
  PROVE  NodesMove /\ NoneAdded
<1>1. DOMAIN node = Nodes /\ \A n \in Nodes : NodeOK(n)
  BY DEF RInv
<1>2. DOMAIN node' = Nodes /\ deps' = deps
  BY DEF Mesh!ClaimReady
<1>3. ASSUME NEW n \in Nodes
      PROVE  NodeMoves(n) /\ (node'[n].state # "ABSENT" => node[n].state # "ABSENT")
  <2>1. DOMAIN node[n] = NodeFields /\ NodeOK(n)
    BY <1>1 DEF NodeOK
  <2>2. CASE n \in C
    <3>1. node'[n] = Mesh!ClaimedRow(node[n], p) /\ node[n].state \in {"READY", "RETRY_READY"}
      BY <2>2 DEF Mesh!ClaimReady, Mesh!Eligible
    <3>2. DOMAIN node'[n] = NodeFields /\ node'[n].state = "RUNNING"
      BY <2>1, <3>1 DEF Mesh!ClaimedRow, NodeFields
    <3> QED  BY <3>1, <3>2 DEF NodeMoves
  <2>3. CASE n \notin C
    <3>1. node'[n] = node[n]
      BY <2>3 DEF Mesh!ClaimReady
    <3> QED  BY <2>1, <3>1 DEF NodeMoves, NodeOK
  <2> QED  BY <2>2, <2>3
<1> QED  BY <1>2, <1>3 DEF NodesMove, NoneAdded

\* A thread whose node succeeded meanwhile, or is run by another, is refused.
LEMMA FinishMoves ==
  ASSUME RInv, NEW m \in Nodes, NEW p \in Processes, NEW outcome, Mesh!FinishNode(m, p, outcome)
  PROVE  NodesMove /\ NoneAdded
<1>1. DOMAIN node = Nodes /\ \A n \in Nodes : NodeOK(n)
  BY DEF RInv
<1>2. DOMAIN node' = Nodes /\ deps' = deps
  BY <1>1 DEF Mesh!FinishNode
<1>3. node[m].state = "RUNNING"
  BY <1>1, RuntimeAssumption DEF NodeOK, Mesh!FinishNode, Mesh!MayFinish
<1>4. node'[m] = Mesh!FinishedRow(node[m], outcome)
  BY <1>1 DEF Mesh!FinishNode
<1>5. DOMAIN node'[m] = NodeFields /\ node'[m].owner = None
  BY <1>1, <1>4 DEF NodeOK, Mesh!FinishedRow, Mesh!Unleased, NodeFields
<1>6. ASSUME NEW n \in Nodes, n # m
      PROVE  NodeMoves(n) /\ (node'[n].state # "ABSENT" => node[n].state # "ABSENT")
  <2>1. node'[n] = node[n]
    BY <1>1, <1>6 DEF Mesh!FinishNode
  <2> QED  BY <1>1, <2>1 DEF NodeMoves, NodeOK
<1>7. NodeMoves(m)
  BY <1>3, <1>5 DEF NodeMoves
<1> QED  BY <1>2, <1>3, <1>6, <1>7 DEF NodesMove, NoneAdded

LEMMA ClockMoves ==
  ASSUME RInv, NEW m \in Nodes, Mesh!LeaseRunsOut(m) \/ Mesh!DelayElapses(m)
  PROVE  NodesMove /\ NoneAdded
<1>1. DOMAIN node = Nodes /\ \A n \in Nodes : NodeOK(n)
  BY DEF RInv
<1>2. DOMAIN node' = Nodes /\ deps' = deps
  BY <1>1 DEF Mesh!LeaseRunsOut, Mesh!DelayElapses
<1>3. /\ DOMAIN node'[m] = NodeFields
      /\ node'[m].owner = node[m].owner /\ node'[m].state = node[m].state
  BY <1>1 DEF Mesh!LeaseRunsOut, Mesh!DelayElapses, NodeOK, NodeFields
<1>4. \A n \in Nodes : n # m => node'[n] = node[n]
  BY <1>1 DEF Mesh!LeaseRunsOut, Mesh!DelayElapses
<1>5. ASSUME NEW n \in Nodes
      PROVE  NodeMoves(n) /\ (node'[n].state # "ABSENT" => node[n].state # "ABSENT")
  <2>1. NodeOK(n)
    BY <1>1
  <2> QED  BY <1>3, <1>4, <2>1 DEF NodeMoves, NodeOK
<1> QED  BY <1>2, <1>5 DEF NodesMove, NoneAdded

\* A submission adds nodes of the task it is made for, each with what its plan makes it wait for.
LEMMA SubmitMoves ==
  ASSUME RInv, NEW t, NEW risk, t \in Tasks => risk \in 0..MaxRisk, Mesh!SubmitGraph(Batch(t, risk))
  PROVE  /\ NodesMove
         /\ \A n \in Nodes : node'[n].state # "ABSENT" /\ node[n].state = "ABSENT" =>
              n[1] = t /\ \A x \in Backing(n[2]) : <<n, <<n[1], x>>>> \in deps'
<1> DEFINE B == Batch(t, risk)
<1>1. DOMAIN node = Nodes /\ \A n \in Nodes : NodeOK(n)
  BY DEF RInv
<1>2. DOMAIN node' = Nodes /\ deps \subseteq deps'
  BY DEF Mesh!SubmitGraph
<1>3. DOMAIN B = {t} \X Members(risk) /\ \A n \in {t} \X Members(risk) : B[n] = {t} \X Needs(n[2], risk)
  BY DEF Batch
<1>4. \A n \in Nodes : node'[n] = IF n \in DOMAIN B /\ node[n].state = "ABSENT"
                                  THEN [node[n] EXCEPT !.state = "READY"] ELSE node[n]
  BY DEF Mesh!SubmitGraph
<1>5. \A n \in DOMAIN B, m \in Nodes : m \in B[n] => <<n, m>> \in deps'
  BY DEF Mesh!SubmitGraph
<1> HIDE DEF B
<1>6. ASSUME NEW n \in Nodes
      PROVE  NodeMoves(n)
  <2>1. NodeOK(n) /\ DOMAIN node[n] = NodeFields
    BY <1>1 DEF NodeOK
  <2>2. CASE n \in DOMAIN B /\ node[n].state = "ABSENT"
    <3>1. DOMAIN node'[n] = NodeFields /\ node'[n].owner = node[n].owner
      BY <1>4, <2>1, <2>2 DEF NodeFields
    <3>2. node[n].owner = None
      BY <2>1, <2>2 DEF NodeOK
    <3> QED  BY <2>2, <3>1, <3>2 DEF NodeMoves
  <2>3. CASE ~ (n \in DOMAIN B /\ node[n].state = "ABSENT")
    BY <1>4, <2>1, <2>3 DEF NodeMoves, NodeOK
  <2> QED  BY <2>2, <2>3
<1>7. ASSUME NEW n \in Nodes, node'[n].state # "ABSENT", node[n].state = "ABSENT"
      PROVE  n[1] = t /\ \A x \in Backing(n[2]) : <<n, <<n[1], x>>>> \in deps'
  <2>1. n \in DOMAIN B
    BY <1>4, <1>7
  <2>2. n[1] = t /\ n[2] \in Roles /\ n[1] \in Tasks /\ B[n] = {t} \X Needs(n[2], risk)
    BY <1>3, <1>7, <2>1 DEF Nodes
  <2>3. ASSUME NEW x \in Backing(n[2])
        PROVE  <<n[1], x>> \in Nodes /\ <<n[1], x>> \in B[n]
    BY <2>2, BackingNeeded DEF Nodes
  <2> QED  BY <1>5, <2>1, <2>2, <2>3
<1> QED  BY <1>2, <1>6, <1>7 DEF NodesMove

-----------------------------------------------------------------------------
\* What has been established of a plan, a node or a run, the steps of others leave true.
PlansGrow == DOMAIN plan' = Tasks /\ \A t \in Tasks : Planned(t) => plan'[t] = plan[t]

LEMMA PlansStay ==
  ASSUME RInv, UNCHANGED plan
  PROVE  PlansGrow
BY DEF RInv, PlansGrow

LEMMA PlanKept ==
  ASSUME RInv, TasksGrow, PlansGrow, NEW t \in Tasks, plan'[t] = plan[t]
  PROVE  PlanOK(t)'
<1>1. PlanOK(t)
  BY DEF RInv
<1>2. Submitted(t) => Submitted(t)'
  BY DEF TasksGrow, TaskGrows
<1>3. ASSUME Planned(t), plan[t].of # None
      PROVE  Descends(t)'
  <2>1. Descends(t)
    BY <1>1, <1>3 DEF PlanOK
  <2>2. Parent(t)' = Parent(t)
    BY DEF Parent
  <2>3. plan'[Parent(t)] = plan[Parent(t)] /\ (Submitted(Parent(t)) => Submitted(Parent(t))')
    BY <2>1, <2>2 DEF Descends, PlansGrow, TasksGrow, TaskGrows, Submitted
  <2> QED  BY <2>1, <2>2, <2>3 DEF Descends, Planned, Smaller
<1> QED  BY <1>1, <1>2, <1>3 DEF PlanOK, Planned

LEMMA NodeKept ==
  ASSUME RInv, TasksGrow, PlansGrow, NodesMove, NEW n \in Nodes,
         node[n].state = "ABSENT" /\ node'[n].state # "ABSENT" =>
           /\ Planned(n[1])' /\ Submitted(n[1])'
           /\ \A x \in Backing(n[2]) : <<n, <<n[1], x>>>> \in deps'
  PROVE  NodeOK(n)'
<1>1. NodeOK(n) /\ n[1] \in Tasks
  BY DEF RInv, Nodes
<1>2. NodeMoves(n) /\ deps \subseteq deps'
  BY DEF NodesMove
<1>3. (Planned(n[1]) => Planned(n[1])') /\ (Submitted(n[1]) => Submitted(n[1])')
  BY <1>1 DEF PlansGrow, TasksGrow, TaskGrows, Planned
<1>4. CASE node[n].state = "ABSENT"
  BY <1>2, <1>4 DEF NodeOK, NodeMoves
<1>5. CASE node[n].state # "ABSENT"
  BY <1>1, <1>2, <1>3, <1>5 DEF NodeOK, NodeMoves
<1> QED  BY <1>4, <1>5

LEMMA BackingKept ==
  ASSUME NodesMove, NEW n \in Nodes, NEW x \in Backing(n[2]), Succeeded(n[1], x)
  PROVE  Succeeded(n[1], x)'
<1>1. <<n[1], x>> \in Nodes
  BY BackingNeeded DEF Nodes
<1> QED  BY <1>1 DEF Succeeded, NodesMove, NodeMoves

LEMMA RunKept ==
  ASSUME RInv, TasksGrow, PlansGrow, NodesMove, NEW r \in runs
  PROVE  RunOK(r)'
<1>1. RunOK(r) /\ r.node \in Nodes /\ r.node[1] \in Tasks
  BY DEF RInv, RunOK, Nodes
<1>2. plan'[r.node[1]] = plan[r.node[1]] /\ Planned(r.node[1])'
  BY <1>1 DEF RunOK, PlansGrow, Planned
<1>3. Submitted(r.node[1])'
  BY <1>1 DEF RunOK, TasksGrow, TaskGrows
<1>4. \A x \in Backing(r.node[2]) : Succeeded(r.node[1], x)'
  BY <1>1, BackingKept DEF RunOK
<1>5. AnswerOK(r)'
  BY <1>1, <1>2 DEF RunOK, AnswerOK
<1>6. StepOK(r)'
  <2>1. StepOK(r)
    BY <1>1 DEF RunOK
  <2>2. Exhausted(r)' = Exhausted(r) /\ ControlState(r)' = ControlState(r)
    BY <1>2 DEF Exhausted, ControlState
  <2>3. r.step = "hop" => HopOK(r)'
    <3> SUFFICES ASSUME r.step = "hop" PROVE HopOK(r)'
      OBVIOUS
    <3>1. HopOK(r) /\ TaskGrows(r.node[1]) /\ TaskOK(r.node[1]) /\ Submitted(r.node[1])
      BY <1>1, <2>1 DEF StepOK, TasksGrow, RInv, RunOK
    <3>2. task[r.node[1]].version \in Nat /\ task'[r.node[1]].version \in Nat
      BY <3>1 DEF TaskGrows, TaskOK
    <3>3. r.seen \in Nat /\ r.seen <= task'[r.node[1]].version
      BY <3>1, <3>2 DEF HopOK, TaskGrows
    <3>4. ASSUME r.seen = task'[r.node[1]].version
          PROVE  r.seen = task[r.node[1]].version /\ task'[r.node[1]].state = task[r.node[1]].state
      BY <3>1, <3>2, <3>4 DEF HopOK, TaskGrows
    <3> QED  BY <3>1, <3>3, <3>4 DEF HopOK
  <2>4. r.step = "graph" /\ r.child \in Tasks => Planned(r.child)' /\ Submitted(r.child)'
    BY <2>1 DEF StepOK, PlansGrow, TasksGrow, TaskGrows, Planned
  <2> QED  BY <2>1, <2>2, <2>3, <2>4 DEF StepOK
<1> QED  BY <1>1, <1>2, <1>3, <1>4, <1>5, <1>6 DEF RunOK

\* A step that submits nothing keeps the invariant when the runs it moves are right.
LEMMA StepKeeps ==
  ASSUME RInv, TasksGrow, NodesMove, NoneAdded, UNCHANGED plan,
         \A r \in runs' : r \in runs \/ RunOK(r)'
  PROVE  RInv'
<1>1. PlansGrow
  BY PlansStay
<1>2. \A n \in Nodes : NodeOK(n)'
  BY <1>1, NodeKept DEF NoneAdded
<1>3. \A t \in Tasks : PlanOK(t)' /\ TaskOK(t)'
  BY <1>1, PlanKept DEF TasksGrow, TaskGrows
<1>4. \A r \in runs' : RunOK(r)'
  BY <1>1, RunKept
<1>5. Planned(RootTask)'
  BY <1>1, RuntimeAssumption DEF RInv, PlansGrow, Planned
<1> QED  BY <1>1, <1>2, <1>3, <1>4, <1>5 DEF RInv, TasksGrow, NodesMove, PlansGrow

\* One that submits a graph or a task as well, when what it adds is right.
LEMMA SubmissionKeeps ==
  ASSUME RInv, TasksGrow, NodesMove, PlansGrow, NEW t,
         \/ UNCHANGED meshStore
         \/ \E risk : Mesh!SubmitGraph(Batch(t, risk)) /\ (t \in Tasks => risk \in 0..MaxRisk),
         t \in Tasks => Planned(t)' /\ Submitted(t)',
         \A u \in Tasks : plan'[u] = plan[u] \/ PlanOK(u)',
         \A r \in runs' : r \in runs \/ RunOK(r)'
  PROVE  RInv'
<1>1. ASSUME NEW n \in Nodes
      PROVE  NodeOK(n)'
  <2>1. n[1] \in Tasks
    BY DEF Nodes
  <2>2. CASE UNCHANGED meshStore
    <3>1. NoneAdded
      BY <2>2, NodesStay
    <3> QED  BY <3>1, NodeKept DEF NoneAdded
  <2>3. CASE \E risk : Mesh!SubmitGraph(Batch(t, risk)) /\ (t \in Tasks => risk \in 0..MaxRisk)
    BY <2>1, <2>3, SubmitMoves, NodeKept
  <2> QED  BY <2>2, <2>3
<1>2. \A u \in Tasks : PlanOK(u)' /\ TaskOK(u)'
  BY PlanKept DEF TasksGrow, TaskGrows
<1>3. \A r \in runs' : RunOK(r)'
  BY RunKept
<1>4. Planned(RootTask)'
  BY RuntimeAssumption DEF RInv, PlansGrow, Planned
<1> QED  BY <1>1, <1>2, <1>3, <1>4 DEF RInv, TasksGrow, NodesMove, PlansGrow

\* A run that has moved on is right when its answer and its step are.
LEMMA MovedRun ==
  ASSUME RInv, TasksGrow, PlansGrow, NodesMove, NEW r \in runs, NEW s,
         DOMAIN s = RunFields, s.node = r.node, s.process = r.process,
         s.answer = r.answer \/ AnswerOK(s)', StepOK(s)'
  PROVE  RunOK(s)'
<1>1. RunOK(r)'
  BY RunKept
<1>2. AnswerOK(s)'
  BY <1>1 DEF RunOK, AnswerOK
<1> QED  BY <1>1, <1>2 DEF RunOK

-----------------------------------------------------------------------------
LEMMA InitRuntime ==
  ASSUME Init
  PROVE  RInv /\ HInv /\ PhasesBacked
<1>1. PICK risk \in RootRisks :
        plan = [t \in Tasks |-> IF t = RootTask THEN Contract(risk, RootRepairs, None) ELSE None]
  BY DEF Init
<1>2. /\ task = [t \in Tasks |-> Cont!NewRow] /\ node = [n \in Nodes |-> Mesh!NewRow]
      /\ runs = {} /\ DOMAIN plan = Tasks
  BY <1>1 DEF Init, Cont!StoreInit, Mesh!StoreInit
<1>3. \A t \in Tasks : task[t].state = "ABSENT" /\ task[t].version = 1 /\ DOMAIN task[t] = RowFields
  BY <1>2 DEF Cont!NewRow, RowFields
<1>4. \A n \in Nodes : node[n].state = "ABSENT" /\ node[n].owner = None /\ DOMAIN node[n] = NodeFields
  BY <1>2 DEF Mesh!NewRow, NodeFields
<1>5. risk \in 0..MaxRisk /\ RootRepairs \in Nat
  BY <1>1, RuntimeAssumption
<1>6. \A t \in Tasks : Planned(t) => t = RootTask /\ plan[t] \in Contracts /\ plan[t].of = None
  BY <1>1, <1>5 DEF Planned, Contract, Contracts
<1>7. \A t \in Tasks : TaskOK(t) /\ PlanOK(t)
  BY <1>3, <1>6 DEF TaskOK, PlanOK, Submitted
<1>8. \A n \in Nodes : NodeOK(n)
  BY <1>4 DEF NodeOK
<1>9. Planned(RootTask)
  BY <1>1, <1>5, NoContractAssumption, RuntimeAssumption DEF Planned, Contract, Contracts
<1>10. RInv
  BY <1>2, <1>7, <1>8, <1>9 DEF RInv
<1>11. HInv /\ PhasesBacked
  BY <1>2, <1>3, <1>6 DEF HInv, ReplannedHeld, PhasesBacked, IsChild
<1> QED  BY <1>10, <1>11

-----------------------------------------------------------------------------
\* The steps from the command line, of the scheduler of runs and of the clock.
LEMMA OpenKeeps ==
  ASSUME RInv, Open
  PROVE  RInv'
<1>1. TasksGrow
  BY TaskSubmitted DEF Open
<1>2. NodesMove /\ NoneAdded
  BY NodesStay DEF Open
<1> QED  BY <1>1, <1>2, StepKeeps DEF Open, records
LEMMA OpenGraphKeeps ==
  ASSUME RInv, OpenGraph
  PROVE  RInv'
<1>1. TasksGrow /\ PlansGrow /\ runs' = runs /\ plan' = plan /\ task' = task /\ RootTask \in Tasks
  BY TasksStay, PlansStay, RuntimeAssumption DEF OpenGraph, contStore, records
<1>2. Planned(RootTask) /\ Submitted(RootTask) /\ plan[RootTask].risk \in 0..MaxRisk
  BY <1>1 DEF RInv, OpenGraph, Submitted, PlanOK, Contracts
<1>3. Mesh!SubmitGraph(Batch(RootTask, plan[RootTask].risk))
  BY DEF OpenGraph
<1>4. NodesMove
  BY <1>2, <1>3, SubmitMoves
<1>5. Planned(RootTask)' /\ Submitted(RootTask)'
  BY <1>1, <1>2 DEF Planned, Submitted
<1> QED  BY <1>1, <1>2, <1>3, <1>4, <1>5, SubmissionKeeps

LEMMA IdleKeeps ==
  ASSUME RInv, UNCHANGED <<contStore, plan>>, NodesMove, NoneAdded, runs' \subseteq runs
  PROVE  RInv'
<1>1. TasksGrow
  BY TasksStay DEF contStore
<1> QED  BY <1>1, StepKeeps

LEMMA TicksKeep ==
  ASSUME RInv, NEW p \in Processes, StartTick(p) \/ Crash(p) \/ Restart(p)
  PROVE  RInv'
<1>1. UNCHANGED <<contStore, plan>> /\ runs' \subseteq runs
  BY DEF StartTick, Crash, Restart, records
<1>2. NodesMove /\ NoneAdded
  BY RecoverMoves, NodesStay DEF StartTick, Crash, Restart
<1> QED  BY <1>1, <1>2, IdleKeeps

LEMMA ClocksKeep ==
  ASSUME RInv, NEW n \in Nodes, LeaseExpires(n) \/ LeaseOutlived(n) \/ Elapse(n)
  PROVE  RInv'
<1>1. UNCHANGED <<contStore, plan>> /\ runs' = runs
  BY DEF LeaseExpires, LeaseOutlived, Elapse, records
<1>2. NodesMove /\ NoneAdded
  BY ClockMoves DEF LeaseExpires, LeaseOutlived, Elapse
<1> QED  BY <1>1, <1>2, IdleKeeps

LEMMA OperatorKeeps ==
  ASSUME RInv, NEW t \in Tasks, NEW state \in OperatorStates, OperatorMoves(t, state)
  PROVE  RInv'
<1>1. TasksGrow
  BY TaskMoved DEF OperatorMoves, Cont!Transition
<1>2. NodesMove /\ NoneAdded
  BY NodesStay DEF OperatorMoves
<1> QED  BY <1>1, <1>2, StepKeeps DEF OperatorMoves, records

\* A node is claimed when what it waits for has succeeded, what backs its phase among it.
LEMMA ClaimKeeps ==
  ASSUME RInv, NEW p \in Processes, Claim(p)
  PROVE  RInv'
<1>1. PICK limit \in 1..MaxParallel, C \in SUBSET Mesh!Eligible :
        /\ Mesh!ClaimReady(p, limit, C)
        /\ \E model \in [C -> Models] :
             /\ \A n \in C : model[n] \in Routes(n)
             /\ runs' = runs \cup {Started(p, n, model[n]) : n \in C}
  BY DEF Claim
<1>2. PICK model : runs' = runs \cup {Started(p, n, model[n]) : n \in C}
  BY <1>1
<1>3. NodesMove /\ NoneAdded
  BY <1>1, ClaimMoves
<1>4. TasksGrow /\ PlansGrow /\ plan' = plan /\ task' = task
  BY TasksStay, PlansStay DEF Claim, contStore, records
<1>5. ASSUME NEW n \in C, NEW s, s = Started(p, n, model[n])
      PROVE  RunOK(s)'
  <2>1. n \in Nodes /\ n[1] \in Tasks /\ n[2] \in Roles /\ node[n].state \in {"READY", "RETRY_READY"}
    BY DEF Mesh!Eligible, Nodes
  <2>2. NodeOK(n)
    BY <2>1 DEF RInv
  <2>3. Planned(n[1])' /\ Submitted(n[1])'
    BY <1>4, <2>1, <2>2 DEF NodeOK, Planned, Submitted
  <2>4. ASSUME NEW x \in Backing(n[2])
        PROVE  Succeeded(n[1], x)'
    <3>1. <<n[1], x>> \in Nodes /\ <<n, <<n[1], x>>>> \in deps
      BY <2>1, <2>2, BackingNeeded DEF Nodes, NodeOK
    <3>2. Mesh!Satisfied(n)
      BY DEF Mesh!Eligible
    <3>3. Succeeded(n[1], x)
      BY <3>1, <3>2 DEF Mesh!Satisfied, Succeeded
    <3> QED  BY <1>3, <2>1, <3>3, BackingKept
  <2>5. /\ DOMAIN s = RunFields /\ s.node = n /\ s.process = p
        /\ s.step = "sync" /\ s.goal = "work" /\ ~ s.finished
    BY <1>5 DEF Started, RunFields
  <2>6. s.answer.kind = "none"
    BY <1>5 DEF Started, Plain, Answer
  <2>7. AnswerOK(s)' /\ StepOK(s)'
    BY <2>5, <2>6 DEF AnswerOK, StepOK
  <2> QED  BY <2>1, <2>3, <2>4, <2>5, <2>7 DEF RunOK
<1> QED  BY <1>2, <1>3, <1>4, <1>5, StepKeeps

-----------------------------------------------------------------------------
\* What a step may do to the phases and the plans.  A task enters a phase when it is submitted,
\* or by the hop of a run that found it behind; a plan is added by the run that submits it; and
\* a run is about to submit when its parent has been moved out of the phases.
Enters(t) ==
  \/ task'[t].state = task[t].state
  \/ ~ InPhases(task'[t].state)
  \/ ~ Submitted(t) /\ task'[t].state = "READY"
  \/ \E r \in runs : /\ r.node[1] = t /\ Behind(task[t].state, r.node[2])
                     /\ task'[t].state = Hop(task[t].state, r.node[2])

Plans(t) == plan'[t] # plan[t] => \E r \in runs : r.step = "submit" /\ plan'[t].of.node = r.node

Sound ==
  /\ TasksGrow /\ NodesMove
  /\ \A t \in Tasks : Plans(t)
  /\ \A s \in runs' : s.step = "submit" => s \in runs \/ ~ InPhases(task'[s.node[1]].state)
Guided == Sound /\ \A t \in Tasks : Enters(t)

LEMMA StayEnters ==
  ASSUME UNCHANGED task
  PROVE  \A t \in Tasks : Enters(t)
BY DEF Enters

\* A thread that is past its try block owes nothing.
LEMMA PastRuns ==
  ASSUME NEW r, NEW raised, Past(r, raised)
  PROVE  \A q \in runs' : q \in runs \/ \E step \in {"left", "raising"} : q = [r EXCEPT !.step = step]
BY DEF Past, Leave, Becomes

LEMMA PastRight ==
  ASSUME RInv, TasksGrow, PlansGrow, NodesMove, NEW r \in runs,
         NEW step \in {"left", "raising"}, NEW s, s = [r EXCEPT !.step = step]
  PROVE  RunOK(s)' /\ s.step # "submit"
<1>1. DOMAIN r = RunFields /\ StepOK(r)
  BY DEF RInv, RunOK
<1>2. /\ DOMAIN s = RunFields /\ s.node = r.node /\ s.process = r.process /\ s.answer = r.answer
      /\ s.step = step /\ s.goal = r.goal
  BY <1>1 DEF RunFields
<1>3. StepOK(s)'
  BY <1>1, <1>2 DEF StepOK
<1> QED  BY <1>2, <1>3, MovedRun

\* The end of a thread, and of a node.
LEMMA EndKeeps ==
  ASSUME RInv, NEW r \in runs, NEW outcome, NEW more, EndNode(r, outcome, more)
  PROVE  RInv' /\ Guided
<1> DEFINE s == [r EXCEPT !.step = "contain", !.finished = TRUE]
<1>1. RunOK(r) /\ DOMAIN r = RunFields /\ r.node \in Nodes /\ r.process \in Processes /\ StepOK(r)
  BY DEF RInv, RunOK
<1>2. TasksGrow /\ PlansGrow /\ plan' = plan /\ task' = task
  BY TasksStay, PlansStay DEF EndNode, contStore
<1>3. NodesMove /\ NoneAdded
  BY <1>1, FinishMoves, NodesStay DEF EndNode
<1>4. \A q \in runs' : \/ q \in runs \/ q = s
                        \/ \E step \in {"left", "raising"} : q = [r EXCEPT !.step = step]
  <2>1. Becomes(r, s) \/ Past(r, FALSE) \/ Past(r, TRUE)
    BY DEF EndNode
  <2>2. Becomes(r, s) => \A q \in runs' : q \in runs \/ q = s
    BY DEF Becomes
  <2> QED  BY <2>1, <2>2, PastRuns
<1>5. /\ DOMAIN s = RunFields /\ s.node = r.node /\ s.process = r.process /\ s.answer = r.answer
      /\ s.step = "contain" /\ s.finished /\ s.goal = r.goal
  BY <1>1 DEF RunFields
<1> HIDE DEF s
<1>6. StepOK(s)'
  BY <1>1, <1>5 DEF StepOK
<1>7. RunOK(s)'
  BY <1>2, <1>3, <1>5, <1>6, MovedRun
<1>8. RInv'
  BY <1>2, <1>3, <1>4, <1>7, PastRight, StepKeeps
<1>9. \A q \in runs' : q.step = "submit" => q \in runs
  BY <1>2, <1>3, <1>4, <1>5, PastRight
<1> QED  BY <1>2, <1>3, <1>8, <1>9, StayEnters DEF Guided, Sound, Plans

\* A run moves on, and neither database changes.
LEMMA RunMoves ==
  ASSUME RInv, NEW r \in runs, NEW s, UNCHANGED <<contStore, meshStore, plan>>, Becomes(r, s),
         DOMAIN s = RunFields, s.node = r.node, s.process = r.process,
         s.answer = r.answer \/ AnswerOK(s)', StepOK(s)', s.step # "submit"
  PROVE  RInv' /\ Guided
<1>1. TasksGrow /\ PlansGrow /\ NodesMove /\ NoneAdded /\ task' = task
  BY TasksStay, PlansStay, NodesStay DEF contStore
<1>2. RunOK(s)'
  BY <1>1, MovedRun
<1>3. runs' \subseteq runs \cup {s}
  BY DEF Becomes
<1>4. RInv'
  BY <1>1, <1>2, <1>3, StepKeeps
<1> QED  BY <1>1, <1>3, <1>4, StayEnters DEF Guided, Sound, Plans

\* A thread goes: only its own file system changes with it.
LEMMA RunGoes ==
  ASSUME RInv, UNCHANGED <<contStore, meshStore, plan>>, runs' \subseteq runs
  PROVE  RInv' /\ Guided
<1>1. TasksGrow /\ PlansGrow /\ NodesMove /\ NoneAdded /\ task' = task
  BY TasksStay, PlansStay, NodesStay DEF contStore
<1>2. RInv'
  BY <1>1, StepKeeps
<1> QED  BY <1>1, <1>2, StayEnters DEF Guided, Sound, Plans

LEMMA TreesKeep ==
  ASSUME RInv, NEW r \in runs, Begin(r) \/ Stray(r) \/ RemoveTree(r)
  PROVE  RInv' /\ Guided
<1>1. CASE Begin(r)
  <2>1. RunOK(r) /\ DOMAIN r = RunFields /\ StepOK(r) /\ r.goal = "work" /\ ~ r.finished
    BY <1>1 DEF RInv, RunOK, StepOK, Begin
  <2>2. PICK s : Becomes(r, s) /\ s = [r EXCEPT !.step = "work"]
    BY <1>1 DEF Begin
  <2>3. /\ DOMAIN s = RunFields /\ s.node = r.node /\ s.process = r.process
        /\ s.answer = r.answer /\ s.step = "work" /\ s.goal = r.goal /\ s.finished = r.finished
    BY <2>1, <2>2 DEF RunFields
  <2>4. StepOK(s)'
    BY <2>1, <2>3 DEF StepOK
  <2>5. UNCHANGED <<contStore, meshStore, plan>>
    BY <1>1 DEF Begin
  <2> QED  BY <2>2, <2>3, <2>4, <2>5, RunMoves
<1>2. CASE Stray(r) \/ RemoveTree(r)
  BY <1>2, RunGoes DEF Stray, RemoveTree, Leave
<1> QED  BY <1>1, <1>2

LEMMA SyncKeeps ==
  ASSUME RInv, NEW r \in runs, Sync(r)
  PROVE  RInv' /\ Guided
<1> DEFINE t == r.node[1]
           place == IF r.goal = "work" THEN "begin" ELSE "budget"
           on == [r EXCEPT !.step = place]
<1>1. RunOK(r) /\ DOMAIN r = RunFields /\ StepOK(r) /\ r.step = "sync" /\ ~ r.finished
  BY DEF RInv, RunOK, StepOK, Sync
<1>2. t \in Tasks /\ task[t].version \in Nat
  BY <1>1 DEF RunOK, Nodes, RInv, TaskOK
<1>3. CASE ~ Behind(task[t].state, r.node[2])
  <2>1. Becomes(r, on) /\ UNCHANGED <<contStore, meshStore, plan>>
    BY <1>3 DEF Sync, records
  <2>2. /\ DOMAIN on = RunFields /\ on.node = r.node /\ on.process = r.process
        /\ on.answer = r.answer /\ on.step = place /\ on.goal = r.goal /\ on.finished = r.finished
    BY <1>1 DEF RunFields
  <2> HIDE DEF on
  <2>3. StepOK(on)' /\ on.step # "submit"
    BY <1>1, <2>2 DEF StepOK
  <2> QED  BY <2>1, <2>2, <2>3, RunMoves
<1>4. CASE Behind(task[t].state, r.node[2])
  <2> PICK hop : hop = [r EXCEPT !.step = "hop", !.seen = task[t].version, !.want = Hop(task[t].state, r.node[2])]
    OBVIOUS
  <2>1. Becomes(r, hop) /\ UNCHANGED <<contStore, meshStore, plan>> /\ task' = task
    BY <1>4 DEF Sync, records, contStore
  <2>2. /\ DOMAIN hop = RunFields /\ hop.node = r.node /\ hop.process = r.process
        /\ hop.answer = r.answer /\ hop.step = "hop" /\ hop.goal = r.goal /\ hop.finished = r.finished
        /\ hop.seen = task[t].version /\ hop.want = Hop(task[t].state, r.node[2])
    BY <1>1 DEF RunFields
  <2>3. HopOK(hop)'
    BY <1>2, <1>4, <2>1, <2>2 DEF HopOK
  <2>4. StepOK(hop)'
    BY <1>1, <2>2, <2>3 DEF StepOK
  <2> QED  BY <2>1, <2>2, <2>4, RunMoves
<1> QED  BY <1>3, <1>4

\* The row has the version that was read: it is still behind, and moves by one phase.
LEMMA SyncHopKeeps ==
  ASSUME RInv, NEW r \in runs, SyncHop(r)
  PROVE  RInv' /\ Guided
<1> DEFINE t == r.node[1]
           place == IF r.tries + 1 = SyncTries THEN "lost" ELSE "sync"
           s == [r EXCEPT !.step = place, !.tries = @ + 1, !.want = ""]
<1>1. RunOK(r) /\ DOMAIN r = RunFields /\ StepOK(r) /\ HopOK(r) /\ ~ r.finished
  BY DEF RInv, RunOK, StepOK, SyncHop
<1>2. t \in Tasks
  BY <1>1 DEF RunOK, Nodes
<1>3. TasksGrow /\ \A u \in Tasks : Enters(u)
  <2>1. CASE task[t].version = r.seen
    <3>1. /\ Cont!TransitionAllowed(t, r.want)
          /\ task' = [task EXCEPT ![t] = Cont!TransitionedRow(task[t], r.want, FALSE)]
      BY <2>1 DEF SyncHop, Cont!TransitionWithKey
    <3>2. TasksGrow /\ task'[t].state = r.want /\ \A u \in Tasks : u # t => task'[u] = task[u]
      BY <1>2, <3>1, TaskMoved
    <3>3. Enters(t)
      BY <1>1, <2>1, <3>2 DEF HopOK, Enters
    <3> QED  BY <3>2, <3>3 DEF Enters
  <2>2. CASE task[t].version # r.seen
    BY <2>2, TasksStay, StayEnters DEF SyncHop, contStore
  <2> QED  BY <2>1, <2>2
<1>4. PlansGrow /\ plan' = plan /\ NodesMove /\ NoneAdded /\ Becomes(r, s)
  BY PlansStay, NodesStay DEF SyncHop, Tried, records
<1>5. /\ DOMAIN s = RunFields /\ s.node = r.node /\ s.process = r.process
      /\ s.answer = r.answer /\ s.step = place /\ s.goal = r.goal /\ s.finished = r.finished
  BY <1>1 DEF RunFields
<1> HIDE DEF s
<1>6. StepOK(s)'
  BY <1>1, <1>5 DEF StepOK
<1>7. RunOK(s)'
  BY <1>3, <1>4, <1>5, <1>6, MovedRun
<1>8. RInv'
  BY <1>3, <1>4, <1>7, StepKeeps DEF Becomes
<1> QED  BY <1>3, <1>4, <1>5, <1>8 DEF Guided, Sound, Plans, Becomes

\* Whatever a run comes out with, a replan it asks for raises the risk or spends a repair.
LEMMA OffersDescend ==
  ASSUME NEW role, NEW risk \in 0..MaxRisk, NEW a \in Offers(role, risk), a.kind = "replan"
  PROVE  /\ a.consume \in BOOLEAN /\ a.reason \in Reasons /\ a.risk \in 0..MaxRisk
         /\ IF a.consume THEN a.risk = risk ELSE a.risk > risk
<1>1. MaxRisk \in 0..4
  BY RuntimeAssumption
<1> DEFINE Fits(b) == \E reason \in Reasons, r \in risk..MaxRisk, consume \in BOOLEAN :
                       b = Replan(reason, r, consume) /\ (IF consume THEN r = risk ELSE r > risk)
           higher == (risk + 1)..MaxRisk
<1>2. Fits(a)
  <2>1. \A kind : kind # "replan" => Plain(kind).kind # "replan"
    BY DEF Plain, Answer
  <2>2. \A r \in higher : r \in risk..MaxRisk /\ r > risk
    BY <1>1
  <2>3. \A reason \in Reasons, r \in higher : Fits(Replan(reason, r, FALSE))
    <3> TAKE reason \in Reasons, r \in higher
    <3>1. r \in risk..MaxRisk /\ r > risk /\ FALSE \in BOOLEAN
      BY <2>2
    <3> WITNESS reason \in Reasons, r \in risk..MaxRisk, FALSE \in BOOLEAN
    <3> QED  BY <3>1
  <2>4. \A reason \in Reasons : Fits(Replan(reason, risk, TRUE))
    <3> TAKE reason \in Reasons
    <3>1. risk \in risk..MaxRisk /\ TRUE \in BOOLEAN
      BY <1>1
    <3> WITNESS reason \in Reasons, risk \in risk..MaxRisk, TRUE \in BOOLEAN
    <3> QED  OBVIOUS
  <2> HIDE DEF Fits, higher
  <2>5. CASE a \in StructuredControl(role, risk)
    <3>1. \/ a = Plain("contain") \/ a = Replan("replan", risk, TRUE)
          \/ \E r \in higher : a = Replan("context", r, FALSE)
          \/ \E r \in higher : a = Replan("escalate", r, FALSE)
          \/ \E r \in higher : a = Replan("supervisor", r, FALSE)
          \/ a = Replan("findings", risk, TRUE)
      BY <2>5 DEF StructuredControl, higher
    <3>2. a # Plain("contain")
      BY <2>1
    <3> QED  BY <2>3, <2>4, <3>1, <3>2 DEF Reasons
  <2>6. CASE a \in CheckRunnerOffers(risk)
    <3>1. a = Plain("result") \/ a = Plain("error") \/ \E r \in higher : a = Replan("diff", r, FALSE)
      BY <2>6 DEF CheckRunnerOffers, higher
    <3>2. a # Plain("result") /\ a # Plain("error")
      BY <2>1
    <3> QED  BY <2>3, <3>1, <3>2 DEF Reasons
  <2>7. CASE a \in {Plain("result"), Plain("error"), Plain("invalid")}
    BY <2>1, <2>7
  <2> QED  BY <2>5, <2>6, <2>7 DEF Offers, Possible, RepositoryIndexerOffers, IntegratorOffers
<1>3. PICK reason \in Reasons, r \in risk..MaxRisk, consume \in BOOLEAN :
        a = Replan(reason, r, consume) /\ (IF consume THEN r = risk ELSE r > risk)
  BY <1>2
<1>4. a.consume = consume /\ a.reason = reason /\ a.risk = r
  BY <1>3 DEF Replan, Answer
<1> QED  BY <1>1, <1>3, <1>4

LEMMA WorkKeeps ==
  ASSUME RInv, NEW r \in runs, Work(r)
  PROVE  RInv' /\ Guided
<1> DEFINE n == r.node
<1>1. RunOK(r) /\ DOMAIN r = RunFields /\ StepOK(r) /\ r.goal = "work" /\ ~ r.finished
  BY DEF RInv, RunOK, StepOK, Work
<1>2. PICK a \in Offers(n[2], plan[n[1]].risk), patch \in Patches \cup {None} :
        Becomes(r, [r EXCEPT !.step = StepAfter(r, a), !.goal = IF a.kind = "replan" THEN "budget" ELSE @,
                             !.tries = 0, !.answer = a, !.patch = patch, !.ok = a.kind = "result"])
  BY DEF Work
<1> DEFINE goal == IF a.kind = "replan" THEN "budget" ELSE r.goal
<1>3. PICK s : /\ Becomes(r, s)
               /\ s = [r EXCEPT !.step = StepAfter(r, a), !.goal = goal,
                                !.tries = 0, !.answer = a, !.patch = patch, !.ok = a.kind = "result"]
  BY <1>2
<1>4. /\ DOMAIN s = RunFields /\ s.node = n /\ s.process = r.process
      /\ s.answer = a /\ s.step = StepAfter(r, a) /\ s.goal = goal /\ s.finished = r.finished
  BY <1>1, <1>3 DEF RunFields
<1>5. UNCHANGED <<contStore, meshStore, plan>>
  BY DEF Work
<1>6. plan[n[1]].risk \in 0..MaxRisk
  BY <1>1 DEF RInv, RunOK, Nodes, PlanOK, Contracts
<1>7. AnswerOK(s)'
  BY <1>4, <1>5, <1>6, OffersDescend DEF AnswerOK
<1>8. StepAfter(r, a) \in {"sync", "artifact", "finish", "attempt"}
  BY DEF StepAfter
<1>9. StepOK(s)' /\ s.step # "submit"
  BY <1>1, <1>4, <1>8 DEF StepOK
<1> QED  BY <1>3, <1>4, <1>5, <1>7, <1>9, RunMoves

LEMMA ControlIsNoPhase ==
  ASSUME NEW r
  PROVE  ~ InPhases(ControlState(r))
BY PhaseStates DEF ControlState

\* The parent is where the run wants it: the run ends, goes on without a child, or submits one.
LEMMA ControlledKeeps ==
  ASSUME RInv, NEW r \in runs, Controlled(r), r.step \in {"budget", "contain", "control"},
         TasksGrow, task'[r.node[1]].state = ControlState(r), \A t \in Tasks : Enters(t)
  PROVE  RInv' /\ Guided
<1>1. RunOK(r) /\ DOMAIN r = RunFields /\ StepOK(r) /\ r.node[1] \in Tasks /\ Planned(r.node[1])
  BY DEF RInv, RunOK, Nodes
<1>2. PlansGrow /\ plan' = plan /\ NodesMove /\ NoneAdded
  BY PlansStay, NodesStay DEF Controlled, records
<1>3. CASE r.finished
  <2>1. \A q \in runs' : q \in runs \/ \E step \in {"left", "raising"} : q = [r EXCEPT !.step = step]
    BY <1>3, PastRuns DEF Controlled
  <2>2. RInv' /\ \A q \in runs' : q.step = "submit" => q \in runs
    BY <1>2, <2>1, PastRight, StepKeeps
  <2> QED  BY <1>2, <2>2 DEF Guided, Sound, Plans
<1>4. CASE ~ r.finished
  <2> DEFINE next == IF Exhausted(r) THEN AfterAnswer(r) ELSE "submit"
  <2>1. PICK s : Becomes(r, s) /\ s = [r EXCEPT !.step = next, !.want = ""]
    BY <1>4 DEF Controlled
  <2>2. /\ DOMAIN s = RunFields /\ s.node = r.node /\ s.process = r.process
        /\ s.answer = r.answer /\ s.step = next /\ s.goal = r.goal /\ s.finished = r.finished
    BY <1>1, <2>1 DEF RunFields
  <2>3. next \in {"finish", "attempt", "submit"} /\ (next = "submit" => ~ Exhausted(r))
    BY DEF AfterAnswer
  <2>4. Exhausted(s)' = Exhausted(r)
    BY <1>2, <2>2 DEF Exhausted
  <2> HIDE DEF next
  <2>5. StepOK(s)'
    BY <1>1, <1>4, <2>2, <2>3, <2>4 DEF StepOK
  <2>6. RunOK(s)'
    BY <1>2, <2>2, <2>5, MovedRun
  <2>7. RInv'
    BY <1>2, <2>1, <2>6, StepKeeps DEF Becomes
  <2>8. ~ InPhases(task'[s.node[1]].state)
    BY <2>2, ControlIsNoPhase
  <2> QED  BY <1>2, <2>1, <2>7, <2>8 DEF Guided, Sound, Plans, Becomes
<1> QED  BY <1>3, <1>4

LEMMA ReadParentKeeps ==
  ASSUME RInv, NEW r \in runs, ReadParent(r)
  PROVE  RInv' /\ Guided
<1>1. RunOK(r) /\ DOMAIN r = RunFields /\ StepOK(r) /\ r.step \in {"budget", "contain"}
  BY DEF RInv, RunOK, ReadParent
<1>2. TasksGrow /\ task' = task /\ UNCHANGED contStore
  BY TasksStay DEF ReadParent, contStore
<1>3. CASE task[r.node[1]].state = ControlState(r)
  <2>1. Controlled(r)
    BY <1>3 DEF ReadParent
  <2> QED  BY <1>1, <1>2, <1>3, <2>1, StayEnters, ControlledKeeps
<1>4. CASE task[r.node[1]].state # ControlState(r)
  <2>1. PICK s : /\ Becomes(r, s) /\ UNCHANGED <<meshStore, records>>
                 /\ s = [r EXCEPT !.step = "control", !.seen = task[r.node[1]].version,
                                  !.want = ControlState(r)]
    BY <1>4 DEF ReadParent
  <2>2. /\ DOMAIN s = RunFields /\ s.node = r.node /\ s.process = r.process
        /\ s.answer = r.answer /\ s.step = "control" /\ s.goal = r.goal /\ s.finished = r.finished
        /\ s.want = ControlState(r)
    BY <1>1, <2>1 DEF RunFields
  <2>3. ControlState(s)' = ControlState(r)
    BY <2>1, <2>2 DEF ControlState, Exhausted, records
  <2>4. StepOK(s)'
    BY <1>1, <2>2, <2>3 DEF StepOK
  <2> QED  BY <1>2, <2>1, <2>2, <2>4, RunMoves DEF records
<1> QED  BY <1>3, <1>4

LEMMA ControlKeeps ==
  ASSUME RInv, NEW r \in runs, Control(r)
  PROVE  RInv' /\ Guided
<1> DEFINE t == r.node[1]
           key == <<"control", r.node, r.want, r.answer.reason>>
<1>1. RunOK(r) /\ StepOK(r) /\ r.want = ControlState(r) /\ r.step = "control" /\ t \in Tasks
  BY DEF RInv, RunOK, StepOK, Control, Nodes
<1>2. CASE Cont!TransitionWithKey(t, r.want, FALSE, r.seen, key) /\ Controlled(r)
  <2>1. TasksGrow /\ task'[t].state = r.want /\ \A u \in Tasks : u # t => task'[u] = task[u]
    BY <1>1, <1>2, TaskMoved DEF Cont!TransitionWithKey
  <2>2. \A u \in Tasks : Enters(u)
    BY <1>1, <2>1, ControlIsNoPhase DEF Enters
  <2> QED  BY <1>1, <1>2, <2>1, <2>2, ControlledKeeps
<1>3. CASE task[t].state = r.want /\ Controlled(r) /\ UNCHANGED contStore
  <2>1. TasksGrow /\ task' = task
    BY <1>3, TasksStay DEF contStore
  <2> QED  BY <1>1, <1>3, <2>1, StayEnters, ControlledKeeps
<1>4. CASE Raises(r)
  BY <1>4, EndKeeps DEF Raises
<1> QED  BY <1>2, <1>3, <1>4 DEF Control

\* A child is planned by the run that creates it: its material names the node that asked, and
\* is of a smaller measure than the plan it replaces.
LEMMA MaterialSmaller ==
  ASSUME NEW r, RunOK(r), PlanOK(r.node[1]), r.step = "submit"
  PROVE  LET of == MaterialOf(r, r.answer)
             parent == plan[r.node[1]]
             child == Contract(of.risk, of.repairs, of)
         IN  /\ of.node = r.node /\ child.of = of /\ child \in Contracts
             /\ Smaller(child, parent) /\ child.repairs \in 0..parent.repairs
<1> DEFINE parent == plan[r.node[1]]
           spent == IF r.answer.consume THEN 1 ELSE 0
           of == MaterialOf(r, r.answer)
           child == Contract(of.risk, of.repairs, of)
<1>1. /\ r.answer.consume \in BOOLEAN /\ r.answer.reason \in Reasons /\ r.answer.risk \in 0..MaxRisk
      /\ IF r.answer.consume THEN r.answer.risk = parent.risk ELSE r.answer.risk > parent.risk
  BY DEF RunOK, StepOK, AnswerOK
<1>2. r.node \in Nodes /\ parent.risk \in 0..MaxRisk /\ parent.repairs \in Nat
  BY DEF RunOK, PlanOK, Contracts
<1>3. r.answer.consume => parent.repairs > 0
  BY <1>2 DEF RunOK, StepOK, Exhausted
<1>4. MaxRisk \in 0..4
  BY RuntimeAssumption
<1> HIDE DEF parent
<1>5. parent.repairs - spent \in 0..parent.repairs /\ (r.answer.consume => parent.repairs - spent < parent.repairs)
  BY <1>1, <1>2, <1>3
<1>6. /\ of.node = r.node /\ of.risk = r.answer.risk /\ of.repairs = parent.repairs - spent
      /\ of \in Materials
  BY <1>1, <1>2, <1>5 DEF MaterialOf, Materials, parent
<1> HIDE DEF of, spent
<1>7. child.risk = of.risk /\ child.repairs = of.repairs /\ child.of = of /\ child \in Contracts
  BY <1>1, <1>2, <1>5, <1>6 DEF Contract, Contracts, Materials
<1> HIDE DEF child
<1>8. Smaller(child, parent) /\ child.repairs \in 0..parent.repairs
  BY <1>1, <1>2, <1>4, <1>5, <1>6, <1>7 DEF Smaller
<1> QED  BY <1>6, <1>7, <1>8 DEF of, child, parent

LEMMA SubmitChildKeeps ==
  ASSUME RInv, NEW r \in runs, SubmitChild(r)
  PROVE  RInv' /\ Guided
<1> DEFINE t == r.node[1]
<1>1. PICK of : of = MaterialOf(r, r.answer)
  OBVIOUS
<1> DEFINE known == Child(of)
<1>2. PICK child : child = IF known # {} THEN CHOOSE u \in known : TRUE ELSE CHOOSE u \in Unplanned : TRUE
  OBVIOUS
<1>3. /\ RunOK(r) /\ DOMAIN r = RunFields /\ StepOK(r) /\ r.step = "submit" /\ t \in Tasks
      /\ Planned(t) /\ Submitted(t) /\ PlanOK(t) /\ ~ r.finished /\ r.answer.kind = "replan"
  BY DEF RInv, RunOK, StepOK, SubmitChild, Nodes
<1>4. /\ IF known # {} THEN UNCHANGED <<contStore, plan>>
         ELSE /\ Cont!SubmitTask(child)
              /\ plan' = [plan EXCEPT ![child] = Contract(of.risk, of.repairs, of)]
      /\ Becomes(r, [r EXCEPT !.step = "graph", !.child = child])
      /\ UNCHANGED meshStore
  BY <1>1, <1>2 DEF SubmitChild
<1>5. NodesMove /\ NoneAdded
  BY <1>4, NodesStay
<1>6. PICK s : /\ Becomes(r, s) /\ s = [r EXCEPT !.step = "graph", !.child = child]
  BY <1>4
<1>7. /\ DOMAIN s = RunFields /\ s.node = r.node /\ s.process = r.process
      /\ s.answer = r.answer /\ s.step = "graph" /\ s.goal = r.goal /\ s.finished = r.finished
      /\ s.child = child
  BY <1>3, <1>6 DEF RunFields
<1>8. ASSUME TasksGrow, PlansGrow, \A u \in Tasks : PlanOK(u)',
             child \in Tasks => Planned(child)' /\ Submitted(child)',
             \A u \in Tasks : Plans(u) /\ Enters(u)
      PROVE  RInv' /\ Guided
  <2>1. StepOK(s)'
    BY <1>3, <1>7, <1>8 DEF StepOK
  <2>2. RunOK(s)'
    BY <1>5, <1>7, <1>8, <2>1, MovedRun
  <2>3. RInv'
    BY <1>4, <1>5, <1>6, <1>8, <2>2, SubmissionKeeps DEF Becomes
  <2> QED  BY <1>5, <1>6, <1>7, <1>8, <2>3 DEF Guided, Sound, Becomes
<1>9. CASE known # {}
  <2>1. TasksGrow /\ PlansGrow /\ task' = task /\ plan' = plan
    BY <1>4, <1>9, TasksStay, PlansStay DEF contStore
  <2>2. child \in Tasks /\ Planned(child) /\ plan[child].of = of
    BY <1>2, <1>9 DEF Child, Planned
  <2>3. Submitted(child) /\ Planned(child)' /\ Submitted(child)'
    BY <1>3, <2>1, <2>2 DEF RInv, PlanOK, TaskOK, Planned, Submitted
  <2>4. \A u \in Tasks : PlanOK(u)' /\ Plans(u) /\ Enters(u)
    BY <2>1, PlanKept, StayEnters DEF Plans
  <2> QED  BY <1>8, <2>1, <2>3, <2>4
<1>10. CASE known = {}
  <2> DEFINE contract == Contract(of.risk, of.repairs, of)
  <2>1. Cont!SubmitTask(child) /\ plan' = [plan EXCEPT ![child] = contract]
    BY <1>4, <1>10
  <2>2. Submitted(RootTask)
    BY <1>3 DEF RInv, TaskOK
  <2>3. /\ TasksGrow
        /\ \A u \in Tasks : task'[u] # task[u] => u = child /\ ~ Submitted(u) /\ task'[u].state = "READY"
    BY <2>1, <2>2, TaskSubmitted
  <2>4. \A u \in Tasks : Enters(u)
    BY <2>3 DEF Enters
  <2>5. child \in Tasks => ~ Submitted(child) /\ ~ Planned(child) /\ child # t
    BY <1>3, <2>1, <2>2 DEF RInv, PlanOK, Cont!SubmitTask, Submitted
  <2>6. /\ DOMAIN plan' = Tasks /\ \A u \in Tasks : u # child => plan'[u] = plan[u]
        /\ child \in Tasks => plan'[child] = contract
    BY <2>1 DEF RInv
  <2>7. PlansGrow
    BY <2>5, <2>6 DEF PlansGrow
  <2>8. /\ of.node = r.node /\ contract.of = of /\ contract \in Contracts
        /\ Smaller(contract, plan[t]) /\ contract.repairs \in 0..plan[t].repairs
    BY <1>1, <1>3, MaterialSmaller
  <2> HIDE DEF contract
  <2>9. \A u \in Tasks : Plans(u)
    BY <1>3, <2>6, <2>8 DEF Plans
  <2>10. ASSUME child \in Tasks
         PROVE  Planned(child)' /\ Submitted(child)' /\ PlanOK(child)'
    <3>1. plan'[child] = contract /\ plan'[t] = plan[t] /\ Planned(t)' /\ Submitted(t)'
      BY <1>3, <2>3, <2>5, <2>6, <2>10 DEF Planned, TasksGrow, TaskGrows
    <3>2. Planned(child)'
      BY <2>8, <3>1, NoContractAssumption DEF Planned
    <3>3. Submitted(child)'
      BY <2>1, <2>10 DEF RInv, TaskOK, RowFields, Cont!SubmitTask, Submitted
    <3>4. Parent(child)' = t
      BY <2>8, <3>1 DEF Parent
    <3>5. Descends(child)'
      BY <1>3, <2>8, <3>1, <3>4 DEF Descends
    <3> QED  BY <2>8, <3>1, <3>2, <3>3, <3>5 DEF PlanOK
  <2>11. \A u \in Tasks : PlanOK(u)'
    BY <2>3, <2>6, <2>7, <2>10, PlanKept
  <2> QED  BY <1>8, <2>3, <2>4, <2>7, <2>9, <2>10, <2>11
<1> QED  BY <1>9, <1>10

LEMMA SubmitChildGraphKeeps ==
  ASSUME RInv, NEW r \in runs, SubmitChildGraph(r)
  PROVE  RInv' /\ Guided
<1> DEFINE s == [r EXCEPT !.step = AfterAnswer(r)]
<1>1. RunOK(r) /\ DOMAIN r = RunFields /\ StepOK(r) /\ r.step = "graph"
  BY DEF RInv, RunOK, SubmitChildGraph
<1>2. TasksGrow /\ PlansGrow /\ task' = task /\ plan' = plan /\ Becomes(r, s)
  BY TasksStay, PlansStay DEF SubmitChildGraph, contStore, records
<1>3. r.child \in Tasks => Planned(r.child) /\ Submitted(r.child) /\ plan[r.child].risk \in 0..MaxRisk
  BY <1>1 DEF StepOK, RInv, PlanOK, Contracts
<1>4. Mesh!SubmitGraph(Batch(r.child, plan[r.child].risk))
  BY DEF SubmitChildGraph
<1>5. NodesMove
  BY <1>3, <1>4, SubmitMoves
<1>6. /\ DOMAIN s = RunFields /\ s.node = r.node /\ s.process = r.process
      /\ s.answer = r.answer /\ s.step = AfterAnswer(r) /\ s.goal = r.goal
  BY <1>1 DEF RunFields
<1>7. s.step \in {"finish", "attempt"}
  BY <1>6 DEF AfterAnswer
<1> HIDE DEF s
<1>8. StepOK(s)'
  BY <1>1, <1>6, <1>7 DEF StepOK
<1>9. RunOK(s)'
  BY <1>2, <1>5, <1>6, <1>8, MovedRun
<1>10. r.child \in Tasks => Planned(r.child)' /\ Submitted(r.child)'
  BY <1>2, <1>3 DEF Planned, Submitted
<1>11. RInv'
  BY <1>2, <1>3, <1>4, <1>5, <1>9, <1>10, SubmissionKeeps DEF Becomes
<1> QED  BY <1>2, <1>5, <1>7, <1>11, StayEnters DEF Guided, Sound, Plans, Becomes

LEMMA RecordsKeep ==
  ASSUME RInv, NEW r \in runs, Attempt(r) \/ Register(r)
  PROVE  RInv' /\ Guided
<1>1. RunOK(r) /\ DOMAIN r = RunFields /\ StepOK(r)
  BY DEF RInv, RunOK
<1>2. UNCHANGED <<contStore, meshStore, plan>>
  BY DEF Attempt, Register
<1>3. \E ok : \E step \in {"artifact", "finish"} : Becomes(r, [r EXCEPT !.step = step, !.ok = ok])
  <2>1. CASE Attempt(r)
    BY <2>1 DEF Attempt
  <2>2. CASE Register(r)
    <3>1. [r EXCEPT !.step = "finish"] = [r EXCEPT !.step = "finish", !.ok = r.ok]
      BY <1>1 DEF RunFields
    <3> QED  BY <2>2, <3>1 DEF Register
  <2> QED  BY <2>1, <2>2
<1>4. PICK ok : \E step \in {"artifact", "finish"} : Becomes(r, [r EXCEPT !.step = step, !.ok = ok])
  BY <1>3
<1>5. PICK step \in {"artifact", "finish"} : Becomes(r, [r EXCEPT !.step = step, !.ok = ok])
  BY <1>4
<1>6. PICK s : Becomes(r, s) /\ s = [r EXCEPT !.step = step, !.ok = ok]
  BY <1>5
<1>7. /\ DOMAIN s = RunFields /\ s.node = r.node /\ s.process = r.process
      /\ s.answer = r.answer /\ s.step = step /\ s.goal = r.goal
  BY <1>1, <1>6 DEF RunFields
<1>8. StepOK(s)' /\ s.step # "submit"
  BY <1>1, <1>7 DEF StepOK
<1> QED  BY <1>2, <1>6, <1>7, <1>8, RunMoves

LEMMA StepGuided ==
  ASSUME RInv, NEW r \in runs, Step(r)
  PROVE  RInv' /\ Guided
<1>1. CASE Finish(r) \/ GiveUp(r)
  BY <1>1, EndKeeps DEF Finish, GiveUp
<1> QED
  BY <1>1, TreesKeep, SyncKeeps, SyncHopKeeps, WorkKeeps, ReadParentKeeps, ControlKeeps, SubmitChildKeeps,
     SubmitChildGraphKeeps, RecordsKeep DEF Step

-----------------------------------------------------------------------------
LEMMA OthersGuided ==
  ASSUME RInv, UNCHANGED plan, NodesMove, runs' \subseteq runs, TasksGrow
  PROVE  Sound
BY DEF Sound, Plans

LEMMA OpenGuided ==
  ASSUME RInv, Open
  PROVE  Guided
<1>1. /\ TasksGrow
      /\ \A u \in Tasks : task'[u] # task[u] => u = RootTask /\ ~ Submitted(u) /\ task'[u].state = "READY"
  BY TaskSubmitted DEF Open
<1>2. NodesMove /\ plan' = plan /\ runs' = runs
  BY NodesStay DEF Open, records
<1> QED  BY <1>1, <1>2, OthersGuided DEF Guided, Enters

LEMMA QuietGuided ==
  ASSUME RInv, \/ OpenGraph
               \/ \E p \in Processes : StartTick(p) \/ Crash(p) \/ Restart(p)
               \/ \E n \in Nodes : LeaseExpires(n) \/ LeaseOutlived(n) \/ Elapse(n)
  PROVE  Guided
<1>1. task' = task /\ plan' = plan /\ runs' \subseteq runs
  BY DEF OpenGraph, StartTick, Crash, Restart, LeaseExpires, LeaseOutlived, Elapse, contStore, records
<1>2. NodesMove
  <2>1. CASE OpenGraph
    <3>1. Submitted(RootTask) /\ Planned(RootTask) /\ RootTask \in Tasks
      BY <2>1, RuntimeAssumption DEF OpenGraph, RInv, Submitted
    <3>2. plan[RootTask].risk \in 0..MaxRisk
      BY <3>1 DEF RInv, PlanOK, Contracts
    <3> QED  BY <2>1, <3>2, SubmitMoves DEF OpenGraph
  <2>2. ASSUME NEW p \in Processes, StartTick(p) \/ Crash(p) \/ Restart(p)
        PROVE  NodesMove
    BY <2>2, RecoverMoves, NodesStay DEF StartTick, Crash, Restart
  <2>3. ASSUME NEW n \in Nodes, LeaseExpires(n) \/ LeaseOutlived(n) \/ Elapse(n)
        PROVE  NodesMove
    BY <2>3, ClockMoves DEF LeaseExpires, LeaseOutlived, Elapse
  <2> QED  BY <2>1, <2>2, <2>3
<1> QED  BY <1>1, <1>2, TasksStay, StayEnters, OthersGuided DEF Guided

LEMMA ClaimGuided ==
  ASSUME RInv, NEW p \in Processes, Claim(p)
  PROVE  Guided
<1>1. PICK limit \in 1..MaxParallel, C \in SUBSET Mesh!Eligible :
        /\ Mesh!ClaimReady(p, limit, C)
        /\ \E model \in [C -> Models] : runs' = runs \cup {Started(p, n, model[n]) : n \in C}
  BY DEF Claim
<1>2. NodesMove
  BY <1>1, ClaimMoves
<1>3. task' = task /\ plan' = plan /\ TasksGrow
  BY TasksStay DEF Claim, contStore, records
<1>4. \A s \in runs' : s.step = "submit" => s \in runs
  <2>1. PICK model : runs' = runs \cup {Started(p, n, model[n]) : n \in C}
    BY <1>1
  <2>2. \A n \in C : Started(p, n, model[n]).step = "sync"
    BY DEF Started
  <2> QED  BY <2>1, <2>2
<1> QED  BY <1>2, <1>3, <1>4, StayEnters DEF Guided, Sound, Plans

\* An operator moves one task, and starts no run.
LEMMA OperatorSound ==
  ASSUME RInv, NEW t \in Tasks, NEW state \in OperatorStates, OperatorMoves(t, state)
  PROVE  Sound /\ \A u \in Tasks : task'[u].state \in {task[u].state, state}
<1>1. TasksGrow /\ task'[t].state = state /\ \A u \in Tasks : u # t => task'[u] = task[u]
  BY TaskMoved DEF OperatorMoves, Cont!Transition
<1>2. NodesMove /\ plan' = plan /\ runs' = runs
  BY NodesStay DEF OperatorMoves, records
<1> QED  BY <1>1, <1>2, OthersGuided

\* A step of the system.
LEMMA NextSound ==
  ASSUME RInv, [Next]_vars
  PROVE  /\ RInv' /\ Sound
         /\ \A t \in Tasks : Enters(t) \/ \E state \in OperatorStates : task'[t].state = state
<1>1. CASE UNCHANGED vars
  <2>1. TasksGrow /\ NodesMove /\ NoneAdded /\ UNCHANGED <<task, plan, runs>>
    BY <1>1, TasksStay, NodesStay DEF vars, contStore, records
  <2> QED  BY <2>1, StepKeeps, StayEnters, OthersGuided
<1>2. CASE Next
  <2>1. CASE Open
    BY <2>1, OpenKeeps, OpenGuided DEF Guided
  <2>2. CASE OpenGraph
    BY <2>2, OpenGraphKeeps, QuietGuided DEF Guided
  <2>3. ASSUME NEW p \in Processes, StartTick(p) \/ Crash(p) \/ Restart(p)
        PROVE  RInv' /\ Guided
    BY <2>3, TicksKeep, QuietGuided
  <2>4. ASSUME NEW p \in Processes, Claim(p)
        PROVE  RInv' /\ Guided
    BY <2>4, ClaimKeeps, ClaimGuided
  <2>5. ASSUME NEW r \in runs, Step(r)
        PROVE  RInv' /\ Guided
    BY <2>5, StepGuided
  <2>6. ASSUME NEW n \in Nodes, LeaseExpires(n) \/ LeaseOutlived(n) \/ Elapse(n)
        PROVE  RInv' /\ Guided
    BY <2>6, ClocksKeep, QuietGuided
  <2>7. ASSUME NEW t \in Tasks, NEW state \in OperatorStates, OperatorMoves(t, state)
        PROVE  RInv' /\ Sound /\ \A u \in Tasks : Enters(u) \/ task'[u].state = state
    BY <2>7, OperatorKeeps, OperatorSound DEF Enters
  <2> QED  BY <1>2, <2>1, <2>2, <2>3, <2>4, <2>5, <2>6, <2>7 DEF Next, Guided
<1> QED  BY <1>1, <1>2

-----------------------------------------------------------------------------
\* In every behaviour of the threads of mesh_runtime.py the invariant of tasks, nodes, plans and
\* runs holds: a run knows its task planned and submitted and what backs its phase succeeded.
THEOREM RuntimeInvariant == Spec => []RInv
<1>1. Init => RInv
  BY InitRuntime
<1>2. RInv /\ [Next]_vars => RInv'
  BY NextSound
<1> QED  BY <1>1, <1>2, PTL DEF Spec

\* ReplanDescends (_submit_replan): for any risk, repair budget, number of tasks and processes,
\* every replan raises the risk or spends a repair of the task it replaces.
THEOREM ReplansAlwaysDescend == Spec => []ReplanDescends
<1>1. RInv => ReplanDescends
  BY DEF RInv, PlanOK, Descends, ReplanDescends, IsChild
<1> QED  BY <1>1, RuntimeInvariant, PTL

\* PhasesBacked (_sync_continuity_phase): whatever retries, late threads, crashes and other
\* processes do, a task under review has passed its checks and one under checks has an
\* integrated patch, when no operator moves a task there by hand.
THEOREM PhasesAlwaysBacked ==
  ASSUME OperatorStates \cap {"MACHINE_CHECKS", "SUPERVISOR_REVIEW"} = {}
  PROVE  Spec => []PhasesBacked
<1>1. Init => PhasesBacked
  BY InitRuntime
<1>2. ASSUME RInv, PhasesBacked, [Next]_vars
      PROVE  PhasesBacked'
  <2>1. NodesMove /\ \A t \in Tasks : Enters(t) \/ \E state \in OperatorStates : task'[t].state = state
    BY <1>2, NextSound DEF Sound
  <2>2. ASSUME NEW t \in Tasks, NEW role \in Roles, Succeeded(t, role)
        PROVE  Succeeded(t, role)'
    <3>1. <<t, role>> \in Nodes
      BY DEF Nodes
    <3> QED  BY <2>1, <2>2, <3>1 DEF NodesMove, NodeMoves, Succeeded
  <2>3. "integrate" \in Roles /\ "checks" \in Roles
    BY DEF Roles, Members, GuardedMembers
  <2>4. ASSUME NEW t \in Tasks, NEW phase, NEW role \in Roles,
               \/ phase = "SUPERVISOR_REVIEW" /\ role = "checks"
               \/ phase = "MACHINE_CHECKS" /\ role = "integrate",
               task'[t].state = phase
        PROVE  Succeeded(t, role)
    <3>1. CASE task'[t].state = task[t].state
      BY <1>2, <2>4, <3>1 DEF PhasesBacked
    <3>2. InPhases(task'[t].state) /\ task'[t].state # "READY" /\ task'[t].state \notin OperatorStates
      BY <2>4, PhaseOrder
    <3>3. ASSUME NEW r \in runs, r.node[1] = t, Behind(task[t].state, r.node[2]),
                 task'[t].state = Hop(task[t].state, r.node[2])
          PROVE  Succeeded(t, role)
      <4>1. role \in Backing(r.node[2])
        BY <2>4, <3>3, HopBacked
      <4> QED  BY <1>2, <3>3, <4>1 DEF RInv, RunOK
    <3> QED  BY <2>1, <3>1, <3>2, <3>3 DEF Enters
  <2> QED  BY <2>2, <2>3, <2>4 DEF PhasesBacked
<1>3. RInv /\ PhasesBacked /\ [Next]_vars => PhasesBacked'
  BY <1>2
<1> QED  BY <1>1, <1>3, RuntimeInvariant, PTL DEF Spec

\* ReplannedHeld (_submit_replan before _sync_continuity_phase): late threads of the plan that
\* was replaced never start the phases of its task again, when no operator does by hand.
THEOREM ReplannedAlwaysHeld ==
  ASSUME \A state \in OperatorStates : ~ InPhases(state)
  PROVE  Spec => []ReplannedHeld
<1>1. Init => HInv
  BY InitRuntime
<1>2. ASSUME RInv, HInv, [Next]_vars
      PROVE  HInv'
  <2>1. RInv' /\ Sound /\ \A t \in Tasks : Enters(t)
    BY <1>2, NextSound DEF Enters
  <2>2. ASSUME NEW t \in Tasks, Submitted(t), ~ InPhases(task[t].state)
        PROVE  ~ InPhases(task'[t].state)
    BY <2>1, <2>2 DEF Enters, Behind
  <2>3. ASSUME NEW r \in runs, r.step = "submit"
        PROVE  ~ InPhases(task'[r.node[1]].state)
    <3>1. r.node[1] \in Tasks /\ Submitted(r.node[1])
      BY <1>2 DEF RInv, RunOK, Nodes
    <3> QED  BY <1>2, <2>2, <2>3, <3>1 DEF HInv
  <2>4. ASSUME NEW t \in Tasks, IsChild(t)'
        PROVE  ~ InPhases(task'[Parent(t)'].state)
    <3>1. CASE plan'[t] = plan[t]
      <4>1. IsChild(t) /\ Parent(t)' = Parent(t)
        BY <2>4, <3>1 DEF IsChild, Planned, Parent
      <4>2. Parent(t) \in Tasks /\ Submitted(Parent(t))
        BY <1>2, <4>1 DEF RInv, PlanOK, Descends, IsChild
      <4> QED  BY <1>2, <2>2, <4>1, <4>2 DEF HInv, ReplannedHeld
    <3>2. CASE plan'[t] # plan[t]
      <4>1. PICK r \in runs : r.step = "submit" /\ plan'[t].of.node = r.node
        BY <2>1, <3>2 DEF Sound, Plans
      <4>2. Parent(t)' = r.node[1]
        BY <4>1 DEF Parent
      <4> QED  BY <2>3, <4>1, <4>2
    <3> QED  BY <3>1, <3>2
  <2>5. ReplannedHeld'
    BY <2>4 DEF ReplannedHeld
  <2>6. \A s \in runs' : s.step = "submit" => ~ InPhases(task'[s.node[1]].state)
    BY <2>1, <2>3 DEF Sound
  <2> QED  BY <2>5, <2>6 DEF HInv
<1>3. RInv /\ HInv /\ [Next]_vars => HInv'
  BY <1>2
<1>4. HInv => ReplannedHeld
  BY DEF HInv
<1> QED  BY <1>1, <1>3, <1>4, RuntimeInvariant, PTL DEF Spec
=============================================================================

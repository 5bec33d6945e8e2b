----------------------------- MODULE MeshRuntime -----------------------------
(***************************************************************************)
(* What a mesh thread does between its claim and finish_node               *)
(* (toolkit/ztad/mesh_runtime.py, _execute): it brings the parent task's   *)
(* phase up to its node's, makes the worktree the node works in, obtains   *)
(* an answer, submits a replan when the answer asks for one, records the   *)
(* attempt and its artifacts, ends the node and removes the worktree.  The *)
(* parent task is a row of the continuity store, the nodes are rows of the *)
(* mesh store: two SQLite files, no transaction over both.                 *)
(*                                                                         *)
(* Each step of a thread is one transaction on one file, or a read on      *)
(* which the next one is based.  A plan has the shape build_mesh_plan      *)
(* gives it, with the independent scouts, plans and writers of R3 and R4   *)
(* as one node each and their reviews as two.  Provider routes tried in    *)
(* turn inside one run are one model.                                      *)
(***************************************************************************)
EXTENDS Integers, FiniteSets, SequencesExt

CONSTANTS
  Tasks,          \* continuity tasks that may be created
  RootTask,       \* the task that is opened first
  RootRisks,      \* the risks it may be opened with
  RootRepairs,    \* its max_repair_cycles
  MaxRisk,        \* largest risk an answer asks for (4 in the code)
  Processes,      \* mesh processes, each with a worker id of its own
  Crew,           \* the processes that are started for a root of each risk
  None,           \* no owner, model, patch, task or plan
  Models,         \* registry entries that clear the quality gate
  Patches,        \* contents a writer may produce
  AskedFor,       \* the reasons for which answers ask for a replan
  Reproducible,   \* a model run repeated on the same node answers the same
  OperatorStates, \* states an operator moves a task to
  SyncTries,      \* tries of a phase synchronisation (6 in the code)
  MaxParallel,
  MaxFaults

ASSUME RuntimeAssumption ==
  /\ RootTask \in Tasks
  /\ RootRisks \subseteq 0..MaxRisk /\ MaxRisk \in 0..4
  /\ RootRepairs \in Nat /\ SyncTries \in Nat \ {0}
  /\ MaxParallel \in Nat \ {0} /\ MaxFaults \in Nat
  /\ Crew \in [RootRisks -> SUBSET Processes]
  /\ None \notin Processes \cup Models \cup Patches \cup Tasks

VARIABLES
  task, keys, logged,   \* the continuity store
  node, deps, locks,    \* the mesh store
  plan,        \* each task's contract: risk, repairs left, and what it replans
  tried,       \* mesh_attempts: signatures recorded so far
  progress,    \* the last attempt of each node: its model and whether it had errors
  selected,    \* selected_registry_id of each node
  artifacts,   \* mesh_artifacts of each node, oldest first
  answered,    \* what each model has answered for each node
  trees,       \* nodes whose managed worktree exists
  pc, broken, runs, faults

contStore == <<task, keys, logged>>
meshStore == <<node, deps, locks>>
records == <<plan, tried, progress, selected, artifacts, answered, trees>>
vars == <<contStore, meshStore, records, pc, broken, runs, faults>>

-----------------------------------------------------------------------------
\* build_mesh_plan.
GuardedMembers == {"index", "implement", "integrate", "checks", "review1"}
BoundedMembers == {"scout", "review2"}
FullMembers == {"plan", "adjudicate", "oracle", "supervise", "release"}

Members(risk) ==
  GuardedMembers \cup (IF risk >= 2 THEN BoundedMembers ELSE {})
                 \cup (IF risk >= 3 THEN FullMembers ELSE {})

Roles == Members(MaxRisk)
Nodes == Tasks \X Roles

\* Mutant: the reviews wait for the integrated patch only.
NeedsNoChecks(role, risk) ==
  CASE role = "index" -> {}
    [] role = "scout" -> {"index"}
    [] role = "plan" -> {"scout"}
    [] role = "adjudicate" -> {"plan"}
    [] role = "oracle" -> {"adjudicate"}
    [] role = "implement" -> (CASE risk <= 1 -> {"index"} [] risk = 2 -> {"scout"}
                                [] OTHER -> {"adjudicate", "oracle"})
    [] role = "integrate" -> {"implement"}
    [] role = "checks" -> {"integrate"}
    [] role \in {"review1", "review2"} -> {"integrate"}
    [] role = "supervise" -> {"integrate", "checks", "review1", "review2"}
    [] OTHER -> {"integrate", "checks", "supervise"}

Needs(role, risk) ==
  CASE role = "index" -> {}
    [] role = "scout" -> {"index"}
    [] role = "plan" -> {"scout"}
    [] role = "adjudicate" -> {"plan"}
    [] role = "oracle" -> {"adjudicate"}
    [] role = "implement" -> (CASE risk <= 1 -> {"index"} [] risk = 2 -> {"scout"}
                                [] OTHER -> {"adjudicate", "oracle"})
    [] role = "integrate" -> {"implement"}
    [] role = "checks" -> {"integrate"}
    [] role \in {"review1", "review2"} -> {"integrate", "checks"}
    [] role = "supervise" -> {"integrate", "checks", "review1", "review2"}
    [] OTHER -> {"integrate", "checks", "supervise"}

MaxAttempts(p) == IF p.risk <= 2 THEN 1 + p.repairs ELSE 4

Batch(t, risk) == [n \in {t} \X Members(risk) |-> {t} \X Needs(n[2], risk)]

\* Priorities fall along a plan; created_at and the node id decide between tasks.
TaskOrder == SetToSeq(Tasks)
RoleOrder ==
  <<"index", "scout", "plan", "adjudicate", "oracle", "implement", "integrate", "checks",
    "review1", "review2", "supervise", "release">>
Place(x, s) == CHOOSE i \in DOMAIN s : s[i] = x
RankOf == [n \in Nodes |-> Cardinality(Tasks) * Place(n[2], RoleOrder) + Place(n[1], TaskOrder)]

\* Every plan of a task writes the same components.
RootsOf == [n \in Nodes |-> IF n[2] = "implement" THEN {"change"} ELSE {}]

Cont == INSTANCE ContinuityStore WITH
  Workers <- Processes, NoOwner <- None, Authoritative <- {}, Priority <- [t \in Tasks |-> 0]
Mesh == INSTANCE MeshStore WITH
  Owners <- Processes, NoOwner <- None, Roots <- {"change"},
  Overlapping <- {<<"change", "change">>}, Rank <- RankOf, Batches <- {},
  WriteRoots <- RootsOf,
  Tokens <- {}, NoToken <- None

-----------------------------------------------------------------------------
DETERMINISTIC == {"index", "integrate", "checks"}
GUARDS == {"review1"}                     \* mandatory_final_guard, at R0 and R1

\* _continuity_target_for_role, and the order of the phases.
Target(role) ==
  CASE role \in {"index", "scout", "plan", "adjudicate", "oracle"} -> "PLANNING"
    [] role \in {"implement", "integrate"} -> "WORKER_IMPLEMENTING"
    [] role = "checks" -> "MACHINE_CHECKS"
    [] OTHER -> "SUPERVISOR_REVIEW"

Phases == <<"READY", "PLANNING", "WORKER_IMPLEMENTING", "MACHINE_CHECKS", "SUPERVISOR_REVIEW">>
InPhases(state) == state \in ToSet(Phases)

Behind(state, role) == InPhases(state) /\ Place(state, Phases) < Place(Target(role), Phases)

Hop(state, role) ==
  IF state = "READY" /\ Target(role) # "PLANNING" THEN "WORKER_IMPLEMENTING"
  ELSE Phases[Place(state, Phases) + 1]

Reasons == {"replan", "context", "escalate", "supervisor", "findings", "diff"}
ASSUME AskedForAssumption == AskedFor \subseteq Reasons

\* What a run may come out with (_structured_control, the check runner's reclassification):
\* a result, no usable result, a result that does not validate, a request to contain the
\* task, or one to plan it anew.
Answer(kind, reason, risk, consume) ==
  [kind |-> kind, reason |-> reason, risk |-> risk, consume |-> consume]
Plain(kind) == Answer(kind, "none", 0, FALSE)
Replan(reason, risk, consume) == Answer("replan", reason, risk, consume)

RepositoryIndexerOffers == {Plain("result"), Plain("error")}
IntegratorOffers == {Plain("result"), Plain("error")}
CheckRunnerOffers(risk) ==
  {Plain("result"), Plain("error")} \cup {Replan("diff", r, FALSE) : r \in (risk + 1)..MaxRisk}

StructuredControl(role, risk) ==
  LET higher == (risk + 1)..MaxRisk
  IN  {Plain("contain"), Replan("replan", risk, TRUE)}
        \cup {Replan("context", r, FALSE) : r \in {r \in higher : r = risk + 1 /\ risk <= 2}}
        \cup {Replan("escalate", r, FALSE) : r \in higher}
        \cup {Replan("supervisor", r, FALSE) : r \in {r \in higher : r = 3}}
        \cup {Replan("findings", r, TRUE) : r \in {r \in {risk} : role \in GUARDS /\ r <= 1}}

Possible(role, risk) ==
  CASE role = "index" -> RepositoryIndexerOffers
    [] role = "integrate" -> IntegratorOffers
    [] role = "checks" -> CheckRunnerOffers(risk)
    [] OTHER -> {Plain("result"), Plain("error"), Plain("invalid")} \cup StructuredControl(role, risk)

Offers(role, risk) ==
  {a \in Possible(role, risk) : a.kind = "replan" => a.reason \in AskedFor}

\* _ranked_routes: a retry changes the model when another one is left.
Routes(n) ==
  LET others == Models \ {selected[n]}
  IN  IF node[n].attempts > 0 /\ others # {} THEN others ELSE Models

\* A contract.  of is the material a child's id is the digest of.
Contract(risk, repairs, of) == [risk |-> risk, repairs |-> repairs, of |-> of]
Materials == [node : Nodes, reason : Reasons, risk : 0..MaxRisk, repairs : Nat]
Contracts == [risk : 0..MaxRisk, repairs : Nat, of : Materials \cup {None}]
ASSUME NoContractAssumption == None \notin Contracts

Unplanned == {t \in Tasks : plan[t] = None}
Child(of) == {t \in Tasks : plan[t] # None /\ plan[t].of = of}

Latest(n) == IF artifacts[n] = <<>> THEN None ELSE Last(artifacts[n])

\* dependency_artifacts: a writer starts from nothing, the integrator from the writer's
\* patch, everything after it from the combined one.
Material(n) ==
  CASE n[2] = "integrate" -> Latest(<<n[1], "implement">>)
    [] n[2] \in {"checks", "review1", "review2", "supervise", "release"} ->
         Latest(<<n[1], "integrate">>)
    [] OTHER -> None

\* Writers, checks and integrators work in a worktree, and so does who reads a patch.
TreeRoles == {"implement", "integrate", "checks", "review1", "review2", "supervise", "release"}

\* lost: the last try of a synchronisation has been made; left and raising: past the try
\* block, the second with an exception.
Run ==
  [ process : Processes, node : Nodes, attempts : Nat, model : Models,
    step : {"sync", "hop", "lost", "begin", "work", "budget", "control", "submit", "graph",
            "attempt", "artifact", "finish", "contain", "left", "raising"},
    goal : {"work", "budget"},        \* what the synchronisation is made for
    tries : Nat, seen : Nat, want : STRING,
    answer : [kind : STRING, reason : STRING, risk : 0..4, consume : BOOLEAN],
    patch : Patches \cup {None}, child : Tasks \cup {None}, ok : BOOLEAN, finished : BOOLEAN ]

Init ==
  /\ Cont!StoreInit
  /\ Mesh!StoreInit
  /\ \E risk \in RootRisks :
       /\ plan = [t \in Tasks |-> IF t = RootTask THEN Contract(risk, RootRepairs, None) ELSE None]
       /\ pc = [p \in Processes |-> IF p \in Crew[risk] THEN "idle" ELSE "off"]
  /\ tried = {}
  /\ progress = [n \in Nodes |-> None]
  /\ selected = [n \in Nodes |-> None]
  /\ artifacts = [n \in Nodes |-> <<>>]
  /\ answered = {}
  /\ trees = {}
  /\ broken = {}
  /\ runs = {}
  /\ faults = 0

Fault == faults < MaxFaults /\ faults' = faults + 1
Quiet == UNCHANGED faults

-----------------------------------------------------------------------------
\* A ready task and its mesh graph, from the command line: two calls.
Open ==
  /\ Cont!SubmitTask(RootTask)
  /\ UNCHANGED <<meshStore, records, pc, broken, runs, faults>>

OpenGraph ==
  /\ task[RootTask].state # "ABSENT"
  /\ node[<<RootTask, "index">>].state = "ABSENT"
  /\ Mesh!SubmitGraph(Batch(RootTask, plan[RootTask].risk))
  /\ UNCHANGED <<contStore, records, pc, broken, runs, faults>>

\* run_once.
StartTick(p) ==
  /\ pc[p] = "idle"
  /\ Mesh!RecoverExpired
  /\ pc' = [pc EXCEPT ![p] = "claim"]
  /\ UNCHANGED <<contStore, records, broken, runs, faults>>

Started(p, n, model) ==
  [ process |-> p, node |-> n, attempts |-> node[n].attempts,
    model |-> model, step |-> "sync", goal |-> "work", tries |-> 0, seen |-> 0, want |-> "",
    answer |-> Plain("none"), patch |-> None, child |-> None, ok |-> FALSE, finished |-> FALSE ]

Claim(p) ==
  /\ pc[p] = "claim"
  /\ \E limit \in 1..MaxParallel, C \in SUBSET Mesh!Eligible :
       /\ Mesh!ClaimReady(p, limit, C)
       /\ \E model \in [C -> Models] :
            /\ \A n \in C : model[n] \in Routes(n)
            /\ runs' = runs \cup {Started(p, n, model[n]) : n \in C}
       /\ pc' = [pc EXCEPT ![p] = IF C = {} THEN "idle" ELSE "run"]
  /\ UNCHANGED <<contStore, records, broken, faults>>

Becomes(r, s) == runs' = (runs \ {r}) \cup {s} /\ UNCHANGED <<pc, broken>>

Leave(r, raised) ==
  LET p == r.process
      last == \A q \in runs \ {r} : q.process # p
  IN  /\ runs' = runs \ {r}
      /\ broken' = IF last THEN broken \ {p} ELSE IF raised THEN broken \cup {p} ELSE broken
      /\ pc' = IF last THEN [pc EXCEPT ![p] = IF raised \/ p \in broken THEN "down" ELSE "idle"]
               ELSE pc

\* A thread in its try block goes on to remove its worktree.
InTree(r) ==
  /\ r.node[2] \in TreeRoles
  /\ r.goal = "budget" \/ r.step \notin {"sync", "hop", "lost", "begin"}

Past(r, raised) ==
  IF InTree(r) THEN Becomes(r, [r EXCEPT !.step = IF raised THEN "raising" ELSE "left"])
  ELSE Leave(r, raised)

FailureOutcome(r, forced) ==
  IF forced \/ r.attempts + 1 >= MaxAttempts(plan[r.node[1]]) THEN "QUARANTINED" ELSE "RETRY_READY"

\* finish_node, and the end of the thread unless something is left to do after it.  It raises
\* when the lease has gone; so does the failure handler's own finish_node.
EndNode(r, outcome, more) ==
  /\ IF Mesh!MayFinish(r.node, r.process)
     THEN /\ Mesh!FinishNode(r.node, r.process, outcome)
          /\ selected' = [selected EXCEPT ![r.node] = r.model]
          /\ IF more THEN Becomes(r, [r EXCEPT !.step = "contain", !.finished = TRUE])
             ELSE Past(r, FALSE)
     ELSE /\ UNCHANGED <<meshStore, selected>>
          /\ Past(r, TRUE)
  /\ UNCHANGED <<contStore, plan, tried, progress, artifacts, answered, trees, faults>>

\* An exception reaches the handler of _execute, which fails the node (again).
Raises(r) == EndNode(r, FailureOutcome(r, FALSE), FALSE)

\* _sync_continuity_phase: the read, on which the step after it is based.
Sync(r) ==
  LET row == task[r.node[1]]
      role == r.node[2]
  IN  /\ r.step = "sync"
      /\ IF Behind(row.state, role)
         THEN Becomes(r, [r EXCEPT !.step = "hop", !.seen = row.version, !.want = Hop(row.state, role)])
         ELSE Becomes(r, [r EXCEPT !.step = IF r.goal = "work" THEN "begin" ELSE "budget"])
      /\ UNCHANGED <<contStore, meshStore, records, faults>>

Tried(r) ==
  Becomes(r, [r EXCEPT !.step = IF r.tries + 1 = SyncTries THEN "lost" ELSE "sync",
                       !.tries = @ + 1, !.want = ""])

\* Mutant: the transition is made from whatever state the task is in by then.
SyncHopBlind(r) ==
  LET t == r.node[1]
  IN  /\ r.step = "hop"
      /\ IF Cont!TransitionAllowed(t, r.want)
         THEN Cont!TransitionWithKey(t, r.want, FALSE, task[t].version, <<"phase", t, task[t].state, r.want>>)
         ELSE UNCHANGED contStore
      /\ Tried(r)
      /\ UNCHANGED <<meshStore, records, faults>>

\* The transition, with the version read.  A conflict means another try.
SyncHop(r) ==
  LET t == r.node[1]
  IN  /\ r.step = "hop"
      /\ IF task[t].version = r.seen
         THEN Cont!TransitionWithKey(t, r.want, FALSE, r.seen, <<"phase", t, task[t].state, r.want>>)
         ELSE UNCHANGED contStore
      /\ Tried(r)
      /\ UNCHANGED <<meshStore, records, faults>>

\* After the last try it raises without another read: before the run the node is
\* quarantined, inside it the handler fails it.
GiveUp(r) ==
  /\ r.step = "lost"
  /\ EndNode(r, FailureOutcome(r, r.goal = "work"), FALSE)

\* WorktreeManager.create, outside the try block, which refuses a worktree that exists.
Begin(r) ==
  /\ r.step = "begin"
  /\ IF r.node[2] \in TreeRoles
     THEN r.node \notin trees /\ trees' = trees \cup {r.node}
     ELSE UNCHANGED trees
  /\ Becomes(r, [r EXCEPT !.step = "work"])
  /\ UNCHANGED <<contStore, meshStore, plan, tried, progress, selected, artifacts, answered, faults>>

\* What raises before the try block: create when the worktree exists; reading the prompt or
\* the task; create, and after it the dependencies' patches, with the worktree made.  The
\* node stays claimed.
Stray(r) ==
  /\ r.step = "begin" /\ r.node[2] # "index"
  /\ \/ r.node \in trees /\ UNCHANGED <<trees, faults>>
     \/ /\ Fault
        /\ \/ UNCHANGED trees
           \/ r.node[2] \in TreeRoles /\ trees' = trees \cup {r.node}
  /\ Leave(r, TRUE)
  /\ UNCHANGED <<contStore, meshStore, plan, tried, progress, selected, artifacts, answered>>

\* The finally clause.
RemoveTree(r) ==
  /\ r.step \in {"left", "raising"}
  /\ trees' = trees \ {r.node}
  /\ Leave(r, r.step = "raising")
  /\ UNCHANGED <<contStore, meshStore, plan, tried, progress, selected, artifacts, answered, faults>>

\* Mutant: a replan at the same risk spends no repair.
MaterialOfFree(r, a) ==
  [node |-> r.node, reason |-> a.reason, risk |-> a.risk, repairs |-> plan[r.node[1]].repairs]

\* The child task is named by the digest of what it replans, so the same request made again
\* finds it.
MaterialOf(r, a) ==
  [node |-> r.node, reason |-> a.reason, risk |-> a.risk,
   repairs |-> plan[r.node[1]].repairs - (IF a.consume THEN 1 ELSE 0)]

Room(r, a) ==
  \/ Child(MaterialOf(r, a)) # {}
  \/ Cardinality({q \in runs : q.answer.kind = "replan" /\ q.child = None}) < Cardinality(Unplanned)

StepAfter(r, a) ==
  CASE a.kind = "replan" -> "sync"
    [] r.node[2] \in DETERMINISTIC -> IF a.kind = "result" THEN "artifact" ELSE "finish"
    [] a.kind = "error" -> "finish"
    [] OTHER -> "attempt"

\* The model run or the deterministic executor.  Anything but a plain result is a
\* fault; a writer's patch is anything, everyone else's is what it was given.
Work(r) ==
  LET n == r.node
  IN  /\ r.step = "work"
      /\ \E a \in Offers(n[2], plan[n[1]].risk), patch \in Patches \cup {None} :
           /\ patch \in (IF n[2] = "implement" /\ a.kind = "result" THEN Patches ELSE {Material(n)})
           /\ Reproducible => \A b \in answered : <<b[1], b[2]>> = <<n, r.model>> => b = <<n, r.model, a, patch>>
           /\ a.kind = "replan" => Room(r, a)
           /\ IF a.kind = "result" \/ <<n, r.model, a, patch>> \in answered THEN Quiet ELSE Fault
           /\ answered' = IF Reproducible THEN answered \cup {<<n, r.model, a, patch>>} ELSE answered
           /\ Becomes(r, [r EXCEPT !.step = StepAfter(r, a), !.goal = IF a.kind = "replan" THEN "budget" ELSE @,
                                   !.tries = 0, !.answer = a, !.patch = patch, !.ok = a.kind = "result"])
      /\ UNCHANGED <<contStore, meshStore, plan, tried, progress, selected, artifacts, trees>>

\* _submit_replan and the containment after a finished node both move the parent; the read
\* comes first, and nothing is written when the parent is there already.
Exhausted(r) == r.answer.consume /\ plan[r.node[1]].repairs <= 0

ControlState(r) ==
  IF r.finished \/ Exhausted(r) THEN "QUARANTINED"
  ELSE IF r.answer.reason = "findings" THEN "AUTO_REPAIR" ELSE "AUTO_REPLAN"

AfterAnswer(r) == IF r.node[2] \in DETERMINISTIC THEN "finish" ELSE "attempt"

Controlled(r) ==
  /\ IF r.finished THEN Past(r, FALSE)
     ELSE Becomes(r, [r EXCEPT !.step = IF Exhausted(r) THEN AfterAnswer(r) ELSE "submit", !.want = ""])
  /\ UNCHANGED <<meshStore, records>>

ReadParent(r) ==
  LET row == task[r.node[1]]
  IN  /\ r.step \in {"budget", "contain"}
      /\ IF row.state = ControlState(r) THEN Controlled(r)
         ELSE /\ Becomes(r, [r EXCEPT !.step = "control", !.seen = row.version, !.want = ControlState(r)])
              /\ UNCHANGED <<meshStore, records>>
      /\ UNCHANGED <<contStore, faults>>

\* _transition_parent_control_state: a conflict is no harm if another has done the same.
Control(r) ==
  LET t == r.node[1]
      current == task[t].version = r.seen
  IN  /\ r.step = "control"
      /\ \/ /\ current
            /\ Cont!TransitionWithKey(t, r.want, FALSE, r.seen, <<"control", r.node, r.want, r.answer.reason>>)
            /\ Controlled(r)
         \/ /\ ~ current /\ task[t].state = r.want
            /\ Controlled(r)
            /\ UNCHANGED contStore
         \/ /\ IF current THEN ~ Cont!TransitionAllowed(t, r.want) ELSE task[t].state # r.want
            /\ Raises(r)
      /\ Quiet

SubmitChild(r) ==
  LET of == MaterialOf(r, r.answer)
      known == Child(of)
      child == IF known # {} THEN CHOOSE t \in known : TRUE ELSE CHOOSE t \in Unplanned : TRUE
  IN  /\ r.step = "submit"
      /\ IF known # {} THEN UNCHANGED <<contStore, plan>>
         ELSE /\ Cont!SubmitTask(child)
              /\ plan' = [plan EXCEPT ![child] = Contract(of.risk, of.repairs, of)]
      /\ Becomes(r, [r EXCEPT !.step = "graph", !.child = child])
      /\ UNCHANGED <<meshStore, tried, progress, selected, artifacts, answered, trees, faults>>

\* Mutant: a child task that was there already is taken to have its nodes.
SubmitChildGraphOnce(r) ==
  /\ r.step = "graph"
  /\ IF task[r.child].version > 1 \/ \E q \in runs \ {r} : q.child = r.child THEN UNCHANGED meshStore
     ELSE Mesh!SubmitGraph(Batch(r.child, plan[r.child].risk))
  /\ Becomes(r, [r EXCEPT !.step = AfterAnswer(r)])
  /\ UNCHANGED <<contStore, records, faults>>

SubmitChildGraph(r) ==
  /\ r.step = "graph"
  /\ Mesh!SubmitGraph(Batch(r.child, plan[r.child].risk))
  /\ Becomes(r, [r EXCEPT !.step = AfterAnswer(r)])
  /\ UNCHANGED <<contStore, records, faults>>

\* record_attempt and evaluate_progress.  Strategy and context of a node never change, and the
\* diff is fingerprinted by the paths it touches: a signature is the node, the model, what the
\* run was given and what came out, up to the contents a writer produced.
Signature(r) == <<r.node, r.model, r.answer, IF r.node[2] = "implement" THEN None ELSE r.patch>>
Progresses(r) ==
  LET last == progress[r.node]
  IN  last = None \/ last.model # r.model \/ (last.errors /\ r.ok)

Attempt(r) ==
  LET new == Signature(r) \notin tried
  IN  /\ r.step = "attempt"
      /\ tried' = tried \cup {Signature(r)}
      /\ progress' = IF new THEN [progress EXCEPT ![r.node] = [model |-> r.model, errors |-> ~ r.ok]] ELSE progress
      /\ LET ok == r.ok /\ new /\ (Progresses(r) \/ r.attempts = 0)
         IN  Becomes(r, [r EXCEPT !.step = IF ok THEN "artifact" ELSE "finish", !.ok = ok])
      /\ UNCHANGED <<contStore, meshStore, plan, selected, artifacts, answered, trees, faults>>

\* register_artifact looks the content up first, and at no lease.
Register(r) ==
  /\ r.step = "artifact"
  /\ artifacts' = IF r.patch = None \/ Contains(artifacts[r.node], r.patch) THEN artifacts
                  ELSE [artifacts EXCEPT ![r.node] = Append(@, r.patch)]
  /\ Becomes(r, [r EXCEPT !.step = "finish"])
  /\ UNCHANGED <<contStore, meshStore, plan, tried, progress, selected, answered, trees, faults>>

\* The end of the run: success, failure, or quarantine because the answer asked for it; a
\* quarantine without a replan contains the parent afterwards.
Finish(r) ==
  LET forced == r.answer.kind \in {"replan", "contain"}
      contains == forced /\ r.child = None /\ r.node[2] \notin DETERMINISTIC
  IN  /\ r.step = "finish"
      /\ EndNode(r, IF r.ok THEN "SUCCEEDED" ELSE FailureOutcome(r, forced), contains)

Step(r) ==
  \/ Sync(r) \/ SyncHop(r) \/ GiveUp(r) \/ Begin(r) \/ Stray(r) \/ Work(r)
  \/ ReadParent(r) \/ Control(r) \/ SubmitChild(r) \/ SubmitChildGraph(r)
  \/ Attempt(r) \/ Register(r) \/ Finish(r) \/ RemoveTree(r)

-----------------------------------------------------------------------------
\* The worktrees of a process that dies stay.
Crash(p) ==
  /\ pc[p] \notin {"down", "off"}
  /\ Fault
  /\ pc' = [pc EXCEPT ![p] = "down"]
  /\ runs' = {r \in runs : r.process # p}
  /\ broken' = broken \ {p}
  /\ UNCHANGED <<contStore, meshStore, records>>

\* A service manager starts the process again (serve).
Restart(p) ==
  /\ pc[p] = "down"
  /\ pc' = [pc EXCEPT ![p] = "idle"]
  /\ UNCHANGED <<contStore, meshStore, records, broken, runs, faults>>

Working(n) == \E r \in runs : r.node = n /\ r.process = node[n].owner

LeaseExpires(n) ==
  /\ ~ Working(n)
  /\ Mesh!LeaseRunsOut(n)
  /\ UNCHANGED <<contStore, records, pc, broken, runs, faults>>

LeaseOutlived(n) ==
  /\ Working(n)
  /\ Fault
  /\ Mesh!LeaseRunsOut(n)
  /\ UNCHANGED <<contStore, records, pc, broken, runs>>

Elapse(n) ==
  /\ Mesh!DelayElapses(n)
  /\ UNCHANGED <<contStore, records, pc, broken, runs, faults>>

OperatorMoves(t, state) ==
  /\ Fault
  /\ Cont!Transition(t, state, FALSE)
  /\ UNCHANGED <<meshStore, records, pc, broken, runs>>

Next ==
  \/ Open \/ OpenGraph
  \/ \E p \in Processes : StartTick(p) \/ Claim(p) \/ Crash(p) \/ Restart(p)
  \/ \E r \in runs : Step(r)
  \/ \E n \in Nodes : LeaseExpires(n) \/ LeaseOutlived(n) \/ Elapse(n)
  \/ \E t \in Tasks, state \in OperatorStates : OperatorMoves(t, state)

Spec == Init /\ [][Next]_vars

\* What a process does next: a tick, and then the steps of its threads.
Turn(p) == StartTick(p) \/ Claim(p) \/ Restart(p) \/ \E r \in runs : r.process = p /\ Step(r)
Clock == \E n \in Nodes : LeaseExpires(n) \/ Elapse(n)

\* As for MeshWorkers: processes keep ticking and are restarted, every step of a thread ends,
\* leases run out and delays elapse.
Fairness ==
  /\ WF_vars(Open \/ OpenGraph)
  /\ \A p \in Processes : WF_vars(Turn(p))
  /\ WF_vars(Clock)

FairSpec == Spec /\ Fairness

-----------------------------------------------------------------------------
Planned(t) == plan[t] # None
IsChild(t) == Planned(t) /\ plan[t].of # None
Parent(t) == plan[t].of.node[1]
Succeeded(t, role) == node[<<t, role>>].state = "SUCCEEDED"

\* Whatever retries, recoveries and late threads do, the phase one database shows is backed by
\* the results in the other: a task under review has passed its checks, and one under checks
\* has an integrated patch.
PhasesBacked ==
  \A t \in Tasks :
    /\ task[t].state = "SUPERVISOR_REVIEW" => Succeeded(t, "checks")
    /\ task[t].state = "MACHINE_CHECKS" => Succeeded(t, "integrate")

\* A task that has been planned anew is not worked on any further by late threads of its old
\* plan, as long as nobody else moves it back into a phase: it never starts moving again.
ReplannedHeld ==
  \A t \in Tasks : IsChild(t) => ~ InPhases(task[Parent(t)].state)

\* Every replan raises the risk or spends a repair: no chain of replans goes on for ever.
Smaller(p, q) == p.risk > q.risk \/ (p.risk = q.risk /\ p.repairs < q.repairs)
ReplanDescends ==
  \A t \in Tasks :
    IsChild(t) => /\ Smaller(plan[t], plan[Parent(t)])
                  /\ plan[t].repairs \in 0..plan[Parent(t)].repairs

\* A worktree no thread is in, of a node that is neither finished nor given up.  Nothing
\* removes it, so that every further run of the node raises and ends its process.
Stranded(n) ==
  /\ n \in trees
  /\ node[n].state \notin {"SUCCEEDED", "QUARANTINED"}
  /\ \A r \in runs : r.node = n => ~ InTree(r)

\* A task the mesh has marked for repair or replanning gets a child task with nodes, or is
\* quarantined: a crash between the two databases leaves no orphan, unless it strands the
\* worktree of the node that asked.
Marked(t) == task[t].state \in {"AUTO_REPAIR", "AUTO_REPLAN"}
HasChildNodes(t) == \E c \in Tasks : IsChild(c) /\ Parent(c) = t /\ node[<<c, "index">>].state # "ABSENT"
ReplansCompleted ==
  <>[](\A t \in Tasks :
         Marked(t) => HasChildNodes(t) \/ \E role \in Roles : Stranded(<<t, role>>))

\* In the end every node of every plan ends, or waits for one that was quarantined, although
\* the parent's moves may raise and take the process down after the node has been finished;
\* unless a worktree stays behind for good.
Settled(n) == node[n].state \in {"ABSENT", "SUCCEEDED", "QUARANTINED"} \/ ~ Mesh!Satisfied(n)
NodesSettle == <>[]((\A n \in Nodes : Settled(n)) \/ \E n \in Nodes : Stranded(n))
=============================================================================

----------------------------- MODULE MeshWorkers -----------------------------
(***************************************************************************)
(* Mesh runtime processes over the mesh queue (toolkit/ztad/               *)
(* mesh_runtime.py).  One tick (run_once) recovers expired leases, claims  *)
(* up to a number of nodes in a second transaction, runs them in parallel  *)
(* threads and ends when all of them have.  A thread makes the worktree    *)
(* its node works in, ends with finish_node and removes the worktree; what *)
(* raises before it is in its try block leaves the node as it was claimed. *)
(* Processes die and are started again by a service manager, leases run    *)
(* out under working threads, and an operator reactivates quarantined      *)
(* nodes.                                                                  *)
(*                                                                         *)
(* What a thread does in its try block (the model run, patches, checks) is *)
(* abstracted to its outcome.  Failures, raises, crashes, outlived leases  *)
(* and reactivations each spend one of MaxFaults.                          *)
(***************************************************************************)
EXTENDS MeshStore, Sequences

CONSTANTS
  Processes,
  WorkerId,      \* the worker id each process was started with
  TreeNodes,     \* nodes that run in a worktree of their own: writers, checks,
                 \* integrators, and those that read their dependencies' patches
  MaxParallel,   \* largest number of nodes one tick asks for
  MaxAttempts,   \* max_attempts of every node
  MaxFaults

ASSUME WorkerIdAssumption == WorkerId \in [Processes -> Owners]
ASSUME TreeNodesAssumption == TreeNodes \subseteq Nodes
ASSUME MeshBoundsAssumption ==
  MaxParallel \in Nat \ {0} /\ MaxAttempts \in Nat \ {0} /\ MaxFaults \in Nat

VARIABLES
  pc,             \* where each process's tick stands
  broken,         \* processes one of whose threads has raised in this tick
  runs,           \* threads at work, each with its copy of the node it claimed
  trees,          \* nodes whose managed worktree exists
  faults,
  reactivations   \* history: the tokens each node has been reactivated with

vars == <<node, deps, locks, pc, broken, runs, trees, faults, reactivations>>

\* A thread is about to start, in its try block, past it, or past it with an exception;
\* stands is a history: nobody has recovered or finished the node since it was claimed.
Run == [process : Processes, node : Nodes, attempts : Nat, stands : BOOLEAN,
        at : {"start", "work", "left", "raising"}]

Init ==
  /\ StoreInit
  /\ pc = [p \in Processes |-> "idle"]
  /\ broken = {}
  /\ runs = {}
  /\ trees = {}
  /\ faults = 0
  /\ reactivations = [n \in Nodes |-> <<>>]

Fault == faults < MaxFaults /\ faults' = faults + 1

-----------------------------------------------------------------------------
\* The claims of the nodes N stand no longer.
Ended(N, threads) ==
  {IF r.node \in N THEN [r EXCEPT !.stands = FALSE] ELSE r : r \in threads}

Submit(batch) ==
  /\ SubmitGraph(batch)
  /\ UNCHANGED <<pc, broken, runs, trees, faults, reactivations>>

StartTick(p) ==
  /\ pc[p] = "idle"
  /\ RecoverExpired
  /\ runs' = Ended(Expired, runs)
  /\ pc' = [pc EXCEPT ![p] = "claim"]
  /\ UNCHANGED <<broken, trees, faults, reactivations>>

\* The second transaction, for as many nodes as routing and the caps allow.
Claim(p) ==
  /\ pc[p] = "claim"
  /\ \E limit \in 1..MaxParallel, C \in SUBSET Nodes :
       /\ ClaimReady(WorkerId[p], limit, C)
       /\ runs' = runs \cup
            {[process |-> p, node |-> n, attempts |-> node'[n].attempts, stands |-> TRUE,
              at |-> "start"] : n \in C}
       /\ pc' = [pc EXCEPT ![p] = IF C = {} THEN "idle" ELSE "run"]
  /\ UNCHANGED <<broken, trees, faults, reactivations>>

\* A thread ends and leaves the threads rest; the last one ends the tick, and the process
\* with it if a thread has raised.
Leave(run, raised, rest) ==
  LET p == run.process
      bad == p \in broken \/ raised
  IN  /\ runs' = rest
      /\ IF \E r \in rest : r.process = p
         THEN /\ broken' = IF raised THEN broken \cup {p} ELSE broken
              /\ UNCHANGED pc
         ELSE /\ broken' = broken \ {p}
              /\ pc' = [pc EXCEPT ![p] = IF bad THEN "down" ELSE "idle"]

\* Mutant: a worktree that is there already is used.
BeginAnyway(run) ==
  /\ run.at = "start"
  /\ run.node \in TreeNodes
  /\ trees' = trees \cup {run.node}
  /\ runs' = (runs \ {run}) \cup {[run EXCEPT !.at = "work"]}
  /\ UNCHANGED <<node, deps, locks, pc, broken, faults, reactivations>>

\* WorktreeManager.create, which refuses a worktree that exists, whoever left it.
Begin(run) ==
  /\ run.at = "start"
  /\ run.node \in TreeNodes \ trees
  /\ trees' = trees \cup {run.node}
  /\ runs' = (runs \ {run}) \cup {[run EXCEPT !.at = "work"]}
  /\ UNCHANGED <<node, deps, locks, pc, broken, faults, reactivations>>

\* What raises before the try block: create when the worktree exists; reading the prompt
\* or the task; create, and after it the dependencies' patches, with the worktree made.
\* The node stays claimed.
Stray(run) ==
  /\ run.at = "start"
  /\ Leave(run, TRUE, runs \ {run})
  /\ \/ run.node \in TreeNodes \cap trees /\ UNCHANGED <<trees, faults>>
     \/ Fault /\ trees' \in {trees, trees \cup ({run.node} \cap TreeNodes)}
  /\ UNCHANGED <<node, deps, locks, reactivations>>

\* A thread in its try block goes on to remove its worktree; others have none.
Past(run, raised, rest) ==
  IF run.at = "work"
  THEN LET place == IF raised THEN "raising" ELSE "left"
       IN  /\ runs' = rest \cup {[run EXCEPT !.at = place, !.stands = FALSE]}
           /\ UNCHANGED <<pc, broken>>
  ELSE Leave(run, raised, rest)

\* The node's result is in, so that no other thread's claim of it stands.
Finished(run) == Past(run, FALSE, Ended({run.node}, runs \ {run}))

Succeed(run) ==
  /\ run.at = IF run.node \in TreeNodes THEN "work" ELSE "start"
  /\ FinishNode(run.node, WorkerId[run.process], "SUCCEEDED")
  /\ Finished(run)
  /\ UNCHANGED <<trees, faults, reactivations>>

\* Mutant: one attempt too many.
FailureOutcomeLate(run, forced) ==
  IF forced \/ run.attempts + 1 > MaxAttempts THEN "QUARANTINED" ELSE "RETRY_READY"

\* _finish_failure: quarantined on the last attempt by the thread's own copy of the
\* count, or when the run asked for it.
FailureOutcome(run, forced) ==
  IF forced \/ run.attempts + 1 >= MaxAttempts THEN "QUARANTINED" ELSE "RETRY_READY"

\* The synchronisation of the phase and the routing fail before there is a worktree.
Fail(run, forced) ==
  /\ run.at \in {"start", "work"}
  /\ Fault
  /\ FinishNode(run.node, WorkerId[run.process], FailureOutcome(run, forced))
  /\ Finished(run)
  /\ UNCHANGED <<trees, reactivations>>

\* finish_node raises when the lease has gone to another owner or to none; so does the
\* failure handler's own finish_node, and the exception leaves the thread.
Refused(run) ==
  /\ run.at \in {"start", "work"}
  /\ ~ MayFinish(run.node, WorkerId[run.process])
  /\ Past(run, TRUE, runs \ {run})
  /\ UNCHANGED <<node, deps, locks, trees, faults, reactivations>>

\* The finally clause.
Remove(run) ==
  /\ run.at \in {"left", "raising"}
  /\ trees' = trees \ {run.node}
  /\ Leave(run, run.at = "raising", runs \ {run})
  /\ UNCHANGED <<node, deps, locks, faults, reactivations>>

\* The worktrees of a process that dies stay.
Crash(p) ==
  /\ pc[p] # "down"
  /\ Fault
  /\ pc' = [pc EXCEPT ![p] = "down"]
  /\ runs' = {r \in runs : r.process # p}
  /\ broken' = broken \ {p}
  /\ UNCHANGED <<node, deps, locks, trees, reactivations>>

Restart(p) ==
  /\ pc[p] = "down"
  /\ pc' = [pc EXCEPT ![p] = "idle"]
  /\ UNCHANGED <<node, deps, locks, broken, runs, trees, faults, reactivations>>

\* mesh-reactivate.
OperatorReactivates(n, token) ==
  /\ Fault
  /\ Reactivate(n, token)
  /\ reactivations' = [reactivations EXCEPT ![n] = Append(@, token)]
  /\ UNCHANGED <<pc, broken, runs, trees>>

\* A thread still works on the claim that a node's lease stands for.
Working(n) == \E r \in runs : r.node = n /\ r.stands

LeaseExpires(n) ==
  /\ ~ Working(n)
  /\ LeaseRunsOut(n)
  /\ UNCHANGED <<pc, broken, runs, trees, faults, reactivations>>

LeaseOutlived(n) ==
  /\ Working(n)
  /\ Fault
  /\ LeaseRunsOut(n)
  /\ UNCHANGED <<pc, broken, runs, trees, reactivations>>

Elapse(n) == DelayElapses(n) /\ UNCHANGED <<pc, broken, runs, trees, faults, reactivations>>

Advance(run) ==
  \/ Begin(run) \/ Stray(run) \/ Succeed(run) \/ Refused(run) \/ Remove(run)
  \/ \E forced \in BOOLEAN : Fail(run, forced)

Next ==
  \/ \E batch \in Batches : Submit(batch)
  \/ \E p \in Processes : StartTick(p) \/ Claim(p) \/ Crash(p) \/ Restart(p)
  \/ \E run \in runs : Advance(run)
  \/ \E n \in Nodes :
       \/ \E token \in Tokens : OperatorReactivates(n, token)
       \/ LeaseExpires(n) \/ LeaseOutlived(n) \/ Elapse(n)

Spec == Init /\ [][Next]_vars

\* Processes keep ticking and are restarted, threads move on and end (runs have
\* timeouts), leases run out and delays elapse.
Fairness ==
  /\ \A p \in Processes :
       /\ WF_vars(StartTick(p))
       /\ WF_vars(Claim(p))
       /\ WF_vars(\E run \in runs : run.process = p /\ Advance(run))
       /\ WF_vars(Restart(p))
  /\ \A n \in Nodes : WF_vars(LeaseExpires(n)) /\ WF_vars(Elapse(n))

FairSpec == Spec /\ Fairness

-----------------------------------------------------------------------------
TypeOK ==
  /\ node \in [Nodes -> NodeRow]
  /\ deps \subseteq Nodes \X Nodes
  /\ locks \subseteq Lock
  /\ pc \in [Processes -> {"idle", "claim", "run", "down"}]
  /\ broken \subseteq Processes
  /\ runs \subseteq Run
  /\ trees \subseteq TreeNodes
  /\ faults \in 0..MaxFaults
  /\ reactivations \in [Nodes -> Seq(Tokens)]

\* A node that runs or has succeeded has only dependencies that have succeeded: no
\* retry, recovery or reactivation takes a result away under a dependent node.
DependenciesFirst ==
  \A n \in Nodes : node[n].state \in {"RUNNING", "SUCCEEDED"} => Satisfied(n)

\* Two nodes never hold overlapping scope locks.
ScopesExclusive ==
  \A j, k \in locks : j.node # k.node => <<j.root, k.root>> \notin Overlapping

\* The live locks are those of the live leases: none is missing while its node runs,
\* and none outlives its claim to block the other writers.
LocksMatchLeases ==
  LiveLocks = UNION {{[root |-> r, node |-> n, owner |-> node[n].owner, lease |-> "live"] :
                        r \in WriteRoots[n]} :
                      n \in {m \in Nodes : node[m].state = "RUNNING" /\ node[m].lease = "live"}}

\* A node that has succeeded is never run, failed or reopened again, although threads
\* that lost their lease still try to finish it.
SuccessIsFinal ==
  [][\A n \in Nodes : node[n].state = "SUCCEEDED" => node'[n] = node[n]]_vars

\* A thread's result is only taken for the claim it was made under.
FinishIsOwn ==
  [][\A run \in runs :
       Succeed(run) \/ (\E forced \in BOOLEAN : Fail(run, forced)) => run.stands]_vars

\* finish_node counts at most MaxAttempts results for a node, and one more for each
\* reactivation.  What is lost to a crash, a lease or a raise is not counted: those runs
\* are made again without limit.
ResultsBounded ==
  \A n \in Nodes : node[n].attempts <= MaxAttempts + Len(reactivations[n])

\* Two threads never work in one worktree, though the one that lost its lease goes on and
\* a worktree is named for its node alone.
TreesExclusive ==
  \A r, s \in runs : r # s /\ r.node = s.node => "start" \in {r.at, s.at}

\* A worktree no thread is in, of a node that is neither finished nor given up.  Nothing
\* removes it, so that every further run of the node raises and ends its process.
Stranded(n) ==
  /\ n \in trees
  /\ node[n].state \notin {"SUCCEEDED", "QUARANTINED"}
  /\ \A r \in runs : r.node = n => r.at = "start"

\* Once the faults stop, unless a worktree stays behind for good, every submitted node
\* succeeds, or stays quarantined, or waits for a node that does.
NodesSettle ==
  \/ \E n \in Nodes : <>[]Stranded(n)
  \/ \A n \in Nodes :
       <>[](node[n].state \in {"ABSENT", "SUCCEEDED", "QUARANTINED"} \/ ~ Satisfied(n))
=============================================================================

------------------------------ MODULE MeshStore ------------------------------
(***************************************************************************)
(* The mesh queue (toolkit/ztad/mesh_store.py, MeshStore): nodes of a      *)
(* dependency graph, the leases of the workers that run them and the scope *)
(* locks of the nodes that write, in one SQLite file.  Each method is one  *)
(* BEGIN IMMEDIATE transaction, hence one atomic operator.  The workers    *)
(* are in MeshWorkers.                                                     *)
(*                                                                         *)
(* A scope is kept up to its root (_scope_root), roots up to which of them *)
(* overlap; a lease and a lock are live or expired; next_run_at is none,   *)
(* later or now.  The version column is left out: a method compares it     *)
(* only with what it has read in the same transaction.                     *)
(***************************************************************************)
EXTENDS Integers, FiniteSets

CONSTANTS
  Nodes,        \* mesh nodes that may be submitted
  Owners,       \* worker ids
  NoOwner,      \* lease_owner IS NULL
  Roots,        \* scope roots
  Overlapping,  \* the pairs of roots that _scopes_overlap accepts
  WriteRoots,   \* the roots a node locks: none for a node without write access
  Rank,         \* place of a node in ORDER BY priority DESC, created_at, node_id
  Batches,      \* graphs that may be submitted: each maps its nodes to their dependencies
  Tokens,       \* reactivation change tokens
  NoToken       \* last_reactivation_token is absent

ASSUME NoOwnerAssumption == NoOwner \notin Owners
ASSUME NoTokenAssumption == NoToken \notin Tokens
ASSUME OverlappingAssumption ==
  /\ Overlapping \subseteq Roots \X Roots
  /\ \A r \in Roots : <<r, r>> \in Overlapping
  /\ \A r, s \in Roots : <<r, s>> \in Overlapping => <<s, r>> \in Overlapping
ASSUME WriteRootsAssumption == WriteRoots \in [Nodes -> SUBSET Roots]
ASSUME RankAssumption ==
  /\ Rank \in [Nodes -> Int]
  /\ \A m, n \in Nodes : Rank[m] = Rank[n] => m = n
ASSUME BatchesAssumption ==
  \A batch \in Batches : DOMAIN batch \subseteq Nodes /\ \A n \in DOMAIN batch : batch[n] \subseteq Nodes

VARIABLES
  node,   \* the row of each node; state "ABSENT" before its submission
  deps,   \* mesh_dependencies: pairs <<node_id, depends_on>>
  locks   \* mesh_scope_locks

storeVars == <<node, deps, locks>>

NodeStates == {"READY", "RETRY_READY", "RUNNING", "SUCCEEDED", "QUARANTINED"}

NodeRow ==
  [ state : NodeStates \cup {"ABSENT"},
    owner : Owners \cup {NoOwner},
    lease : {"none", "live", "expired"},
    due : {"none", "later", "now"},
    attempts : Nat,
    token : Tokens \cup {NoToken} ]

Lock == [root : Roots, node : Nodes, owner : Owners, lease : {"live", "expired"}]

NewRow ==
  [ state |-> "ABSENT", owner |-> NoOwner, lease |-> "none", due |-> "none",
    attempts |-> 0, token |-> NoToken ]

StoreInit ==
  /\ node = [n \in Nodes |-> NewRow]
  /\ deps = {}
  /\ locks = {}

Unleased(row) == [row EXCEPT !.owner = NoOwner, !.lease = "none"]

Collide(m, n) ==
  \E r \in WriteRoots[m], s \in WriteRoots[n] : <<r, s>> \in Overlapping

-----------------------------------------------------------------------------
\* _validate_acyclic looks at the submitted batch alone: its dependencies are in the
\* batch, and no set of its nodes depends on itself.
Acyclic(batch) ==
  /\ \A n \in DOMAIN batch : batch[n] \subseteq DOMAIN batch
  /\ {S \in (SUBSET DOMAIN batch) \ {{}} : \A n \in S : batch[n] \cap S # {}} = {}

\* submit_graph: INSERT OR IGNORE of the nodes, then of the dependencies, so that a
\* node submitted before keeps its row and gains dependencies.
SubmitGraph(batch) ==
  /\ Acyclic(batch)
  /\ node' = [n \in Nodes |-> IF n \in DOMAIN batch /\ node[n].state = "ABSENT"
                              THEN [node[n] EXCEPT !.state = "READY"] ELSE node[n]]
  /\ deps' = deps \cup {e \in (DOMAIN batch) \X Nodes : e[2] \in batch[e[1]]}
  /\ UNCHANGED locks

\* recover_expired: the running nodes whose lease has expired, and every expired lock.
Expired == {n \in Nodes : node[n].state = "RUNNING" /\ node[n].lease = "expired"}

\* Mutant: the other queue's name for the retry state.
RecoveredRowWaiting(row) == [Unleased(row) EXCEPT !.state = "WAITING_RETRY"]

RecoveredRow(row) == [Unleased(row) EXCEPT !.state = "RETRY_READY"]

LiveLocks == {k \in locks : k.lease = "live"}

RecoverExpired ==
  /\ node' = [n \in Nodes |-> IF n \in Expired THEN RecoveredRow(node[n]) ELSE node[n]]
  /\ locks' = {k \in LiveLocks : k.node \notin Expired}
  /\ UNCHANGED deps

\* The candidates of claim_ready whose dependencies are satisfied and whose roots no
\* live lock of another node overlaps.
Satisfied(n) == \A d \in Nodes : <<n, d>> \in deps => node[d].state = "SUCCEEDED"

\* Mutants: dependencies are not looked at; a node to be retried is no candidate.
EligibleTooEarly ==
  {n \in Nodes :
     /\ node[n].state \in {"READY", "RETRY_READY"}
     /\ node[n].due # "later"
     /\ node[n].lease # "live"
     /\ \A r \in WriteRoots[n], k \in LiveLocks : <<r, k.root>> \notin Overlapping}

EligibleOnce ==
  {n \in Nodes :
     /\ node[n].state = "READY"
     /\ node[n].lease # "live"
     /\ Satisfied(n)
     /\ \A r \in WriteRoots[n], k \in LiveLocks : <<r, k.root>> \notin Overlapping}

Eligible ==
  {n \in Nodes :
     /\ node[n].state \in {"READY", "RETRY_READY"}
     /\ node[n].due # "later"
     /\ node[n].lease # "live"
     /\ Satisfied(n)
     /\ \A r \in WriteRoots[n], k \in LiveLocks : <<r, k.root>> \notin Overlapping}

\* Mutant: the candidates are not compared with each other.
TakenTogether(C, limit) ==
  /\ C \subseteq Eligible
  /\ Cardinality(C) <= limit
  /\ \A n \in Eligible \ C : Cardinality({m \in C : Rank[m] < Rank[n]}) = limit

\* The loop of claim_ready takes the candidates in order until it has limit of them,
\* and passes over one that collides with a node it has just taken.
Taken(C, limit) ==
  /\ C \subseteq Eligible
  /\ Cardinality(C) <= limit
  /\ \A m, n \in C : m # n => ~ Collide(m, n)
  /\ \A n \in Eligible \ C :
       LET before == {m \in C : Rank[m] < Rank[n]}
       IN  Cardinality(before) = limit \/ \E m \in before : Collide(m, n)

ClaimedRow(row, owner) ==
  [row EXCEPT !.state = "RUNNING", !.owner = owner, !.lease = "live"]

NewLocks(C, owner) ==
  UNION {{[root |-> r, node |-> n, owner |-> owner, lease |-> "live"] : r \in WriteRoots[n]} : n \in C}

\* claim_ready when it returns the nodes C; expired locks go first.
ClaimReady(owner, limit, C) ==
  /\ Taken(C, limit)
  /\ node' = [n \in Nodes |-> IF n \in C THEN ClaimedRow(node[n], owner) ELSE node[n]]
  /\ locks' = LiveLocks \cup NewLocks(C, owner)
  /\ UNCHANGED deps

\* finish_node: only the owner's name is compared, not the claim it made.
FinishedRow(row, outcome) ==
  [Unleased(row) EXCEPT
     !.state = outcome,
     !.due = IF outcome = "SUCCEEDED" THEN "none" ELSE "later",
     !.attempts = @ + 1]

\* Mutants: the owner is not compared; a node without an owner may be finished.
MayAlwaysFinish(n, owner) == node[n].state # "ABSENT"
MayFinishUnowned(n, owner) == node[n].owner \in {owner, NoOwner}

MayFinish(n, owner) == node[n].owner = owner

\* Mutant: the scope locks stay behind.
FinishNodeKeepingLocks(n, owner, outcome) ==
  /\ MayFinish(n, owner)
  /\ node' = [node EXCEPT ![n] = FinishedRow(@, outcome)]
  /\ UNCHANGED <<deps, locks>>

FinishNode(n, owner, outcome) ==
  /\ MayFinish(n, owner)
  /\ node' = [node EXCEPT ![n] = FinishedRow(@, outcome)]
  /\ locks' = {k \in locks : k.node # n}
  /\ UNCHANGED deps

\* reactivate_quarantined: the token must differ from the last one used on the node.
Reactivate(n, token) ==
  /\ node[n].state = "QUARANTINED"
  /\ node[n].token # token
  /\ node' = [node EXCEPT ![n] =
       [@ EXCEPT !.state = "RETRY_READY", !.due = "none", !.token = token]]
  /\ UNCHANGED <<deps, locks>>

-----------------------------------------------------------------------------
\* The clock: a lease and the locks taken with it carry the same expiry.
LeaseRunsOut(n) ==
  /\ node[n].lease = "live"
  /\ node' = [node EXCEPT ![n].lease = "expired"]
  /\ locks' = {IF k.node = n THEN [k EXCEPT !.lease = "expired"] ELSE k : k \in locks}
  /\ UNCHANGED deps

DelayElapses(n) ==
  /\ node[n].due = "later"
  /\ node' = [node EXCEPT ![n].due = "now"]
  /\ UNCHANGED <<deps, locks>>
=============================================================================

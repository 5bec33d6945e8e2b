----------------------------- MODULE MeshProofs -----------------------------
(***************************************************************************)
(* For any nodes, scopes, processes and graphs, and any number of faults:  *)
(* scope locks are exclusive and are those of the live leases, and what    *)
(* has succeeded stays.  When the graphs submitted agree on the nodes they *)
(* share, nothing runs before its dependencies; when every process has a   *)
(* worker id of its own, a result is taken only for the claim it was made  *)
(* under and no more results are taken for a node than it has attempts.    *)
(* Two threads never share a worktree.                                     *)
(*                                                                         *)
(* All rests on one fact of a row: it has an owner and a lease just while  *)
(* it runs.  So a claim takes nobody's locks, and a thread that outlived   *)
(* its lease finds itself refused unless its process's name claimed the    *)
(* node anew, which a process that is still in its tick does not do.       *)
(***************************************************************************)
EXTENDS MeshWorkers, TLAPS

\* Every process was started with a worker id of its own.
OwnIds == \A p, q \in Processes : p # q => WorkerId[p] # WorkerId[q]

StoreType ==
  /\ node \in [Nodes -> NodeRow]
  /\ deps \subseteq Nodes \X Nodes
  /\ locks \subseteq Lock

\* A node is leased, and to somebody, just while it runs; one that has succeeded waits
\* for nothing.
Leased(row) ==
  /\ row.state = "RUNNING" => row.owner # NoOwner /\ row.lease # "none"
  /\ row.state # "RUNNING" => row.owner = NoOwner /\ row.lease = "none"
  /\ row.state = "SUCCEEDED" => row.due = "none"

Runs(row) == row.state = "RUNNING" /\ row.lease = "live"

\* A live lock is one its node's claim took, and none of those is missing.
LocksOwned ==
  \A k \in locks : k.lease = "live" =>
    /\ Runs(node[k.node])
    /\ k.root \in WriteRoots[k.node]
    /\ k.owner = node[k.node].owner
LocksHeld ==
  \A n \in Nodes, r \in Roots : Runs(node[n]) /\ r \in WriteRoots[n] =>
    [root |-> r, node |-> n, owner |-> node[n].owner, lease |-> "live"] \in locks

StoreInv ==
  /\ StoreType
  /\ \A n \in Nodes : Leased(node[n])
  /\ LocksOwned
  /\ LocksHeld
  /\ ScopesExclusive

-----------------------------------------------------------------------------
\* What recovery, a claim and an outcome make of a row is a row again, leased just while
\* it runs.
LEMMA UnleasedTyped ==
  ASSUME NEW row \in NodeRow
  PROVE  LET freed == Unleased(row)
         IN  /\ freed \in NodeRow /\ freed.owner = NoOwner /\ freed.lease = "none"
             /\ freed.attempts = row.attempts
BY DEF Unleased, NodeRow

LEMMA RecoveredTyped ==
  ASSUME NEW row \in NodeRow
  PROVE  LET new == RecoveredRow(row)
         IN  /\ new \in NodeRow /\ Leased(new) /\ ~ Runs(new)
             /\ new.state = "RETRY_READY" /\ new.owner = NoOwner
             /\ new.attempts = row.attempts
<1> DEFINE t == [Unleased(row) EXCEPT !.state = "RETRY_READY"]
<1>1. \A r \in NodeRow : [r EXCEPT !.state = "RETRY_READY"] \in NodeRow
  BY DEF NodeRow, NodeStates
<1>2. \A r \in NodeRow :
        LET u == [r EXCEPT !.state = "RETRY_READY"]
        IN  /\ u.state = "RETRY_READY" /\ u.owner = r.owner /\ u.lease = r.lease
            /\ u.attempts = r.attempts
  BY DEF NodeRow
<1>3. t \in NodeRow
  BY <1>1, UnleasedTyped
<1>4. /\ t.state = "RETRY_READY" /\ t.owner = NoOwner /\ t.lease = "none"
      /\ t.attempts = row.attempts
  BY <1>2, UnleasedTyped
<1>5. RecoveredRow(row) = t
  BY DEF RecoveredRow
<1> HIDE DEF t
<1> QED BY <1>3, <1>4, <1>5 DEF Leased, Runs

LEMMA ClaimedTyped ==
  ASSUME NEW row \in NodeRow, NEW owner \in Owners
  PROVE  LET new == ClaimedRow(row, owner)
         IN  /\ new \in NodeRow /\ Leased(new) /\ Runs(new)
             /\ new.state = "RUNNING" /\ new.owner = owner
             /\ new.attempts = row.attempts
<1> DEFINE t == [row EXCEPT !.state = "RUNNING", !.owner = owner, !.lease = "live"]
<1>1. \A r \in NodeRow :
        [r EXCEPT !.state = "RUNNING", !.owner = owner, !.lease = "live"] \in NodeRow
  BY DEF NodeRow, NodeStates
<1>2. \A r \in NodeRow :
        LET u == [r EXCEPT !.state = "RUNNING", !.owner = owner, !.lease = "live"]
        IN  /\ u.state = "RUNNING" /\ u.owner = owner /\ u.lease = "live"
            /\ u.attempts = r.attempts
  BY DEF NodeRow
<1>3. t \in NodeRow
  BY <1>1, UnleasedTyped
<1>4. /\ t.state = "RUNNING" /\ t.owner = owner /\ t.lease = "live"
      /\ t.attempts = row.attempts
  BY <1>2, UnleasedTyped
<1>5. ClaimedRow(row, owner) = t
  BY DEF ClaimedRow
<1> HIDE DEF t
<1> QED BY <1>3, <1>4, <1>5, NoOwnerAssumption DEF Leased, Runs

LEMMA FinishedTyped ==
  ASSUME NEW row \in NodeRow, NEW outcome \in {"SUCCEEDED", "QUARANTINED", "RETRY_READY"}
  PROVE  LET new == FinishedRow(row, outcome)
         IN  /\ new \in NodeRow /\ Leased(new) /\ ~ Runs(new)
             /\ new.state = outcome /\ new.owner = NoOwner
             /\ new.attempts = row.attempts + 1
<1> DEFINE d == IF outcome = "SUCCEEDED" THEN "none" ELSE "later"
           t == [Unleased(row) EXCEPT !.state = outcome, !.due = d, !.attempts = @ + 1]
<1>1. \A r \in NodeRow, e \in {"none", "later", "now"} :
        [r EXCEPT !.state = outcome, !.due = e, !.attempts = @ + 1] \in NodeRow
  <2>1. \A r \in NodeRow, s \in NodeStates, e \in {"none", "later", "now"}, a \in Nat :
          [r EXCEPT !.state = s, !.due = e, !.attempts = a] \in NodeRow
    BY DEF NodeRow
  <2>2. outcome \in NodeStates
    BY DEF NodeStates
  <2>3. \A r \in NodeRow : r.attempts + 1 \in Nat
    BY DEF NodeRow
  <2> QED BY <2>1, <2>2, <2>3
<1>2. \A r \in NodeRow, e \in {"none", "later", "now"} :
        LET u == [r EXCEPT !.state = outcome, !.due = e, !.attempts = @ + 1]
        IN  /\ u.state = outcome /\ u.due = e /\ u.owner = r.owner /\ u.lease = r.lease
            /\ u.attempts = r.attempts + 1
  BY DEF NodeRow
<1>3. t \in NodeRow
  BY <1>1, UnleasedTyped
<1>4. /\ t.state = outcome /\ t.due = d /\ t.owner = NoOwner /\ t.lease = "none"
      /\ t.attempts = row.attempts + 1
  BY <1>2, UnleasedTyped
<1>5. FinishedRow(row, outcome) = t
  BY DEF FinishedRow
<1> HIDE DEF t
<1> QED BY <1>3, <1>4, <1>5 DEF Leased, Runs

LEMMA StoreInitInv == StoreInit => StoreInv
<1> SUFFICES ASSUME StoreInit PROVE StoreInv
  OBVIOUS
<1>1. NewRow \in NodeRow /\ Leased(NewRow)
  BY DEF NewRow, NodeRow, NodeStates, Leased
<1> QED BY <1>1 DEF StoreInit, StoreInv, StoreType, LocksOwned, LocksHeld, ScopesExclusive, Runs,
                    NewRow

\* A change of rows that touches neither who runs nor any lock.
LEMMA LocksUntouched ==
  ASSUME StoreInv, locks' = locks,
         node' \in [Nodes -> NodeRow],
         \A n \in Nodes : /\ Leased(node'[n])
                          /\ Runs(node'[n]) = Runs(node[n])
                          /\ node'[n].owner = node[n].owner
  PROVE  LocksOwned' /\ LocksHeld' /\ ScopesExclusive'
<1>1. LocksOwned'
  BY DEF StoreInv, StoreType, Lock, LocksOwned
<1>2. LocksHeld'
  BY DEF StoreInv, LocksHeld
<1> QED BY <1>1, <1>2 DEF StoreInv, ScopesExclusive

LEMMA SubmitStore ==
  ASSUME StoreInv, NEW batch \in Batches, SubmitGraph(batch)
  PROVE  StoreInv'
<1>1. \A n \in Nodes :
        node'[n] = IF n \in DOMAIN batch /\ node[n].state = "ABSENT"
                   THEN [node[n] EXCEPT !.state = "READY"] ELSE node[n]
  BY DEF SubmitGraph
<1>2. node' \in [Nodes -> NodeRow]
  <2>1. \A r \in NodeRow : [r EXCEPT !.state = "READY"] \in NodeRow
    BY DEF NodeRow, NodeStates
  <2>2. \A n \in Nodes : node'[n] \in NodeRow
    BY <1>1, <2>1 DEF StoreInv, StoreType
  <2> QED BY <2>2 DEF SubmitGraph
<1>3. \A n \in Nodes : /\ Leased(node'[n])
                       /\ Runs(node'[n]) = Runs(node[n])
                       /\ node'[n].owner = node[n].owner
  BY <1>1 DEF StoreInv, StoreType, NodeRow, Leased, Runs
<1>4. deps' \subseteq Nodes \X Nodes
  BY BatchesAssumption DEF SubmitGraph, StoreInv, StoreType
<1>5. locks' = locks
  BY DEF SubmitGraph
<1> QED BY <1>2, <1>3, <1>4, <1>5, LocksUntouched DEF StoreInv, StoreType

LEMMA ReactivateStore ==
  ASSUME StoreInv, NEW n \in Nodes, NEW token \in Tokens, Reactivate(n, token)
  PROVE  StoreInv'
<1> DEFINE after == [node[n] EXCEPT !.state = "RETRY_READY", !.due = "none", !.token = token]
<1>1. node' = [node EXCEPT ![n] = after] /\ deps' = deps /\ locks' = locks
  BY DEF Reactivate
<1>2. after \in NodeRow /\ Leased(after) /\ ~ Runs(after) /\ after.owner = node[n].owner
  <2>1. node[n] \in NodeRow /\ node[n].owner = NoOwner /\ node[n].lease = "none"
    BY DEF StoreInv, StoreType, Leased, Reactivate
  <2>3. \A r \in NodeRow :
          LET t == [r EXCEPT !.state = "RETRY_READY", !.due = "none", !.token = token]
          IN  /\ t \in NodeRow
              /\ t.state = "RETRY_READY" /\ t.owner = r.owner /\ t.lease = r.lease
    BY DEF NodeRow, NodeStates
  <2>4. after \in NodeRow /\ after.state = "RETRY_READY" /\ after.owner = NoOwner
        /\ after.lease = "none"
    BY <2>1, <2>3
  <2> HIDE DEF after
  <2> QED BY <2>1, <2>4 DEF Leased, Runs
<1>3. ~ Runs(node[n])
  BY DEF Reactivate, Runs
<1> HIDE DEF after
<1>4. node' \in [Nodes -> NodeRow]
  BY <1>1, <1>2 DEF StoreInv, StoreType
<1>5. \A m \in Nodes : /\ Leased(node'[m])
                       /\ Runs(node'[m]) = Runs(node[m])
                       /\ node'[m].owner = node[m].owner
  BY <1>1, <1>2, <1>3 DEF StoreInv, StoreType, Runs
<1> QED BY <1>1, <1>4, <1>5, LocksUntouched DEF StoreInv, StoreType

LEMMA DelayStore ==
  ASSUME StoreInv, NEW n \in Nodes, DelayElapses(n)
  PROVE  StoreInv'
<1> DEFINE after == [node[n] EXCEPT !.due = "now"]
<1>1. node' = [node EXCEPT ![n] = after] /\ deps' = deps /\ locks' = locks
  BY DEF DelayElapses
<1>2. after \in NodeRow /\ Leased(after) /\ Runs(after) = Runs(node[n])
      /\ after.owner = node[n].owner
  BY DEF StoreInv, StoreType, NodeRow, NodeStates, Leased, Runs, DelayElapses
<1> HIDE DEF after
<1>4. node' \in [Nodes -> NodeRow]
  BY <1>1, <1>2 DEF StoreInv, StoreType
<1>5. \A m \in Nodes : /\ Leased(node'[m])
                       /\ Runs(node'[m]) = Runs(node[m])
                       /\ node'[m].owner = node[m].owner
  BY <1>1, <1>2 DEF StoreInv, StoreType
<1> QED BY <1>1, <1>4, <1>5, LocksUntouched DEF StoreInv, StoreType

LEMMA RecoverStore ==
  ASSUME StoreInv, RecoverExpired
  PROVE  StoreInv'
<1>1. /\ node' = [n \in Nodes |-> IF n \in Expired THEN RecoveredRow(node[n]) ELSE node[n]]
      /\ locks' = {k \in LiveLocks : k.node \notin Expired}
      /\ deps' = deps
  BY DEF RecoverExpired
<1>2. \A n \in Nodes :
        /\ node'[n] \in NodeRow /\ Leased(node'[n])
        /\ Runs(node'[n]) => n \notin Expired /\ node'[n] = node[n]
  BY <1>1, RecoveredTyped DEF StoreInv, StoreType
<1>3. node' \in [Nodes -> NodeRow]
  BY <1>1, <1>2
<1>4. LocksOwned'
  <2>1. \A k \in locks' : /\ k \in locks /\ k.lease = "live" /\ k.node \in Nodes
                          /\ k.node \notin Expired
    BY <1>1 DEF LiveLocks, StoreInv, StoreType, Lock
  <2>2. \A k \in locks' : node'[k.node] = node[k.node]
    BY <1>1, <2>1
  <2> QED BY <2>1, <2>2 DEF StoreInv, LocksOwned
<1>5. LocksHeld'
  BY <1>1, <1>2 DEF StoreInv, LocksHeld, LiveLocks
<1> QED BY <1>1, <1>2, <1>3, <1>4, <1>5 DEF StoreInv, StoreType, LiveLocks, ScopesExclusive

LEMMA ClaimStore ==
  ASSUME StoreInv, NEW owner \in Owners, NEW limit, NEW C, ClaimReady(owner, limit, C)
  PROVE  StoreInv'
<1>1. /\ node' = [n \in Nodes |-> IF n \in C THEN ClaimedRow(node[n], owner) ELSE node[n]]
      /\ locks' = LiveLocks \cup NewLocks(C, owner)
      /\ deps' = deps
      /\ C \subseteq Eligible
      /\ \A m, n \in C : m # n => ~ Collide(m, n)
  BY DEF ClaimReady, Taken
<1>2. \A n \in C : n \in Nodes /\ ~ Runs(node[n])
  BY <1>1 DEF Eligible, Runs
<1>3. \A n \in Nodes : node'[n] \in NodeRow /\ Leased(node'[n])
  BY <1>1, ClaimedTyped DEF StoreInv, StoreType
<1>4. node' \in [Nodes -> NodeRow]
  BY <1>1, <1>3
<1>5. \A k \in LiveLocks :
        /\ k \in locks /\ k.lease = "live" /\ k \in Lock
        /\ Runs(node[k.node]) /\ k.root \in WriteRoots[k.node] /\ k.owner = node[k.node].owner
        /\ k.node \notin C /\ node'[k.node] = node[k.node]
  BY <1>1, <1>2 DEF LiveLocks, StoreInv, StoreType, LocksOwned, Lock
<1>6. \A k \in NewLocks(C, owner) :
        /\ k.node \in C /\ k.root \in WriteRoots[k.node] /\ k.lease = "live" /\ k.owner = owner
        /\ k \in Lock
  BY <1>2, WriteRootsAssumption DEF NewLocks, Lock
<1>7. \A n \in C : Runs(node'[n]) /\ node'[n].owner = owner
  BY <1>1, <1>2, ClaimedTyped DEF StoreInv, StoreType
<1>8. LocksOwned'
  BY <1>1, <1>5, <1>6, <1>7 DEF LocksOwned
<1>9. LocksHeld'
  <2> SUFFICES ASSUME NEW n \in Nodes, NEW r \in Roots, Runs(node'[n]), r \in WriteRoots[n]
               PROVE  [root |-> r, node |-> n, owner |-> node'[n].owner, lease |-> "live"] \in locks'
    BY DEF LocksHeld
  <2>1. CASE n \in C
    BY <1>1, <1>7, <2>1 DEF NewLocks
  <2>2. CASE n \notin C
    BY <1>1, <2>2 DEF StoreInv, LocksHeld, LiveLocks
  <2> QED BY <2>1, <2>2
<1>10. ScopesExclusive'
  <2> SUFFICES ASSUME NEW j \in locks', NEW k \in locks', j.node # k.node
               PROVE  <<j.root, k.root>> \notin Overlapping
    BY DEF ScopesExclusive
  <2>1. \A n \in C, l \in LiveLocks : \A r \in WriteRoots[n] :
          <<r, l.root>> \notin Overlapping /\ <<l.root, r>> \notin Overlapping
    <3>1. \A n \in C, l \in LiveLocks : \A r \in WriteRoots[n] :
            <<r, l.root>> \notin Overlapping /\ r \in Roots /\ l.root \in Roots
      BY <1>1, <1>2, <1>5, WriteRootsAssumption DEF Eligible, Lock
    <3> QED BY <3>1, OverlappingAssumption
  <2>2. CASE j \in LiveLocks /\ k \in LiveLocks
    BY <2>2 DEF LiveLocks, StoreInv, ScopesExclusive
  <2>3. CASE j \in LiveLocks /\ k \in NewLocks(C, owner)
    BY <1>6, <2>1, <2>3
  <2>4. CASE j \in NewLocks(C, owner) /\ k \in LiveLocks
    BY <1>6, <2>1, <2>4
  <2>5. CASE j \in NewLocks(C, owner) /\ k \in NewLocks(C, owner)
    BY <1>1, <1>6, <2>5 DEF Collide
  <2> QED BY <1>1, <2>2, <2>3, <2>4, <2>5
<1> QED BY <1>1, <1>3, <1>4, <1>5, <1>6, <1>8, <1>9, <1>10 DEF StoreInv, StoreType

LEMMA FinishStore ==
  ASSUME StoreInv, NEW n \in Nodes, NEW owner \in Owners,
         NEW outcome \in {"SUCCEEDED", "QUARANTINED", "RETRY_READY"},
         FinishNode(n, owner, outcome)
  PROVE  StoreInv'
<1>1. /\ node' = [node EXCEPT ![n] = FinishedRow(node[n], outcome)]
      /\ locks' = {k \in locks : k.node # n}
      /\ deps' = deps
  BY DEF FinishNode
<1>2. /\ node'[n] \in NodeRow /\ Leased(node'[n]) /\ ~ Runs(node'[n])
      /\ \A m \in Nodes \ {n} : node'[m] = node[m]
  BY <1>1, FinishedTyped DEF StoreInv, StoreType
<1>3. node' \in [Nodes -> NodeRow]
  BY <1>1, <1>2 DEF StoreInv, StoreType
<1>4. LocksOwned'
  BY <1>1, <1>2 DEF StoreInv, StoreType, Lock, LocksOwned
<1>5. LocksHeld'
  BY <1>1, <1>2 DEF StoreInv, LocksHeld
<1> QED BY <1>1, <1>2, <1>3, <1>4, <1>5 DEF StoreInv, StoreType, ScopesExclusive

LEMMA LeaseStore ==
  ASSUME StoreInv, NEW n \in Nodes, LeaseRunsOut(n)
  PROVE  StoreInv'
<1> DEFINE after == [node[n] EXCEPT !.lease = "expired"]
           aged(k) == IF k.node = n THEN [k EXCEPT !.lease = "expired"] ELSE k
<1>1. /\ node' = [node EXCEPT ![n] = after]
      /\ locks' = {aged(k) : k \in locks}
      /\ deps' = deps
  BY DEF LeaseRunsOut, StoreInv, StoreType
<1>2. after \in NodeRow /\ Leased(after) /\ ~ Runs(after)
  BY DEF StoreInv, StoreType, NodeRow, NodeStates, Leased, Runs, LeaseRunsOut
<1>3. \A k \in locks : /\ aged(k) \in Lock
                       /\ aged(k).node = k.node /\ aged(k).root = k.root
                       /\ aged(k).owner = k.owner
                       /\ aged(k).lease = IF k.node = n THEN "expired" ELSE k.lease
  BY DEF StoreInv, StoreType, Lock
<1>4. \A k \in locks : k.node # n => aged(k) = k
  OBVIOUS
<1> HIDE DEF after, aged
<1>5. /\ node' \in [Nodes -> NodeRow]
      /\ node'[n] = after
      /\ \A m \in Nodes \ {n} : node'[m] = node[m]
  BY <1>1, <1>2 DEF StoreInv, StoreType
<1>6. LocksOwned'
  <2> SUFFICES ASSUME NEW l \in locks', l.lease = "live"
               PROVE  /\ Runs(node'[l.node])
                      /\ l.root \in WriteRoots[l.node]
                      /\ l.owner = node'[l.node].owner
    BY DEF LocksOwned
  <2>1. PICK k \in locks : l = aged(k)
    BY <1>1
  <2>2. l = k /\ k.node # n /\ k.node \in Nodes
    BY <1>3, <1>4, <2>1 DEF StoreInv, StoreType, Lock
  <2> QED BY <1>5, <2>2 DEF StoreInv, LocksOwned
<1>7. LocksHeld'
  <2> SUFFICES ASSUME NEW m \in Nodes, NEW r \in Roots, Runs(node'[m]), r \in WriteRoots[m]
               PROVE  [root |-> r, node |-> m, owner |-> node'[m].owner, lease |-> "live"] \in locks'
    BY DEF LocksHeld
  <2> DEFINE k == [root |-> r, node |-> m, owner |-> node[m].owner, lease |-> "live"]
  <2>1. m # n /\ node'[m] = node[m]
    BY <1>2, <1>5
  <2>2. k \in locks /\ k.node = m
    BY <2>1 DEF StoreInv, LocksHeld
  <2> HIDE DEF k
  <2>3. k \in locks'
    BY <1>1, <1>4, <2>1, <2>2
  <2> QED BY <2>1, <2>3 DEF k
<1>8. ScopesExclusive'
  BY <1>1, <1>3 DEF StoreInv, ScopesExclusive
<1> QED BY <1>1, <1>2, <1>3, <1>5, <1>6, <1>7, <1>8 DEF StoreInv, StoreType

-----------------------------------------------------------------------------
\* What each method does to the rows: which it leaves as they are, and what becomes of
\* the state, the owner and the count of attempts of the others.
Kept(n) ==
  /\ node'[n].owner = node[n].owner
  /\ node'[n].attempts = node[n].attempts

LEMMA SubmitRows ==
  ASSUME StoreInv, NEW batch \in Batches, SubmitGraph(batch)
  PROVE  \A n \in Nodes :
           /\ Kept(n)
           /\ node[n].state # "ABSENT" => node'[n] = node[n]
           /\ node[n].state = "ABSENT" => node'[n].state \in {"ABSENT", "READY"}
           /\ n \notin DOMAIN batch => node'[n] = node[n]
<1>1. \A n \in Nodes :
        node'[n] = IF n \in DOMAIN batch /\ node[n].state = "ABSENT"
                   THEN [node[n] EXCEPT !.state = "READY"] ELSE node[n]
  BY DEF SubmitGraph
<1>2. \A r \in NodeRow :
        LET u == [r EXCEPT !.state = "READY"]
        IN  /\ u.state = "READY" /\ u.owner = r.owner
            /\ u.attempts = r.attempts
  BY DEF NodeRow
<1>3. \A n \in Nodes : node[n] \in NodeRow
  BY DEF StoreInv, StoreType
<1>4. \A n \in Nodes :
        LET u == [node[n] EXCEPT !.state = "READY"]
        IN  /\ u.state = "READY" /\ u.owner = node[n].owner
            /\ u.attempts = node[n].attempts
  BY <1>2, <1>3
<1> SUFFICES ASSUME NEW n \in Nodes
             PROVE  /\ Kept(n)
                    /\ node[n].state # "ABSENT" => node'[n] = node[n]
                    /\ node[n].state = "ABSENT" => node'[n].state \in {"ABSENT", "READY"}
                    /\ n \notin DOMAIN batch => node'[n] = node[n]
  OBVIOUS
<1>5. CASE n \in DOMAIN batch /\ node[n].state = "ABSENT"
  BY <1>1, <1>4, <1>5 DEF Kept
<1>6. CASE ~ (n \in DOMAIN batch /\ node[n].state = "ABSENT")
  BY <1>1, <1>6 DEF Kept
<1> QED BY <1>5, <1>6

LEMMA RecoverRows ==
  ASSUME StoreInv, RecoverExpired
  PROVE  \A n \in Nodes :
           \/ node'[n] = node[n]
           \/ /\ node[n].state = "RUNNING"
              /\ node'[n].state = "RETRY_READY"
              /\ node'[n].owner = NoOwner
              /\ node'[n].attempts = node[n].attempts
BY RecoveredTyped DEF RecoverExpired, Expired, StoreInv, StoreType

LEMMA ClaimRows ==
  ASSUME StoreInv, NEW owner \in Owners, NEW limit, NEW C, ClaimReady(owner, limit, C)
  PROVE  /\ C \subseteq Nodes
         /\ \A n \in Nodes \ C : node'[n] = node[n]
         /\ \A n \in C : /\ node[n].state \in {"READY", "RETRY_READY"}
                          /\ Satisfied(n)
                          /\ node'[n].state = "RUNNING"
                          /\ node'[n].owner = owner
                          /\ node'[n].attempts = node[n].attempts
BY ClaimedTyped DEF ClaimReady, Taken, Eligible, StoreInv, StoreType

LEMMA FinishRows ==
  ASSUME StoreInv, NEW n \in Nodes, NEW owner \in Owners,
         NEW outcome \in {"SUCCEEDED", "QUARANTINED", "RETRY_READY"},
         FinishNode(n, owner, outcome)
  PROVE  /\ node[n].owner = owner
         /\ node[n].state = "RUNNING"
         /\ node'[n].state = outcome
         /\ node'[n].owner = NoOwner
         /\ node'[n].attempts = node[n].attempts + 1
         /\ \A m \in Nodes \ {n} : node'[m] = node[m]
<1>1. node' = [node EXCEPT ![n] = FinishedRow(node[n], outcome)] /\ node[n].owner = owner
  BY DEF FinishNode, MayFinish
<1>2. node[n].state = "RUNNING"
  BY <1>1, NoOwnerAssumption DEF StoreInv, StoreType, Leased
<1> QED BY <1>1, <1>2, FinishedTyped DEF StoreInv, StoreType

LEMMA ReactivateRows ==
  ASSUME StoreInv, NEW n \in Nodes, NEW token \in Tokens, Reactivate(n, token)
  PROVE  /\ node[n].state = "QUARANTINED"
         /\ node'[n].state = "RETRY_READY"
         /\ node'[n].owner = NoOwner
         /\ node'[n].attempts = node[n].attempts
         /\ \A m \in Nodes \ {n} : node'[m] = node[m]
<1> DEFINE t == [node[n] EXCEPT !.state = "RETRY_READY", !.due = "none", !.token = token]
<1>1. /\ node' = [node EXCEPT ![n] = t]
      /\ node[n].state = "QUARANTINED"
      /\ node[n].owner = NoOwner
      /\ node[n] \in NodeRow
  BY DEF Reactivate, StoreInv, StoreType, Leased
<1>2. \A r \in NodeRow :
        LET u == [r EXCEPT !.state = "RETRY_READY", !.due = "none", !.token = token]
        IN  u.state = "RETRY_READY" /\ u.owner = r.owner /\ u.attempts = r.attempts
  BY DEF NodeRow
<1>3. t.state = "RETRY_READY" /\ t.owner = NoOwner /\ t.attempts = node[n].attempts
  BY <1>1, <1>2
<1> HIDE DEF t
<1> QED BY <1>1, <1>3 DEF StoreInv, StoreType

\* The clock changes nothing of a row that has succeeded, and no state or claim.
LEMMA ClockRows ==
  ASSUME StoreInv, NEW n \in Nodes, LeaseRunsOut(n) \/ DelayElapses(n)
  PROVE  \A m \in Nodes :
           /\ Kept(m) /\ node'[m].state = node[m].state
           /\ node[m].state = "SUCCEEDED" => node'[m] = node[m]
<1>1. \A r \in NodeRow :
        /\ LET u == [r EXCEPT !.lease = "expired"]
           IN  /\ u.state = r.state /\ u.owner = r.owner
               /\ u.attempts = r.attempts
        /\ LET u == [r EXCEPT !.due = "now"]
           IN  /\ u.state = r.state /\ u.owner = r.owner
               /\ u.attempts = r.attempts
  BY DEF NodeRow
<1>2. node[n].state # "SUCCEEDED"
  BY DEF LeaseRunsOut, DelayElapses, StoreInv, StoreType, NodeRow, Leased
<1>3. \/ node' = [node EXCEPT ![n] = [node[n] EXCEPT !.lease = "expired"]]
      \/ node' = [node EXCEPT ![n] = [node[n] EXCEPT !.due = "now"]]
  BY DEF LeaseRunsOut, DelayElapses, StoreInv, StoreType
<1>4. node \in [Nodes -> NodeRow] /\ node[n] \in NodeRow
  BY DEF StoreInv, StoreType
<1>5. /\ \A m \in Nodes \ {n} : node'[m] = node[m]
      /\ \/ node'[n] = [node[n] EXCEPT !.lease = "expired"]
         \/ node'[n] = [node[n] EXCEPT !.due = "now"]
  BY <1>3, <1>4
<1>6. Kept(n) /\ node'[n].state = node[n].state
  BY <1>1, <1>4, <1>5 DEF Kept
<1> QED BY <1>2, <1>5, <1>6 DEF Kept

-----------------------------------------------------------------------------
WorkerType ==
  /\ pc \in [Processes -> {"idle", "claim", "run", "down"}]
  /\ broken \subseteq Processes
  /\ runs \subseteq Run
  /\ trees \subseteq TreeNodes
  /\ faults \in 0..MaxFaults
  /\ reactivations \in [Nodes -> Seq(Tokens)]

MeshInv == StoreInv /\ WorkerType

LEMMA OutcomesTyped ==
  ASSUME NEW run, NEW forced
  PROVE  FailureOutcome(run, forced) \in {"SUCCEEDED", "QUARANTINED", "RETRY_READY"}
BY DEF FailureOutcome

LEMMA MeshInitInv == Init => MeshInv
<1> SUFFICES ASSUME Init PROVE MeshInv
  OBVIOUS
<1>1. faults \in 0..MaxFaults
  BY MeshBoundsAssumption DEF Init
<1>2. reactivations \in [Nodes -> Seq(Tokens)]
  BY DEF Init
<1> QED BY <1>1, <1>2, StoreInitInv DEF Init, MeshInv, WorkerType

LEMMA FaultTyped ==
  ASSUME MeshInv, Fault
  PROVE  faults' \in 0..MaxFaults
BY MeshBoundsAssumption DEF MeshInv, WorkerType, Fault

\* A thread r is what has become of the thread q.
Of(r, q) == r.process = q.process /\ r.node = q.node /\ r.attempts = q.attempts

LEMMA EndedTyped ==
  ASSUME NEW N, NEW threads \in SUBSET Run
  PROVE  /\ Ended(N, threads) \subseteq Run
         /\ \A r \in Ended(N, threads) :
              r \in threads \/ (r.node \in N /\ \E q \in threads : Of(r, q))
<1> SUFFICES ASSUME NEW q \in threads,
                    NEW r, r = IF q.node \in N THEN [q EXCEPT !.stands = FALSE] ELSE q
             PROVE  /\ r \in Run
                    /\ r \in threads \/ (r.node \in N /\ Of(r, q))
  BY DEF Ended
<1>1. CASE q.node \in N
  BY <1>1 DEF Run, Of
<1>2. CASE q.node \notin N
  BY <1>2
<1> QED BY <1>1, <1>2

LEMMA RunTyped ==
  ASSUME MeshInv, NEW run \in runs
  PROVE  /\ run \in Run /\ run.process \in Processes /\ run.node \in Nodes
         /\ WorkerId[run.process] \in Owners
BY WorkerIdAssumption DEF MeshInv, WorkerType, Run

\* A thread that ends changes its process's place only if it is the last one.
LEMMA LeaveThreads ==
  ASSUME MeshInv, NEW run \in runs, NEW raised \in BOOLEAN, NEW rest \in SUBSET Run,
         Leave(run, raised, rest)
  PROVE  /\ pc' \in [Processes -> {"idle", "claim", "run", "down"}]
         /\ broken' \subseteq Processes
         /\ runs' = rest
         /\ \A r \in rest : pc'[r.process] = pc[r.process]
<1>1. run.process \in Processes
  BY RunTyped
<1>2. runs' = rest
  BY DEF Leave
<1>3. CASE \E r \in rest : r.process = run.process
  BY <1>1, <1>2, <1>3 DEF Leave, MeshInv, WorkerType
<1>4. CASE ~ \E r \in rest : r.process = run.process
  <2>1. /\ broken' = broken \ {run.process}
        /\ \E place \in {"idle", "down"} : pc' = [pc EXCEPT ![run.process] = place]
    BY <1>4 DEF Leave
  <2>2. \A r \in rest : r.process \in Processes /\ r.process # run.process
    BY <1>4 DEF Run
  <2> QED BY <1>1, <1>2, <2>1, <2>2 DEF MeshInv, WorkerType
<1> QED BY <1>3, <1>4

\* A thread that is past its try block stays only to remove its worktree.
LEMMA PastThreads ==
  ASSUME MeshInv, NEW run \in runs, NEW raised \in BOOLEAN, NEW rest \in SUBSET Run,
         Past(run, raised, rest),
         \A r \in rest : \E q \in runs : Of(r, q)
  PROVE  /\ pc' \in [Processes -> {"idle", "claim", "run", "down"}]
         /\ broken' \subseteq Processes
         /\ runs' \subseteq Run
         /\ \A r \in runs' : r \in rest \/ Of(r, run)
         /\ \A r \in runs' : pc'[r.process] = pc[r.process]
<1>1. CASE run.at = "work"
  <2> DEFINE place == IF raised THEN "raising" ELSE "left"
             moved == [run EXCEPT !.at = place, !.stands = FALSE]
  <2>1. /\ runs' = rest \cup {moved}
        /\ UNCHANGED <<pc, broken>>
    BY <1>1 DEF Past
  <2>2. moved \in Run /\ Of(moved, run)
    BY RunTyped DEF Run, Of
  <2> HIDE DEF moved
  <2> QED BY <2>1, <2>2 DEF MeshInv, WorkerType
<1>2. CASE run.at # "work"
  BY <1>2, LeaveThreads DEF Past
<1> QED BY <1>1, <1>2

\* What a thread does to the threads: none is new, none changes its process's place, and a
\* claim that stands no longer is of a node that has been taken from its worker.
Continues(r) ==
  /\ pc'[r.process] = pc[r.process]
  /\ \E q \in runs :
       /\ Of(r, q)
       /\ r.stands = q.stands \/ node'[r.node].owner # WorkerId[r.process]

LEMMA FinishedThreads ==
  ASSUME MeshInv, NEW run \in runs, Finished(run), node'[run.node].owner = NoOwner
  PROVE  /\ pc' \in [Processes -> {"idle", "claim", "run", "down"}]
         /\ broken' \subseteq Processes
         /\ runs' \subseteq Run
         /\ \A r \in runs' : Continues(r)
<1> DEFINE rest == Ended({run.node}, runs \ {run})
<1>1. runs \subseteq Run
  BY DEF MeshInv, WorkerType
<1>2. /\ rest \in SUBSET Run
      /\ \A r \in rest : r \in runs \/ (r.node = run.node /\ \E q \in runs : Of(r, q))
  BY <1>1, EndedTyped
<1>3. \A r \in rest : \E q \in runs : Of(r, q)
  BY <1>2 DEF Of
<1>4. Past(run, FALSE, rest)
  BY DEF Finished
<1> HIDE DEF rest
<1>5. /\ pc' \in [Processes -> {"idle", "claim", "run", "down"}]
      /\ broken' \subseteq Processes
      /\ runs' \subseteq Run
      /\ \A r \in runs' : r \in rest \/ Of(r, run)
      /\ \A r \in runs' : pc'[r.process] = pc[r.process]
  BY <1>2, <1>3, <1>4, PastThreads
<1>6. ASSUME NEW r \in runs'
      PROVE  r \in runs \/ (r.node = run.node /\ \E q \in runs : Of(r, q))
  BY <1>2, <1>5 DEF Of
<1>7. \A r \in runs' : r.node = run.node => node'[r.node].owner # WorkerId[r.process]
  BY <1>5, NoOwnerAssumption, WorkerIdAssumption DEF Run
<1>8. ASSUME NEW r \in runs' PROVE Continues(r)
  BY <1>5, <1>6, <1>7 DEF Continues, Of
<1> QED BY <1>5, <1>8

\* Every step of a thread, as far as the other modules' variables are concerned.
LEMMA AdvanceThreads ==
  ASSUME MeshInv, NEW run \in runs, Advance(run)
  PROVE  /\ pc' \in [Processes -> {"idle", "claim", "run", "down"}]
         /\ broken' \subseteq Processes
         /\ runs' \subseteq Run
         /\ trees' \subseteq TreeNodes
         /\ faults' \in 0..MaxFaults
         /\ reactivations' = reactivations
         /\ \A r \in runs' : Continues(r)
<1> DEFINE others == runs \ {run}
<1>1. /\ run \in Run /\ run.process \in Processes /\ run.node \in Nodes
      /\ WorkerId[run.process] \in Owners
  BY RunTyped
<1>2. /\ others \in SUBSET Run
      /\ \A r \in others : \E q \in runs : Of(r, q)
      /\ trees \subseteq TreeNodes /\ faults \in 0..MaxFaults
  BY DEF MeshInv, WorkerType, Of
<1>3. ASSUME NEW r \in others, pc'[r.process] = pc[r.process] PROVE Continues(r)
  BY <1>3 DEF Continues, Of
<1>4. CASE Begin(run)
  <2> DEFINE moved == [run EXCEPT !.at = "work"]
  <2>1. moved \in Run /\ Of(moved, run) /\ moved.stands = run.stands
    BY <1>1 DEF Run, Of
  <2>2. /\ runs' = others \cup {moved}
        /\ UNCHANGED <<pc, broken, faults, reactivations>>
        /\ trees' = trees \cup {run.node} /\ run.node \in TreeNodes
    BY <1>4 DEF Begin
  <2> HIDE DEF moved
  <2>3. Continues(moved)
    BY <2>1, <2>2 DEF Continues
  <2> QED BY <1>2, <1>3, <2>1, <2>2, <2>3 DEF MeshInv, WorkerType
<1>5. CASE Stray(run)
  <2>1. Leave(run, TRUE, others) /\ reactivations' = reactivations
    BY <1>5 DEF Stray
  <2>2. trees' \subseteq TreeNodes
    BY <1>2, <1>5 DEF Stray
  <2>3. faults' \in 0..MaxFaults
    BY <1>2, <1>5, FaultTyped DEF Stray
  <2> HIDE DEF others
  <2>4. /\ pc' \in [Processes -> {"idle", "claim", "run", "down"}]
        /\ broken' \subseteq Processes
        /\ runs' = others
        /\ \A r \in others : pc'[r.process] = pc[r.process]
    BY <1>2, <2>1, LeaveThreads
  <2>5. \A r \in runs' : Continues(r)
    BY <1>3, <2>4
  <2> QED BY <1>2, <2>1, <2>2, <2>3, <2>4, <2>5
<1>6. CASE Succeed(run)
  <2>1. /\ FinishNode(run.node, WorkerId[run.process], "SUCCEEDED") /\ Finished(run)
        /\ UNCHANGED <<trees, faults, reactivations>>
    BY <1>6 DEF Succeed
  <2>2. node'[run.node].owner = NoOwner
    BY <1>1, <2>1, FinishRows DEF MeshInv
  <2> QED BY <1>2, <2>1, <2>2, FinishedThreads
<1>7. ASSUME NEW forced \in BOOLEAN, Fail(run, forced)
      PROVE  /\ pc' \in [Processes -> {"idle", "claim", "run", "down"}]
             /\ broken' \subseteq Processes
             /\ runs' \subseteq Run
             /\ trees' \subseteq TreeNodes
             /\ faults' \in 0..MaxFaults
             /\ reactivations' = reactivations
             /\ \A r \in runs' : Continues(r)
  <2>1. /\ FinishNode(run.node, WorkerId[run.process], FailureOutcome(run, forced))
        /\ Finished(run) /\ Fault /\ UNCHANGED <<trees, reactivations>>
    BY <1>7 DEF Fail
  <2>2. node'[run.node].owner = NoOwner
    BY <1>1, <2>1, OutcomesTyped, FinishRows DEF MeshInv
  <2>3. faults' \in 0..MaxFaults
    BY <2>1, FaultTyped
  <2> QED BY <1>2, <2>1, <2>2, <2>3, FinishedThreads
<1>8. CASE Refused(run)
  <2>1. /\ Past(run, TRUE, others) /\ node[run.node].owner # WorkerId[run.process]
        /\ UNCHANGED <<node, trees, faults, reactivations>>
    BY <1>8 DEF Refused, MayFinish
  <2> HIDE DEF others
  <2>2. /\ pc' \in [Processes -> {"idle", "claim", "run", "down"}]
        /\ broken' \subseteq Processes
        /\ runs' \subseteq Run
        /\ \A r \in runs' : r \in others \/ Of(r, run)
        /\ \A r \in runs' : pc'[r.process] = pc[r.process]
    BY <1>2, <2>1, PastThreads
  <2>3. ASSUME NEW r \in runs', Of(r, run) PROVE Continues(r)
    BY <2>1, <2>2, <2>3 DEF Continues, Of
  <2> QED BY <1>2, <1>3, <2>1, <2>2, <2>3
<1>9. CASE Remove(run)
  <2>1. /\ Leave(run, run.at = "raising", others) /\ trees' = trees \ {run.node}
        /\ UNCHANGED <<faults, reactivations>>
    BY <1>9 DEF Remove
  <2> HIDE DEF others
  <2>2. /\ pc' \in [Processes -> {"idle", "claim", "run", "down"}]
        /\ broken' \subseteq Processes
        /\ runs' = others
        /\ \A r \in others : pc'[r.process] = pc[r.process]
    BY <1>2, <2>1, LeaveThreads
  <2>3. \A r \in runs' : Continues(r)
    BY <1>3, <2>2
  <2> QED BY <1>2, <2>1, <2>2, <2>3
<1> QED BY <1>4, <1>5, <1>6, <1>7, <1>8, <1>9 DEF Advance

\* And to the rows: it finishes its node, or leaves the queue as it is.
LEMMA AdvanceRows ==
  ASSUME MeshInv, NEW run \in runs, Advance(run)
  PROVE  \/ UNCHANGED <<node, deps, locks>>
         \/ FinishNode(run.node, WorkerId[run.process], "SUCCEEDED")
         \/ \E forced \in BOOLEAN :
              FinishNode(run.node, WorkerId[run.process], FailureOutcome(run, forced))
BY DEF Advance, Begin, Stray, Succeed, Fail, Refused, Remove

LEMMA ClaimTyped ==
  ASSUME MeshInv, NEW p \in Processes, Claim(p)
  PROVE  MeshInv'
<1>1. PICK limit \in 1..MaxParallel, C \in SUBSET Nodes :
        /\ ClaimReady(WorkerId[p], limit, C)
        /\ runs' = runs \cup
             {[process |-> p, node |-> n, attempts |-> node'[n].attempts, stands |-> TRUE,
               at |-> "start"] : n \in C}
        /\ pc' = [pc EXCEPT ![p] = IF C = {} THEN "idle" ELSE "run"]
  BY DEF Claim
<1>2. StoreInv'
  BY <1>1, ClaimStore, WorkerIdAssumption DEF MeshInv
<1>3. \A n \in Nodes : node'[n].attempts \in Nat
  BY <1>2 DEF StoreInv, StoreType, NodeRow
<1>4. runs' \subseteq Run
  <2>1. \A n \in C : [process |-> p, node |-> n, attempts |-> node'[n].attempts,
                     stands |-> TRUE, at |-> "start"] \in Run
    BY <1>3 DEF Run
  <2> QED BY <1>1, <2>1 DEF MeshInv, WorkerType
<1>5. pc' \in [Processes -> {"idle", "claim", "run", "down"}]
  BY <1>1 DEF MeshInv, WorkerType
<1> QED BY <1>2, <1>4, <1>5 DEF MeshInv, WorkerType, Claim

LEMMA EndTyped ==
  ASSUME MeshInv, NEW run \in runs, Advance(run)
  PROVE  MeshInv'
<1>1. run.node \in Nodes /\ WorkerId[run.process] \in Owners
  BY RunTyped
<1>2. StoreInv'
  <2>1. CASE UNCHANGED <<node, deps, locks>>
    BY <2>1 DEF MeshInv, StoreInv, StoreType, LocksOwned, LocksHeld, ScopesExclusive, Leased, Runs
  <2>2. CASE FinishNode(run.node, WorkerId[run.process], "SUCCEEDED")
    BY <1>1, <2>2, FinishStore DEF MeshInv
  <2>3. ASSUME NEW forced \in BOOLEAN,
               FinishNode(run.node, WorkerId[run.process], FailureOutcome(run, forced))
        PROVE  StoreInv'
    BY <1>1, <2>3, OutcomesTyped, FinishStore DEF MeshInv
  <2> QED BY <2>1, <2>2, <2>3, AdvanceRows
<1> QED BY <1>2, AdvanceThreads DEF MeshInv, WorkerType

\* Every step keeps the rows, the locks and the threads as they must be.
LEMMA MeshStepInv == MeshInv /\ [Next]_vars => MeshInv'
<1> SUFFICES ASSUME MeshInv, [Next]_vars PROVE MeshInv'
  OBVIOUS
<1> USE DEF MeshInv
<1>0. StoreInv /\ UNCHANGED <<node, deps, locks>> => StoreInv'
  BY DEF StoreInv, StoreType, LocksOwned, LocksHeld, ScopesExclusive, Leased, Runs
<1>1. ASSUME NEW batch \in Batches, Submit(batch) PROVE MeshInv'
  BY <1>1, SubmitStore DEF Submit, WorkerType
<1>2. ASSUME NEW p \in Processes, StartTick(p) PROVE MeshInv'
  <2>1. StoreInv' /\ runs' = Ended(Expired, runs) /\ UNCHANGED <<broken, trees, faults, reactivations>>
    BY <1>2, RecoverStore DEF StartTick
  <2>2. pc' \in [Processes -> {"idle", "claim", "run", "down"}]
    BY <1>2 DEF StartTick, WorkerType
  <2> QED BY <2>1, <2>2, EndedTyped DEF WorkerType
<1>3. ASSUME NEW p \in Processes, Claim(p) PROVE MeshInv'
  BY <1>3, ClaimTyped
<1>4. ASSUME NEW p \in Processes, Crash(p) PROVE MeshInv'
  BY <1>0, <1>4, FaultTyped DEF Crash, WorkerType
<1>5. ASSUME NEW p \in Processes, Restart(p) PROVE MeshInv'
  BY <1>0, <1>5 DEF Restart, WorkerType
<1>6. ASSUME NEW run \in runs, Advance(run) PROVE MeshInv'
  BY <1>6, EndTyped
<1>7. ASSUME NEW n \in Nodes, NEW token \in Tokens, OperatorReactivates(n, token) PROVE MeshInv'
  <2>1. reactivations' \in [Nodes -> Seq(Tokens)]
    BY <1>7 DEF OperatorReactivates, WorkerType
  <2>2. Fault /\ Reactivate(n, token) /\ UNCHANGED <<pc, broken, runs, trees>>
    BY <1>7 DEF OperatorReactivates
  <2> QED BY <2>1, <2>2, ReactivateStore, FaultTyped DEF WorkerType
<1>8. ASSUME NEW n \in Nodes, LeaseExpires(n) PROVE MeshInv'
  BY <1>8, LeaseStore DEF LeaseExpires, WorkerType
<1>9. ASSUME NEW n \in Nodes, LeaseOutlived(n) PROVE MeshInv'
  BY <1>9, LeaseStore, FaultTyped DEF LeaseOutlived, WorkerType
<1>10. ASSUME NEW n \in Nodes, Elapse(n) PROVE MeshInv'
  BY <1>10, DelayStore DEF Elapse, WorkerType
<1>11. CASE UNCHANGED vars
  BY <1>0, <1>11 DEF vars, WorkerType
<1> QED BY <1>1, <1>2, <1>3, <1>4, <1>5, <1>6, <1>7, <1>8, <1>9, <1>10, <1>11 DEF Next

LEMMA MeshAlways == Spec => []MeshInv
BY MeshInitInv, MeshStepInv, PTL DEF Spec

\* The rows, locks and threads keep their types, and no fault is one too many.
THEOREM MeshTyped == Spec => []TypeOK
<1>1. MeshInv => TypeOK
  BY DEF MeshInv, StoreInv, StoreType, WorkerType, TypeOK
<1> QED BY <1>1, MeshAlways, PTL

\* Two nodes never hold overlapping scope locks, whoever claimed them.
THEOREM ScopesStayExclusive == Spec => []ScopesExclusive
<1>1. MeshInv => ScopesExclusive
  BY DEF MeshInv, StoreInv
<1> QED BY <1>1, MeshAlways, PTL

\* The live locks are those of the live leases: none is missing while its node runs,
\* and none outlives its claim.
THEOREM LocksAreLeases == Spec => []LocksMatchLeases
<1>1. MeshInv => LocksMatchLeases
  <2> SUFFICES ASSUME MeshInv PROVE LocksMatchLeases
    OBVIOUS
  <2> DEFINE Held(n) == {[root |-> r, node |-> n, owner |-> node[n].owner, lease |-> "live"] :
                           r \in WriteRoots[n]}
             Running == {m \in Nodes : node[m].state = "RUNNING" /\ node[m].lease = "live"}
  <2>1. \A k \in LiveLocks : k.node \in Running /\ k \in Held(k.node)
    <3> SUFFICES ASSUME NEW k \in LiveLocks PROVE k.node \in Running /\ k \in Held(k.node)
      OBVIOUS
    <3>1. /\ k \in Lock /\ k.node \in Nodes /\ k.lease = "live" /\ Runs(node[k.node])
          /\ k.root \in WriteRoots[k.node] /\ k.owner = node[k.node].owner
      BY DEF LiveLocks, MeshInv, StoreInv, StoreType, LocksOwned, Lock
    <3>2. k = [root |-> k.root, node |-> k.node, owner |-> k.owner, lease |-> k.lease]
      BY <3>1 DEF Lock
    <3> QED BY <3>1, <3>2 DEF Runs
  <2>2. \A n \in Running : \A k \in Held(n) : k \in LiveLocks
    <3> SUFFICES ASSUME NEW n \in Running, NEW r \in WriteRoots[n]
                 PROVE  [root |-> r, node |-> n, owner |-> node[n].owner, lease |-> "live"]
                          \in LiveLocks
      OBVIOUS
    <3>1. n \in Nodes /\ r \in Roots /\ Runs(node[n])
      BY WriteRootsAssumption DEF Runs
    <3> QED BY <3>1 DEF MeshInv, StoreInv, LocksHeld, LiveLocks
  <2> HIDE DEF Held, Running
  <2>3. LiveLocks = UNION {Held(n) : n \in Running}
    BY <2>1, <2>2
  <2> QED BY <2>3 DEF LocksMatchLeases, Held, Running
<1> QED BY <1>1, MeshAlways, PTL

-----------------------------------------------------------------------------
\* What a step does to the rows, whoever takes it.
RowsMove ==
  \A n \in Nodes :
    /\ node[n].state = "SUCCEEDED" => node'[n] = node[n]
    /\ node'[n].state \in {"RUNNING", "SUCCEEDED"} =>
         node[n].state \in {"RUNNING", "SUCCEEDED"} \/ Satisfied(n)

\* A step that submits nothing.
NoneAppears ==
  /\ deps' = deps
  /\ \A n \in Nodes : node[n].state = "ABSENT" => node'[n].state = "ABSENT"

LEMMA FinishMoves ==
  ASSUME StoreInv, NEW n \in Nodes, NEW owner \in Owners,
         NEW outcome \in {"SUCCEEDED", "QUARANTINED", "RETRY_READY"},
         FinishNode(n, owner, outcome)
  PROVE  RowsMove /\ NoneAppears
<1>1. deps' = deps
  BY DEF FinishNode
<1>2. /\ node[n].state = "RUNNING"
      /\ \A m \in Nodes \ {n} : node'[m] = node[m]
  BY FinishRows
<1> QED BY <1>1, <1>2 DEF RowsMove, NoneAppears

LEMMA EndRows ==
  ASSUME MeshInv, NEW run \in runs, Advance(run)
  PROVE  RowsMove /\ NoneAppears
<1>1. run.node \in Nodes /\ WorkerId[run.process] \in Owners
  BY RunTyped
<1>2. CASE UNCHANGED <<node, deps, locks>>
  BY <1>2 DEF RowsMove, NoneAppears
<1> QED BY <1>1, <1>2, AdvanceRows, OutcomesTyped, FinishMoves DEF MeshInv

LEMMA StepRows ==
  ASSUME MeshInv, [Next]_vars
  PROVE  /\ RowsMove
         /\ \/ \E batch \in Batches : Submit(batch)
            \/ NoneAppears
<1> USE DEF MeshInv
<1>0. node' = node /\ deps' = deps => RowsMove /\ NoneAppears
  BY DEF RowsMove, NoneAppears
<1>1. ASSUME NEW batch \in Batches, Submit(batch) PROVE RowsMove
  <2>1. SubmitGraph(batch)
    BY <1>1 DEF Submit
  <2> QED BY <2>1, SubmitRows DEF RowsMove
<1>2. ASSUME NEW p \in Processes, StartTick(p) PROVE RowsMove /\ NoneAppears
  <2>1. RecoverExpired
    BY <1>2 DEF StartTick
  <2> QED BY <2>1, RecoverRows DEF RowsMove, NoneAppears, RecoverExpired
<1>3. ASSUME NEW p \in Processes, Claim(p) PROVE RowsMove /\ NoneAppears
  <2>1. PICK limit \in 1..MaxParallel, C \in SUBSET Nodes : ClaimReady(WorkerId[p], limit, C)
    BY <1>3 DEF Claim
  <2> QED BY <2>1, ClaimRows, WorkerIdAssumption DEF RowsMove, NoneAppears, ClaimReady
<1>4. ASSUME NEW p \in Processes, Crash(p) \/ Restart(p) PROVE RowsMove /\ NoneAppears
  BY <1>0, <1>4 DEF Crash, Restart
<1>5. ASSUME NEW run \in runs, Advance(run) PROVE RowsMove /\ NoneAppears
  BY <1>5, EndRows
<1>6. ASSUME NEW n \in Nodes, NEW token \in Tokens, OperatorReactivates(n, token)
      PROVE  RowsMove /\ NoneAppears
  <2>1. Reactivate(n, token)
    BY <1>6 DEF OperatorReactivates
  <2>2. deps' = deps
    BY <2>1 DEF Reactivate
  <2> QED BY <2>1, <2>2, ReactivateRows DEF RowsMove, NoneAppears
<1>7. ASSUME NEW n \in Nodes, LeaseExpires(n) \/ LeaseOutlived(n) \/ Elapse(n)
      PROVE  RowsMove /\ NoneAppears
  <2>1. LeaseRunsOut(n) \/ DelayElapses(n)
    BY <1>7 DEF LeaseExpires, LeaseOutlived, Elapse
  <2>2. deps' = deps
    BY <2>1 DEF LeaseRunsOut, DelayElapses
  <2> QED BY <2>1, <2>2, ClockRows DEF RowsMove, NoneAppears
<1>8. CASE UNCHANGED vars
  BY <1>0, <1>8 DEF vars
<1> QED BY <1>1, <1>2, <1>3, <1>4, <1>5, <1>6, <1>7, <1>8 DEF Next

\* A node that has succeeded is never run, failed or reopened again, although threads
\* that lost their lease still try to finish it.
THEOREM SuccessStays == Spec => SuccessIsFinal
<1>1. MeshInv /\ [Next]_vars => [\A n \in Nodes : node[n].state = "SUCCEEDED" => node'[n] = node[n]]_vars
  BY StepRows DEF RowsMove
<1> QED BY <1>1, MeshAlways, PTL DEF Spec, SuccessIsFinal

\* The graphs of two submissions agree on the dependencies of a node they share.
BatchesAgree ==
  \A b, c \in Batches : \A n \in DOMAIN b \cap DOMAIN c : b[n] = c[n]

\* A submitted node has all of its dependencies.
DependenciesKnown ==
  \A batch \in Batches : \A n \in DOMAIN batch :
    node[n].state # "ABSENT" => \A d \in batch[n] : <<n, d>> \in deps

LEMMA SubmitDependencies ==
  ASSUME BatchesAgree, StoreInv, DependenciesKnown, DependenciesFirst,
         NEW batch \in Batches, SubmitGraph(batch)
  PROVE  DependenciesKnown' /\ DependenciesFirst'
<1>1. deps' = deps \cup {e \in (DOMAIN batch) \X Nodes : e[2] \in batch[e[1]]}
  BY DEF SubmitGraph
<1>2. \A b \in Batches : DOMAIN b \subseteq Nodes /\ \A n \in DOMAIN b : b[n] \subseteq Nodes
  BY BatchesAssumption
<1>3. DependenciesKnown'
  <2> SUFFICES ASSUME NEW b \in Batches, NEW n \in DOMAIN b, node'[n].state # "ABSENT",
                      NEW d \in b[n]
               PROVE  <<n, d>> \in deps'
    BY DEF DependenciesKnown
  <2>1. n \in Nodes /\ d \in Nodes
    BY <1>2
  <2>2. CASE n \in DOMAIN batch
    BY <1>1, <2>1, <2>2 DEF BatchesAgree
  <2>3. CASE n \notin DOMAIN batch
    BY <1>1, <2>1, <2>3, SubmitRows DEF DependenciesKnown
  <2> QED BY <2>2, <2>3
<1>4. DependenciesFirst'
  <2> SUFFICES ASSUME NEW n \in Nodes, node'[n].state \in {"RUNNING", "SUCCEEDED"},
                      NEW d \in Nodes, <<n, d>> \in deps'
               PROVE  node'[d].state = "SUCCEEDED"
    BY DEF DependenciesFirst, Satisfied
  <2>1. node'[n] = node[n]
    BY SubmitRows
  <2>2. <<n, d>> \in deps
    BY <1>1, <2>1 DEF DependenciesKnown
  <2>3. node[d].state = "SUCCEEDED"
    BY <2>1, <2>2 DEF DependenciesFirst, Satisfied
  <2> QED BY <2>3, SubmitRows
<1> QED BY <1>3, <1>4

LEMMA DependenciesStep ==
  ASSUME BatchesAgree, MeshInv, DependenciesKnown, DependenciesFirst, [Next]_vars
  PROVE  DependenciesKnown' /\ DependenciesFirst'
<1>1. ASSUME NEW batch \in Batches, Submit(batch) PROVE DependenciesKnown' /\ DependenciesFirst'
  BY <1>1, SubmitDependencies DEF Submit, MeshInv
<1>2. CASE \A batch \in Batches : ~ Submit(batch)
  <2>1. RowsMove /\ NoneAppears
    BY <1>2, StepRows
  <2>2. DependenciesFirst'
    BY <2>1 DEF RowsMove, NoneAppears, DependenciesFirst, Satisfied
  <2>3. DependenciesKnown'
    BY <2>1, BatchesAssumption DEF NoneAppears, DependenciesKnown
  <2> QED BY <2>2, <2>3
<1> QED BY <1>1, <1>2

\* When submissions agree on the nodes they share, a node that runs or has succeeded has
\* only dependencies that have succeeded: no retry, recovery, reactivation or later
\* submission takes a result away under a dependent node.
THEOREM DependenciesHold ==
  ASSUME BatchesAgree
  PROVE  Spec => []DependenciesFirst
<1>1. Init => DependenciesKnown /\ DependenciesFirst
  <2> SUFFICES ASSUME Init PROVE DependenciesKnown /\ DependenciesFirst
    OBVIOUS
  <2>1. \A n \in Nodes : node[n].state = "ABSENT"
    BY DEF Init, StoreInit, NewRow
  <2> QED BY <2>1, BatchesAssumption DEF DependenciesKnown, DependenciesFirst
<1>2. MeshInv /\ DependenciesKnown /\ DependenciesFirst /\ [Next]_vars
        => DependenciesKnown' /\ DependenciesFirst'
  BY DependenciesStep
<1> QED BY <1>1, <1>2, MeshAlways, PTL DEF Spec

-----------------------------------------------------------------------------
\* A thread is of a process in its tick, and as long as its process's worker id owns its
\* node the claim it was made under stands, with the count of attempts it has seen.
OwnRuns ==
  \A r \in runs :
    /\ pc[r.process] = "run"
    /\ node[r.node].owner = WorkerId[r.process] =>
         r.stands /\ r.attempts = node[r.node].attempts

\* A step that starts no thread, ends some, and hands no node to a worker id.
LEMMA RunsFewer ==
  ASSUME MeshInv, OwnRuns,
         \A n \in Nodes : Kept(n) \/ node'[n].owner = NoOwner,
         \A r \in runs' : Continues(r)
  PROVE  OwnRuns'
<1> SUFFICES ASSUME NEW r \in runs'
             PROVE  /\ pc'[r.process] = "run"
                    /\ node'[r.node].owner = WorkerId[r.process] =>
                         r.stands /\ r.attempts = node'[r.node].attempts
  BY DEF OwnRuns
<1>1. PICK q \in runs :
        /\ Of(r, q)
        /\ r.stands = q.stands \/ node'[r.node].owner # WorkerId[r.process]
  BY DEF Continues
<1>2. q.node \in Nodes /\ WorkerId[q.process] \in Owners
  BY RunTyped
<1>3. pc'[r.process] = "run"
  BY <1>1 DEF Continues, OwnRuns, Of
<1>4. ASSUME node'[r.node].owner = WorkerId[r.process]
      PROVE  r.stands /\ r.attempts = node'[r.node].attempts
  <2>1. Kept(r.node)
    BY <1>1, <1>2, <1>4, NoOwnerAssumption DEF Of
  <2> QED BY <1>1, <1>4, <2>1 DEF Kept, OwnRuns, Of
<1> QED BY <1>3, <1>4

LEMMA ClaimOwn ==
  ASSUME OwnIds, MeshInv, OwnRuns, NEW p \in Processes, Claim(p)
  PROVE  OwnRuns'
<1>1. PICK limit \in 1..MaxParallel, C \in SUBSET Nodes :
        /\ ClaimReady(WorkerId[p], limit, C)
        /\ runs' = runs \cup
             {[process |-> p, node |-> n, attempts |-> node'[n].attempts, stands |-> TRUE,
               at |-> "start"] : n \in C}
        /\ pc' = [pc EXCEPT ![p] = IF C = {} THEN "idle" ELSE "run"]
        /\ pc[p] = "claim"
  BY DEF Claim
<1>2. /\ \A n \in Nodes \ C : node'[n] = node[n]
      /\ \A n \in C : node'[n].owner = WorkerId[p]
  BY <1>1, ClaimRows, WorkerIdAssumption DEF MeshInv
<1>3. ASSUME NEW r \in runs
      PROVE  /\ pc'[r.process] = "run"
             /\ node'[r.node].owner = WorkerId[r.process] =>
                  r.stands /\ r.attempts = node'[r.node].attempts
  <2>1. /\ r.process \in Processes /\ r.node \in Nodes /\ r.process # p
        /\ pc[r.process] = "run"
    BY <1>1, <1>3 DEF OwnRuns, MeshInv, WorkerType, Run
  <2>2. WorkerId[r.process] # WorkerId[p]
    BY <2>1 DEF OwnIds
  <2>3. pc'[r.process] = "run"
    BY <1>1, <2>1 DEF MeshInv, WorkerType
  <2>4. CASE r.node \in C
    BY <1>2, <2>2, <2>3, <2>4
  <2>5. CASE r.node \notin C
    BY <1>2, <1>3, <2>1, <2>3, <2>5 DEF OwnRuns
  <2> QED BY <2>4, <2>5
<1>4. ASSUME NEW n \in C,
             NEW r, r = [process |-> p, node |-> n, attempts |-> node'[n].attempts,
                         stands |-> TRUE, at |-> "start"]
      PROVE  /\ pc'[r.process] = "run"
             /\ r.stands /\ r.attempts = node'[r.node].attempts
  BY <1>1, <1>4 DEF MeshInv, WorkerType
<1> QED BY <1>1, <1>3, <1>4 DEF OwnRuns

LEMMA EndOwn ==
  ASSUME MeshInv, OwnRuns, NEW run \in runs, Advance(run)
  PROVE  OwnRuns'
<1>1. run.node \in Nodes /\ WorkerId[run.process] \in Owners
  BY RunTyped
<1>2. \A n \in Nodes : Kept(n) \/ node'[n].owner = NoOwner
  <2>1. CASE UNCHANGED <<node, deps, locks>>
    BY <2>1 DEF Kept
  <2> QED BY <1>1, <2>1, AdvanceRows, OutcomesTyped, FinishRows DEF MeshInv, Kept
<1> QED BY <1>2, AdvanceThreads, RunsFewer

LEMMA OwnRunsStep ==
  ASSUME OwnIds, MeshInv, OwnRuns, [Next]_vars
  PROVE  OwnRuns'
<1> DEFINE RowsFree == \A n \in Nodes : Kept(n) \/ node'[n].owner = NoOwner
<1>0. node' = node => RowsFree
  BY DEF Kept
<1>a. RowsFree /\ pc' = pc /\ runs' = runs => OwnRuns'
  <2> SUFFICES ASSUME RowsFree, pc' = pc, runs' = runs PROVE OwnRuns'
    OBVIOUS
  <2>1. \A r \in runs' : Continues(r)
    BY DEF Continues, Of
  <2> QED BY <2>1, RunsFewer
<1>b. RowsFree /\ runs' \subseteq runs /\ (\A r \in runs' : pc'[r.process] = pc[r.process]) => OwnRuns'
  <2> SUFFICES ASSUME RowsFree, runs' \subseteq runs, \A r \in runs' : pc'[r.process] = pc[r.process]
               PROVE  OwnRuns'
    OBVIOUS
  <2>1. \A r \in runs' : Continues(r)
    BY DEF Continues, Of
  <2> QED BY <2>1, RunsFewer
<1>1. ASSUME NEW batch \in Batches, Submit(batch) PROVE OwnRuns'
  <2>1. RowsFree
    BY <1>1, SubmitRows DEF Submit, MeshInv
  <2> QED BY <1>1, <1>a, <2>1 DEF Submit
<1>2. ASSUME NEW p \in Processes, StartTick(p) PROVE OwnRuns'
  <2>1. RowsFree
    BY <1>2, RecoverRows DEF StartTick, MeshInv, Kept
  <2>2. /\ runs' = Ended(Expired, runs)
        /\ pc[p] = "idle" /\ pc' = [pc EXCEPT ![p] = "claim"]
        /\ RecoverExpired
    BY <1>2 DEF StartTick
  <2>3. runs \in SUBSET Run
    BY DEF MeshInv, WorkerType
  <2>4. ASSUME NEW r \in runs' PROVE Continues(r)
    <3>1. /\ r \in Run
          /\ r \in runs \/ (r.node \in Expired /\ \E q \in runs : Of(r, q))
      BY <2>2, <2>3, EndedTyped
    <3>2. pc'[r.process] = pc[r.process]
      BY <2>2, <3>1 DEF OwnRuns, Of, MeshInv, WorkerType
    <3>3. r.node \in Expired => node'[r.node].owner = NoOwner
      BY <2>2, <3>1, RecoveredTyped DEF RecoverExpired, Expired, MeshInv, StoreInv, StoreType
    <3>4. WorkerId[r.process] \in Owners
      BY <3>1, WorkerIdAssumption DEF Run
    <3> QED BY <3>1, <3>2, <3>3, <3>4, NoOwnerAssumption DEF Continues, Of
  <2> QED BY <2>1, <2>4, RunsFewer
<1>3. ASSUME NEW p \in Processes, Claim(p) PROVE OwnRuns'
  BY <1>3, ClaimOwn
<1>4. ASSUME NEW p \in Processes, Crash(p) PROVE OwnRuns'
  <2>1. runs' \subseteq runs /\ \A r \in runs' : pc'[r.process] = pc[r.process]
    BY <1>4 DEF Crash, MeshInv, WorkerType, Run
  <2>2. RowsFree
    BY <1>0, <1>4 DEF Crash
  <2> QED BY <1>b, <2>1, <2>2
<1>5. ASSUME NEW p \in Processes, Restart(p) PROVE OwnRuns'
  <2>1. runs' = runs /\ \A r \in runs' : pc'[r.process] = pc[r.process]
    BY <1>5 DEF Restart, OwnRuns, MeshInv, WorkerType, Run
  <2>2. RowsFree
    BY <1>0, <1>5 DEF Restart
  <2> QED BY <1>b, <2>1, <2>2
<1>6. ASSUME NEW run \in runs, Advance(run) PROVE OwnRuns'
  BY <1>6, EndOwn
<1>7. ASSUME NEW n \in Nodes, NEW token \in Tokens, OperatorReactivates(n, token) PROVE OwnRuns'
  <2>1. RowsFree
    BY <1>7, ReactivateRows DEF OperatorReactivates, MeshInv, Kept
  <2> QED BY <1>7, <1>a, <2>1 DEF OperatorReactivates
<1>8. ASSUME NEW n \in Nodes, LeaseExpires(n) \/ LeaseOutlived(n) \/ Elapse(n) PROVE OwnRuns'
  <2>1. RowsFree
    BY <1>8, ClockRows DEF LeaseExpires, LeaseOutlived, Elapse, MeshInv
  <2> QED BY <1>8, <1>a, <2>1 DEF LeaseExpires, LeaseOutlived, Elapse
<1>9. CASE UNCHANGED vars
  BY <1>0, <1>9, <1>a DEF vars
<1> QED BY <1>1, <1>2, <1>3, <1>4, <1>5, <1>6, <1>7, <1>8, <1>9 DEF Next

\* With a worker id for each process, a thread's result is only taken for the claim it was
\* made under: a thread that outlived its lease is refused, or still owns the node.
THEOREM ResultsAreOwn ==
  ASSUME OwnIds
  PROVE  Spec => FinishIsOwn
<1>1. Init => OwnRuns
  BY DEF Init, OwnRuns
<1>2. MeshInv /\ OwnRuns /\ [Next]_vars => OwnRuns'
  BY OwnRunsStep
<1>3. MeshInv /\ OwnRuns /\ [Next]_vars =>
        [\A run \in runs :
           Succeed(run) \/ (\E forced \in BOOLEAN : Fail(run, forced))
             => run.stands]_vars
  <2> SUFFICES ASSUME OwnRuns, NEW run \in runs,
                      Succeed(run) \/ (\E forced \in BOOLEAN : Fail(run, forced))
               PROVE  run.stands
    OBVIOUS
  <2>1. MayFinish(run.node, WorkerId[run.process])
    BY DEF Succeed, Fail, FinishNode
  <2> QED BY <2>1 DEF MayFinish, OwnRuns
<1> QED BY <1>1, <1>2, <1>3, MeshAlways, PTL DEF Spec, FinishIsOwn

\* What is left of a node's results: none once it is quarantined or has succeeded, and
\* one more for each reactivation.
TriesLeft(n) ==
  /\ node[n].attempts <= MaxAttempts + Len(reactivations[n])
  /\ node[n].state \notin {"QUARANTINED", "SUCCEEDED"} =>
       node[n].attempts < MaxAttempts + Len(reactivations[n])
Tries == \A n \in Nodes : TriesLeft(n)

LEMMA EndTries ==
  ASSUME MeshInv, OwnRuns, Tries, NEW run \in runs, Advance(run)
  PROVE  Tries'
<1> DEFINE n == run.node
           owner == WorkerId[run.process]
<1>1. n \in Nodes /\ owner \in Owners
  BY RunTyped
<1>2. /\ node[n].attempts \in Nat /\ MaxAttempts \in Nat
      /\ \A m \in Nodes : Len(reactivations[m]) \in Nat
  BY <1>1, MeshBoundsAssumption DEF MeshInv, WorkerType, StoreInv, StoreType, NodeRow
<1>3. reactivations' = reactivations
  BY AdvanceThreads
<1>4. CASE FinishNode(n, owner, "SUCCEEDED")
  <2>1. /\ node[n].state = "RUNNING" /\ node'[n].state = "SUCCEEDED"
        /\ node'[n].attempts = node[n].attempts + 1
        /\ \A m \in Nodes \ {n} : node'[m] = node[m]
    BY <1>1, <1>4, FinishRows DEF MeshInv
  <2> QED BY <1>1, <1>2, <1>3, <2>1 DEF Tries, TriesLeft
<1>5. ASSUME NEW forced \in BOOLEAN, FinishNode(n, owner, FailureOutcome(run, forced)) PROVE Tries'
  <2>1. /\ node[n].owner = owner
        /\ node[n].state = "RUNNING" /\ node'[n].state = FailureOutcome(run, forced)
        /\ node'[n].attempts = node[n].attempts + 1
        /\ \A m \in Nodes \ {n} : node'[m] = node[m]
    BY <1>1, <1>5, FinishRows, OutcomesTyped DEF MeshInv
  <2>2. node'[n].state = "QUARANTINED" \/ node[n].attempts + 1 < MaxAttempts
    BY <1>2, <2>1 DEF FailureOutcome, OwnRuns
  <2>3. node'[n].attempts = node[n].attempts + 1 /\ node[n].attempts < MaxAttempts + Len(reactivations[n])
    BY <1>1, <2>1 DEF Tries, TriesLeft
  <2>4. TriesLeft(n)'
    BY <1>1, <1>2, <1>3, <2>2, <2>3 DEF TriesLeft
  <2>5. \A m \in Nodes \ {n} : TriesLeft(m)'
    BY <1>3, <2>1 DEF Tries, TriesLeft
  <2> QED BY <2>4, <2>5 DEF Tries
<1>6. CASE UNCHANGED <<node, deps, locks>>
  BY <1>3, <1>6 DEF Tries, TriesLeft
<1> QED BY <1>4, <1>5, <1>6, AdvanceRows

LEMMA TriesStep ==
  ASSUME MeshInv, OwnRuns, Tries, [Next]_vars
  PROVE  Tries'
<1> DEFINE Slower(m) == /\ node'[m].attempts = node[m].attempts
                        /\ node'[m].state \notin {"QUARANTINED", "SUCCEEDED"} =>
                             node[m].state \notin {"QUARANTINED", "SUCCEEDED"}
<1>0. (\A m \in Nodes : Slower(m)) /\ reactivations' = reactivations => Tries'
  BY DEF Tries, TriesLeft
<1>1. ASSUME NEW batch \in Batches, Submit(batch) PROVE Tries'
  BY <1>0, <1>1, SubmitRows DEF Submit, MeshInv, Kept
<1>2. ASSUME NEW p \in Processes, StartTick(p) PROVE Tries'
  BY <1>0, <1>2, RecoverRows DEF StartTick, MeshInv
<1>3. ASSUME NEW p \in Processes, Claim(p) PROVE Tries'
  <2>1. PICK limit \in 1..MaxParallel, C \in SUBSET Nodes : ClaimReady(WorkerId[p], limit, C)
    BY <1>3 DEF Claim
  <2>2. \A m \in Nodes : Slower(m)
    BY <2>1, ClaimRows, WorkerIdAssumption DEF MeshInv
  <2> QED BY <1>0, <1>3, <2>2 DEF Claim
<1>4. ASSUME NEW p \in Processes, Crash(p) \/ Restart(p) PROVE Tries'
  BY <1>0, <1>4 DEF Crash, Restart
<1>5. ASSUME NEW run \in runs, Advance(run) PROVE Tries'
  BY <1>5, EndTries
<1>6. ASSUME NEW n \in Nodes, NEW token \in Tokens, OperatorReactivates(n, token) PROVE Tries'
  <2>1. /\ node[n].attempts \in Nat /\ MaxAttempts \in Nat
        /\ reactivations[n] \in Seq(Tokens)
    BY MeshBoundsAssumption DEF MeshInv, WorkerType, StoreInv, StoreType, NodeRow
  <2>2. /\ Len(reactivations'[n]) = Len(reactivations[n]) + 1
        /\ \A m \in Nodes \ {n} : reactivations'[m] = reactivations[m]
    BY <1>6, <2>1 DEF OperatorReactivates, MeshInv, WorkerType
  <2>3. /\ node'[n].attempts = node[n].attempts
        /\ \A m \in Nodes \ {n} : node'[m] = node[m]
    BY <1>6, ReactivateRows DEF OperatorReactivates, MeshInv
  <2>4. Len(reactivations[n]) \in Nat
    BY <2>1
  <2>5. TriesLeft(n)'
    BY <2>1, <2>2, <2>3, <2>4 DEF Tries, TriesLeft
  <2>6. \A m \in Nodes \ {n} : TriesLeft(m)'
    BY <2>2, <2>3 DEF Tries, TriesLeft
  <2> QED BY <2>5, <2>6 DEF Tries
<1>7. ASSUME NEW n \in Nodes, LeaseExpires(n) \/ LeaseOutlived(n) \/ Elapse(n) PROVE Tries'
  <2>1. \A m \in Nodes : Slower(m)
    BY <1>7, ClockRows DEF LeaseExpires, LeaseOutlived, Elapse, MeshInv, Kept
  <2> QED BY <1>0, <1>7, <2>1 DEF LeaseExpires, LeaseOutlived, Elapse
<1>8. CASE UNCHANGED vars
  BY <1>0, <1>8 DEF vars
<1> QED BY <1>1, <1>2, <1>3, <1>4, <1>5, <1>6, <1>7, <1>8 DEF Next

\* With a worker id for each process, finish_node counts at most MaxAttempts results for a
\* node, and one more for each reactivation, though a thread judges by its own copy of the
\* count.
THEOREM ResultsStayBounded ==
  ASSUME OwnIds
  PROVE  Spec => []ResultsBounded
<1>1. Init => OwnRuns /\ Tries
  <2> SUFFICES ASSUME Init PROVE OwnRuns /\ Tries
    OBVIOUS
  <2>1. \A n \in Nodes : node[n].attempts = 0 /\ Len(reactivations[n]) = 0
    BY DEF Init, StoreInit, NewRow
  <2> QED BY <2>1, MeshBoundsAssumption DEF Init, OwnRuns, Tries, TriesLeft
<1>2. MeshInv /\ OwnRuns /\ Tries /\ [Next]_vars => OwnRuns' /\ Tries'
  BY OwnRunsStep, TriesStep
<1>3. Tries => ResultsBounded
  BY DEF Tries, TriesLeft, ResultsBounded
<1> QED BY <1>1, <1>2, <1>3, MeshAlways, PTL DEF Spec

-----------------------------------------------------------------------------
\* A thread past its start has made its node's worktree.
TreesHeld == \A r \in runs : r.at # "start" => r.node \in trees
TreesInv == TreesHeld /\ TreesExclusive

\* Threads end or go on to e, and no worktree is taken away.
LEMMA TreesKept ==
  ASSUME TreesInv, trees \subseteq trees', NEW threads \in SUBSET runs, NEW e,
         runs' = {e[q] : q \in threads},
         \A q \in threads : e[q].node = q.node /\ (q.at = "start" => e[q].at = "start")
  PROVE  TreesInv'
BY DEF TreesInv, TreesHeld, TreesExclusive

LEMMA TreesFewer ==
  ASSUME TreesInv, trees \subseteq trees', runs' \subseteq runs
  PROVE  TreesInv'
BY DEF TreesInv, TreesHeld, TreesExclusive

LEMMA EndedTrees ==
  ASSUME TreesInv, MeshInv, trees' = trees, NEW N, runs' = Ended(N, runs)
  PROVE  TreesInv'
<1> DEFINE e == [q \in runs |-> IF q.node \in N THEN [q EXCEPT !.stands = FALSE] ELSE q]
<1>1. \A q \in runs : e[q].node = q.node /\ e[q].at = q.at
  BY DEF MeshInv, WorkerType, Run
<1>2. runs' = {e[q] : q \in runs}
  BY DEF Ended
<1>3. trees \subseteq trees' /\ runs \in SUBSET runs
  OBVIOUS
<1> HIDE DEF e
<1>4. \A q \in runs : e[q].node = q.node /\ (q.at = "start" => e[q].at = "start")
  BY <1>1
<1> QED BY <1>2, <1>3, <1>4, TreesKept

LEMMA PastTrees ==
  ASSUME TreesInv, MeshInv, trees' = trees, NEW run \in runs, NEW raised \in BOOLEAN, NEW N,
         Past(run, raised, Ended(N, runs \ {run}))
  PROVE  TreesInv'
<1> DEFINE place == IF raised THEN "raising" ELSE "left"
           ended(q) == IF q.node \in N THEN [q EXCEPT !.stands = FALSE] ELSE q
           moved == [run EXCEPT !.at = place, !.stands = FALSE]
           e == [q \in runs |-> IF q = run THEN moved ELSE ended(q)]
           others == runs \ {run}
<1>1. \A q \in runs : q \in Run
  BY DEF MeshInv, WorkerType
<1>2. \A q \in runs : ended(q).node = q.node /\ ended(q).at = q.at
  BY <1>1 DEF Run
<1>3. moved.node = run.node
  BY <1>1 DEF Run
<1>4. Ended(N, others) = {ended(q) : q \in others}
  BY DEF Ended
<1>5. CASE run.at = "work"
  <2>1. runs' = {ended(q) : q \in others} \cup {moved}
    BY <1>4, <1>5 DEF Past
  <2> HIDE DEF ended, moved
  <2>2. runs' = {e[q] : q \in runs}
    BY <2>1
  <2>3. \A q \in runs : e[q].node = q.node /\ (q.at = "start" => e[q].at = "start")
    BY <1>2, <1>3, <1>5
  <2> HIDE DEF e
  <2> QED BY <2>2, <2>3, TreesKept
<1>6. CASE run.at # "work"
  <2>1. runs' = {ended(q) : q \in others}
    BY <1>4, <1>6 DEF Past, Leave
  <2> HIDE DEF ended
  <2>2. runs' = {e[q] : q \in others}
    BY <2>1
  <2>3. \A q \in others : e[q].node = q.node /\ (q.at = "start" => e[q].at = "start")
    BY <1>2
  <2> HIDE DEF e
  <2> QED BY <2>2, <2>3, TreesKept
<1> QED BY <1>5, <1>6

LEMMA AdvanceTrees ==
  ASSUME TreesInv, MeshInv, NEW run \in runs, Advance(run)
  PROVE  TreesInv'
<1>1. CASE Begin(run)
  <2> DEFINE moved == [run EXCEPT !.at = "work"]
  <2>1. moved.node = run.node
    BY RunTyped DEF Run
  <2>2. /\ run.node \notin trees
        /\ trees' = trees \cup {run.node}
        /\ runs' = (runs \ {run}) \cup {moved}
    BY <1>1 DEF Begin
  <2> HIDE DEF moved
  <2>3. \A r \in runs : r.node = run.node => r.at = "start"
    BY <2>2 DEF TreesInv, TreesHeld
  <2>4. TreesHeld'
    BY <2>1, <2>2 DEF TreesInv, TreesHeld
  <2>5. TreesExclusive'
    BY <2>1, <2>2, <2>3 DEF TreesInv, TreesExclusive
  <2> QED BY <2>4, <2>5 DEF TreesInv
<1>2. CASE Stray(run)
  BY <1>2, TreesFewer DEF Stray, Leave
<1>3. CASE Succeed(run) \/ (\E forced \in BOOLEAN : Fail(run, forced))
  <2>1. Past(run, FALSE, Ended({run.node}, runs \ {run})) /\ trees' = trees
    BY <1>3 DEF Succeed, Fail, Finished
  <2> QED BY <2>1, PastTrees
<1>4. CASE Refused(run)
  <2>1. Past(run, TRUE, runs \ {run}) /\ trees' = trees
    BY <1>4 DEF Refused
  <2>2. Ended({}, runs \ {run}) = runs \ {run}
    BY DEF Ended
  <2> QED BY <2>1, <2>2, PastTrees
<1>5. CASE Remove(run)
  <2>1. /\ runs' = runs \ {run} /\ trees' = trees \ {run.node}
        /\ run.at # "start"
    BY <1>5 DEF Remove, Leave
  <2>2. \A r \in runs' : r.node = run.node => r.at = "start"
    BY <2>1 DEF TreesInv, TreesExclusive
  <2> QED BY <2>1, <2>2 DEF TreesInv, TreesHeld, TreesExclusive
<1> QED BY <1>1, <1>2, <1>3, <1>4, <1>5 DEF Advance

LEMMA TreesStep ==
  ASSUME TreesInv, MeshInv, [Next]_vars
  PROVE  TreesInv'
<1>0. runs' \subseteq runs /\ trees' = trees => TreesInv'
  BY TreesFewer
<1>1. ASSUME NEW p \in Processes, StartTick(p) PROVE TreesInv'
  BY <1>1, EndedTrees DEF StartTick
<1>2. ASSUME NEW p \in Processes, Claim(p) PROVE TreesInv'
  <2>1. trees' = trees /\ \A r \in runs' : r \in runs \/ r.at = "start"
    BY <1>2 DEF Claim
  <2> QED BY <2>1 DEF TreesInv, TreesHeld, TreesExclusive
<1>3. ASSUME NEW run \in runs, Advance(run) PROVE TreesInv'
  BY <1>3, AdvanceTrees
<1>4. CASE \E p \in Processes : Crash(p) \/ Restart(p)
  BY <1>0, <1>4 DEF Crash, Restart
<1>5. CASE \E batch \in Batches : Submit(batch)
  BY <1>0, <1>5 DEF Submit
<1>6. ASSUME NEW n \in Nodes,
             \/ \E token \in Tokens : OperatorReactivates(n, token)
             \/ LeaseExpires(n) \/ LeaseOutlived(n) \/ Elapse(n)
      PROVE  TreesInv'
  BY <1>0, <1>6 DEF OperatorReactivates, LeaseExpires, LeaseOutlived, Elapse
<1>7. CASE UNCHANGED vars
  BY <1>0, <1>7 DEF vars
<1> QED BY <1>1, <1>2, <1>3, <1>4, <1>5, <1>6, <1>7 DEF Next

\* Two threads never work in one worktree, whatever crashes leave behind and however long
\* a thread outlives its lease: create refuses a worktree that exists, and only the thread
\* that made it removes it.
THEOREM TreesStayExclusive == Spec => []TreesExclusive
<1>1. Init => TreesInv
  BY DEF Init, TreesInv, TreesHeld, TreesExclusive
<1>2. TreesInv => TreesExclusive
  BY DEF TreesInv
<1> QED BY <1>1, <1>2, TreesStep, MeshAlways, PTL DEF Spec
=============================================================================

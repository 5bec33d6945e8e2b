# ZTAD-Mesh: a TLA+ verification project

ZTAD-Mesh (`src/toolkit/ztad`, Python) runs model-driven software work through durable
queues: tasks and graph nodes are rows of SQLite files, scheduler and mesh processes claim
them under leases, run models for minutes without holding any transaction, and commit the
result. Beside the queues it keeps a record of every bug case from report to production,
gated by evidence that is bound to one exact subject. This directory models the parts whose
correctness depends on *order*: what the clock, other processes, crashes and operators do
between two transactions, and what the evidence a gate accepts is still worth when the gate
opens.

## 1. Inventory

| Component (file) | State | Operations | What makes it correct |
|---|---|---|---|
| Continuity store (`orchestrator.py`) | `tasks`, `task_events` (hash chain), evidence registry, approvals, model runs | `submit_task`, `recover_expired_leases`, `claim_next`, `heartbeat`, `transition`, `record_failure`, `record_model_run`, `register_evidence`, `record_approval`, `validate_approval` | one committer per claim; each failure charged once; log and rows agree; delayed tasks run again; an approval stays what it was given for |
| Continuous scheduler (`scheduler.py`) | none of its own: a copy of the claimed row | `tick` = recover, claim, run, gate, commit | commits only what it claimed; nothing stranded; nothing released unreviewed |
| Mesh store (`mesh_store.py`) | nodes, dependencies, scope locks, attempts, artifacts, model performance | `submit_graph`, `recover_expired`, `claim_ready`, `finish_node`, `reactivate_quarantined`, `record_attempt`, `register_artifact` | dependencies first; overlapping scopes exclusive; locks follow leases; success final; counted results bounded |
| Mesh runtime (`mesh_runtime.py`, `loop_guard.py`, plans of `mesh_plan.py`) | threads of one tick; the worktrees they make | `run_once`, `serve`, `_execute` with phase synchronisation, worktrees, replans, attempts, containment | every node settles; one thread per worktree; parent task and nodes tell one story; replans end |
| Lifecycle store (`lifecycle_store.py`) | case records, global event chain, seal key | `initialize`, `transition`, `mutate_subject`, `prepare_transition_authorization`, `verify_event_chain`, `export` | what it accepts it can verify; protected moves authorized; no stale write |
| Release subject (`subject.py`) | subject fields and epoch of a case | `apply_subject_update`, `earliest_revalidation_state` | no evidence survives a change of what it was about |
| Bug lifecycle (`bug_lifecycle.py`, `bug_protocol.py`) | none | bindings, `evaluate_bug_transition`, `advance_bug_lifecycle`, commit | gates in order, each proved for the subject at commit; exposure not forgotten |
| Evidence, problem cases (`evidence.py`, `problem.py`) | a directory of evidence items; the problem case | validation, investigation | only affirming, current, registered evidence opens a gate; bad items do not shut it for good |
| Evidence bundles (`evidence_bundle.py`) | none: a bundle is an export | replay of a case's events by rules of its own | what the store admitted replays |
| Approval controller, release readiness (`approval_controller.py`, `release.py`) | signed files in the evidence directory | `issue_supervisor_approval_evidence`, `evaluate_release_readiness` | an open gate rests on an approval that stands |
| Installer (`installer.py`) | managed files, `.ztad.new` candidates, manifest | `plan`, `apply_install`, `uninstall` | user work kept; a repeated call converges |
| Ledger (`ledger.py`) | hash-chained records, checkpoint file | `append_record`, `create_checkpoint`, `verify_ledger` | loss after a checkpoint is noticed |
| Progressive delivery (`progressive_delivery.py`) | none: one rollout per call | `run` | production ends at the new artifact or at the stable one |
| Routing, providers, patches, checks, distribution, hooks, trust, adapters, utilities | files, processes, external services | - | not about order; see section 6 |

Interactions. Scheduler processes, mesh processes and `ztad` CLI calls are separate OS
processes that meet only in the SQLite files. Every store method is one `BEGIN IMMEDIATE`
transaction, so the method is the atomic step; a *tick* is three of them with a model run in
between. The mesh runtime also writes to the continuity store (phases, replanned tasks), in
other transactions on another file. CLI commands are operators: they may call `transition`,
`record_failure`, `mesh-reactivate` at any time, on any row. A bug case meets its evidence in a
directory: producers file items there in their own time, the approval controller signs into it,
and the lifecycle's gates and merge readiness read it.

Hard behaviours, each in `PROJECT.json` "hazards" at the line where it bites: the row a
process commits with was read a model run earlier; leases expire under working threads;
processes die between claim and commit, and leave worktrees behind; threads raise while they own
a node; a failure report arrives twice or late; failure
routing, recovery and promotion move states without consulting the transition table; scope
locks expire independently of the work they protect; replans span two databases; a subject
changes after its review, and comes back; evidence is filed late or for another subject, and is
weighed again later, when it may have expired; an
approval is stored, signed and delivered in three steps; an installer dies between files and
manifest.

## 2. Modules

| Module | Models | Uses |
|---|---|---|
| `ContinuityPolicy` | state sets, `TRANSITIONS`, `decide_failure`, promotion targets, roles, default successes | - |
| `ContinuityStore` | the task table and event log; one operator per transaction | `ContinuityPolicy` |
| `ContinuousScheduler` | processes running `tick`, operators, clock, crashes; the properties | `ContinuityStore` |
| `SchedulerProofs` | theorems about who may commit what | `ContinuousScheduler`, `TLAPS` |
| `HistoryProofs` | theorems about what a task has been through, and its log | `SchedulerProofs` |
| `MCScheduler` | constants for TLC | `ContinuousScheduler` |
| `MeshStore` | nodes, dependencies, scope locks; one operator per transaction | - |
| `MeshWorkers` | processes and their threads, operators, clock, crashes, restarts; the properties | `MeshStore` |
| `MeshProofs` | theorems about the queue of nodes | `MeshWorkers`, `TLAPS` |
| `MCMesh` | constants for TLC | `MeshWorkers` |
| `MeshRuntime` | every transaction of a mesh thread, over both stores at once; plans, replans, attempts, artifacts | instances of `ContinuityStore` and `MeshStore` |
| `RuntimeProofs` | theorems about its threads over both stores | `MeshRuntime`, `TLAPS` |
| `MCRuntime` | the instance for TLC | `MeshRuntime` |
| `ReleaseSubject` | what a bug case is about: subject groups, epochs, revalidation, bindings | - |
| `LifecycleStore` | one case's record, the checks of `transition` and of `verify_event_chain`, the append | `ReleaseSubject` |
| `BugLifecycle` | controllers that evaluate, sign and commit; bindings; other cases; the properties | `LifecycleStore` |
| `CaseContract` | the abstract specification: a case passes gates, is called back, or starts a new epoch | - |
| `EvidenceGates` | in place of the judged gates: the problem case, the evidence directory, its producers, and the judgement | `BugLifecycle` |
| `EvidenceBundle` | the replay of a case's events by the bundle's own rules | `BugLifecycle` |
| `MCLifecycle`, `MCGates`, `MCBundle` | constants for TLC | `BugLifecycle`, `EvidenceGates`, `EvidenceBundle` |
| `LifecycleProofs` | theorems about a case: types, the chain, the refinement of `CaseContract`, the order of its gates | `BugLifecycle`, `TLAPS` |
| `EvidenceProofs` | theorems about what opens gates, and about the replay | `LifecycleProofs`, `EvidenceGates` and `EvidenceBundle` |
| `Approvals` | model runs, evidence registry, approvals, the signing controller and the two gates | - |
| `ApprovalsProofs` | theorems about them | `Approvals`, `TLAPS` |
| `MCApprovals` | the instance for TLC | `Approvals` |
| `Installer` | planning, writing file by file, manifest, uninstalling; users and crashes | - |
| `InstallerProofs` | theorems about it | `Installer`, `TLAPS` |
| `MCInstaller` | constants for TLC | `Installer` |

How state corresponds.

- `task[t]` is the row of `tasks`: `state`, `owner` = `lease_owner`, `version`,
  `worker`/`supervisor`/`total` = the attempt counters. `lease` stands for
  `lease_expires_at` (NULL, in the future, past) and `due` for `next_run_at`; `LeaseRunsOut`
  and `DelayElapses` are the clock passing them. Priorities are constants; equal priorities
  leave `created_at` open.
- `logged[t]` is the state that the task's last state-telling event in `task_events` gives it,
  and `keys` the idempotency keys that callers made up. Keys the store derives from a row's
  version are never reused and are not kept; nor is a key made of a run's own id (`Fresh`).
- `session[w]` is the local variable `task` of `tick` and where the tick stands. A tick's
  three transactions are `StartTick`, `ClaimTask`/`FindNothing`, and one of `Advance`,
  `Raise` (the exception of `transition` leaves `tick`), `GateRefuses`, `RunFails`.
- `node[n]`, `deps`, `locks` are `mesh_nodes`, `mesh_dependencies`, `mesh_scope_locks`. A
  scope is its root, `Overlapping` the result of `_scopes_overlap` on roots. `Claim` takes the
  exact set the loop of `claim_ready` takes: in rank order, passing over what collides with a
  lock or with a node just taken, until the limit.
- `runs` are the threads at work, each with the node row it was handed; `pc[p]` where the
  process's `run_once` stands. A tick ends when all its threads have; it takes the process
  down (`"down"`) when one of them raised. `trees` are the nodes whose managed worktree exists on
  disk: `Begin` makes it and is refused when it is there, `Stray` is any exception before the try
  block (the node stays claimed), `Remove` the finally clause; `Crash` leaves it. `at` says where a
  thread stands with it, and `stands` whether the claim the thread was started for still does.

- `record` is a case's row (`state`, `resume` = `resume_state`, the subject, `epoch`), `version` its
  version, which is also the number of its events; `foreign` counts the events of other cases in the
  same store, so `LogLength` is the global sequence. `chainValid` is the answer of
  `verify_event_chain`: events are append-only and each is judged by its predecessor, so every
  append carries the verdict on. What the code weighs anew at each read is `trust`: accepted
  evidence and authorizations stand until, at any moment, one expires or a root is rotated
  (`Lapse`), and nothing brings them back; `Readable` is the verdict of the moment. `Admits` are the
  checks of `transition`, `Verifies` those of the verification; the code states the two sets
  separately, and so does the model. `rewrites` marks a write that changes a field outside
  `LIFECYCLE_MUTATION_FIELDS`, which `transition` refuses.
- `session[p]` is the call a controller has prepared from the record it read: `AdvanceWrite` is
  `commit_bug_lifecycle_transition`, `BindWrite` the binding commands and `mutate_subject`.
  Preparing, signing (`Sign`) and committing (`Commit`, `Refuse`) are separate steps, as in the
  code. `signedAt` is the log's length when the signature was made: the signed commitment names
  the next sequence number and the predecessor's hash.
- In `MeshRuntime` the same tables appear as `Cont!...` and `Mesh!...`: two instances, two files. A
  thread (`runs`) moves through `step`: `sync`/`hop` are the read and the transition of
  `_sync_continuity_phase`, `lost` its last try, `begin` the worktree, `work` the run,
  `budget`/`control` the move of the parent, `submit`/`graph` the child task and its nodes, then
  `attempt`, `artifact`, `finish`, `contain`, and `left` or `raising` the removal of the worktree.
  `plan[t]` is a task's contract and the digest material that names a child; `tried`/`progress` are
  `mesh_attempts` as `loop_guard` reads them. A plan has one node for the parallel scouts, plans and
  writers of a role, and two reviews.
- `Gates` is how a gate's evaluation comes out: everything proved, some evidence accepted, none,
  or policy or record unreadable. `commit_bug_lifecycle_transition` evaluates twice, for the
  event and for the record, and the two may differ (`gate`, `again`).

- In `EvidenceGates` the judgement is computed: `evidence` is the directory, `making` the item a
  producer works on, `problem` the problem case, `revised` whether it is another than the record was
  opened on: a request that carries it then rewrites the fingerprint and is refused. A record may be
  opened on a problem case at any stage of its investigation (`Investigated`). `GateOpen` combines
  `Judged` (what `_protocol_gate_errors` says of every item of a type, valid or not) with `Has`
  (what `evaluate_required_evidence` asks of one). Evidence types one gate asks for together and one
  validator judges are one type; a payload is sound or not.
- `EvidenceBundle` keeps the replay as a verdict that each event carries on (`replay`).
- `Approvals`: `runs`, `registry`, `approvals` are the tables, a run under the head it started from,
  as `mesh_runtime.py` files it; `issuing` is the approval that the controller has stored and not yet
  delivered, `items` the signed files. A fingerprint is the head, the epoch and whether the reviewed
  diff is named: `Whole` is the candidate's own subject, `Bare` the one merge readiness builds.
- `Installer`: `disk`, `candidates`, `manifest` are the repository; `call` the local variables of
  `apply_install` or `uninstall`, one file being dealt with per step; `own` marks what a user
  wrote while no call was running, `strays` the places a call wrote that died before its manifest.

`failedRuns`, `reactivations`, `passed`, `own`, `strays`, the `stands` of a mesh thread and (in both
systems) `reviewed` are history: they say when a property applies, and decide at most whether the
expiry of a lease counts as a fault.

Abstractions worth knowing: one clock reading per transaction (the code reads it again inside
`_can_lock`); failure classes up to how they are routed; a delay of zero seconds counts as
"later" in the mesh queue; one idempotency key per mesh node; a model run, with everything it
calls, is its outcome; the event hash chain is not kept, only what the log says. In the
lifecycle modules: the subject's fields are kept as the four groups the code tells apart
(`candidate`, `main`, `artifact`, `deployment`); a case's repository and delivery model are
fixed; a merge names the candidate it came from, as a merge with complete provenance does; the
binding of a release identity is an artifact change; a binding's requested state is written as
the state it resumes at, where the command line passes the blocked target, which
`transition` lets pass as well; a call carries the record as it was read. Closing a case is left
out because an allowed request for `CLOSED` raises (`bug_lifecycle.py:1251`).

## 3. Runs

| Run | Instance | Shows |
|---|---|---|
| `scheduler_faults` | 1 task, 2 processes (symmetric), 2 faults, operator | `ClaimPinned`, `OneCommitter`, `AdvanceIsCurrent`, `FailureCountedOnce`, `LogAgrees`, `ReleaseAfterReview` |
| `scheduler_settles` | 2 tasks of different priority, one authoritative, 1 process, 1 fault, fair | `TasksSettle` |
| `mesh` | 4 nodes, 2 processes, 3 faults, fair | `DependenciesFirst`, `ScopesExclusive`, `LocksMatchLeases`, `TreesExclusive`, `SuccessIsFinal`, `FinishIsOwn`, `ResultsBounded`, `NodesSettle` |
| `mesh_replans` | 2 processes at R1, 1 at R2, a task and one child up to R2, 1 model, 2 faults, fair | `PhasesBacked`, `ReplannedHeld`, `ReplanDescends`, `ReplansCompleted`, `NodesSettle` |
| `lifecycle` | 2 controllers, each delivery model, another case, 1 detour | `ProgressKept`, `SignedAtHead`, `KeepsContract`, `ResolvedAloneReplays` |
| `lifecycle_recovers` | 1 controller, package and hosted, another case, 2 detours, fair | `ChainVerifies`, `GatesInOrder`, `ResolvedStays`, `CaseIsVerified` |
| `gates` | 1 controller, package and hybrid, high risk, 2 candidates, 1 detour, fair | `GatesProved`, `ExposureNotForgotten`, `CaseIsProved` |
| `approvals` | 2 sessions, 1 implements, 2 heads (symmetric), 2 moves, 1 fault | `OpenedStands` |
| `installer` | 2 versions of 2 files and a block, 2 changes of mind, 2 edits, 1 crash, fair | `UserWorkKept`, `InstallConverges` |
| `scheduler_terminal` | as `scheduler_faults` | violated: `TerminalAbsorbing` |
| `lifecycle_review` | 1 controller, hybrid, 2 detours | violated: `ReviewedDiff` |
| `lifecycle_rollback` | 1 controller, hybrid, 1 detour | violated: `RollbackRecordable` |

Each system has one type invariant among its runs (`TypeOK`, `ApprovalTypeOK`,
`InstallerTypeOK`). Every property of a passing run is violated by some plausible bug in the
code; `PROJECT.json` "mutants" names one for each.

Bounds of the queues. `MaxFaults` is the only bound on their behaviours: every event that keeps work
from following its default path (a failed run, a refused gate, a runner naming another state, an
answer other than a result, a thread that raises before its try block, a crash, a heartbeat, a lease
that runs out under its worker, an operator call) spends one. Operators of `scheduler_faults` move
to five states, one of each kind a later transaction treats differently (at work, delayed, rollback,
and the two ways into a release); the runs on smaller instances offer nine. Without faults a task
walks from READY to DONE and a node to SUCCEEDED, so versions and attempts are bounded by the
faults. Two faults suffice for every pair that matters to the claim protocol (outlived lease + late
failure, takeover + duplicate report, operator move + crash). The faults of the mesh run are three
because its failure needs a lease outlived, a second claim and a second outcome; its batches are a
chain of three nodes and an independent one whose write scope overlaps. One task is enough for the
claim protocol, since no transaction of the store reads one task to write another except the
priority choice, which `scheduler_settles` covers with two. The two-process runs are symmetric in
the processes; the fair runs use no symmetry.

`mesh_replans` needs the replan and the crash or move that interrupts it: two faults. Two processes
(`Crew`) each run one thread of the guarded plan, so after a lease is outlived a late thread of one
works beside the other's thread on the same node, and on after the other has replanned the task;
the bounded plan, with its scout and a second review, is run by one process. `AskedFor` keeps one
reason of each effect on risk and budget: a repair at the same risk, a replan at the same risk and a
diff that raises it. `Reproducible` says that a model run repeated on the same node answers the same:
without it a crash between the databases can leave a marked parent without a child (section 4). The
continuity scheduler is not in this model, see there too.

Bounds of a case. Detours are bounded (`MaxDetours`): requests out of turn or whose gate stays
shut, bindings other than the first, abandoned calls, items filed amiss, findings contradicted.
Without detours a case walks from report to verification, so versions and epochs are bounded by
them. Two detours let a case be blocked and changed while blocked, which is where resets go
wrong; for two controllers one detour and one event of another case are enough to make every
write or signature in hand stale; for the gates one detour is one bad item, one bad request or
one rebinding, against evidence that was all made before it. Two candidates and one of each other
identity suffice, since the code only compares a subject with the last. `MCTargets` are requests
too early or too late on each lane, the rollback, the resolution without code, and `CLOSED`. The
hybrid lane is the other two, one after the other: `lifecycle_recovers` takes the two, `gates` the
package's and the hybrid's, `lifecycle` all three. Bindings of a production deployment are checked
with two controllers only: with two detours `Releases` is empty. `Hotfix` is false in every run (in
that mode every gate asks for the checks of the domains, the rollback's too); the theorems hold for
both modes.

Bounds of the rest. Two moves of the subject let a candidate leave a head and come back to it, which
is where approvals by head and by epoch differ; the bounds on reviews and reports leave out
repetitions only, and the fault is one of a late run, a review in vain, a report amiss, an approval
of a subject no gate asks about, a crash or a copied file. Two versions of two files, one changed
and one dropped, make an update, a downgrade and a removal; two edits and a crash meet in one file.

Fairness. Processes keep ticking (`serve` loops; a service manager restarts it, as its
docstring requires), a run ends (providers and commands run under timeouts), leases and
delays elapse. Nothing else is fair: no operator, submission or heartbeat is ever required.
Weak fairness suffices because a process's next step stays enabled until it takes it.
Expiry of a lease whose process is still working is a fault and not fair.

A case has no such engine: `FairSpec` assumes that a driver keeps producing the evidence its next
gate asks for and obtains its signatures, and `CaseIsVerified` says that nothing the store
recorded stands in the way of that. It assumes nothing of other controllers. `GateFairSpec`
assumes only that *someone* (driver, investigator, producer, the operator who withdraws what no
longer counts) takes a step when one is left. `Approvals` has no fairness and no liveness: for the
merge gate to open, an operator must issue an approval of a subject without its diff, and the command
line cannot issue the other kind at all (section 4), so nothing in the code justifies either. An
installation call runs on or dies, and is repeated.

Deadlock is checked in the queue runs; a case, an approval and an installation rest when they
are done.

## 4. What is violated, and why

The three violation runs are disagreements between the code and what its documents or comments
say; `PROJECT.json` "findings" quotes both sides. In short: a late failure report or a
recovered leftover lease reopens a finished task; a new diff bound together with an
artifact resumes at `CI_PASS`, past its review; a rollback that a controller asks for is refused,
because protected states demand accepted evidence and the rollback gate requires none.

The other findings were read in the code while it was modelled and have no run of their own. Those
that limit what the passing runs say:

- `LogAgrees` needs run ids (`RunIdsReported`), since the scheduler's success key has no version.
- `TasksSettle` counts a parked delayed task as settled: `transition` to a delayed state leaves no
  date, and without one it is never promoted.
- `ScopesExclusive` is about locks. A thread that outlives its lease works on without one.
- `DependenciesFirst` needs submissions that agree on the dependencies of shared nodes, and
  `FinishIsOwn` and `ResultsBounded` need distinct worker ids; the code enforces neither.
- `ResultsBounded` is about results. A run that ends in a crash, an outlived lease or an exception
  outside the try block is not counted, and is made again without limit.
- Both `NodesSettle` and `ReplansCompleted` except a node whose worktree stays behind (`Stranded`).
  `worktrees.create` refuses a directory that exists and is called outside the try block, so every
  further run of the node raises and takes its process down, until someone removes the directory.
- `ReplannedHeld` is about the mesh's own threads. A continuity scheduler on the same database
  claims tasks in `AUTO_REPAIR` and `AUTO_REPLAN` and may take them back into a phase.
- `ReplansCompleted` needs reproducible answers.
- No property says that who implements does not approve: runs are filed under the head before the
  work, so the separation check never meets the implementer of the head under review.
- `OpenedStands` says of merge readiness only that what opens it stands; it opens for approvals of a
  subject without its diff alone.
- `ChainVerifies`, `CaseIsVerified` and `CaseIsProved` hold while the evidence accepted so far
  stands. Once an item that was accepted expires or its root is rotated, no case of the store can be
  read.
- `CaseIsProved` lets the operator withdraw items, because one stale item shuts a gate; it leaves
  out the problem cases that end in quarantine or without code, and the records that their problem
  case outran (`Outrun`): an advance that carries a problem case other than the record was opened
  on is refused for ever.
- `ResolvedAloneReplays` is about a case alone in its store with no refused gate: an event of
  another case breaks the replay's count, and a refused gate its evidence. No case can be closed
  (`bug_lifecycle.py:1251` raises), so no other bundle ever validates.
- `UserWorkKept` is about what is written between calls; an edit in the middle of one may be
  recorded as the installer's own.
- `InstallConverges` excepts the files of a call that died before its manifest (`strays`): the repeat
  finds nothing to write and keeps the old manifest, so a later version takes them for a user's and
  uninstalling leaves them. Candidates are never removed.

## 5. Proofs

Eight modules, every theorem for all values of the constants that satisfy the assumptions the
modules name (`None` is no process, task, patch or contract; priorities and ranks are integers;
bounds are natural numbers; overlap of scopes is reflexive and symmetric). Every safety property
that a passing run checks is a theorem.

| Theorem | States |
|---|---|
| `SchedulerProofs`: `TypeCorrect`, `CopiesPinned`, `SingleCommitter`, `CommitsCurrent` | `TypeOK`, `ClaimPinned`, `OneCommitter`, `AdvanceIsCurrent` |
| `HistoryProofs`: `ReleasesReviewed`, `LogTellsState` (if runs carry ids) | `ReleaseAfterReview`, `LogAgrees` |
| `HistoryProofs`: `FailuresCountedOnce` | `FailureCountedOnce` |
| `MeshProofs`: `MeshTyped`, `ScopesStayExclusive`, `LocksAreLeases`, `SuccessStays` | `TypeOK`, `ScopesExclusive`, `LocksMatchLeases`, `SuccessIsFinal` |
| `MeshProofs`: `DependenciesHold` (if `BatchesAgree`) | `DependenciesFirst` |
| `MeshProofs`: `ResultsAreOwn`, `ResultsStayBounded` (if `OwnIds`) | `FinishIsOwn`, `ResultsBounded` |
| `MeshProofs`: `TreesStayExclusive` | `TreesExclusive` |
| `RuntimeProofs`: `ReplansAlwaysDescend` | `ReplanDescends` |
| `RuntimeProofs`: `PhasesAlwaysBacked`, `ReplannedAlwaysHeld` (if no operator names a phase) | `PhasesBacked`, `ReplannedHeld` |
| `LifecycleProofs`: `CaseTyped`, `ChainAlwaysVerifies` | `TypeOK`, `ChainVerifies` |
| `LifecycleProofs`: `CaseKeepsContract` | `KeepsContract`: `BugLifecycle` implements `CaseContract` |
| `LifecycleProofs`: `ProgressAlwaysKept`, `ResolvedAlwaysStays`, `AlwaysSignedAtHead` | `ProgressKept`, `ResolvedStays`, `SignedAtHead` |
| `LifecycleProofs`: `GatesAlwaysInOrder`, `NoCaseCloses` | `GatesInOrder`; no case is ever `CLOSED` |
| `EvidenceProofs`: `GatesAlwaysProved`, `ExposureNeverForgotten` | `GatesProved`, `ExposureNotForgotten` |
| `EvidenceProofs`: `GatedCaseKeepsContract` | `KeepsContract`: `EvidenceGates` implements `CaseContract` |
| `EvidenceProofs`: `ResolvedAloneAlwaysReplays` | `ResolvedAloneReplays` |
| `ApprovalsProofs`: `ApprovalsTyped`, `OpenedGatesStand` | `ApprovalTypeOK`, `OpenedStands` |
| `InstallerProofs`: `InstallerTyped`, `UserWorkIsKept` | `InstallerTypeOK`, `UserWorkKept` |

The inductive invariants, and why the properties alone are not enough:

- **Scheduler.** `ClaimPinned` says nothing of copies that are out of date, and a row
  written again could reach an old copy's version. `IInv` adds, for each
  process with a copy (`CopyOK`): the claimed task exists, the copy's version is at most the
  row's, its state is one a claim can give, and if the versions are equal owner and state are
  the copy's. The step that carries it is `RowStep`: each transaction either leaves a row as it
  is or raises its version, and never makes it absent again. There is one lemma per transaction.
  `SingleCommitter` follows because two current copies of one task would both own its lease.
- **History.** `ReleaseAfterReview` is strengthened to: every task in a review *or* release state
  has been in review. It is inductive because the transition table enters a release state only
  from a review or release state, and recovery, promotion and failure routing, which never consult
  the table, name no release state. For the log, each transaction's lemma (`...Told`) says that the
  rows it writes are logged with the state they are left in; the run id is what keeps the key of
  a success from being one the log has already seen.
- **Charges.** `FailureCountedOnce` compares a row's counters with runs and with keys in the log,
  so it needs that a failed run ends under a key the log does not have. `ChargeInv` adds: no key of
  a failed run carries a version ahead of its task's row (`KeysBehind`), and a run in progress has
  no key yet and shares task and version with no other run (`RunUncharged`). A claim gives a run a
  version that no key and no copy has, because it raises the row's; `CopyOK` of the scheduler's
  invariant keeps old copies behind it. Run ids are not needed here, as they are for the log.
- **Mesh.** `ScopesExclusive` needs to know whose the locks are. `StoreInv` adds that every lock
  that has not run out belongs to the node's claim (`LocksOwned`) and that a node at work under a
  live lease holds a lock on each of its scopes (`LocksHeld`); the claim's lemma is the long one,
  because it takes a *set* of nodes in rank order. `DependenciesFirst` is inductive together with
  `DependenciesKnown` (what was submitted is recorded), which is where `BatchesAgree` is used.
  `OwnRuns` says that while a thread's worker id owns its node the thread's claim stands, with the
  count it has seen, which is false if two processes share an id; `ResultsBounded` rests on it,
  since a thread that ended another's claim would judge the last attempt by its own count, and on
  `TriesLeft`: a node that is not done has a result left. `TreesExclusive` adds that a thread past
  its start has made its node's worktree (`TreesHeld`), so a second one is refused.
- **Chain.** `AdmittedVerifies`: the checks of `transition` imply those of `verify_event_chain`,
  but only for writes as controllers prepare them, because `transition`
  alone would take a signed call for an unprotected state, which verification refuses. So the
  inductive invariant adds `WriteOK` for every write in hand. It says nothing of the
  record, which is why it survives whatever others commit meanwhile. That the rules agree is proved
  to last; the evidence they weigh is not, which is why the property speaks of `trust`.
- **Contract.** What `transition` checks does not give the contract: it accepts a case that is
  blocked anywhere before where it stands. It rests on the version: `CInv` says that a write in
  hand which still has the case's version was prepared for the record as it is (`Current`). Then a
  step of the case is a gate passed, a call back, or a new epoch, and `ProgressKept` and
  `ResolvedStays` follow along the order of the gates (`OrderOfGates`, `OnwardGates`).
- **Order of gates.** `GatesInOrder` is not inductive: the gate a case stands at becomes one behind
  it with the next step. `GInv` says of all gates of the lane up to where the case stands that
  they were passed; a binding takes back to a place on the lane, behind which all are
  (`BeforePlace`). `TInv` types the writes in hand with the record. `NoCaseCloses` needs no more than
  `WriteOK`: no write in hand closes a case, since preparing one raises.
- **Evidence.** A gate is judged when a request is prepared and opens when it is committed. `KInv`
  says of a write in hand, while the record it was prepared for stands, that the directory still
  has a good item of every type its state requires (`Rests`, `Backed`): what executors, a
  misfiling or a withdrawal do to the directory takes none away that a gate could have accepted,
  and a rebinding ends the record the write was made for. `BInv` relates the verdicts a bundle's
  replay carries on to the gates passed, for a case alone in its store; that what the store admits
  the replay accepts is again two sets of rules compared (`AskedIsSigned`).
- **Threads of the mesh runtime.** `RInv` ties the two databases together: a node of a task waits
  for what backs the phase its role brings the task to (`Backing`), so a run that exists has that
  backing for good, success being final; a transition in hand is made for a row
  that has been written since or is still behind the node (`HopOK`); and a replan in hand is
  smaller than the contract of its task, which never changes (`AnswerOK`, `Descends`). `HInv` adds
  that a task about to be replanned has left the phases already. `PhasesBacked` and `ReplannedHeld`
  assume that no operator moves a task into a phase by hand, as `continuity-transition` lets them;
  nothing else is assumed of operators, processes or faults.
- **Approvals.** `AInv`: every signed item was stored as an approval of the head and epoch it names
  first (`Backed`), and what an approval refers to never changes (`Referenced`), so a gate that opens
  rests on one that stands.
- **Installer.** What a user wrote between calls differs from what is on record and from anything
  ever shipped (`OwnApart`), so it is planned for a candidate; and what a call would record for it
  is what is on record already, so it still differs when the call ends or dies.

Before it was proved, each inductive invariant was checked by TLC, the quantifiers over data
bounded, on the instances of section 3 or, for `ChargeInv`, on that of `scheduler_faults` with one
fault, with and without run ids.

Only model-checked: what must eventually happen (`TasksSettle`, `NodesSettle`, `ReplansCompleted`,
`CaseIsVerified`, `CaseIsProved`, `InstallConverges`), since liveness under
fairness is outside the prover; and that the violated properties are violated.

## 6. Not modelled

- **Closing a case.** An allowed request for `CLOSED` raises (`bug_lifecycle.py:1251`), so
  there is no behaviour to model; cases are taken as far as their verification.
- **Ledger, progressive delivery, policy state machine.** Inserts of one transaction each; one
  sequential call over an adapter; a pure function of the records of one call. A model would
  restate them; what was found by reading them is among the findings.
- **Hash chains, seals and signatures.** An event is judged by its predecessor and a signature is
  accepted or not; digests are equalities of what they are made of.
- **Changes of a case's repository or delivery model, release manifests, model performance
  statistics, idempotent replay of lifecycle calls.** State that only the
  component itself reads, and that no modelled property depends on.
- **Model routing and scoring, providers, planning heuristics, patches, checks, distribution
  builders, hooks, repository indexing, trust roots, platform adapters, most of the command
  line.** Classification or validation of one input, or I/O, with no state of their own whose
  order of steps matters here. A model run, with everything it calls, is its outcome.

`PROJECT.json` "components" gives the reason for each. What would be next: the
mesh runtime's nodes as an implementation of an abstract queue; a closing of cases, once it
returns.

# Verification of the deployment coordination

This directory holds TLA+ specifications of the part of the application that decides what is
deployed, when, and on whose word: the Temporal workflows under `src/app/temporal/` that lock
directories, plan, apply, merge and promote; the services that signal them; and the change requests
people submit, review and release. The specifications are translated from the code. TLC checks them
on small instances; TLAPS proves the most important results for every value of the constants.

Contents: [the system](#1-the-system), [modules](#2-modules-and-their-correspondence-to-the-code),
[runs](#3-runs), [bounds](#4-bounds), [fairness](#5-fairness), [proofs](#6-proofs),
[findings](#7-where-the-code-and-its-documentation-disagree), [what is not
modelled](#8-what-is-not-modelled), [plan](#9-plan).

Check a run with `tlc -config LocksFaults.cfg MCDeployLocks.tla`, a proof module with
`tlapm DeployLocksProofs.tla`.

## 1. The system

A change to a service is a row of `transaction_queue`: a draft, submitted, approved, then deployed.
Deployments of a tenant change Terraform directories through pull requests. Two deployments that
touch a common directory must not run together, so every deployment first asks the tenant's
coordinator. Stage deployments merge their own pull request; production deployments merge to the
stage branch and share one promotion pull request to main, which a gate merges when everything in
it is applied.

| Part | State | Operations | Talks to |
|---|---|---|---|
| `TenantCoordinatorWorkflow` (`temporal/workflows/coordinator_workflow.py`) | `_locks`: directory → holder; `_hold_queue`: requests that wait; `_merge_queue`: pull requests whose automerge hit a conflict | signals `acquire_locks`, `release_hold`, `release_locks`, `abort_queued_for_dirs`, `enqueue_merge`, `pr_merge_completed`, `reset_state`; the task `_merge_queue_loop`; `run`, which continues as new | signals `locks_granted` and `atlas_lock_abort` to deployments |
| `DeploymentWorkflow` | flags set by signals and polls (grant, termination, plan, apply, merge, approval), current step | acquire, wait at most 24 h, create pull request, plan, verify, approve, apply, merge, release | coordinator, activities |
| `DeploymentOrchestratorWorkflow` | the locks of a batch, the child that resumes | acquires for its children, runs them one after the other, then variables; `finally` releases; park and resume | coordinator, child workflows |
| `ProductionDeploymentWorkflow` | lock set, park state, promotion pull request, rows of `production_deployment_track` | merge to stage, plan and apply on the promotion pull request, park, resume, gate, adoption | coordinator or parent, activities |
| `VariableDeployWorkflow` | none | pushes secrets and configuration | activities |
| Temporal activities | database rows | pull requests, polls, alerts, conflict resolution, the gate | GitHub, Slack, database |
| GitHub App webhook | none | turns GitHub and Atlantis events into signals | coordinators, deployments |
| Dashboard and admin routes | none | terminate and clean up, release-lock, terminate-all, reset, retry | server, coordinators |
| Application boot (`main.py`), worker | none | starts `coordinator-{tenant}` unless it runs | server |
| `ApprovalService`, `TransactionQueueService` and their repositories | rows of `transaction_queue`: author, status, snapshot, seal, deploy mark | save, submit, approve, reject, send back, withdraw, revoke, discard, gate; validation and status writes of a deployment | database, OpenFGA, devlift-secret, workflows |
| Pipeline management, script PR, service configuration, Slack, chat agent, integrations, domain rules | database rows | request-scoped services | database, external services |

**Interaction.** A deployment signals `acquire_locks`. If every directory is free (or held by the
requester's parent) the coordinator claims the free ones and signals `locks_granted`; otherwise
the request waits in `_hold_queue` and nothing is claimed. `release_locks` frees what the releaser
holds and scans the queue from the front, granting whatever has become free. A waiter that gives
up sends `release_hold` and `release_locks`. An Atlantis lock conflict that outlasts its limit
sends `abort_queued_for_dirs`: every queued request that overlaps is told to abort, the
requester's locks are released and the rest of the queue is scanned.

When Atlantis cannot merge a pull request, the webhook signals the deployment, which signals
`enqueue_merge`. The loop takes the front entry, runs `resolve_conflict_and_merge`, and waits up to
30 minutes for `pr_merge_completed`, which the webhook and the deployment's own poll both send.

A production deployment holds the promotion key, its own directories and its shared (gateway)
directories. While it waits for people on the promotion pull request it may park: key and shared
directories go back, its own stay held, and before it goes on it queues for the rest again. Under a
batch the parent holds the locks; children signal the parent, which signals the coordinator and
forwards the grant. Every deployment writes its directories as rows before it merges to stage; the
gate compares the files that would reach main with the rows and merges only if all are applied.

A change request is moved by verbs, each one database transaction: the named row is locked, OpenFGA
is asked, the rest of the author's change is locked, everything is written and committed. Saves take
no lock. The deploy gate marks the rows, the multiple-deploy route validates them, and activities
move them on.

**What is hard.** A workflow's handlers share one event loop, and a handler is atomic only up to
its next `await`. Three coordinator handlers await a signal in the middle of a `for` loop over
`self._hold_queue`; whatever other handlers do to that list meanwhile is seen (append, remove) or
not seen (rebinding `self._hold_queue`) by the suspended loop. A signal to a closed workflow raises
an exception; not caught, it fails the coordinator's run and the next boot starts it with empty
tables. Time-outs race with grants. Continue-as-new must not lose a request, a lock or an item in
flight. Atlantis answers commands with comments that do not say whose command they answer, other
deployments and people comment on the same pull request, and events reach a workflow through a
webhook that may find nobody, through polls, or twice. A stage of a deployment that goes back to the
plan keeps some of what it knew. The webhook finds a deployment by the number of its pull request
alone, and every repository counts from one. Row locks protect a row from its first lock on, not from what was
read before.

**What makes it correct**, by component:

- lock manager: grants are whole and backed by the table; a directory has one holder; waiters hold
  nothing; releases wake those they unblock; withdrawn requests leave nothing behind; requests are
  not forgotten; handlers come to an end;
- merge queue: the loop works on the front entry; no entry is dropped or resolved twice; a wait is
  ended only by a pull request with the number of the entry's; every entry gets its turn; history
  resets happen;
- deployment: it works only while it holds its directories and gives them back on every end; what it
  merges was applied, what it applies was verified and approved, what it reports is so;
- orchestrator and production workflow: one actor at a time on the promotion pull request; a parked
  deployment keeps its own directories and nothing else; nothing stays behind when a batch ends;
- merge gate: what it merges was applied, of everybody whose content rides along; rows tell the
  truth about the infrastructure;
- change requests: a verdict falls on what is in review and takes it whole; what is deployed is what
  was approved and not taken back.

The complete list of components, with their status, and of hazards, with the line where each
bites, is in `PROJECT.json`.

## 2. Modules and their correspondence to the code

| Module | Models | Uses |
|---|---|---|
| `Coordinator` | the lock-manager handlers of `coordinator_workflow.py`, one action per segment between awaits; no specification of its own | |
| `LockTable` | what the lock table promises: whole grants, one holder, only the holder's release frees | |
| `OpenCoordinator` | the coordinator with an arbitrary environment, and the refinement of `LockTable` | `Coordinator`, `LockTable` |
| `DeployLocks` | standalone deployments, dashboard clean-up and application boots composed with the coordinator | `Coordinator` |
| `MergeQueue` | merge queue, loop, continue-as-new gate, with GitHub, webhook and polls | |
| `PromotionLocks` | what production deployments get from the locks: one inside, own directories kept by who steps aside | |
| `ProductionLocks` | the locks of batches, their children, standalone production deployments and stage deployments, composed with the coordinator; the refinement of `PromotionLocks` | `Coordinator`, `PromotionLocks` |
| `MergeGate` | production deployments of one repository between grant and end: rows, stage, promotion pull request, Atlantis, people, the gate | |
| `DeploymentStages` | one stage deployment between grant and end, with GitHub, Atlantis, webhook and people | |
| `ChangeRequests` | the change requests of one service, the requests that move them, and their deployments | |
| `MC*` | constants of the TLC instances | |
| `CoordinatorProofs` | lemmas about the handlers, shared by the next three | `Coordinator` |
| `OpenCoordinatorProofs`, `DeployLocksProofs`, `ProductionLocksProofs` | theorems about who holds what | `CoordinatorProofs` |
| `MergeQueueProofs`, `MergeGateProofs`, `ChangeRequestsProofs`, `DeploymentStagesProofs` | theorems | the module they are about |

The modules stack: `Coordinator` has the handlers, `DeployLocks` and `ProductionLocks` add who calls
them. `MergeGate` and `DeploymentStages` start where a grant ends. What `MergeGate` takes from the locks
is written down in `PromotionLocks`, which both `ProductionLocks` and `MergeGate` implement, the one
because it provides this much, the other because it asks for no more (section 6). `ChangeRequests`
ends where a deployment's locks begin.

### Coordinator

`locks` and `hold_queue` are `self._locks` and `self._hold_queue`; a directory nobody holds is
mapped to `None`. `tasks` holds the suspended handlers: a frame has the workflow being signalled, how
far that signal is, and the locals the handler needs when it goes on.

*Lists.* An entry carries its arrival number `no`; a list is the set of its entries, in the order of
the numbers. The code only appends, filters and removes, so order by number is list order. `at` is
the iterator's index: the number of positions visited. A frame that is `live` iterates the object
`self._hold_queue` names now; `Detach` freezes it (`snap`) when a handler rebinds the attribute.
`RemoveEach` is `list.remove`, which compares dicts by value: `SameHold`.

*Segments.* `AcquireLocks`, `ReleaseLocks`, `AbortQueuedForDirs` are the handlers up to their first
await. `Deliver` is the server's answer to an external signal. `ResumeAcquire`, `ResumeScan`,
`ResumeAbort` go on after it. `ResumeAbort` also goes on when the signal failed (`except
Exception`); the other two do not catch, and `FailRun` ends the run. In Temporal's Python SDK a
failed external signal is a `FailureError`, which fails the run when it escapes a handler; a
`ValueError` fails the workflow task, which is retried with the same result: `status = "stuck"`. A
stuck coordinator still accepts signals (`Ignored` in `DeployLocks`).

*Restarts.* `Restart` is `main.py`'s start of a coordinator that is not running: without carried
state. Continue-as-new carries the three containers and is taken only when no handler is suspended,
so for the lock manager it is a stutter; its gate is modelled in `MergeQueue`, and `boots` counts
starts by the application only.

### OpenCoordinator and LockTable

Any request of `Requests`, any release or abort, at any time, and any outcome of each delivery.
`asked` is a history variable: the requests made. The refinement maps `owner` to `locks`.

### DeployLocks

`dep[c]` is where a deployment is in its life: `Start` (acquire), `Proceed` (the wait ends with a
grant), `Finish` (every regular end between grant and return: some thirty places in
`deployment_workflow.py` send the same `release_locks`), `LockWaitTimeout` and `Withdraw` (24-hour
cap: two signals, two steps), `AbortedLockConflict`, `AtlantisLockTimeout`, `Die` (an activity's
error escapes `run`, which has no `finally`), `Terminate`, `CleanUpHold`, `CleanUpLocks`
(`temporal_dashboard_service.terminate`, and the release-lock route), `Reset` (terminate-all, then
reset), `CoordinatorGone` (a signal to a coordinator that has failed). A sender awaits each signal
until the server has recorded it, so its signals keep their order; a step that sends one is joined
with the handler's first segment. `Faults` selects which of the steps that go wrong can happen.

A waiting deployment is one that sent `acquire_locks` and has neither proceeded nor given up; it
enters `Proceed` only if `_force_terminate` is not set, the order of the tests in the code.

### MergeQueue

`released` are the entries whose `_released` key is true; `item` is the loop's local variable, the
same dict as the front entry until a reset. `loop = "dead"` is a task that ended with an exception
nobody awaits. Handlers of one activation run before the loop's `wait_condition` is evaluated, so
`Take` is a step of its own after an enqueue; after `pop(0)` the loop goes round without giving up
control, so `Pop` includes the next `LoopHead`. `suspended` stands for all lock handlers in
`all_handlers_finished`. `HistoryGrows` is any of the three triggers of the reset. `_terminate` is
never set in the code and the 365-day time-out of the loop is longer than a run, so neither is
modelled.

`PR` are the pull requests of every repository the webhook serves: it tells every tenant's
coordinator of every close, by number, and `PrMergeCompleted` compares numbers. `Number` says which
pull requests share one.

`reset_state` throws the queue away under the loop; the history variable `wiped` records that it
found entries, and properties that are about what was in the queue then say `~wiped`.

### ProductionLocks

`pc` is where a workflow is; `granted`, `aborted`, `pending` and `parks` are its fields. A child's
signal to its parent and the parent's signal to the coordinator are recorded by the server in order
and nothing else can come between them that the coordinator would see, so the two hops are one step;
the grant of a resume is two: `LocksGranted` lets the parent take it, `Forward` lets the child have
it (`acks`). `StageUpdateFails`, adoption, a death, an abort and a resume that times out are mishaps;
`mishaps` records which have happened, and a property that cannot hold after one says so. `Children`
run in order; a child asks with its parent as `parent_holder_id` and passes through what the parent
holds. Prep and the variables stage change no lock; the directories prep predicts are the ones used
(the code replaces them by the real ones after the grant, see section 7).

### PromotionLocks

A production deployment is outside, inside, aside or over. `ProductionLocks` maps `working` to inside,
`parked` and `resuming` to aside; what a child keeps when it is aside is what its batch does not give
back (`Keeps`, `Yields`). `MergeGate` maps every step between the grant and the end to inside.

### MergeGate

The content of a directory is its version; stage and main are vectors of versions, Atlantis's plan
file of a project is the vector it planned. `since` is what a deployment could know since its
baseline or last command: that people pushed, that a hint came, that Atlantis answered. Locks are
abstract: `Holds` derives them from `pc`, and a deployment starts or resumes when `Grantable`.
Several projects may be planned and applied by anyone at any time, because deployments and people
comment on one pull request. The gate reads head, then files and rows, and merges in a later
activity: `Gate`, `Evaluate`, `Merge` are three steps. `mishaps` records that a result older than
one's own command was taken for its answer, and that a deployment was adopted.

### DeploymentStages

`step` is where `run` is, `flags` are the fields signals and polls set, `attempt` is whichever of the
three counters is live. Of Atlantis's comments only the newest result of a plan and of an apply
matter, and whether a plan result is newer than `plan_not_before`. A signal about our pull request is
delivered at once or not at all (the webhook found nobody); polls make up for it. Signals about
others arrive too: `Namesake` is an event of another repository's pull request with our number, which
sets a field of ours and nothing else. A merge, a close and a review are broadcast to every workflow
with the number (`github_app_webhook.py`, 308–313, 498, 536–539); a plan or apply result falls back
to the number (323–330); a push and a conflict go to the first match. `mishaps` notes which field was
set by whom, because the workflow cannot tell. Our commands are answered in order and
are not repeated while the last one is unanswered; results that arrive outside the waits that read
them are reset before they could be read. A comment that Atlantis is busy is no answer. Automatic
approval is enabled. Secondary pull requests appear only in the branch that has nothing else
(`SecondaryOnly`); an activity error that escapes `run` is `Die` of `DeployLocks`. Conflicts are
resolved by the coordinator, which `MergeQueue` models.

### ChangeRequests

A row has author, kind (settings, gateway, variables), status, content, seal, deletion and the gate's
mark; one status, `starting`, stands for all statuses of a deployment in flight. A client is a
request being served. A verb is two steps, `Open` (lock the named row, check it) and `Decide` (lock the
rest of the change set, write, commit), with OpenFGA in between, where `Refuse` may end it. Saves
read in `BeginSave` and write in `WriteSave` after waiting for whoever holds the row, and write what
they decided on when they read. Requests that wait for each other are `Deadlocked` and the database
ends one. `discard` calls devlift-secret while it holds its rows: `SecretDiscards` and, for an error,
a lost answer or the 15 seconds, `SecretFails`.

A multiple-deploy run that names its rows is validated when it is accepted (`Accept`): approved, not
locked, the seal as the content. `Prepare` reads the rows again and skips those that are not approved
any more; the gateway row, which is asked for by kind, is looked at only there. A run that names no
rows is not validated at all (`deployments.py`, 300): `PrepareUnnamed` takes the gateway row, or all
of the caller's approved rows of any kind, by their status (`get_pending_items_for_user`). Then the
run asks GitHub for files and writes the status without looking at it again (`MarkStarting`); each
child writes it once more when it has its locks (`CreatePull`), and its rows are deployed (`Finish`).
A failure is two steps, as a save is: `ReadFailed` selects the rows without a lock and sees which are
in flight, `WriteFailed` writes `approved` and clears the marks it has seen when it commits
(`deploy_activities.py`, 472 and 523). A run that never gets its locks leaves its rows `starting`
(`Abandon`). `gated` are the settings rows of a run that bore the gate's mark when it was accepted: the
route does not ask for the mark, so `RevokeStands` is about these rows only. `agreed` is a history
variable: the content a standing approval is about.

Assumed: prep follows within the 15 minutes a mark is believed (`InUse`); in-flight rows do not get
72 hours old; the reads of one save are one step.

## 3. Runs

Runs that pass:

| cfg | What it checks |
|---|---|
| `OpenCoordinator` | `TypeOK`, `Refinement`: with a parent, its child and a third workflow, two overlapping handlers, failing signals and a restart, the lock table is a `LockTable`. |
| `LocksFaults` | `TypeOK`, `GrantsBacked`, `MutualExclusion`, `NoHoldAndWait`, `NoCorpse`, `Remembered`, `HandlersDrain`: every fault at once, two handlers overlapping. `NoCorpse` and `Remembered` are about behaviours without an Atlantis conflict: see section 7. |
| `LocksSerial` | `NoLostWakeup`, `Served`: six deployments, handlers one at a time. With two that overlap, `NoLostWakeup` fails: see section 7. |
| `MergeQueue` | `TypeOK`, `BusyMeansFront`, `NothingDropped`, `OnlyItsNumber`, `ResolvedOnce`, `EveryMergeStarts`, `HistoryResets`: three pull requests, two of one repository and one of another with the number of the first, with administrators' resets. |
| `ProductionLocks` | `TypeOK`, `OneActor`, `WorkBacked`, `PromotionProvided`, `NothingLeaks`, `EveryoneEnds`: a batch, a standalone production deployment and a stage deployment that overlap, with parks, resumes, adoptions and mishaps. |
| `MergeGate` | `TypeOK`, `MergesApplied`, `AppliedRowsTrue`, `RowBeforeContent`, `LeftOpenRides`: two deployments of the same directories, at once and one after the other, two promotion pull requests, people and Atlantis. |
| `DeploymentStages` | `TypeOK`, `MergesApplied`, `AppliesVerified`, `AppliesApproved`, `EndsTruthfully`, `Ends`: one deployment next to Atlantis, people, a lossy webhook and a namesake. 4.6 million states. |
| `ChangeRequests` | `TypeOK`, `RevokeStands`, `VerdictsOnReview`, `VerdictWhole`, `AcceptsApproved`: two requests at a time and one deployment, with stale saves, stale failures and runs that name no rows. 3.5 million states. |

`MutualExclusion` and `GrantsBacked` say `boots = 1`: section 7 shows what happens after a run has
failed. The other exceptions are history variables (`wiped`, `mishaps`, `NoneConflicted`) or named
in the property; each stands for a weakness described in section 7.

Runs that find a disagreement, one property each, are listed in section 7.

## 4. Bounds

| Bound | Value | Why it is enough |
|---|---|---|
| `Task` (suspended handlers) | 1 or 2 | all hazards in the list come from two handlers; with none free a signal waits in the server, which is what the bound means |
| `Wf`, `Dir`, `Needs` | 3–6 deployments on 2–4 directories | `b` needs both directories of `a` and `c`, so a release can unblock nobody, one or two waiters; `Pairs` has two disjoint double releases, what a shifted index needs |
| `MaxArrivals` (OpenCoordinator) | 2 | one waiter behind the entry being granted; deployments in `DeployLocks` ask once, so no bound there |
| `MaxBoots` | 1 or 2 | one restart wipes the table; a second adds nothing |
| `MaxArrivals` (MergeQueue) | 2, those on their way included | one in flight and one behind it, or one that arrives late; the theorems are for any number |
| `PR`, `Number` | 3, two with the same number (`TwoRepositories`) | one at the front, one behind it, and one of another repository that can end the wait for the first |
| ProductionLocks: `Orch`, `Children`, `Stage` | one batch of two children, a standalone deployment, a stage deployment, one service, one shared directory and the key | a child that follows a parked sibling, a rival for the key, a rival for the shared directory that takes no key |
| ProductionLocks: `Task`, `MaxParks`, `MaxMishaps` | 1, 2, 2 | overlap of handlers is the subject of `DeployLocks`, of the theorems, and after an adoption of section 7; a second park after a resume; two kinds of mishap together |
| MergeGate: `Own`, `Shared`, `Edited` | both deployments have the same directory and the same shared one; people edit a third | deployments that follow each other on the same rows; projects that are disjoint are covered by the theorems |
| MergeGate: `MaxVersion`, `MaxPulls`, `MaxParks` | 1, 2, 1 | one push of people; a pull request that is closed or merged and its successor; one park |
| DeploymentStages: retries | 2 plans, 2 applies, 3 merges | the code's values; `AppliesVerified` and `Ends` depend on the 2 plans, see below |
| DeploymentStages: `MaxHead`, `MaxOthers` | 2, 1 | one commit after ours, by a person or by a conflict that the base caused and the coordinator resolved; one command or push of a person or one event of a namesake, which also counts as a commit, so it comes before any other. Some bound is needed: people and namesakes could send a deployment round its stages for ever, and `Ends` would fail for that reason alone |
| ChangeRequests: `Client`, `Content` | 2, 2, up to renaming | a verb, a save or a failure and what comes between its two steps; what was approved and what was saved over it |
| ChangeRequests: `MaxRows` | 2 | a change set of two rows of any kinds |
| ChangeRequests: `Author` | 1 | with two rows a second author would own one of them, while the properties relate rows of one author; other authors only make guards false (`submit`, `LaneFree`). The theorems are for any authors and rows |
| ChangeRequests: `Deployment` | 1 | two deployments of the same rows at once break `RevokeStands`, see section 7 |

`PLAN_MAX_RETRIES` is 2, so a plan is retried once and the result of a poll that finds the old
failure again leads to the cutoff of `plan_not_before`. With 3, TLC finds that the answer to one
retry is taken for that of the next: its plan is verified, the next one replaces the plan file, and
`AppliesVerified` fails; and a destructive plan that is read this way starts the retries again, so
`Ends` fails too, as long as Atlantis answers. Whoever raises the constant should look at
`poll_for_plan_status` first. `AppliesRead` (section 6) is what holds for any number.

The proofs need none of these values. `CHECK_DEADLOCK FALSE` appears in every cfg: the system may
stop when every deployment has ended or a bound is reached.

## 5. Fairness

`DeployLocks`: weak fairness of each suspended handler (the server delivers or rejects an external
signal, the worker runs the continuation), of `Start`, `Proceed`, `Withdraw`, `AbortedLockConflict`
(a worker runs what is ready) and of `Finish` (each stage of a deployment is bounded by polls and
time-outs, or ended by a person). No fairness of faults, of administrators or of boots: `Served` and
`HandlersDrain` do not rely on rescue.

`MergeQueue`: weak fairness of the loop's steps (an activity ends: 10 minutes, three attempts; the
30-minute timer fires) and of the end of a lock handler, which `HandlersDrain` establishes. Strong
fairness of `ContinueAsNew`: `run` re-evaluates its gate after every event, so a gate that opens
again and again is seen open. Nothing makes a pull request close.

`ProductionLocks`: weak fairness of handlers, of a batch's own steps (`OpenBatch`, `EnterTry`,
`LeaveTry`), of `Proceed`, `Resumed` and `Forward` (a worker runs what is ready), of `Finish` (stages
are bounded, as above) and of `FailParked` (a parked deployment is ended after 24 hours). None of
resumes, adoptions or mishaps: `EveryoneEnds` holds although nobody may ever wake a parked
deployment.

`DeploymentStages`: weak fairness of the deployment's next step as a whole (timers fire, activities
end) and of the cap on an Atlantis lock. None of Atlantis, GitHub, the webhook, the base or people:
`Ends` says what the time-outs alone achieve, and excepts the wait for a manual merge, which has no
cap in the code.

`OpenCoordinator`, `MergeGate` and `ChangeRequests` check safety only. In `ChangeRequests` a request
ends because row locks queue their waiters, the database breaks cycles and the client has a time-out
of 15 seconds; that is not checked, because the run identifies states up to a renaming of authors,
requests and contents, which is unsound for liveness.

## 6. Proofs

All theorems are checked by `tlapm` to the last leaf. Assumptions are those named in the modules:
`None` is not a workflow, slots are numbers, constants have their types; what else is assumed is said
below. Finiteness of the sets of workflows or directories is not assumed.

- **`OpenCoordinatorProofs`**. `TypeCorrect`: containers and frames keep their types, lists stay
  finite. `ListsStaySound`: the invariant is that everything in `Lists`, the hold queue and all
  lists of suspended handlers, was asked for and numbered below `arrivals` without repetition. It is
  inductive because a handler only ever moves entries between these lists; the lemmas of
  `CoordinatorProofs` say so handler by handler. `ImplementsLockTable`: each handler step is a step
  of `LockTable` or a stutter; the grant of a scan is `Release` or `Serve`, which needs `ListsSound`
  (what a scan grants was asked for).
- **`DeployLocksProofs`**. `TypeCorrect`; `TableBacksGrants`; `DeploymentsExclude`. `GrantsBacked`
  is not inductive alone: a scan could grant to a workflow directories it does not need. The
  strengthening is `Addressed`: every entry of every list names exactly the `Needs` of a deployment
  that was started, every suspended grant is addressed to one, a deployment that has not started has
  no grant, and the requester of a suspended abort has ended, so what it releases later is nobody's
  who works. Mutual exclusion follows: two running deployments with a common
  directory would both be its registered holder.

  `WaitersOwnNothing`: nobody claims part of a request (`Unclaimed`), because what a handler changes
  in the table it changes for whom it goes on to signal, or for who releases (the `Moves` lemmas), and
  a signal that was delivered is recorded (`Told`). It holds with Atlantis conflicts and restarts too.

  `RequestsAreKept` and `NothingLeftBehind` are about behaviours without an Atlantis conflict, as the
  properties are. Their invariant, `QueueInv`, follows a request: whatever list or loop still knows
  it, a deployment has one, for its own needs (`KnownRequests`); a grant answers the request of the
  handler that sends it or one its scan has marked (`Sources`, `Answered`); an entry of the queue
  waits for its answer or is marked (`QueueLive`); a waiting deployment has an entry or its grant is
  coming (`Recalled`, in the coordinator's first run); and what a deployment owns after it gave
  everything back, it owns by a grant that cannot reach it any more and will end the coordinator's
  run (`Returned`). Two facts carry the proof: until it is stuck a scan takes out exactly what it has
  marked (`ScanEnds`, from `RemoveEachOnce`), and a loop's step gives a directory only together with
  a signal (`Serves`).

  `NobodyIsForgotten` is `NoLostWakeup` for handlers that do not overlap (`OneHandler`; section 7 shows
  why). Its invariant, `Awaited`: a request is blocked, or a scan has still to visit it. It rests on
  the order of the lists: later numbers have later positions (`PositionOrder`), so a scan that grants
  the earliest unblocked request passes only blocked ones.
- **`ProductionLocksProofs`**. `TypeCorrect`; `WorkIsBacked`, `OneAtATime`, `ParkedKeepsItsOwn` and `PromotionIsProvided`, for
  any number of batches, children, parks, mishaps and handlers. Requests are made in the name of a
  root: a batch, or what runs alone. The invariant (`Held`) follows what a root holds through a park
  and a resume: all it asked for while it works, all but what a park gives back while it is parked or
  queues to resume (`RootHolds`, `BatchHolds`); a grant on its way to who can use it has been entered
  in the table and is the only one (`FlightHolds`, `OneGrant`), and it is used up when it is acted on
  (`RootGrant`, `BatchGrant`, `ChildGrant`); an abort hits only who waits (`AbortFrames`,
  `AbortedWaits`). Children run in order (`Places`), so two that work and need the key have different
  roots, and both would hold it. `PromotionIsProvided` is the refinement of `PromotionLocks`, step by
  step: who works and who is aside have different roots, so they share no directory (`Apart`).

  Premise: no child was adopted with a sibling still to come (`Unadopted`). An adopted child leaves
  its batch without what the park gave back, possibly with a request or a grant under way, which the
  resume of a later sibling would take for its own: `Held` is not inductive there. With handlers that
  do not overlap the run finds no violation of `OneActor` and `WorkBacked` after an adoption; with two
  that do there is one (section 7). The finding `ProductionLeak` begins with an adoption too.

  `NothingIsLeft` is `NothingLeaks`, for any number of handlers that overlap; its premises are the
  property's own (the coordinator runs, its handlers are through, no mishap). The proof keeps an
  account for every root: what it is *due* is its entries in the queue, plus the grants on their way
  to it, minus the entries a scan has marked and not yet taken out (`Due`). A root is due at most the
  one grant it waits for, and nothing when it waits for none (`Calm`). The account balances although
  two scans can mark the same entry, because each scan takes out one equal entry for each of its
  marks (`RemovedCopies`), and the marks and entries of a scan that ends go together
  (`EndAccounts`). Every step of the coordinator is shown to leave the account of every root as it
  was or lower (`Settles`); only a request made for the root raises it, and it is made when the root
  waits for nothing else (`AsksCalm`). So the queue has nothing for
  who has ended; and a directory such a root holds was entered by a scan whose signal has not come
  back (`Returning`), so when the handlers are through it holds none.

  Assumed (`DirectoriesAssumption`): own and shared directories differ; a batch's lock set covers its
  children's (prep collects it item by item; a project whose `terragrunt.hcl` is not found would be
  missing from it); what runs alone has no shared directories (`deploy_temporal` passes
  `shared_dirs = []`). The last one is needed: the wait for the grant of a resume also ends on
  `_force_terminate` (production workflow, 1311), which is not tested afterwards, so an
  `atlas_lock_abort` would let a deployment with shared directories go on without them.
- **`MergeQueueProofs`**. `TypeCorrect`; `LoopOwnsFront` and `NoMergeDropped`, until a reset throws
  entries away (`wiped`); `ReleasesAreMeant`, for any numbers: repositories may share them, and the
  theorem says no more than that the pull request that ended a wait has the entry's number and is
  merged or closed. `NeverResolvedTwice` needs no premise: entries are numbered as they arrive,
  and what is behind the front, or anywhere while the loop waits for an entry, has not been started
  (`BehindUntouched`); a reset only takes entries away.
- **`MergeGateProofs`**. `TypeCorrect`; `GateMergesApplied`; `RowsTellTheTruth`; `ContentHasRows`;
  `ClosedRidesAlong`. What the gate merges depends on rows somebody else wrote about content somebody else may since have changed, so the
  invariant follows a content from the plan to the merge: deployments exclude each other and hold
  disjoint directories (`Exclusion`); from the answer to its plan on, whatever plan file Atlantis has
  of a deployment's directories is of what is on stage (`PlansFresh`); a success that answers its
  apply says the content is live (`AnswersTrue`); at the gate, and for every row that says APPLIED, it
  is live and no plan file could undo it (`GateSettled`, `RowsSettled`); a deployment that has
  claimed its rows has no APPLIED row yet (`ClaimedFirst`, `RowsOfProjects`); the head that was
  evaluated is behind stage, and while it is stage's head the verdict of the gate stands
  (`HeadBehind`, `Evaluated`). The last five hold as long as no old result was taken for one's own.
  Assumed: projects of different deployments are equal or disjoint.

  `ContentHasRows` (`RowsInv`) rests on exclusion, on the claim that precedes the merge to stage, and
  on what is deleted after a merge being on main; an adoption is its premise. `ClosedRidesAlong`
  (`OpenInv`): a row belongs to a deployment of its directory (`RowsOwn`); who is at the gate has only
  APPLIED rows (`GateRows`); and a deployment is over from the gate, or because its pull request
  was. It says nothing of the truth of a row, so old results do not matter.

  `PromotionIsUsed`: every behaviour of `MergeGate` is one of `PromotionLocks`, and its guard is the
  same (`GuardIsFree`): nothing is kept out here that may come in there. Together with
  `PromotionIsProvided` this says that the abstract locks of `MergeGate` leave out nothing that
  batches, children and the coordinator do, until an adoption.
- **`ChangeRequestsProofs`**. `TypeCorrect` and `AcceptsProved` without a premise; `VerdictsProved`,
  `WholeProved` and `RevokeProved` for one multiple-deploy run of the service at a time (`OneRun`;
  section 7 shows why). The properties are about steps, and a verb, a save and a failing deployment
  take two: what the first step saw must still be true at the second. So the invariant says of every
  request what it may rely on (`RequestInv`): a verb holds the row it was asked about and finds it as
  it left it, a discard holds the rows it will bin, a save that read an approval is about a route.
  `RowInv` says that a seal is a standing approval's and that rows that exist say something, which
  makes the comparison of seal and content mean something. `RowStep` is what an action may do to rows
  others rely on; every action is shown to be one, so no action is compared with each request. A
  failing deployment relies on its rows being in flight still, or approved: nobody but a stale save of
  a route writes rows in flight, which is the exception `Overtaken`. For `RevokeProved`, `Marked`
  follows the gate's mark of a run's settings rows until they are in flight, and `Steady` is what
  every other step leaves alone.
- **`DeploymentStagesProofs`**. `TypeCorrect`; `EndsProved`, because what signals and polls said of a
  pull request stays true, if it was of this one (`Reported`); `MergesProved`, `ApprovedProved` and `ReadProved`, each until
  something named explains a wrong step. The named reasons include what namesakes send. Under these premises answers cannot be mistaken: at most one
  command is on its way, in a step that waits for it (`Calm`). Then the content can be followed from
  the plan to the merge (`Settled`): a branch that is not stale has the content of the plan file, and
  once the apply has been answered that of the infrastructure; and from the approval on the plan file
  is one that was verified (`Read`). A reason once noted is never forgotten, so its absence after
  a step is its absence before (`WithoutBefore`), which makes invariants under a premise inductive.
  `ReadProved` is about `AppliesRead`, which excepts an old result, for any number of plans.

  `VerifiedProved` is `AppliesVerified` for up to two plans, the code's `PLAN_MAX_RETRIES`, and
  excepts no old result. Now two commands of ours may be on their way, and an answer may be taken for
  another's. The invariant, `Trusted`, says that they never are a plan and behind it an apply: an
  apply is posted over a plan file that was read, and while a plan is on its way the deployment waits
  for it (`AwaitsPlan`), because what it could mistake for the answer is the failure it already knows.
  With three plans the result of the second is such a mistake (section 4).

Only model-checked: liveness (`Served`, `HandlersDrain`, `EveryMergeStarts`, `HistoryResets`,
`EveryoneEnds`, `Ends`), which is beyond the prover; `OneActor` and `WorkBacked` after
an adoption, with one handler at a time (section 7).

## 7. Where the code and its documentation disagree

Each is a run with `expect: violation`; `PROJECT.json` quotes the lines.

| cfg | Property | What happens |
|---|---|---|
| `LocksStuck` | `NeverStuck` | A release grants a waiter and awaits the signal; the waiter's 24-hour cap fires and its `release_hold` takes the entry out; the scan's `remove` raises `ValueError`. The workflow task fails for ever. |
| `LocksRestart` | `Exclusive` | A waiter is terminated; before its clean-up arrives a release grants it; the signal fails and with it the coordinator's run; the next boot starts with an empty table while another deployment works, and a third is granted its directory. |
| `ProductionLeak` | `BatchReleases` | A child is adopted while it is parked, so its batch no longer holds the key and the shared directories; the next child's request is granted in its own name, and neither the child nor the batch's `finally` releases it. |
| `MergeGateOldResult` | `AutoMergesApplied` | A deployment of the same project left a success on the promotion pull request; the next one's apply poll, which has no cutoff, takes it for the answer to its own command, and the gate merges content nobody applied. |

More disagreements were met and have no run of their own. They explain the constants and the
exceptions of the passing runs.

*Coordinator.*

- A waiter withdraws while `abort_queued_for_dirs` is suspended: the rebinding (line 416) puts its
  entry back. A request that arrives meanwhile is in the list that is thrown away. `NoCorpse` and
  `Remembered` fail without `NoneConflicted`.
- Two scans overlap; one removes entries in front of the other's iterator, which skips a waiter:
  `NoLostWakeup` fails with `Task = {1, 2}`.
- The scans ask for free directories only; a queued child is not granted past its parent's
  (`ParentPassage` in `OpenCoordinator` is the promise).
- Pull requests of two repositories with the same number: one's close ends the wait for the other,
  and the loop takes the next entry while the conflict before it is not yet merged. `OnlyItsNumber`
  says that only the same number does this.
- A completion for an entry behind the front is ignored, and taking the entry clears `_released`, so
  the loop waits 30 minutes for a pull request that is already closed. A reset with an item in flight
  makes `pop(0)` raise in the loop's task, which ends; the next entry keeps the history gate shut.

*Batches and production deployments.*

- The activity between the grant and `try` (orchestrator, line 242) can fail: the locks stay.
- A child that gives up its resume leaves its parent's queued request (production workflow,
  1342–1349); an abort during a resume sets a flag the orchestrator never reads there (531–538).
- After an adoption two handlers that overlap can break `OneActor` and `WorkBacked` (`Task = {1, 2}`):
  a resume is granted and used while the scan that granted it is still suspended; the child parks
  again, and the scan of that release finds the same request in the queue and grants it once more.
  The child is adopted meanwhile, the next one starts, parks and wakes; now the second grant is
  delivered, is forwarded as the answer to its request, and it works without the key.
- Adoption is meant for a merge newer than the stage baseline (about 866), which is not tested, and
  deletes the rows of the directories, also those of a successor (576): `RowBeforeContent` excepts it.
- The real directories replace the predicted ones after the locks were granted (542–574).
- A person's push to a directory of a deployment, after the last check for manual commits, is merged
  without an apply; `MergesApplied` excepts it. Rows stay when a person merges a pull request that was
  left open. A plan result posted before `plan_posted_at` is not read, and after a merge one more
  plan command may be posted without the key.
- `evaluate_merge_gate` describes the paths it looks at differently from `_is_production_path` for
  `layers/`; `ensure_promotion_pr` raises when there is no difference to promote.

*Stages of a deployment.*

- Another repository's pull request with the same number is merged: the webhook tells this deployment
  `pr_merged` (308–313, 539), which it believes at once, and it ends as DEPLOYED and gives its locks
  back with its own pull request open, perhaps unapplied. The same for `pr_closed` (536); a review elsewhere
  counts as approval (498), a plan or an apply elsewhere as the answer (323–330), and after a conflict
  elsewhere `enqueue_merge` names the other repository (457–463). The docstring says "PR-level events
  (merged/closed/review) have no project → broadcast=True delivers to EVERY Running workflow on the
  PR" (286–287): it means one pull request and selects a number. `EndsTruthfully` and the others name
  these as exceptions.
- `plan_not_before` is taken after the command was posted (1604–1610, 1629–1633; 832 after the
  alerts): an answer in between is lost, and the deployment is ended after 24 hours.
- The apply poll has no cutoff: after a conflict was resolved and planned again, the success before
  it counts. `MergesApplied` names this exception.
- Freshness compares dates of commits, not of pushes, and the merge does not name the commit that was
  compared. `MergesApplied` names this exception too.
- A failed apply is counted at each poll until Atlantis answers the retry; `plan_attempt` is never
  reset although line 457 says so; `BackFromMerge` leaves `plan_not_before` as it was.
- The alert says "push a fix ... re-verify automatically" (about 1003), but a commit of a person ends
  the deployment as `manual_commit_detected`; the docstring's "at any waiting step: pr_merged, mark
  DEPLOYED" (20) loses to the stuck tick and to the check for manual commits; early exits on a merge do
  not write the completed stage.
- The wait for a manual merge has no cap, so its locks may be held for ever.
- For a plan comment that reports our own lock the webhook sends `plan_failed`, the poll says pending.

*Change requests.*

- `submit` looks for another author's request without a lock, and only for SUBMIT and APPROVED: two
  authors' requests can be live at once (both submit at once, or one submits while the other is in
  flight and falls back to APPROVED). `approval_repository.py:63` and `approval_service.py:1693` promise
  one lane. `find_gateway_request_for_deploy` then takes either.
- Reviewers who name different rows of one change each hold one before the ordered statement asks for
  both: a deadlock, where the docstring of `_change_set` says "take the rows in the same order rather
  than deadlocking".
- `approve` has no version: it takes what is in review when it runs, not what the reviewer was shown.
- The lock of `validate_deployable_queue_items` ends with the request that called it; the workflow
  later forces the status without reading it. With two deployments of the same rows at once, the
  first one's failure clears the mark, a revoke goes through between the second one's read and its
  write, and what was taken back ships: `RevokeStands` fails with two members in `Deployment`. The
  failure of one can also write `approved` over what the other has deployed meanwhile:
  `VerdictsOnReview` fails with two, and its theorem, like that of `VerdictWhole`, is about one.
- A failure is decided on statuses that were read without a lock. A save of a route that had begun
  before the deployment may write its draft in between, and the draft comes back as `approved` with
  content nobody has seen, although "a draft or a submitted request must not be promoted to APPROVED by
  a deploy failure" (`deploy_activities.py`, 458–460). `Overtaken` is this exception.
- A multiple-deploy request that names no rows takes all of the caller's approved rows by their status
  (`multiple_deploy_activities.py`, 232–233): one whose content a stale save has replaced ships with its
  seal broken. `AcceptsApproved` is about requests that name their rows. Nor does the route ask
  whether the deploy gate was passed: `RevokeStands` is about rows that bear its mark.
- A batch, or a child, whose locks never come ends without a word about its rows, which stay in
  `starting` (`Abandon`).
- A stale save overwrites the content of a row that is in review or approved (the seal stops its
  deployment); a stale upsert demotes a row that has meanwhile been decided or started; an empty
  gateway save deletes a row in review. The gateway upsert demotes an approved row without looking at
  the mark, after which the workflow ships it without an approval; gateway rows are not validated.
- `discard` and a `submit` of the same author can wait for each other across two services until the
  15 seconds are over; if the answer is lost, the settings stay while the message says that nothing
  was discarded.
- `/transaction-queue/deploy` (`deploy_temporal`) checks no seal.

## 8. What is not modelled

- Secondary pull requests beside a primary one, progress records, alerts and the texts of comments.
- `VariableDeployWorkflow` and the variables stage of a batch: no locks, one activity after another.
- The approval routing of a production deployment's feature pull request.
- The synchronous deploy routes, infrastructure rows that are born approved, diffs, inbox and rules of
  the approval service: reads, or single writes without a rival.
- Time: a time-out may fire whenever its wait is not over.
- Users' names in hold entries, reasons, log lines, queries: no control depends on them.
- Duplicate starts of a deployment id: an id is used once in `DeployLocks`.
- Replay and nondeterminism errors after a change of workflow code: a property of two versions.
- How the webhook finds a workflow: an event of the deployment's own pull request reaches it or does
  not, and in `DeploymentStages` those of another with its number may reach it too. `MergeGate` leaves
  namesakes out: a merge or close of one would end a production deployment, or have it adopted, while
  its promotion pull request is open.
- The rest of the application: request-scoped services over database rows, clients of external
  services, generated resource data, the chat agent. See the notes of the components in
  `PROJECT.json`.

## 9. Plan

1. `TransactionQueue`: the synchronous deploy, born-approved rows, re-admission by the dashboard.
2. The routing of the webhook and `PipelinePolling`, if they fit.
3. Pure operators: path overlap and listener priority against reference definitions.

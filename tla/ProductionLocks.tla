-------------------------- MODULE ProductionLocks --------------------------
(***************************************************************************)
(* Batches, production deployments and the coordinator that serializes     *)
(* them: the lock life cycle of DeploymentOrchestratorWorkflow and of its  *)
(* ProductionDeploymentWorkflow children, with the park that gives back    *)
(* the promotion key and the shared directories and the resume that queues *)
(* for them again, next to standalone production deployments and stage     *)
(* deployments (src/app/temporal/workflows/                                 *)
(* deployment_orchestrator_workflow.py, production_deployment_workflow.py). *)
(*                                                                         *)
(* An orchestrator owns the locks of its batch and runs its children one   *)
(* after the other; a child passes through what its parent holds.  A child *)
(* that parks or resumes signals its parent, whose handler signals the     *)
(* coordinator: the two hops keep their order and are one step here.  The  *)
(* grant of a resume goes to the parent, which forwards it to the child.   *)
(***************************************************************************)
EXTENDS Coordinator, Sequences

CONSTANTS
    Orch,         \* batches: deployments that run children
    Children,     \* of each batch, in order: the services, then the other groups
    Stage,        \* stage deployments: no promotion key, no park
    Own,          \* directories a deployment keeps while it is parked
    Shared,       \* directories it gives back while it is parked
    Key,          \* the promotion key, one more directory to the coordinator
    MaxParks,     \* bound on the parks of one deployment
    MaxMishaps    \* bound on the mishaps of a behaviour

VARIABLES
    pc,           \* life cycle of each workflow
    granted,      \* self._locks_granted
    aborted,      \* self._force_terminate, self._lock_abort_reason
    pending,      \* self._pending_resume_child of each batch
    acks,         \* children whose forwarded locks_granted is on its way
    parks,        \* parks of each deployment so far
    mishaps       \* history: what has gone wrong outside the coordinator

flow == <<granted, aborted, pending, acks, parks, mishaps>>
vars == <<coordinator, pc, flow>>

Kids(o) == {Children[o][i] : i \in DOMAIN Children[o]}
Child == UNION {Kids(o) : o \in Orch}
Parent(c) == IF c \in Child THEN CHOOSE o \in Orch : c \in Kids(o) ELSE None

ASSUME ProductionAssumption ==
    /\ Orch \subseteq Wf /\ Children \in [Orch -> Seq(Wf \ (Orch \cup Stage))]
    /\ \A o, u \in Orch : o # u => Kids(o) \cap Kids(u) = {}
    /\ \A o \in Orch : \A i, j \in DOMAIN Children[o] :
         i # j => Children[o][i] # Children[o][j]
    /\ Own \in [Wf -> SUBSET (Dir \ {Key})] /\ Shared \in [Wf -> SUBSET (Dir \ {Key})]
    /\ Key \in Dir /\ Stage \subseteq Wf \ Orch
    /\ MaxParks \in Nat /\ MaxMishaps \in Nat

\* Project directories are split into the ones a park keeps and the ones it gives
\* back; the lock set of a batch covers the directories of its children (prep
\* collects them item by item); what runs alone has no directory to give back
\* (deploy_temporal starts it with shared_dirs = []).
ASSUME DirectoriesAssumption ==
    /\ \A c \in Wf : Own[c] \cap Shared[c] = {}
    /\ \A o \in Orch : \A k \in Kids(o) :
         Own[k] \cup Shared[k] \subseteq Own[o] \cup Shared[o]
    /\ \A c \in Wf \ (Orch \cup Child) : Shared[c] = {}

\* Production deployments: they act on the promotion pull request.
Prod == Wf \ (Orch \cup Stage)

\* project_dirs of a batch, lock_set of a production deployment.
LockSet(c) == Own[c] \cup Shared[c] \cup IF c \in Stage THEN {} ELSE {Key}

\* The registered holder of what c works on.
Holder(c) == IF c \in Child THEN Parent(c) ELSE c

\* What a park gives back: a batch releases all its shared directories.
ParkDirs(c) == {Key} \cup Shared[Holder(c)]

PC == {"idle", "waiting", "opening", "running", "working", "parked", "resuming",
       "withdrawing", "success", "failed"}

Ended(c) == pc[c] \in {"success", "failed"}
Open(c) == pc[c] # "idle" /\ ~Ended(c)

\* The children of o that were started before its i-th one succeeded.
Reached(o, i) == \A j \in 1..(i - 1) : pc[Children[o][j]] = "success"

PInit ==
    /\ Init
    /\ pc = [c \in Wf |-> "idle"]
    /\ granted = [c \in Wf |-> FALSE] /\ aborted = [c \in Wf |-> FALSE]
    /\ pending = [o \in Orch |-> None] /\ acks = {}
    /\ parks = [c \in Wf |-> 0]
    /\ mishaps = {}

Goto(c, s) == pc' = [pc EXCEPT ![c] = s]

Mishap(m) ==
    /\ m \in mishaps \/ Cardinality(mishaps) < MaxMishaps
    /\ mishaps' = mishaps \cup {m}

NoMishap == UNCHANGED mishaps

-----------------------------------------------------------------------------
(* Signals to the coordinator.  A stuck one never handles them.            *)

Ignored == status = "stuck" /\ UNCHANGED coordinator

Acquire(r, ds, p) == (\E t \in Task : AcquireLocks(t, r, ds, p)) \/ Ignored
Release(r, ds) == (\E t \in Task : ReleaseLocks(t, r, ds)) \/ Ignored
Withdrawal(r) == ReleaseHold(r) \/ Ignored

\* Under a parent the locks are the parent's to free.
OwnRelease(c) ==
    IF c \in Child THEN UNCHANGED coordinator ELSE Release(c, LockSet(c))

-----------------------------------------------------------------------------
(* Every workflow: the first request.                                      *)

\* A batch, a standalone production deployment or a stage deployment.
Start(c) ==
    /\ c \notin Child
    /\ pc[c] = "idle"
    /\ Acquire(c, LockSet(c), None)
    /\ Goto(c, "waiting")
    /\ UNCHANGED flow

\* The next child of a batch, with passage through what the batch holds.
StartChild(o) ==
    /\ pc[o] = "running"
    /\ \E i \in DOMAIN Children[o] :
         /\ Reached(o, i) /\ pc[Children[o][i]] = "idle"
         /\ Acquire(Children[o][i], LockSet(Children[o][i]), o)
         /\ Goto(Children[o][i], "waiting")
    /\ UNCHANGED flow

\* A production or stage deployment that was aborted does not go on, granted or not.
Proceed(c) ==
    /\ c \notin Orch
    /\ pc[c] = "waiting" /\ granted[c] /\ ~aborted[c]
    /\ Goto(c, "working")
    /\ UNCHANGED <<coordinator, flow>>

\* 24 hours without a grant: release_hold, then release_locks.
LockWaitTimeout(c) ==
    /\ pc[c] = "waiting" /\ ~granted[c] /\ ~aborted[c]
    /\ Withdrawal(c)
    /\ Goto(c, "withdrawing")
    /\ Mishap("timeout")
    /\ UNCHANGED <<granted, aborted, pending, acks, parks>>

Withdraw(c) ==
    /\ pc[c] = "withdrawing"
    /\ Release(c, LockSet(c))
    /\ Goto(c, "failed")
    /\ UNCHANGED flow

\* atlas_lock_abort while queued: a production deployment fails on its one way
\* out, the other two without a signal.  A batch that was granted goes on.
AbortedLockConflict(c) ==
    /\ pc[c] = "waiting" /\ aborted[c]
    /\ c \in Orch => ~granted[c]
    /\ IF c \in Prod THEN OwnRelease(c) ELSE UNCHANGED coordinator
    /\ Goto(c, "failed")
    /\ UNCHANGED flow

\* An Atlantis lock conflict outlasted its limit: only stage deployments send it.
AtlantisLockTimeout(c) ==
    /\ c \in Stage
    /\ pc[c] = "working"
    /\ (\E t \in Task : AbortQueuedForDirs(t, c, LockSet(c))) \/ Ignored
    /\ Goto(c, "failed")
    /\ Mishap("conflict")
    /\ UNCHANGED <<granted, aborted, pending, acks, parks>>

-----------------------------------------------------------------------------
(* DeploymentOrchestratorWorkflow.                                         *)

\* The wait is over; the stage update comes before the `try`.
OpenBatch(o) ==
    /\ pc[o] = "waiting" /\ granted[o]
    /\ Goto(o, "opening")
    /\ UNCHANGED <<coordinator, flow>>

EnterTry(o) ==
    /\ pc[o] = "opening"
    /\ Goto(o, "running")
    /\ UNCHANGED <<coordinator, flow>>

\* That update has one attempt; its failure escapes run().
StageUpdateFails(o) ==
    /\ pc[o] = "opening"
    /\ Goto(o, "failed")
    /\ Mishap("stage update")
    /\ UNCHANGED <<coordinator, granted, aborted, pending, acks, parks>>

\* Mutant: the finally of a batch that failed is forgotten.
LeaveTryOnSuccess(o) ==
    /\ pc[o] = "running"
    /\ \A k \in Kids(o) : ~Open(k)
    /\ \/ /\ \A k \in Kids(o) : pc[k] = "success"
          /\ Release(o, LockSet(o))
          /\ Goto(o, "success")
       \/ /\ UNCHANGED coordinator
          /\ Goto(o, "failed")
    /\ UNCHANGED flow

\* `finally`: every exit of the try, after the last child, after one that failed,
\* or between two (the variables stage).
LeaveTry(o) ==
    /\ pc[o] = "running"
    /\ \A k \in Kids(o) : ~Open(k)
    /\ Release(o, LockSet(o))
    /\ Goto(o, IF \A k \in Kids(o) : pc[k] = "success" THEN "success" ELSE "failed")
    /\ UNCHANGED flow

-----------------------------------------------------------------------------
(* ProductionDeploymentWorkflow (and the two ends of a stage deployment).  *)

\* Closeout, or _fail_deployment.
Finish(c) ==
    /\ c \notin Orch
    /\ pc[c] = "working"
    /\ OwnRelease(c)
    /\ \E s \in {"success", "failed"} : Goto(c, s)
    /\ UNCHANGED flow

\* Mutant: the child releases in its own name what its parent holds.
ParkSelf(c) ==
    /\ c \in Prod
    /\ pc[c] = "working" /\ parks[c] < MaxParks
    /\ Release(c, ParkDirs(c))
    /\ Goto(c, "parked")
    /\ parks' = [parks EXCEPT ![c] = @ + 1]
    /\ UNCHANGED <<granted, aborted, pending, acks, mishaps>>

\* Mutant: a park gives back everything.
ParkAll(c) ==
    /\ c \in Prod
    /\ pc[c] = "working" /\ parks[c] < MaxParks
    /\ Release(Holder(c), {})
    /\ Goto(c, "parked")
    /\ parks' = [parks EXCEPT ![c] = @ + 1]
    /\ UNCHANGED <<granted, aborted, pending, acks, mishaps>>

\* Plan, apply or approval failed: step aside (child_parked under a parent).
Park(c) ==
    /\ c \in Prod
    /\ pc[c] = "working" /\ parks[c] < MaxParks
    /\ Release(Holder(c), ParkDirs(c))
    /\ Goto(c, "parked")
    /\ parks' = [parks EXCEPT ![c] = @ + 1]
    /\ UNCHANGED <<granted, aborted, pending, acks, mishaps>>

\* 24 hours parked, or the pull request was closed or merged unapplied.
FailParked(c) ==
    /\ pc[c] = "parked"
    /\ OwnRelease(c)
    /\ Goto(c, "failed")
    /\ UNCHANGED flow

\* A child of the same batch is still to come.
Followed(c) == \E o \in Orch : c \in Kids(o) /\ \E k \in Kids(o) : pc[k] = "idle"

\* A human applied and merged: adopted as success, without a resume.
Adopt(c) ==
    /\ pc[c] = "parked"
    /\ OwnRelease(c)
    /\ Goto(c, "success")
    /\ IF Followed(c) THEN Mishap("adopted") ELSE NoMishap
    /\ UNCHANGED <<granted, aborted, pending, acks, parks>>

\* Mutant: the flag of the first grant is not cleared.
WakeUncleared(c) ==
    /\ pc[c] = "parked"
    /\ Acquire(Holder(c), ParkDirs(c), None)
    /\ Goto(c, "resuming")
    /\ pending' = IF c \in Child THEN [pending EXCEPT ![Holder(c)] = c] ELSE pending
    /\ UNCHANGED <<granted, aborted, acks, parks, mishaps>>

\* The fix was seen: queue for the key and the shared directories again
\* (child_resuming under a parent).
Wake(c) ==
    /\ pc[c] = "parked"
    /\ Acquire(Holder(c), ParkDirs(c), None)
    /\ Goto(c, "resuming")
    /\ granted' = [granted EXCEPT ![c] = FALSE, ![Holder(c)] = FALSE]
    /\ pending' = IF c \in Child THEN [pending EXCEPT ![Holder(c)] = c] ELSE pending
    /\ UNCHANGED <<aborted, acks, parks, mishaps>>

\* The wait also ends on _force_terminate, which nothing checks afterwards.
Resumed(c) ==
    /\ pc[c] = "resuming" /\ (granted[c] \/ aborted[c])
    /\ Goto(c, "working")
    /\ UNCHANGED <<coordinator, flow>>

\* 24 hours: standalone it withdraws; under a parent the request stays.
ResumeTimeout(c) ==
    /\ pc[c] = "resuming" /\ ~granted[c] /\ ~aborted[c]
    /\ IF c \in Child THEN UNCHANGED coordinator /\ Goto(c, "failed")
                      ELSE Withdrawal(c) /\ Goto(c, "withdrawing")
    /\ Mishap("resume timeout")
    /\ UNCHANGED <<granted, aborted, pending, acks, parks>>

\* An activity's error escapes run().
Die(c) ==
    /\ c \in Prod
    /\ pc[c] = "working"
    /\ Goto(c, "failed")
    /\ Mishap("died")
    /\ UNCHANGED <<coordinator, granted, aborted, pending, acks, parks>>

-----------------------------------------------------------------------------
(* The coordinator's signals, and the one a parent forwards.               *)

\* Mutant: a grant is forwarded whether or not a child waits for one.
LocksGrantedForwards(t) ==
    LET target == tasks[t].to IN
    /\ tasks[t].pc \in {"acquire", "scan"}
    /\ Deliver(t, Open(target))
    /\ granted' = [granted EXCEPT ![target] = @ \/ Open(target)]
    /\ IF target \in Orch /\ Open(target)
       THEN /\ acks' = acks \cup {pending[target]}
            /\ pending' = [pending EXCEPT ![target] = None]
       ELSE UNCHANGED <<acks, pending>>
    /\ UNCHANGED <<pc, aborted, parks, mishaps>>

LocksGranted(t) ==
    LET target == tasks[t].to IN
    /\ tasks[t].pc \in {"acquire", "scan"}
    /\ Deliver(t, Open(target))
    /\ granted' = [granted EXCEPT ![target] = @ \/ Open(target)]
    /\ IF target \in Orch /\ Open(target) /\ pending[target] # None
       THEN /\ acks' = acks \cup {pending[target]}
            /\ pending' = [pending EXCEPT ![target] = None]
       ELSE UNCHANGED <<acks, pending>>
    /\ UNCHANGED <<pc, aborted, parks, mishaps>>

\* A failure to forward is caught.
Forward(c) ==
    /\ c \in acks
    /\ acks' = acks \ {c}
    /\ granted' = [granted EXCEPT ![c] = @ \/ Open(c)]
    /\ UNCHANGED <<coordinator, pc, aborted, pending, parks, mishaps>>

AtlasLockAbort(t) ==
    LET target == tasks[t].to IN
    /\ tasks[t].pc = "abort"
    /\ Deliver(t, Open(target))
    /\ aborted' = [aborted EXCEPT ![target] = @ \/ Open(target)]
    /\ UNCHANGED <<pc, granted, pending, acks, parks, mishaps>>

\* A signal to a coordinator whose run has closed fails, and the sender with it.
CoordinatorGone(c) ==
    /\ status = "failed"
    /\ Open(c)
    /\ c \in Orch => \A k \in Kids(c) : ~Open(k)
    /\ Goto(c, "failed")
    /\ UNCHANGED <<coordinator, flow>>

-----------------------------------------------------------------------------
Batch(o) == OpenBatch(o) \/ EnterTry(o) \/ StageUpdateFails(o) \/ StartChild(o) \/ LeaveTry(o)

Deployment(c) ==
    \/ Start(c) \/ Proceed(c) \/ LockWaitTimeout(c) \/ Withdraw(c)
    \/ AbortedLockConflict(c) \/ AtlantisLockTimeout(c)
    \/ Finish(c) \/ Park(c) \/ FailParked(c) \/ Adopt(c)
    \/ Wake(c) \/ Resumed(c) \/ ResumeTimeout(c) \/ Die(c)
    \/ Forward(c) \/ CoordinatorGone(c)

Handler(t) ==
    \/ LocksGranted(t)
    \/ AtlasLockAbort(t)
    \/ Resume(t) /\ UNCHANGED <<pc, flow>>

Next ==
    \/ \E o \in Orch : Batch(o)
    \/ \E c \in Wf : Deployment(c)
    \/ \E t \in Task : Handler(t)

Spec == PInit /\ [][Next]_vars

\* The server delivers, the workers run what is ready, work comes to an end, and
\* a parked deployment is woken, adopted or failed within 24 hours.
Fairness ==
    /\ \A t \in Task : WF_vars(Handler(t))
    /\ \A o \in Orch : WF_vars(OpenBatch(o)) /\ WF_vars(EnterTry(o)) /\ WF_vars(LeaveTry(o))
    /\ \A c \in Wf :
         /\ WF_vars(Proceed(c)) /\ WF_vars(Finish(c)) /\ WF_vars(FailParked(c))
         /\ WF_vars(Resumed(c)) /\ WF_vars(Forward(c))

FairSpec == Spec /\ Fairness

-----------------------------------------------------------------------------
\* Type invariant of the batches, their children and the coordinator they signal.
TypeOK ==
    /\ CoordinatorTypeOK
    /\ pc \in [Wf -> PC]
    /\ granted \in [Wf -> BOOLEAN] /\ aborted \in [Wf -> BOOLEAN]
    /\ pending \in [Orch -> Wf \cup {None}] /\ acks \subseteq Wf
    /\ parks \in [Wf -> 0..MaxParks]

\* One Atlantis actor at a time: however deployments park, resume, are adopted,
\* aborted or time out, two production deployments never work on the promotion
\* pull request together.
OneActor ==
    \A c, e \in Prod : pc[c] = "working" /\ pc[e] = "working" => c = e

\* A deployment that works has all its directories, itself or through its parent:
\* also after a park, when only part of them was given back and asked for again.
WorkBacked ==
    \A c \in Wf \ Orch : pc[c] = "working" =>
      \A d \in LockSet(c) : locks[d] \in {c, Holder(c)}

\* While a deployment is parked or queues to resume, its own directories stay
\* held: no redeploy of the same service.
ParkKeeps ==
    "adopted" \notin mishaps =>
      \A c \in Prod : pc[c] \in {"parked", "resuming"} =>
        \A d \in Own[Holder(c)] : locks[d] = Holder(c)

\* Where production deployments are, as far as their locks go, and what of its
\* directories each keeps and gives back: its batch gives back all it calls shared.
LockPlace ==
    [c \in Prod |-> CASE pc[c] \in {"idle", "waiting"} -> "out"
                    [] pc[c] = "working" -> "inside"
                    [] pc[c] \in {"parked", "resuming"} -> "aside"
                    [] OTHER -> "over"]

Keeps == [c \in Prod |-> (Own[c] \cup Shared[c]) \ Shared[Holder(c)]]
Yields == [c \in Prod |-> (Own[c] \cup Shared[c]) \cap Shared[Holder(c)]]

Promotion == INSTANCE PromotionLocks
             WITH Wf <- Prod, Own <- Keeps, Shared <- Yields, at <- LockPlace

\* Batches, children and coordinator give production deployments the locks that
\* MergeGate is built on: whoever comes in, for the first time or after a park,
\* finds nobody inside and none of its directories taken, also by one that is
\* parked, until a child is adopted before its siblings are done.
PromotionProvided ==
    Promotion!Init /\ [][ "adopted" \notin mishaps' => Promotion!Next ]_LockPlace

\* Nothing is left behind by a batch or a deployment that has ended: no lock in
\* its name or in its children's, and no request that could be granted to it.
Clean(c) ==
    /\ \A d \in Dir : locks[d] # c
    /\ \A h \in hold_queue : h.wf # c

NothingLeaks ==
    status = "running" /\ AllHandlersFinished /\ mishaps = {} =>
      \A c \in Wf : Ended(c) /\ (c \in Child => Ended(Parent(c))) => Clean(c)

\* A batch releases what it worked under on every exit path, whatever a child
\* was saved by.
BatchReleases ==
    status = "running" /\ AllHandlersFinished =>
      \A o \in Orch : pc[o] = "success" => \A k \in Kids(o) \cup {o} : Clean(k)

\* Whoever asked for locks gets an end: a batch that keeps some directories while
\* it queues for the key again cannot block the others for ever.
EveryoneEnds ==
    \A c \in Wf : Open(c) ~> Ended(c) \/ mishaps # {}
=============================================================================

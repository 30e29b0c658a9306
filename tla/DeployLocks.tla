---------------------------- MODULE DeployLocks ----------------------------
(***************************************************************************)
(* Deployments and their coordinator: the lock life cycle of a standalone  *)
(* DeploymentWorkflow (src/app/temporal/workflows/deployment_workflow.py)  *)
(* composed with the TenantCoordinatorWorkflow it signals, and the         *)
(* dashboard's terminate and clean-up (src/app/services/                   *)
(* temporal_dashboard_service.py).                                         *)
(*                                                                         *)
(* A deployment awaits each signal it sends until the server has put it    *)
(* into the coordinator's history, so its signals keep their order; the    *)
(* step that sends one is joined with the first segment of its handler.    *)
(***************************************************************************)
EXTENDS Coordinator

CONSTANTS
    Needs,        \* project_dirs of each deployment
    Faults,       \* which of the steps below that go wrong can happen
    MaxBoots      \* bound on application boots

ASSUME DeployAssumption == Needs \in [Wf -> SUBSET Dir] /\ MaxBoots \in Nat

VARIABLES
    dep,          \* life cycle of each deployment
    granted,      \* self._locks_granted
    aborted       \* self._force_terminate

vars == <<coordinator, dep, granted, aborted>>

DepState == {"idle", "waiting", "running", "withdrawing", "terminated",
             "cleaning", "dead", "done", "conflicted"}

\* A signal reaches a workflow while its run is open.
Open(c) == dep[c] \in {"waiting", "running", "withdrawing"}

DInit ==
    /\ Init
    /\ dep = [c \in Wf |-> "idle"]
    /\ granted = [c \in Wf |-> FALSE]
    /\ aborted = [c \in Wf |-> FALSE]

Goto(c, s) == dep' = [dep EXCEPT ![c] = s] /\ UNCHANGED <<granted, aborted>>

\* A stuck coordinator accepts signals and never handles them.
Ignored == status = "stuck" /\ UNCHANGED coordinator

-----------------------------------------------------------------------------
(* The deployment.                                                         *)

Start(c) ==
    /\ dep[c] = "idle"
    /\ (\E t \in Task : AcquireLocks(t, c, Needs[c], None)) \/ Ignored
    /\ Goto(c, "waiting")

Proceed(c) ==
    /\ dep[c] = "waiting" /\ granted[c] /\ ~aborted[c]
    /\ Goto(c, "running")
    /\ UNCHANGED coordinator

\* Every regular end of a deployment that holds its locks.
Finish(c) ==
    /\ dep[c] = "running"
    /\ (\E t \in Task : ReleaseLocks(t, c, Needs[c])) \/ Ignored
    /\ Goto(c, "done")

\* The 24-hour cap: release_hold, then release_locks.
LockWaitTimeout(c) ==
    /\ "timeout" \in Faults
    /\ dep[c] = "waiting" /\ ~granted[c] /\ ~aborted[c]
    /\ ReleaseHold(c) \/ Ignored
    /\ Goto(c, "withdrawing")

Withdraw(c) ==
    /\ dep[c] = "withdrawing"
    /\ (\E t \in Task : ReleaseLocks(t, c, Needs[c])) \/ Ignored
    /\ Goto(c, "done")

\* _force_terminate: the run fails without a signal to the coordinator.
AbortedLockConflict(c) ==
    /\ dep[c] = "waiting" /\ aborted[c]
    /\ Goto(c, "done")
    /\ UNCHANGED coordinator

\* The Atlantis lock conflict outlasted its limit.
AtlantisLockTimeout(c) ==
    /\ "conflict" \in Faults
    /\ dep[c] = "running"
    /\ (\E t \in Task : AbortQueuedForDirs(t, c, Needs[c])) \/ Ignored
    /\ Goto(c, "conflicted")

\* An activity's error escapes run(): no release.
Die(c) ==
    /\ "die" \in Faults
    /\ dep[c] = "running"
    /\ Goto(c, "dead")
    /\ UNCHANGED coordinator

\* A signal to a coordinator whose run has closed fails, and the sender with it.
CoordinatorGone(c) ==
    /\ status = "failed"
    /\ dep[c] \in {"idle", "waiting", "running", "withdrawing"}
    /\ Goto(c, "done")
    /\ UNCHANGED coordinator

-----------------------------------------------------------------------------
(* The server delivers the coordinator's signals.                          *)

LocksGranted(t) ==
    LET target == tasks[t].to IN
    /\ tasks[t].pc \in {"acquire", "scan"}
    /\ Deliver(t, Open(target))
    /\ granted' = [granted EXCEPT ![target] = @ \/ Open(target)]
    /\ UNCHANGED <<dep, aborted>>

AtlasLockAbort(t) ==
    LET target == tasks[t].to IN
    /\ tasks[t].pc = "abort"
    /\ Deliver(t, Open(target))
    /\ aborted' = [aborted EXCEPT ![target] = @ \/ Open(target)]
    /\ UNCHANGED <<dep, granted>>

-----------------------------------------------------------------------------
(* Administrators.                                                         *)

\* The dashboard terminates the run, then sends release_hold and release_locks.
Terminate(c) ==
    /\ "terminate" \in Faults
    /\ Open(c)
    /\ Goto(c, "terminated")
    /\ UNCHANGED coordinator

CleanUpHold(c) ==
    /\ dep[c] = "terminated"
    /\ ReleaseHold(c) \/ Ignored
    /\ Goto(c, "cleaning")

\* Also the release-lock route, for a run that died.
CleanUpLocks(c) ==
    /\ dep[c] \in {"cleaning", "dead"}
    /\ (\E t \in Task : ReleaseLocks(t, c, {})) \/ Ignored
    /\ Goto(c, "done")

\* The reset route, after every run was terminated.
Reset ==
    /\ "reset" \in Faults
    /\ \A c \in Wf : ~Open(c)
    /\ ResetState
    /\ UNCHANGED <<dep, granted, aborted>>

Boot ==
    /\ boots < MaxBoots
    /\ Restart
    /\ UNCHANGED <<dep, granted, aborted>>

-----------------------------------------------------------------------------
Client(c) ==
    \/ Start(c) \/ Proceed(c) \/ Finish(c)
    \/ LockWaitTimeout(c) \/ Withdraw(c)
    \/ AbortedLockConflict(c) \/ AtlantisLockTimeout(c)
    \/ Die(c) \/ CoordinatorGone(c)
    \/ Terminate(c) \/ CleanUpHold(c) \/ CleanUpLocks(c)

Handler(t) ==
    \/ LocksGranted(t)
    \/ AtlasLockAbort(t)
    \/ Resume(t) /\ UNCHANGED <<dep, granted, aborted>>

Next ==
    \/ \E c \in Wf : Client(c)
    \/ \E t \in Task : Handler(t)
    \/ Reset
    \/ Boot

Spec == DInit /\ [][Next]_vars

\* The server delivers, the workers run what is ready, timers fire, and a
\* deployment that holds its locks comes to an end.
Fairness ==
    /\ \A t \in Task : WF_vars(Handler(t))
    /\ \A c \in Wf : WF_vars(Start(c)) /\ WF_vars(Proceed(c)) /\ WF_vars(Finish(c))
    /\ \A c \in Wf : WF_vars(Withdraw(c)) /\ WF_vars(AbortedLockConflict(c))

FairSpec == Spec /\ Fairness

-----------------------------------------------------------------------------
\* Type invariant of the deployments and the coordinator they signal.
TypeOK ==
    /\ CoordinatorTypeOK
    /\ dep \in [Wf -> DepState]
    /\ granted \in [Wf -> BOOLEAN] /\ aborted \in [Wf -> BOOLEAN]

Owned(c) == {d \in Dir : locks[d] = c}

\* A locks_granted on its way to c, or delivered and not yet acknowledged.
GrantPending(c) ==
    \E t \in Task : tasks[t].pc \in {"acquire", "scan"} /\ tasks[t].to = c

\* c was granted its locks and has not given them back, or its grant is on the way.
Holds(c) ==
    \/ dep[c] = "running"
    \/ dep[c] = "waiting" /\ (granted[c] \/ GrantPending(c))

\* The table backs every grant: a deployment that works, or that was told or is
\* being told to work, is the registered holder of all its directories, as long
\* as the coordinator has not lost its table with its run.
GrantsBacked ==
    boots = 1 => \A c \in Wf : Holds(c) => \A d \in Needs[c] : locks[d] = c

\* Two deployments that need a common directory never run at the same time, not
\* even after the coordinator's run has failed and was started again.
Exclusive ==
    \A c, e \in Wf :
      c # e /\ dep[c] = "running" /\ dep[e] = "running" => Needs[c] \cap Needs[e] = {}

\* Two deployments that need a common directory never work at the same time,
\* however the handlers interleave and whatever times out, dies or is aborted,
\* as long as the coordinator has not lost its table with its run.
MutualExclusion == boots = 1 => Exclusive

\* A deployment that still waits owns nothing unless its grant is on the way:
\* acquire_locks never claims part of a request, so waiters cannot deadlock.
NoHoldAndWait ==
    status # "failed" =>
      \A c \in Wf : dep[c] = "waiting" /\ ~granted[c] /\ ~GrantPending(c) => Owned(c) = {}

\* When no handler is suspended every queued request waits for a directory
\* somebody holds: each release has granted whoever it unblocked.
NoLostWakeup ==
    status = "running" /\ AllHandlersFinished =>
      \A h \in hold_queue : ~AllFree(h, locks)

\* Every deployment gets its turn when the ones that run come to an end.
Served == \A c \in Wf : dep[c] = "waiting" ~> dep[c] = "running"

\* Handlers do not stay suspended: continue_as_new's all_handlers_finished gate
\* opens again and again, unless the coordinator's run is stuck.
HandlersDrain == []<>(AllHandlersFinished \/ status = "stuck")

\* No Atlantis conflict has aborted a queue: its second handler rebinds the list the
\* first one still works on.
NoneConflicted == \A c \in Wf : dep[c] # "conflicted"

\* A deployment that has withdrawn (release_hold, then release_locks) leaves
\* nothing behind: no queued entry that could be granted to it later, no lock.
NoCorpse ==
    status = "running" /\ AllHandlersFinished /\ NoneConflicted =>
      \A c \in Wf :
        dep[c] = "done" => Owned(c) = {} /\ \A h \in hold_queue : h.wf # c

\* A request is not forgotten: a deployment that waits, and to which no signal
\* is on the way, is in the hold queue.
Remembered ==
    status = "running" /\ boots = 1 /\ NoneConflicted =>
      \A c \in Wf :
        /\ dep[c] = "waiting" /\ ~granted[c] /\ ~aborted[c]
        /\ \A t \in Task : tasks[t].to # c
        => \E h \in hold_queue : h.wf = c

\* No handler raises an exception that leaves the workflow task failing for ever.
NeverStuck == status # "stuck"
=============================================================================

---------------------------- MODULE MergeQueue ----------------------------
(***************************************************************************)
(* The merge side of TenantCoordinatorWorkflow: the queue of pull requests *)
(* whose automerge hit a conflict, the loop that resolves them one at a    *)
(* time, and the continue-as-new that waits for a point where no item is   *)
(* in flight (src/app/temporal/workflows/coordinator_workflow.py).         *)
(*                                                                         *)
(* Signals of one activation are handled before the loop's wait_condition  *)
(* is checked, so a handler may run between an enqueue and the step that   *)
(* takes the item; between a pop and the next take none can, and the two   *)
(* are one step.                                                           *)
(***************************************************************************)
EXTENDS Naturals, Sequences, FiniteSets

CONSTANTS
    PR,           \* pull requests, of every repository the webhook serves
    Number,       \* the number of a pull request in its own repository
    MaxArrivals   \* bound on enqueued merges, those on their way included

ASSUME MergeAssumption ==
    PR # {} /\ Number \in [PR -> Nat] /\ MaxArrivals \in Nat

VARIABLES
    open,         \* pull requests that are neither merged nor closed
    polled,       \* those whose deployment has seen the close in a poll
    conflicts,    \* enqueue_merge signals on their way
    notices,      \* number of pr_merge_completed signals on their way, per PR
    merge_queue,  \* self._merge_queue
    released,     \* entries whose "_released" is set
    arrivals,     \* number of the next entry
    loop,         \* where _merge_queue_loop is
    item,         \* its local variable
    attempted,    \* history: entries whose resolution was started
    wiped,        \* history: an administrator has thrown entries away
    due,          \* a history reset is due
    suspended     \* a lock handler is suspended (not all_handlers_finished)

outside == <<open, polled, conflicts, notices>>
inside == <<merge_queue, released, arrivals, loop, item, attempted, wiped>>
vars == <<outside, inside, due, suspended>>

Item == [no : Nat, pr : PR]

NoItem == [no |-> MaxArrivals, pr |-> CHOOSE p \in PR : TRUE]

Init ==
    /\ open = PR /\ polled = {} /\ conflicts = {}
    /\ notices = [p \in PR |-> 0]
    /\ merge_queue = <<>> /\ released = {} /\ arrivals = 0
    /\ loop = "idle" /\ item = NoItem /\ attempted = {} /\ wiped = FALSE
    /\ due = FALSE /\ suspended = FALSE

-----------------------------------------------------------------------------
(* GitHub, the webhook and the deployments.                                *)

\* "Automerging failed": the webhook tells the deployment, which tells the
\* coordinator.
Conflict(p) ==
    /\ p \in open
    /\ arrivals + Cardinality(conflicts) < MaxArrivals
    /\ conflicts' = conflicts \cup {p}
    /\ UNCHANGED <<open, polled, notices, inside, due, suspended>>

\* A merge or a close; the webhook tells the coordinator.
Close(p) ==
    /\ p \in open
    /\ open' = open \ {p}
    /\ notices' = [notices EXCEPT ![p] = @ + 1]
    /\ UNCHANGED <<polled, conflicts, inside, due, suspended>>

\* Mutant: the poll goes on after it has seen the close.
PollAgain(p) ==
    /\ p \notin open /\ notices[p] < 3
    /\ notices' = [notices EXCEPT ![p] = @ + 1]
    /\ UNCHANGED <<open, polled, conflicts, inside, due, suspended>>

\* The deployment's own poll finds out and tells it too.
Poll(p) ==
    /\ p \notin open /\ p \notin polled
    /\ polled' = polled \cup {p}
    /\ notices' = [notices EXCEPT ![p] = @ + 1]
    /\ UNCHANGED <<open, conflicts, inside, due, suspended>>

-----------------------------------------------------------------------------
(* The coordinator's handlers.                                             *)

EnqueueMerge(p) ==
    /\ p \in conflicts
    /\ arrivals < MaxArrivals
    /\ conflicts' = conflicts \ {p}
    /\ merge_queue' = Append(merge_queue, [no |-> arrivals, pr |-> p])
    /\ arrivals' = arrivals + 1
    /\ UNCHANGED <<open, polled, notices, released, loop, item, attempted, wiped, due, suspended>>

\* Mutant: the handler pops the entry itself.
PrMergeCompletedPops(p) ==
    /\ notices[p] > 0
    /\ notices' = [notices EXCEPT ![p] = @ - 1]
    /\ merge_queue' = IF merge_queue # <<>> /\ Number[Head(merge_queue).pr] = Number[p]
                      THEN Tail(merge_queue) ELSE merge_queue
    /\ UNCHANGED <<open, polled, conflicts, released, arrivals, loop, item, attempted,
                   wiped, due, suspended>>

\* Mutant: any completion releases the front.
PrMergeCompletedAny(p) ==
    /\ notices[p] > 0
    /\ notices' = [notices EXCEPT ![p] = @ - 1]
    /\ released' = IF merge_queue # <<>> THEN released \cup {Head(merge_queue).no}
                   ELSE released
    /\ UNCHANGED <<open, polled, conflicts, merge_queue, arrivals, loop, item, attempted,
                   wiped, due, suspended>>

\* Compares numbers only, and only with the entry at the front.
PrMergeCompleted(p) ==
    /\ notices[p] > 0
    /\ notices' = [notices EXCEPT ![p] = @ - 1]
    /\ released' = IF merge_queue # <<>> /\ Number[Head(merge_queue).pr] = Number[p]
                   THEN released \cup {Head(merge_queue).no}
                   ELSE released
    /\ UNCHANGED <<open, polled, conflicts, merge_queue, arrivals, loop, item, attempted,
                   wiped, due, suspended>>

\* An administrator's reset: an item in flight stays with the loop.
ResetState ==
    /\ merge_queue' = <<>>
    /\ wiped' = (wiped \/ merge_queue # <<>>)
    /\ UNCHANGED <<outside, released, arrivals, loop, item, attempted, due, suspended>>

-----------------------------------------------------------------------------
(* _merge_queue_loop.                                                      *)

\* The head of `while True`: take the front entry of q and start its resolution,
\* or wait for one.
LoopHead(q) ==
    \/ /\ q # <<>>
       /\ item' = Head(q)
       /\ released' = released \ {Head(q).no}
       /\ attempted' = attempted \cup {Head(q).no}
       /\ loop' = "resolving"
    \/ /\ q = <<>>
       /\ loop' = "idle"
       /\ UNCHANGED <<item, released, attempted>>

Take ==
    /\ loop = "idle"
    /\ merge_queue # <<>>
    /\ LoopHead(merge_queue)
    /\ UNCHANGED <<outside, merge_queue, arrivals, wiped, due, suspended>>

\* Mutant: the activity's error escapes the loop.
ResolvedOrRaised ==
    /\ loop = "resolving"
    /\ loop' \in {"waiting", "dead"}
    /\ UNCHANGED <<outside, merge_queue, released, arrivals, item, attempted, wiped, due, suspended>>

\* resolve_conflict_and_merge succeeded, or failed three times.
Resolved ==
    /\ loop = "resolving"
    /\ loop' = "waiting"
    /\ UNCHANGED <<outside, merge_queue, released, arrivals, item, attempted, wiped, due, suspended>>

\* self._merge_queue.pop(0): an empty list raises IndexError, which ends the loop.
Pop ==
    /\ \/ /\ merge_queue # <<>>
          /\ merge_queue' = Tail(merge_queue)
          /\ LoopHead(Tail(merge_queue))
       \/ /\ merge_queue = <<>>
          /\ loop' = "dead"
          /\ UNCHANGED <<merge_queue, item, released, attempted>>
    /\ UNCHANGED <<outside, arrivals, wiped, due, suspended>>

Released ==
    /\ loop = "waiting"
    /\ item.no \in released
    /\ Pop

\* Mutant: after the time-out the same entry is tried again.
WaitTimeoutRetries ==
    /\ loop = "waiting"
    /\ item.no \notin released
    /\ LoopHead(merge_queue)
    /\ UNCHANGED <<outside, merge_queue, arrivals, wiped, due, suspended>>

\* The 30 minutes are over.
WaitTimeout ==
    /\ loop = "waiting"
    /\ item.no \notin released
    /\ Pop

-----------------------------------------------------------------------------
(* run().                                                                  *)

\* The server suggests it, the history is long, or 30 days have passed.
HistoryGrows ==
    /\ ~due
    /\ due' = TRUE
    /\ UNCHANGED <<outside, inside, suspended>>

\* A lock handler is suspended at its await, or ends.
LockTraffic ==
    /\ suspended' = ~suspended
    /\ UNCHANGED <<outside, inside, due>>

\* Mutant: the gate does not wait for the merge queue.
SafePointHandlersOnly == ~suspended

\* The gate, then a new run from the snapshot with a loop of its own.
SafePoint == merge_queue = <<>> /\ ~suspended

ContinueAsNew ==
    /\ due
    /\ SafePoint
    /\ due' = FALSE
    /\ loop' = "idle"
    /\ UNCHANGED <<outside, merge_queue, released, arrivals, item, attempted, wiped, suspended>>

-----------------------------------------------------------------------------
Next ==
    \/ \E p \in PR : Conflict(p) \/ Close(p) \/ Poll(p)
    \/ \E p \in PR : EnqueueMerge(p) \/ PrMergeCompleted(p)
    \/ ResetState
    \/ Take \/ Resolved \/ Released \/ WaitTimeout
    \/ HistoryGrows \/ LockTraffic \/ ContinueAsNew

Spec == Init /\ [][Next]_vars

\* The worker runs what is ready, timers fire, activities end (10 minutes, three
\* attempts), lock handlers come to their end.  run() checks its gate after every
\* event, so it does not miss a safe point that comes again and again.
Fairness ==
    /\ WF_vars(Take) /\ WF_vars(Resolved) /\ WF_vars(Released) /\ WF_vars(WaitTimeout)
    /\ WF_vars(suspended /\ LockTraffic)
    /\ SF_vars(ContinueAsNew)

FairSpec == Spec /\ Fairness

-----------------------------------------------------------------------------
\* Type invariant of the merge queue, its loop and the signals on their way.
TypeOK ==
    /\ open \subseteq PR /\ polled \subseteq PR /\ conflicts \subseteq PR
    /\ notices \in [PR -> 0..2]
    /\ merge_queue \in Seq(Item) /\ Len(merge_queue) <= MaxArrivals
    /\ released \subseteq 0..(MaxArrivals - 1) /\ attempted \subseteq 0..(MaxArrivals - 1)
    /\ arrivals \in 0..MaxArrivals
    /\ loop \in {"idle", "resolving", "waiting", "dead"}
    /\ item \in Item
    /\ wiped \in BOOLEAN /\ due \in BOOLEAN /\ suspended \in BOOLEAN

Queued == {merge_queue[i].no : i \in DOMAIN merge_queue}

\* While the loop is busy its item is the entry at the front: pop(0) takes out
\* what was processed, and the gate on an empty queue covers an item in flight.
\* (A reset_state that finds entries breaks this: see the README.)
BusyMeansFront ==
    ~wiped /\ loop \in {"resolving", "waiting"} =>
      merge_queue # <<>> /\ Head(merge_queue) = item

\* No enqueued merge is dropped by a pop, a time-out or a history reset before
\* its resolution was started, unless an administrator threw entries away.
NothingDropped == ~wiped => \A n \in 0..(arrivals - 1) : n \in attempted \cup Queued

\* No entry is resolved (force-pushed) twice, not even across a history reset.
ResolvedOnce ==
    [][loop' = "resolving" /\ loop # "resolving" => item'.no \notin attempted]_vars

\* The wait for one pull request never ends because another was merged or closed,
\* unless the other, of another repository, has its number: pr_merge_completed carries
\* nothing else.
OnlyItsNumber ==
    \A i \in DOMAIN merge_queue :
      merge_queue[i].no \in released =>
        \E p \in PR \ open : Number[p] = Number[merge_queue[i].pr]

\* Every enqueued merge gets its turn, whatever happens to the ones before it.
EveryMergeStarts ==
    \A n \in 0..(MaxArrivals - 1) : n \in Queued ~> n \in attempted \/ wiped

\* A history reset that is due takes place.
HistoryResets == due ~> ~due \/ wiped
=============================================================================

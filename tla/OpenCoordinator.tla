-------------------------- MODULE OpenCoordinator --------------------------
(***************************************************************************)
(* The coordinator on its own: any workflow may send any of its signals at *)
(* any time, and each signal the coordinator sends may find its target     *)
(* open or closed.  What holds here holds whatever the deployments do.     *)
(***************************************************************************)
EXTENDS Coordinator

CONSTANTS
    Requests,     \* the acquire_locks signals deployments may send
    DirSets,      \* the directories a release or an abort may name
    MaxArrivals,  \* bound on queued requests
    MaxBoots      \* bound on application boots

ASSUME OpenAssumption ==
    /\ Requests \subseteq [wf : Wf, dirs : SUBSET Dir, parent : Wf \cup {None}]
    /\ DirSets \subseteq SUBSET Dir
    /\ MaxArrivals \in Nat /\ MaxBoots \in Nat

VARIABLE asked    \* history: the requests made so far

vars == <<coordinator, asked>>

OInit == Init /\ asked = {}

Acquire(q) ==
    /\ arrivals < MaxArrivals
    /\ \E t \in Task : AcquireLocks(t, q.wf, q.dirs, q.parent)
    /\ asked' = asked \cup {q}

Receive(r, ds) ==
    /\ \/ ReleaseHold(r)
       \/ \E t \in Task : ReleaseLocks(t, r, ds)
       \/ \E t \in Task : AbortQueuedForDirs(t, r, ds)
    /\ UNCHANGED asked

Progress(t) ==
    /\ \/ \E ok \in BOOLEAN : Deliver(t, ok)
       \/ Resume(t)
    /\ UNCHANGED asked

Admin ==
    /\ \/ ResetState
       \/ boots < MaxBoots /\ Restart
    /\ UNCHANGED asked

Next ==
    \/ \E q \in Requests : Acquire(q)
    \/ \E r \in Wf, ds \in DirSets : Receive(r, ds)
    \/ \E t \in Task : Progress(t)
    \/ Admin

Spec == OInit /\ [][Next]_vars

-----------------------------------------------------------------------------
\* Type invariant: the coordinator's containers and its suspended handlers stay
\* well formed under every sequence of signals, deliveries and restarts.
TypeOK ==
    /\ CoordinatorTypeOK
    /\ asked \subseteq [wf : Wf, dirs : SUBSET Dir, parent : Wf \cup {None}]

\* A list holds only requests somebody made, and its entries keep the order they
\* arrived in: no two of them share an arrival number.
ListsSound ==
    /\ \A h \in Lists : [wf |-> h.wf, dirs |-> h.dirs, parent |-> h.parent] \in asked
    /\ \A h \in Lists : h.no < arrivals
    /\ \A g, h \in Lists : g.no = h.no => g = h

T == INSTANCE LockTable WITH owner <- locks

\* The lock table behaves as LockTable promises, whatever the handlers interleave.
Refinement == T!Spec

\* A queued request keeps its passage through what its parent holds: once nothing
\* else blocks it, no handler leaves it in the queue (parent_holder_id is
\* "preserved so a queued reentrant request keeps its parent context").
ParentPassage ==
    status = "running" /\ AllHandlersFinished =>
      \A h \in hold_queue : \E d \in h.dirs : locks[d] \notin {None, h.parent}
=============================================================================

---------------------------- MODULE Coordinator ----------------------------
(***************************************************************************)
(* TenantCoordinatorWorkflow: the tenant-wide lock manager every           *)
(* deployment signals before it touches a project directory               *)
(* (src/app/temporal/workflows/coordinator_workflow.py).                   *)
(*                                                                         *)
(* A Temporal workflow runs its handlers on one event loop: a handler is   *)
(* atomic only up to its next `await`.  acquire_locks, release_locks and   *)
(* abort_queued_for_dirs await the external signal they send to a          *)
(* deployment, so each of them is modelled as a first segment (the signal  *)
(* arrives) and one Resume step per await; a handler that is suspended is  *)
(* a frame in `tasks`, and any other handler may run between two of its    *)
(* segments.                                                               *)
(*                                                                         *)
(* Python lists.  An entry of _hold_queue carries its arrival number, so a *)
(* list is the set of its entries and the list order is the order of the   *)
(* numbers: append, filter and remove keep that order.  A `for` loop keeps *)
(* a reference to the list OBJECT and an index: a frame that is `live`     *)
(* iterates the object self._hold_queue still names and sees later appends *)
(* and removals; release_hold, abort_queued_for_dirs and reset_state       *)
(* rebind self._hold_queue to a new object, which leaves the loops that    *)
(* were running on the old one with a `snap` nobody changes any more.      *)
(***************************************************************************)
EXTENDS Naturals, FiniteSets

CONSTANTS
    Wf,           \* workflow ids of deployments (requesters, holders)
    Dir,          \* project directories
    None,         \* Python None: no holder, no parent
    Task          \* slots for suspended handlers (bounds how many overlap)

ASSUME CoordinatorAssumption == None \notin Wf /\ Task \subseteq Nat

VARIABLES
    locks,        \* self._locks, None for a directory nobody holds
    hold_queue,   \* self._hold_queue: requests that wait
    arrivals,     \* arrival number of the next queued request
    tasks,        \* suspended handlers
    status,       \* of the coordinator's run
    boots         \* runs started by the application (continue-as-new is not one)

coordinator == <<locks, hold_queue, arrivals, tasks, status, boots>>

\* One request that waits: {workflow_id, required_dirs, parent_holder_id}.
Hold == [no : Nat, wf : Wf, dirs : SUBSET Dir, parent : Wf \cup {None}]

\* A handler suspended at `await ...signal(...)`: the workflow it signals, how
\* far that signal is, and the local variables it still needs.
Frame ==
    [pc        : {"idle", "acquire", "scan", "abort"},
     to        : Wf \cup {None},
     sig       : {"none", "sent", "ok", "failed"},
     at        : Nat,               \* entries of the list already visited
     live      : BOOLEAN,           \* iterates the list self._hold_queue names
     snap      : SUBSET Hold,       \* else: the list it was iterating
     triggered : SUBSET Hold,
     remaining : SUBSET Hold,
     by        : Wf \cup {None},    \* abort: requester_id
     dirs      : SUBSET Dir]        \* abort: dirs

Idle == [pc |-> "idle", to |-> None, sig |-> "none", at |-> 0, live |-> FALSE,
         snap |-> {}, triggered |-> {}, remaining |-> {}, by |-> None,
         dirs |-> {}]

\* Mutant: the scan starts behind the front entry.
NewScanSecond == [Idle EXCEPT !.pc = "scan", !.live = TRUE, !.at = 1]

NewScan == [Idle EXCEPT !.pc = "scan", !.live = TRUE]

Init ==
    /\ locks = [d \in Dir |-> None]
    /\ hold_queue = {}
    /\ arrivals = 0
    /\ tasks = [t \in Task |-> Idle]
    /\ status = "running"
    /\ boots = 1

-----------------------------------------------------------------------------
(* Lists of requests and lock tables.                                      *)

Earliest(h, S) == \A g \in S : h.no <= g.no

\* 1-based position of h in a list.
Position(h, list) == Cardinality({g \in list : g.no <= h.no})

\* Mutant: a scan that takes the granted entry out of the list it iterates, so
\* that the entry behind it is skipped.
AheadSkipping(list, n) ==
    {h \in list : Position(h, list) > IF n = 0 THEN 0 ELSE n + 1}

\* The entries an iterator that has visited n of them has still to visit.
Ahead(list, n) == {h \in list : Position(h, list) > n}

\* Python's dict equality: two requests with the same content are equal.
SameHold(g, h) == g.wf = h.wf /\ g.dirs = h.dirs /\ g.parent = h.parent

Copies(h, S) == {g \in S : SameHold(g, h)}

\* Mutant: one free directory is enough.
AnyFree(h, lk) == \E d \in h.dirs : lk[d] = None

\* The grant scans ask for free directories only: parent_holder_id is not read.
AllFree(h, lk) == \A d \in h.dirs : lk[d] = None

\* `for t in triggered: self._hold_queue.remove(t)` finds an entry each time.
Removable(T, q) == \A h \in T : Cardinality(Copies(h, T)) <= Cardinality(Copies(h, q))

\* ... and takes the first equal entries out.
RemoveEach(T, q) ==
    {h \in q : Cardinality({g \in Copies(h, q) : g.no < h.no}) >= Cardinality(Copies(h, T))}

Claim(lk, ds, r) == [d \in Dir |-> IF d \in ds THEN r ELSE lk[d]]

\* Mutant: the holder is not compared.
DropAnyones(lk, ds, r) == [d \in Dir |-> IF d \in ds THEN None ELSE lk[d]]

\* A release frees only what the releaser itself holds.
Drop(lk, ds, r) == [d \in Dir |-> IF d \in ds /\ lk[d] = r THEN None ELSE lk[d]]

\* self._hold_queue is about to name a new list: running loops keep the old one.
Detach(ts) ==
    [t \in Task |-> IF ts[t].live
                    THEN [ts[t] EXCEPT !.live = FALSE, !.snap = hold_queue]
                    ELSE ts[t]]

Seen(f, q) == IF f.live THEN q ELSE f.snap

\* A handler starts in the first free slot.
Slot(t) ==
    /\ tasks[t].pc = "idle"
    /\ \A u \in Task : tasks[u].pc = "idle" => t <= u

AllHandlersFinished == \A t \in Task : tasks[t].pc = "idle"

-----------------------------------------------------------------------------
(* The handlers.                                                           *)

\* What acquire_locks appends to the hold queue.
NewHold(r, ds, p) == [no |-> arrivals, wf |-> r, dirs |-> ds, parent |-> p]

\* Mutant: a request that has to wait keeps what it finds free.
AcquireLocksPartly(t, r, ds, p) ==
    /\ status = "running"
    /\ Slot(t)
    /\ locks' = Claim(locks, {d \in ds : locks[d] = None}, r)
    /\ \/ /\ \A d \in ds : locks[d] \in {None, p}
          /\ tasks' = [tasks EXCEPT ![t] =
                         [Idle EXCEPT !.pc = "acquire", !.to = r, !.sig = "sent"]]
          /\ UNCHANGED <<hold_queue, arrivals>>
       \/ /\ \E d \in ds : locks[d] \notin {None, p}
          /\ hold_queue' = hold_queue \cup {NewHold(r, ds, p)}
          /\ arrivals' = arrivals + 1
          /\ UNCHANGED tasks
    /\ UNCHANGED <<status, boots>>

\* acquire_locks: all or nothing, and passage through what the parent holds.
AcquireLocks(t, r, ds, p) ==
    LET blocked == {d \in ds : locks[d] \notin {None, p}} IN
    /\ status = "running"
    /\ Slot(t)
    /\ \/ /\ blocked = {}
          /\ locks' = Claim(locks, {d \in ds : locks[d] = None}, r)
          /\ tasks' = [tasks EXCEPT ![t] =
                         [Idle EXCEPT !.pc = "acquire", !.to = r, !.sig = "sent"]]
          /\ UNCHANGED <<hold_queue, arrivals>>
       \/ /\ blocked # {}
          /\ hold_queue' = hold_queue \cup {NewHold(r, ds, p)}
          /\ arrivals' = arrivals + 1
          /\ UNCHANGED <<locks, tasks>>
    /\ UNCHANGED <<status, boots>>

\* The grant scan that ends release_locks and abort_queued_for_dirs, from frame
\* f of task t on, with lock table lk and self._hold_queue = q: grant the next
\* request that is unblocked and await the signal, or remove what was granted.
\* remove raises ValueError for a request that is no longer in the list, which
\* fails the workflow task for ever: the coordinator is stuck.
GrantScan(t, f, lk, q, ts) ==
    LET list == Seen(f, q)
        unblocked == {h \in Ahead(list, f.at) : AllFree(h, lk)}
    IN  /\ \/ \E h \in unblocked :
                /\ Earliest(h, unblocked)
                /\ locks' = Claim(lk, h.dirs, h.wf)
                /\ tasks' = [ts EXCEPT ![t] =
                               [f EXCEPT !.to = h.wf, !.sig = "sent",
                                         !.at = Position(h, list),
                                         !.triggered = @ \cup {h}]]
                /\ hold_queue' = q
                /\ UNCHANGED status
           \/ /\ unblocked = {}
              /\ Removable(f.triggered, q)
              /\ locks' = lk
              /\ hold_queue' = RemoveEach(f.triggered, q)
              /\ tasks' = [ts EXCEPT ![t] = Idle]
              /\ UNCHANGED status
           \/ /\ unblocked = {}
              /\ ~Removable(f.triggered, q)
              /\ status' = "stuck"
              /\ UNCHANGED <<locks, hold_queue, tasks>>
        /\ UNCHANGED <<arrivals, boots>>

\* Mutant: the filter keeps everything.
ReleaseHoldNothing(r) ==
    /\ status = "running"
    /\ tasks' = Detach(tasks)
    /\ UNCHANGED <<locks, hold_queue, arrivals, status, boots>>

\* Mutant: the first entry is taken out, whoever made it.
ReleaseHoldFirst(r) ==
    /\ status = "running"
    /\ hold_queue' = {h \in hold_queue : ~Earliest(h, hold_queue)}
    /\ tasks' = Detach(tasks)
    /\ UNCHANGED <<locks, arrivals, status, boots>>

\* release_hold: withdraw a request that was never granted.
ReleaseHold(r) ==
    /\ status = "running"
    /\ hold_queue' = {h \in hold_queue : h.wf # r}
    /\ tasks' = Detach(tasks)
    /\ UNCHANGED <<locks, arrivals, status, boots>>

\* release_locks: no dirs means all the releaser holds.
ReleaseLocks(t, r, ds) ==
    /\ status = "running"
    /\ Slot(t)
    /\ GrantScan(t, NewScan, Drop(locks, IF ds = {} THEN Dir ELSE ds, r),
                 hold_queue, tasks)

\* abort_queued_for_dirs from frame f on: signal the next request that overlaps
\* f.dirs; after the last one rebind the queue to `remaining`, release the
\* requester's own directories and scan.
AbortSweep(t, f) ==
    LET list == Seen(f, hold_queue)
        todo == Ahead(list, f.at)
        overlapping == {h \in todo : h.dirs \cap f.dirs # {}}
    IN  \/ \E h \in overlapping :
             /\ Earliest(h, overlapping)
             /\ tasks' = [tasks EXCEPT ![t] =
                            [f EXCEPT !.to = h.wf, !.sig = "sent",
                                      !.at = Position(h, list),
                                      !.remaining = @ \cup {g \in todo : g.no < h.no}]]
             /\ UNCHANGED <<locks, hold_queue, arrivals, status, boots>>
        \/ /\ overlapping = {}
           /\ GrantScan(t, NewScan, Drop(locks, f.dirs, f.by), f.remaining \cup todo,
                        Detach([tasks EXCEPT ![t] = Idle]))

AbortQueuedForDirs(t, r, ds) ==
    /\ status = "running"
    /\ Slot(t)
    /\ AbortSweep(t, [Idle EXCEPT !.pc = "abort", !.live = TRUE, !.by = r, !.dirs = ds])

\* Mutant: an empty dict that is read like a full one.
ResetStateEmpty ==
    /\ status = "running"
    /\ locks' = [d \in {} |-> None]
    /\ hold_queue' = {}
    /\ tasks' = Detach(tasks)
    /\ UNCHANGED <<arrivals, status, boots>>

\* reset_state: fresh, empty containers.
ResetState ==
    /\ status = "running"
    /\ locks' = [d \in Dir |-> None]
    /\ hold_queue' = {}
    /\ tasks' = Detach(tasks)
    /\ UNCHANGED <<arrivals, status, boots>>

-----------------------------------------------------------------------------
(* The awaits.                                                             *)

\* The server delivers the external signal of task t, or finds its target closed.
Deliver(t, ok) ==
    /\ status # "failed"
    /\ tasks[t].sig = "sent"
    /\ tasks' = [tasks EXCEPT ![t].sig = IF ok THEN "ok" ELSE "failed"]
    /\ UNCHANGED <<locks, hold_queue, arrivals, status, boots>>

\* acquire_locks ends after its await.
ResumeAcquire(t) ==
    /\ status = "running"
    /\ tasks[t].pc = "acquire" /\ tasks[t].sig = "ok"
    /\ tasks' = [tasks EXCEPT ![t] = Idle]
    /\ UNCHANGED <<locks, hold_queue, arrivals, status, boots>>

\* The grant scan continues with the next entry of the list.
ResumeScan(t) ==
    /\ status = "running"
    /\ tasks[t].pc = "scan" /\ tasks[t].sig = "ok"
    /\ GrantScan(t, tasks[t], locks, hold_queue, tasks)

\* Mutant: the abort loop goes on only when its signal arrived.
ResumeAbortDelivered(t) ==
    /\ status = "running"
    /\ tasks[t].pc = "abort" /\ tasks[t].sig = "ok"
    /\ AbortSweep(t, tasks[t])

\* The abort loop catches a failed signal and continues.
ResumeAbort(t) ==
    /\ status = "running"
    /\ tasks[t].pc = "abort" /\ tasks[t].sig \in {"ok", "failed"}
    /\ AbortSweep(t, tasks[t])

\* acquire_locks and the grant scans do not: the failure escapes the handler and
\* fails the run, and with it every handler.
FailRun(t) ==
    /\ status = "running"
    /\ tasks[t].pc \in {"acquire", "scan"} /\ tasks[t].sig = "failed"
    /\ status' = "failed"
    /\ tasks' = [u \in Task |-> Idle]
    /\ UNCHANGED <<locks, hold_queue, arrivals, boots>>

\* The application starts coordinator-{tenant} again on its next boot.
Restart ==
    /\ status = "failed"
    /\ status' = "running"
    /\ locks' = [d \in Dir |-> None]
    /\ hold_queue' = {}
    /\ boots' = boots + 1
    /\ UNCHANGED <<arrivals, tasks>>

Resume(t) == ResumeAcquire(t) \/ ResumeScan(t) \/ ResumeAbort(t) \/ FailRun(t)

-----------------------------------------------------------------------------
FiniteFrame(f) == IsFiniteSet(f.snap) /\ IsFiniteSet(f.remaining)

\* Type invariant of the coordinator's own state.
CoordinatorTypeOK ==
    /\ locks \in [Dir -> Wf \cup {None}]
    /\ hold_queue \subseteq Hold /\ IsFiniteSet(hold_queue)
    /\ arrivals \in Nat /\ boots \in Nat
    /\ tasks \in [Task -> Frame]
    /\ \A t \in Task : FiniteFrame(tasks[t])
    /\ status \in {"running", "stuck", "failed"}

\* Every entry of every list a handler may still scan.
Kept(ts) == UNION {ts[t].snap \cup ts[t].remaining : t \in Task}

Lists == hold_queue \cup Kept(tasks)
=============================================================================

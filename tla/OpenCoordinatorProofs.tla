----------------------- MODULE OpenCoordinatorProofs -----------------------
(***************************************************************************)
(* The coordinator whatever the deployments do: its type invariant, the    *)
(* soundness of the lists its handlers scan, and that it implements        *)
(* LockTable.                                                              *)
(***************************************************************************)
EXTENDS OpenCoordinator, CoordinatorProofs

Inv == TypeOK /\ ListsSound

\* Each kind of step keeps the type invariant.
LEMMA NextType ==
  ASSUME TypeOK, [Next]_vars
  PROVE  TypeOK'
  <1> USE OpenAssumption
  <1>1. ASSUME NEW q \in Requests, Acquire(q)
        PROVE  TypeOK'
    <2>1. q.wf \in Wf /\ q.dirs \in SUBSET Dir /\ q.parent \in Wf \cup {None}
      OBVIOUS
    <2>2. PICK t \in Task : AcquireLocks(t, q.wf, q.dirs, q.parent)
      BY <1>1 DEF Acquire
    <2>3. CoordinatorTypeOK'
      BY <2>1, <2>2, AcquireLocksType DEF TypeOK
    <2> QED
      BY <1>1, <2>3 DEF Acquire, TypeOK
  <1>2. ASSUME NEW r \in Wf, NEW ds \in DirSets, Receive(r, ds)
        PROVE  TypeOK'
    <2>1. ds \in SUBSET Dir
      OBVIOUS
    <2>2. CASE ReleaseHold(r)
      BY <1>2, <2>2, ReleaseHoldType DEF Receive, TypeOK
    <2>3. CASE \E t \in Task : ReleaseLocks(t, r, ds)
      BY <1>2, <2>1, <2>3, ReleaseLocksType DEF Receive, TypeOK
    <2>4. CASE \E t \in Task : AbortQueuedForDirs(t, r, ds)
      BY <1>2, <2>1, <2>4, AbortQueuedForDirsType DEF Receive, TypeOK
    <2> QED
      BY <1>2, <2>2, <2>3, <2>4 DEF Receive
  <1>3. ASSUME NEW t \in Task, Progress(t)
        PROVE  TypeOK'
    BY <1>3, DeliverType, ResumeType DEF Progress, TypeOK
  <1>4. CASE Admin
    BY <1>4, ResetStateType, RestartType DEF Admin, TypeOK
  <1>5. CASE UNCHANGED vars
    BY <1>5 DEF vars, coordinator, TypeOK, CoordinatorTypeOK
  <1> QED
    BY <1>1, <1>2, <1>3, <1>4, <1>5 DEF Next

\* Type correctness of the coordinator under every sequence of signals.
THEOREM TypeCorrect == Spec => []TypeOK
  <1>1. OInit => TypeOK
    BY InitType DEF OInit, TypeOK
  <1>2. TypeOK /\ [Next]_vars => TypeOK'
    BY NextType
  <1> QED
    BY <1>1, <1>2, PTL DEF Spec

-----------------------------------------------------------------------------
\* Only acquire_locks puts a request into a list.
LEMMA OthersKeepLists ==
  ASSUME TypeOK, [Next]_vars, ~ \E q \in Requests : Acquire(q)
  PROVE  Lists' \subseteq Lists /\ arrivals' = arrivals /\ asked' = asked
  <1> USE OpenAssumption DEF TypeOK
  <1>1. ASSUME NEW r \in Wf, NEW ds \in DirSets, Receive(r, ds)
        PROVE  Lists' \subseteq Lists /\ arrivals' = arrivals /\ asked' = asked
    <2>1. ds \in SUBSET Dir
      OBVIOUS
    <2>2. CASE ReleaseHold(r)
      BY <1>1, <2>2, ReleaseHoldLists DEF Receive, ReleaseHold
    <2>3. ASSUME NEW t \in Task, ReleaseLocks(t, r, ds)
          PROVE  Lists' \subseteq Lists /\ arrivals' = arrivals
      <3>1. Lists' \subseteq Lists
        BY <2>1, <2>3, ReleaseLocksLists
      <3> QED
        BY <2>3, <3>1 DEF ReleaseLocks, GrantScan
    <2>4. ASSUME NEW t \in Task, AbortQueuedForDirs(t, r, ds)
          PROVE  Lists' \subseteq Lists /\ arrivals' = arrivals
      <3>1. Lists' \subseteq Lists
        BY <2>1, <2>4, AbortQueuedForDirsLists
      <3> QED
        BY <2>4, <3>1 DEF AbortQueuedForDirs, AbortSweep, GrantScan
    <2> QED
      BY <1>1, <2>2, <2>3, <2>4 DEF Receive
  <1>2. ASSUME NEW t \in Task, Progress(t)
        PROVE  Lists' \subseteq Lists /\ arrivals' = arrivals /\ asked' = asked
    <2>1. CASE \E ok \in BOOLEAN : Deliver(t, ok)
      BY <1>2, <2>1, DeliverLists DEF Progress, Deliver
    <2>2. CASE Resume(t)
      <3>1. Lists' \subseteq Lists
        BY <2>2, ResumeLists
      <3>2. arrivals' = arrivals
        BY <2>2 DEF Resume, ResumeAcquire, ResumeScan, ResumeAbort, FailRun,
                    AbortSweep, GrantScan
      <3> QED
        BY <1>2, <3>1, <3>2 DEF Progress
    <2> QED
      BY <1>2, <2>1, <2>2 DEF Progress
  <1>3. CASE Admin
    <2>1. CASE ResetState
      BY <1>3, <2>1, ResetStateLists DEF Admin, ResetState
    <2>2. CASE Restart
      BY <1>3, <2>2, RestartLists DEF Admin, Restart
    <2> QED
      BY <1>3, <2>1, <2>2 DEF Admin
  <1>4. CASE UNCHANGED vars
    BY <1>4 DEF vars, coordinator, Lists, Kept
  <1> QED
    BY <1>1, <1>2, <1>3, <1>4 DEF Next

LEMMA NextInv ==
  ASSUME Inv, [Next]_vars
  PROVE  Inv'
  <1> USE OpenAssumption DEF Inv
  <1>1. TypeOK'
    BY NextType
  <1>2. ASSUME NEW q \in Requests, Acquire(q)
        PROVE  ListsSound'
    <2> DEFINE new == [no |-> arrivals, wf |-> q.wf, dirs |-> q.dirs, parent |-> q.parent]
    <2>1. q.wf \in Wf /\ q.dirs \in SUBSET Dir /\ q.parent \in Wf \cup {None}
          /\ q = [wf |-> q.wf, dirs |-> q.dirs, parent |-> q.parent]
      OBVIOUS
    <2>2. PICK t \in Task : AcquireLocks(t, q.wf, q.dirs, q.parent)
      BY <1>2 DEF Acquire
    <2>3. asked' = asked \cup {q} /\ arrivals \in Nat
      BY <1>2 DEF Acquire, TypeOK, CoordinatorTypeOK
    <2>4. CASE Lists' \subseteq Lists /\ arrivals' = arrivals
      BY <2>3, <2>4 DEF ListsSound
    <2>5. CASE Lists' \subseteq Lists \cup {new} /\ arrivals' = arrivals + 1
      <3>1. \A h \in Lists : h.no < arrivals /\ h \in Hold
        BY DEF ListsSound, Lists, Kept, TypeOK, CoordinatorTypeOK, Frame
      <3>2. \A h \in Lists' : h = new \/ h \in Lists
        BY <2>5
      <3>3. \A h \in Lists' : h.no < arrivals'
        BY <2>3, <2>5, <3>1, <3>2 DEF Hold
      <3>4. \A g, h \in Lists' : g.no = h.no => g = h
        BY <2>3, <3>1, <3>2 DEF Hold, ListsSound
      <3>5. ASSUME NEW h \in Lists'
            PROVE  [wf |-> h.wf, dirs |-> h.dirs, parent |-> h.parent] \in asked'
        <4>1. CASE h = new
          <5>1. [wf |-> h.wf, dirs |-> h.dirs, parent |-> h.parent] = q
            BY <2>1, <4>1
          <5> QED
            BY <2>3, <5>1
        <4>2. CASE h \in Lists
          <5>1. [wf |-> h.wf, dirs |-> h.dirs, parent |-> h.parent] \in asked
            BY <4>2 DEF ListsSound
          <5> QED
            BY <2>3, <5>1
        <4> QED
          BY <3>2, <4>1, <4>2
      <3> QED
        BY <3>3, <3>4, <3>5 DEF ListsSound
    <2> QED
      BY <2>1, <2>2, <2>4, <2>5, AcquireLocksLists DEF TypeOK
  <1>3. ASSUME ~ \E q \in Requests : Acquire(q)
        PROVE  ListsSound'
    <2>1. Lists' \subseteq Lists /\ arrivals' = arrivals /\ asked' = asked
      BY <1>3, OthersKeepLists
    <2> QED
      BY <2>1 DEF ListsSound
  <1> QED
    BY <1>1, <1>2, <1>3

\* The lists the handlers scan hold requests that were made, in arrival order.
THEOREM ListsStaySound == Spec => []ListsSound
  <1>1. OInit => Inv
    <2>1. OInit => Lists = {}
      BY DEF OInit, Init, Lists, Kept, Idle
    <2> QED
      BY <2>1, InitType DEF OInit, TypeOK, Inv, ListsSound
  <1>2. Inv /\ [Next]_vars => Inv'
    BY NextInv
  <1>3. Inv => ListsSound
    BY DEF Inv
  <1> QED
    BY <1>1, <1>2, <1>3, PTL DEF Spec

-----------------------------------------------------------------------------
(* The coordinator implements the lock table.                              *)

AskedFor(h) == [wf |-> h.wf, dirs |-> h.dirs, parent |-> h.parent]

\* A segment of the grant scan on lock table lk leaves lk, grants one request
\* that was made, or (when it gets stuck) leaves the locks alone.
LEMMA GrantScanStep ==
  ASSUME NEW t \in Task, NEW f \in Frame, FiniteFrame(f),
         NEW lk \in [Dir -> Wf \cup {None}],
         NEW q \in SUBSET Hold, IsFiniteSet(q), NEW ts,
         \A h \in q \cup f.snap : AskedFor(h) \in asked,
         GrantScan(t, f, lk, q, ts)
  PROVE  \/ locks' = lk
         \/ \E r \in asked : T!Grantable(r, lk) /\ locks' = T!Grant(r, lk)
         \/ locks' = locks
  <1> DEFINE list == Seen(f, q)
             unblocked == {h \in Ahead(list, f.at) : AllFree(h, lk)}
  <1>1. list \subseteq q \cup f.snap /\ list \in SUBSET Hold /\ IsFiniteSet(list)
    BY DEF Seen, Frame, FiniteFrame
  <1>2. unblocked \subseteq list
    BY <1>1, AheadType
  <1>3. ASSUME NEW h \in unblocked, locks' = Claim(lk, h.dirs, h.wf)
        PROVE  \E r \in asked : T!Grantable(r, lk) /\ locks' = T!Grant(r, lk)
    <2>1. h \in Hold /\ AskedFor(h) \in asked /\ AllFree(h, lk)
      BY <1>1, <1>2
    <2>2. AskedFor(h).wf = h.wf /\ AskedFor(h).dirs = h.dirs
      BY DEF AskedFor
    <2>3. T!Grantable(AskedFor(h), lk)
      BY <2>1, <2>2 DEF AllFree, T!Grantable
    <2>4. Claim(lk, h.dirs, h.wf) = T!Grant(AskedFor(h), lk)
      BY <2>1, <2>2 DEF AllFree, Claim, T!Grant
    <2> QED
      BY <1>3, <2>1, <2>3, <2>4
  <1> QED
    BY <1>3 DEF GrantScan

\* A release by r followed by a segment of the scan is a step of the table; so
\* is a segment without a release (r = None).
LEMMA ReleaseStep ==
  ASSUME Inv, NEW t \in Task, NEW f \in Frame, FiniteFrame(f),
         NEW r \in Wf \cup {None}, NEW ds \in SUBSET Dir,
         NEW q \in SUBSET Hold, IsFiniteSet(q), NEW ts,
         \A h \in q \cup f.snap : AskedFor(h) \in asked,
         GrantScan(t, f, Drop(locks, ds, r), q, ts),
         UNCHANGED asked
  PROVE  [T!Next]_<<locks, asked>>
  <1> DEFINE lk == Drop(locks, ds, r)
             R == {d \in ds : locks[d] = r}
  <1>1. lk \in [Dir -> Wf \cup {None}] /\ locks \in [Dir -> Wf \cup {None}]
    BY DropType DEF Inv, TypeOK, CoordinatorTypeOK
  <1>2. lk = T!Free(R)
    BY <1>1 DEF Drop, T!Free
  <1>3. R \in SUBSET Dir /\ \A d \in R : locks[d] = r
    OBVIOUS
  <1>4. r = None => lk = locks
    BY <1>1 DEF Drop
  <1> HIDE DEF lk, R
  <1>5. \/ locks' = lk
        \/ \E a \in asked : T!Grantable(a, lk) /\ locks' = T!Grant(a, lk)
        \/ locks' = locks
    BY <1>1, GrantScanStep DEF lk
  <1>6. CASE locks' = locks
    BY <1>6
  <1>7. CASE r \in Wf /\ (\/ locks' = lk
                          \/ \E a \in asked : T!Grantable(a, lk) /\ locks' = T!Grant(a, lk))
    <2>1. T!Release(r, R)
      BY <1>2, <1>3, <1>7 DEF T!Release
    <2> QED
      BY <1>3, <1>7, <2>1 DEF T!Next
  <1>8. CASE r = None /\ \E a \in asked : T!Grantable(a, lk) /\ locks' = T!Grant(a, lk)
    <2>1. T!Serve
      BY <1>4, <1>8 DEF T!Serve
    <2> QED
      BY <2>1 DEF T!Next
  <1> QED
    BY <1>4, <1>5, <1>6, <1>7, <1>8

\* acquire_locks asks.
LEMMA AcquireStep ==
  ASSUME Inv, NEW q \in Requests, Acquire(q)
  PROVE  T!Next
  <1> USE OpenAssumption
  <1>1. q \in T!Request /\ q.wf \in Wf /\ q.dirs \in SUBSET Dir
    BY DEF T!Request
  <1>2. PICK t \in Task : AcquireLocks(t, q.wf, q.dirs, q.parent)
    BY DEF Acquire
  <1> DEFINE blocked == {d \in q.dirs : locks[d] \notin {None, q.parent}}
  <1>3. asked' = asked \cup {q}
    BY DEF Acquire
  <1>4. CASE blocked = {}
    <2>1. locks' = Claim(locks, {d \in q.dirs : locks[d] = None}, q.wf)
      BY <1>2, <1>4 DEF AcquireLocks
    <2>2. T!Grantable(q, locks) /\ locks' = T!Grant(q, locks)
      BY <1>4, <2>1 DEF T!Grantable, T!Grant, Claim
    <2>3. T!Ask(q)
      BY <1>3, <2>2 DEF T!Ask
    <2> QED
      BY <1>1, <2>3 DEF T!Next
  <1>5. CASE blocked # {}
    <2>1. locks' = locks
      BY <1>2, <1>5 DEF AcquireLocks
    <2>2. T!Ask(q)
      BY <1>3, <2>1 DEF T!Ask
    <2> QED
      BY <1>1, <2>2 DEF T!Next
  <1> QED
    BY <1>4, <1>5

\* The last step of the abort sweep releases the requester's directories.
LEMMA AbortSweepStep ==
  ASSUME Inv, NEW t \in Task, NEW f \in Frame, FiniteFrame(f),
         f.snap \cup f.remaining \subseteq Lists,
         AbortSweep(t, f), UNCHANGED asked
  PROVE  [T!Next]_<<locks, asked>>
  <1> DEFINE list == Seen(f, hold_queue)
             todo == Ahead(list, f.at)
             q == f.remaining \cup todo
             ts == Detach([tasks EXCEPT ![t] = Idle])
  <1>1. list \in SUBSET Hold /\ IsFiniteSet(list) /\ list \subseteq Lists
    BY DEF Seen, FiniteFrame, Frame, Inv, TypeOK, CoordinatorTypeOK, Lists
  <1>2. todo \subseteq list /\ IsFiniteSet(todo)
    BY <1>1, AheadType
  <1>3. q \in SUBSET Hold /\ IsFiniteSet(q) /\ q \subseteq Lists
    BY <1>1, <1>2, FS_Union DEF Frame, FiniteFrame
  <1>4. f.by \in Wf \cup {None} /\ f.dirs \in SUBSET Dir
    BY DEF Frame
  <1>5. \A h \in q \cup NewScan.snap : AskedFor(h) \in asked
    BY <1>3 DEF Inv, ListsSound, AskedFor, NewScan, Idle
  <1>6. CASE UNCHANGED locks
    BY <1>6
  <1>7. CASE GrantScan(t, NewScan, Drop(locks, f.dirs, f.by), q, ts)
    <2> HIDE DEF q, ts
    <2> QED
      BY <1>3, <1>4, <1>5, <1>7, NewScanType, ReleaseStep
  <1> QED
    BY <1>6, <1>7 DEF AbortSweep

\* Every step of the coordinator is a step of the lock table or leaves it alone.
LEMMA NextStep ==
  ASSUME Inv, [Next]_vars
  PROVE  [T!Next]_<<locks, asked>>
  <1> USE OpenAssumption
  <1>1. FrameMap(tasks) /\ hold_queue \in SUBSET Hold /\ IsFiniteSet(hold_queue)
        /\ locks \in [Dir -> Wf \cup {None}] /\ CoordinatorTypeOK
    BY DEF Inv, TypeOK, CoordinatorTypeOK, FrameMap
  <1>2. \A h \in Lists : AskedFor(h) \in asked
    BY DEF Inv, ListsSound, AskedFor
  <1>3. ASSUME NEW q \in Requests, Acquire(q)
        PROVE  [T!Next]_<<locks, asked>>
    BY <1>3, AcquireStep
  <1>4. ASSUME NEW r \in Wf, NEW ds \in DirSets, Receive(r, ds)
        PROVE  [T!Next]_<<locks, asked>>
    <2>1. ds \in SUBSET Dir /\ UNCHANGED asked
      BY <1>4 DEF Receive
    <2>2. CASE ReleaseHold(r)
      BY <2>1, <2>2 DEF ReleaseHold
    <2>3. ASSUME NEW t \in Task, ReleaseLocks(t, r, ds)
          PROVE  [T!Next]_<<locks, asked>>
      <3> DEFINE dirs == IF ds = {} THEN Dir ELSE ds
      <3>1. GrantScan(t, NewScan, Drop(locks, dirs, r), hold_queue, tasks)
        BY <2>3 DEF ReleaseLocks
      <3>2. \A h \in hold_queue \cup NewScan.snap : AskedFor(h) \in asked
        BY <1>2 DEF NewScan, Idle, Lists
      <3>3. dirs \in SUBSET Dir
        BY <2>1
      <3> HIDE DEF dirs
      <3> QED
        BY <1>1, <2>1, <3>1, <3>2, <3>3, NewScanType, ReleaseStep
    <2>4. ASSUME NEW t \in Task, AbortQueuedForDirs(t, r, ds)
          PROVE  [T!Next]_<<locks, asked>>
      <3> DEFINE g == [Idle EXCEPT !.pc = "abort", !.live = TRUE, !.by = r, !.dirs = ds]
      <3>1. g \in Frame /\ FiniteFrame(g) /\ g.snap = {} /\ g.remaining = {}
        BY <2>1, FS_EmptySet DEF Idle, Frame, FiniteFrame
      <3>2. AbortSweep(t, g)
        BY <2>4 DEF AbortQueuedForDirs
      <3> HIDE DEF g
      <3> QED
        BY <2>1, <3>1, <3>2, AbortSweepStep
    <2> QED
      BY <1>4, <2>2, <2>3, <2>4 DEF Receive
  <1>5. ASSUME NEW t \in Task, Progress(t)
        PROVE  [T!Next]_<<locks, asked>>
    <2>1. UNCHANGED asked
      BY <1>5 DEF Progress
    <2>2. tasks[t] \in Frame /\ FiniteFrame(tasks[t])
          /\ tasks[t].snap \cup tasks[t].remaining \subseteq Lists
      BY <1>1 DEF FrameMap, Lists, Kept
    <2>3. CASE \E ok \in BOOLEAN : Deliver(t, ok)
      BY <2>1, <2>3 DEF Deliver
    <2>4. CASE ResumeAcquire(t) \/ FailRun(t)
      BY <2>1, <2>4 DEF ResumeAcquire, FailRun
    <2>5. CASE ResumeScan(t)
      <3>1. GrantScan(t, tasks[t], Drop(locks, {}, None), hold_queue, tasks)
        <4>1. Drop(locks, {}, None) = locks
          BY <1>1 DEF Drop
        <4> QED
          BY <2>5, <4>1 DEF ResumeScan
      <3>2. \A h \in hold_queue \cup tasks[t].snap : AskedFor(h) \in asked
        BY <1>2, <2>2 DEF Lists
      <3> QED
        BY <1>1, <2>1, <2>2, <3>1, <3>2, ReleaseStep
    <2>6. CASE ResumeAbort(t)
      BY <2>1, <2>2, <2>6, AbortSweepStep DEF ResumeAbort
    <2> QED
      BY <1>5, <2>3, <2>4, <2>5, <2>6 DEF Progress, Resume
  <1>6. CASE Admin
    <2>1. T!Wipe
      BY <1>6 DEF Admin, ResetState, Restart, T!Wipe
    <2> QED
      BY <2>1 DEF T!Next
  <1>7. CASE UNCHANGED vars
    BY <1>7 DEF vars, coordinator
  <1> QED
    BY <1>3, <1>4, <1>5, <1>6, <1>7 DEF Next

\* The detailed coordinator implements LockTable: whatever the interleaving, the
\* withdrawals, aborts, resets and restarts, a lock passes only through its
\* holder's release and a grant answers one request as a whole.
THEOREM ImplementsLockTable == Spec => Refinement
  <1>1. OInit => Inv
    <2>1. OInit => Lists = {}
      BY DEF OInit, Init, Lists, Kept, Idle
    <2> QED
      BY <2>1, InitType DEF OInit, TypeOK, Inv, ListsSound
  <1>2. Inv /\ [Next]_vars => Inv'
    BY NextInv
  <1>3. OInit => T!Init
    BY DEF OInit, Init, T!Init
  <1>4. Inv /\ [Next]_vars => [T!Next]_<<locks, asked>>
    BY NextStep
  <1> QED
    BY <1>1, <1>2, <1>3, <1>4, PTL DEF Spec, Refinement, T!Spec
=============================================================================

------------------------- MODULE CoordinatorProofs -------------------------
(***************************************************************************)
(* Lemmas about the coordinator's handlers, for every set of workflows,    *)
(* directories and handler slots: what each of them does to the type of    *)
(* the coordinator's state, and which holders, requests and suspended      *)
(* handlers it changes.                                                    *)
(***************************************************************************)
EXTENDS Coordinator, FiniteSetTheorems, TLAPS

FrameMap(ts) == ts \in [Task -> Frame] /\ \A u \in Task : FiniteFrame(ts[u])

\* The frame of a handler that is not suspended is a frame.
LEMMA IdleType == Idle \in Frame /\ FiniteFrame(Idle)
  BY FS_EmptySet DEF Idle, Frame, FiniteFrame

\* The position of an entry in a finite list is a number.
LEMMA PositionType ==
  ASSUME NEW list, IsFiniteSet(list), NEW h
  PROVE  Position(h, list) \in Nat
  <1>1. {g \in list : g.no <= h.no} \in SUBSET list
    OBVIOUS
  <1> QED
    BY <1>1, FS_Subset, FS_CardinalityType DEF Position

\* What an iterator still has to visit is part of the list.
LEMMA AheadType ==
  ASSUME NEW list, IsFiniteSet(list), NEW n
  PROVE  Ahead(list, n) \subseteq list /\ IsFiniteSet(Ahead(list, n))
  <1>1. Ahead(list, n) \subseteq list
    BY DEF Ahead
  <1> QED
    BY <1>1, FS_Subset

\* Rebinding self._hold_queue leaves every suspended handler a finite list.
LEMMA DetachType ==
  ASSUME hold_queue \subseteq Hold, IsFiniteSet(hold_queue), NEW ts, FrameMap(ts)
  PROVE  FrameMap(Detach(ts))
  <1>1. ASSUME NEW t \in Task
        PROVE  Detach(ts)[t] \in Frame /\ FiniteFrame(Detach(ts)[t])
    <2>1. ts[t] \in Frame /\ FiniteFrame(ts[t])
      BY DEF FrameMap
    <2>2. CASE ts[t].live
      <3>1. Detach(ts)[t] = [ts[t] EXCEPT !.live = FALSE, !.snap = hold_queue]
        BY <2>2 DEF Detach
      <3> QED
        BY <2>1, <3>1 DEF Frame, FiniteFrame
    <2>3. CASE ~ts[t].live
      BY <2>1, <2>3 DEF Detach
    <2> QED
      BY <2>2, <2>3
  <1> QED
    BY <1>1 DEF FrameMap, Detach

\* The grant scan keeps the type of the coordinator's state.
LEMMA GrantScanType ==
  ASSUME CoordinatorTypeOK,
         NEW t \in Task, NEW f \in Frame, FiniteFrame(f),
         NEW lk \in [Dir -> Wf \cup {None}],
         NEW q \in SUBSET Hold, IsFiniteSet(q),
         NEW ts, FrameMap(ts),
         GrantScan(t, f, lk, q, ts)
  PROVE  CoordinatorTypeOK'
  <1> DEFINE list == Seen(f, q)
             unblocked == {h \in Ahead(list, f.at) : AllFree(h, lk)}
  <1>1. list \in SUBSET Hold /\ IsFiniteSet(list)
    BY DEF Seen, FiniteFrame, Frame
  <1>2. unblocked \subseteq list
    BY <1>1, AheadType
  <1>3. arrivals' \in Nat /\ boots' \in Nat
    BY DEF GrantScan, CoordinatorTypeOK
  <1>4. ASSUME NEW h \in unblocked,
               locks' = Claim(lk, h.dirs, h.wf),
               tasks' = [ts EXCEPT ![t] =
                               [f EXCEPT !.to = h.wf, !.sig = "sent",
                                         !.at = Position(h, list),
                                         !.triggered = @ \cup {h}]],
               hold_queue' = q,
               UNCHANGED status
        PROVE  CoordinatorTypeOK'
    <2>1. h \in Hold
      BY <1>1, <1>2
    <2>2. locks' \in [Dir -> Wf \cup {None}]
      BY <1>4, <2>1 DEF Claim, Hold
    <2>3. Position(h, list) \in Nat
      BY <1>1, PositionType
    <2> DEFINE g == [f EXCEPT !.to = h.wf, !.sig = "sent", !.at = Position(h, list),
                              !.triggered = @ \cup {h}]
    <2>4. g \in Frame /\ FiniteFrame(g)
      <3> HIDE DEF list
      <3> QED
        BY <2>1, <2>3 DEF Frame, FiniteFrame, Hold
    <2>5. FrameMap(tasks')
      <3> HIDE DEF g
      <3> QED
        BY <1>4, <2>4 DEF FrameMap, g
    <2> QED
      BY <1>3, <1>4, <2>2, <2>5 DEF CoordinatorTypeOK, FrameMap
  <1>5. ASSUME locks' = lk,
               hold_queue' = RemoveEach(f.triggered, q),
               tasks' = [ts EXCEPT ![t] = Idle],
               UNCHANGED status
        PROVE  CoordinatorTypeOK'
    <2>1. hold_queue' \subseteq Hold /\ IsFiniteSet(hold_queue')
      <3>1. RemoveEach(f.triggered, q) \in SUBSET q
        BY DEF RemoveEach
      <3> QED
        BY <1>5, <3>1, FS_Subset
    <2>2. FrameMap(tasks')
      BY <1>5, IdleType DEF FrameMap
    <2> QED
      BY <1>3, <1>5, <2>1, <2>2 DEF CoordinatorTypeOK, FrameMap
  <1>6. ASSUME status' = "stuck", UNCHANGED <<locks, hold_queue, tasks>>
        PROVE  CoordinatorTypeOK'
    BY <1>3, <1>6 DEF CoordinatorTypeOK
  <1> QED
    BY <1>4, <1>5, <1>6 DEF GrantScan

\* What a release leaves, and a slot that changes, keep their types.
LEMMA DropType ==
  ASSUME NEW lk \in [Dir -> Wf \cup {None}], NEW ds, NEW r
  PROVE  Drop(lk, ds, r) \in [Dir -> Wf \cup {None}]
  BY DEF Drop

LEMMA SlotType ==
  ASSUME CoordinatorTypeOK, NEW t \in Task, NEW f \in Frame, FiniteFrame(f)
  PROVE  FrameMap([tasks EXCEPT ![t] = f])
  BY DEF CoordinatorTypeOK, FrameMap

LEMMA NewScanType == NewScan \in Frame /\ FiniteFrame(NewScan)
  BY FS_EmptySet DEF NewScan, Idle, Frame, FiniteFrame

\* acquire_locks keeps the type of the coordinator's state.
LEMMA AcquireLocksType ==
  ASSUME CoordinatorTypeOK, NEW t \in Task, NEW r \in Wf, NEW ds \in SUBSET Dir,
         NEW p \in Wf \cup {None}, AcquireLocks(t, r, ds, p)
  PROVE  CoordinatorTypeOK'
  <1> DEFINE blocked == {d \in ds : locks[d] \notin {None, p}}
             g == [Idle EXCEPT !.pc = "acquire", !.to = r, !.sig = "sent"]
             h == [no |-> arrivals, wf |-> r, dirs |-> ds, parent |-> p]
  <1>1. CASE blocked = {}
    <2>1. g \in Frame /\ FiniteFrame(g)
      BY FS_EmptySet DEF Idle, Frame, FiniteFrame
    <2>2. locks' = Claim(locks, {d \in ds : locks[d] = None}, r)
          /\ tasks' = [tasks EXCEPT ![t] = g]
          /\ UNCHANGED <<hold_queue, arrivals, status, boots>>
      BY <1>1 DEF AcquireLocks
    <2>3. locks' \in [Dir -> Wf \cup {None}]
      BY <2>2 DEF Claim, CoordinatorTypeOK
    <2>4. FrameMap(tasks')
      BY <2>1, <2>2, SlotType
    <2> QED
      BY <2>2, <2>3, <2>4 DEF CoordinatorTypeOK, FrameMap
  <1>2. CASE blocked # {}
    <2>1. hold_queue' = hold_queue \cup {h} /\ arrivals' = arrivals + 1
          /\ UNCHANGED <<locks, tasks, status, boots>>
      BY <1>2 DEF AcquireLocks, NewHold
    <2>2. h \in Hold
      BY DEF Hold, CoordinatorTypeOK
    <2>3. hold_queue' \subseteq Hold /\ IsFiniteSet(hold_queue')
      BY <2>1, <2>2, FS_AddElement DEF CoordinatorTypeOK
    <2> QED
      BY <2>1, <2>3 DEF CoordinatorTypeOK
  <1> QED
    BY <1>1, <1>2

\* release_locks keeps the type of the coordinator's state.
LEMMA ReleaseLocksType ==
  ASSUME CoordinatorTypeOK, NEW t \in Task, NEW r \in Wf, NEW ds \in SUBSET Dir,
         ReleaseLocks(t, r, ds)
  PROVE  CoordinatorTypeOK'
  <1> DEFINE lk == Drop(locks, IF ds = {} THEN Dir ELSE ds, r)
  <1>1. lk \in [Dir -> Wf \cup {None}]
    BY DropType DEF CoordinatorTypeOK
  <1>2. GrantScan(t, NewScan, lk, hold_queue, tasks)
    BY DEF ReleaseLocks
  <1>3. FrameMap(tasks) /\ hold_queue \in SUBSET Hold /\ IsFiniteSet(hold_queue)
    BY DEF CoordinatorTypeOK, FrameMap
  <1> HIDE DEF lk
  <1> QED
    BY <1>1, <1>2, <1>3, NewScanType, GrantScanType

\* The abort sweep keeps the type of the coordinator's state.
LEMMA AbortSweepType ==
  ASSUME CoordinatorTypeOK, NEW t \in Task, NEW f \in Frame, FiniteFrame(f),
         AbortSweep(t, f)
  PROVE  CoordinatorTypeOK'
  <1> DEFINE list == Seen(f, hold_queue)
             todo == Ahead(list, f.at)
             overlapping == {h \in todo : h.dirs \cap f.dirs # {}}
  <1>1. list \in SUBSET Hold /\ IsFiniteSet(list)
    BY DEF Seen, FiniteFrame, Frame, CoordinatorTypeOK
  <1>2. todo \in SUBSET Hold /\ IsFiniteSet(todo)
    BY <1>1, AheadType
  <1>3. ASSUME NEW h \in overlapping,
               tasks' = [tasks EXCEPT ![t] =
                            [f EXCEPT !.to = h.wf, !.sig = "sent",
                                      !.at = Position(h, list),
                                      !.remaining = @ \cup {g \in todo : g.no < h.no}]],
               UNCHANGED <<locks, hold_queue, arrivals, status, boots>>
        PROVE  CoordinatorTypeOK'
    <2> DEFINE kept == f.remaining \cup {g \in todo : g.no < h.no}
               g2 == [f EXCEPT !.to = h.wf, !.sig = "sent", !.at = Position(h, list),
                               !.remaining = @ \cup {g \in todo : g.no < h.no}]
    <2>1. h \in Hold
      BY <1>2
    <2>2. Position(h, list) \in Nat
      BY <1>1, PositionType
    <2>3. kept \in SUBSET Hold /\ IsFiniteSet(kept)
      <3>1. {g \in todo : g.no < h.no} \in SUBSET todo
        OBVIOUS
      <3>2. IsFiniteSet({g \in todo : g.no < h.no})
        BY <1>2, <3>1, FS_Subset
      <3>3. f.remaining \in SUBSET Hold /\ IsFiniteSet(f.remaining)
        BY DEF Frame, FiniteFrame
      <3> QED
        BY <1>2, <3>1, <3>2, <3>3, FS_Union
    <2>4. g2 \in Frame /\ FiniteFrame(g2)
      <3> HIDE DEF list, todo
      <3> QED
        BY <2>1, <2>2, <2>3 DEF Frame, FiniteFrame, Hold
    <2>5. tasks' = [tasks EXCEPT ![t] = g2]
      BY <1>3
    <2>6. FrameMap(tasks')
      <3> HIDE DEF g2
      <3> QED
        BY <2>4, <2>5, SlotType
    <2> QED
      BY <1>3, <2>6 DEF CoordinatorTypeOK, FrameMap
  <1>4. ASSUME GrantScan(t, NewScan, Drop(locks, f.dirs, f.by), f.remaining \cup todo,
                         Detach([tasks EXCEPT ![t] = Idle]))
        PROVE  CoordinatorTypeOK'
    <2> DEFINE lk == Drop(locks, f.dirs, f.by)
               q == f.remaining \cup todo
               ts == Detach([tasks EXCEPT ![t] = Idle])
    <2>1. lk \in [Dir -> Wf \cup {None}]
      BY DropType DEF CoordinatorTypeOK
    <2>2. q \in SUBSET Hold /\ IsFiniteSet(q)
      BY <1>2, FS_Union DEF Frame, FiniteFrame
    <2>3. FrameMap(ts)
      BY IdleType, SlotType, DetachType DEF CoordinatorTypeOK
    <2> HIDE DEF lk, q, ts
    <2>4. GrantScan(t, NewScan, lk, q, ts)
      BY <1>4 DEF lk, q, ts
    <2> QED
      BY <2>1, <2>2, <2>3, <2>4, NewScanType, GrantScanType
  <1> QED
    BY <1>3, <1>4 DEF AbortSweep

\* abort_queued_for_dirs keeps the type of the coordinator's state.
LEMMA AbortQueuedForDirsType ==
  ASSUME CoordinatorTypeOK, NEW t \in Task, NEW r \in Wf, NEW ds \in SUBSET Dir,
         AbortQueuedForDirs(t, r, ds)
  PROVE  CoordinatorTypeOK'
  <1> DEFINE g == [Idle EXCEPT !.pc = "abort", !.live = TRUE, !.by = r, !.dirs = ds]
  <1>1. g \in Frame /\ FiniteFrame(g)
    BY FS_EmptySet DEF Idle, Frame, FiniteFrame
  <1>2. AbortSweep(t, g)
    BY DEF AbortQueuedForDirs
  <1> HIDE DEF g
  <1> QED
    BY <1>1, <1>2, AbortSweepType

\* The handlers without an await keep the type of the coordinator's state.
LEMMA ReleaseHoldType ==
  ASSUME CoordinatorTypeOK, NEW r, ReleaseHold(r)
  PROVE  CoordinatorTypeOK'
  <1>1. hold_queue' \in SUBSET hold_queue
    BY DEF ReleaseHold
  <1>2. hold_queue' \subseteq Hold /\ IsFiniteSet(hold_queue')
    BY <1>1, FS_Subset DEF CoordinatorTypeOK
  <1>3. FrameMap(tasks) /\ hold_queue \subseteq Hold /\ IsFiniteSet(hold_queue)
    BY DEF CoordinatorTypeOK, FrameMap
  <1>4. FrameMap(tasks')
    BY <1>3, DetachType DEF ReleaseHold
  <1> QED
    BY <1>2, <1>4 DEF CoordinatorTypeOK, FrameMap, ReleaseHold

LEMMA ResetStateType ==
  ASSUME CoordinatorTypeOK, ResetState
  PROVE  CoordinatorTypeOK'
  <1>1. FrameMap(tasks) /\ hold_queue \subseteq Hold /\ IsFiniteSet(hold_queue)
    BY DEF CoordinatorTypeOK, FrameMap
  <1>2. FrameMap(tasks')
    BY <1>1, DetachType DEF ResetState
  <1> QED
    BY <1>2, FS_EmptySet DEF CoordinatorTypeOK, FrameMap, ResetState

\* A new run of the coordinator starts from a state of the right type.
LEMMA RestartType ==
  ASSUME CoordinatorTypeOK, Restart
  PROVE  CoordinatorTypeOK'
  BY FS_EmptySet DEF CoordinatorTypeOK, Restart

\* Delivering a signal and resuming a handler keep it too.
LEMMA DeliverType ==
  ASSUME CoordinatorTypeOK, NEW t \in Task, NEW ok \in BOOLEAN, Deliver(t, ok)
  PROVE  CoordinatorTypeOK'
  <1> DEFINE g == [tasks[t] EXCEPT !.sig = IF ok THEN "ok" ELSE "failed"]
  <1>1. tasks[t] \in Frame /\ FiniteFrame(tasks[t])
    BY DEF CoordinatorTypeOK
  <1>2. g \in Frame /\ FiniteFrame(g)
    BY <1>1 DEF Frame, FiniteFrame
  <1>3. tasks' = [tasks EXCEPT ![t] = g]
    BY DEF Deliver
  <1>4. FrameMap(tasks')
    <2> HIDE DEF g
    <2> QED
      BY <1>2, <1>3, SlotType
  <1> QED
    BY <1>4 DEF CoordinatorTypeOK, FrameMap, Deliver

LEMMA ResumeType ==
  ASSUME CoordinatorTypeOK, NEW t \in Task, Resume(t)
  PROVE  CoordinatorTypeOK'
  <1>1. tasks[t] \in Frame /\ FiniteFrame(tasks[t])
    BY DEF CoordinatorTypeOK
  <1>2. CASE ResumeAcquire(t)
    <2>1. FrameMap(tasks')
      BY <1>2, IdleType, SlotType DEF ResumeAcquire
    <2> QED
      BY <1>2, <2>1 DEF CoordinatorTypeOK, FrameMap, ResumeAcquire
  <1>3. CASE ResumeScan(t)
    <2>1. FrameMap(tasks) /\ hold_queue \in SUBSET Hold /\ IsFiniteSet(hold_queue)
          /\ locks \in [Dir -> Wf \cup {None}]
      BY DEF CoordinatorTypeOK, FrameMap
    <2>2. GrantScan(t, tasks[t], locks, hold_queue, tasks)
      BY <1>3 DEF ResumeScan
    <2> QED
      BY <1>1, <2>1, <2>2, GrantScanType
  <1>4. CASE ResumeAbort(t)
    BY <1>1, <1>4, AbortSweepType DEF ResumeAbort
  <1>5. CASE FailRun(t)
    BY <1>5, IdleType DEF CoordinatorTypeOK, FailRun
  <1> QED
    BY <1>2, <1>3, <1>4, <1>5 DEF Resume

\* The coordinator starts in a state of the right type.
LEMMA InitType == Init => CoordinatorTypeOK
  BY IdleType, FS_EmptySet DEF Init, CoordinatorTypeOK

-----------------------------------------------------------------------------
(* Requests are neither invented nor altered: every list that is scanned   *)
(* later holds only entries of the lists of now.                           *)

\* Rebinding self._hold_queue keeps only entries there were.
LEMMA DetachLists ==
  ASSUME NEW ts, FrameMap(ts)
  PROVE  Kept(Detach(ts)) \subseteq hold_queue \cup Kept(ts)
  <1>1. ASSUME NEW t \in Task
        PROVE  Detach(ts)[t].snap \cup Detach(ts)[t].remaining
                 \subseteq hold_queue \cup ts[t].snap \cup ts[t].remaining
    <2>1. ts[t] \in Frame
      BY DEF FrameMap
    <2>2. CASE ts[t].live
      <3>1. Detach(ts)[t] = [ts[t] EXCEPT !.live = FALSE, !.snap = hold_queue]
        BY <2>2 DEF Detach
      <3> QED
        BY <2>1, <3>1 DEF Frame
    <2>3. CASE ~ts[t].live
      BY <2>3 DEF Detach
    <2> QED
      BY <2>2, <2>3
  <1> QED
    BY <1>1 DEF Kept

\* Putting a frame into a slot adds the lists of that frame only.
LEMMA SlotLists ==
  ASSUME NEW ts, FrameMap(ts), NEW t \in Task, NEW f \in Frame
  PROVE  Kept([ts EXCEPT ![t] = f]) \subseteq Kept(ts) \cup f.snap \cup f.remaining
  <1>1. ASSUME NEW u \in Task
        PROVE  [ts EXCEPT ![t] = f][u] = IF u = t THEN f ELSE ts[u]
    BY DEF FrameMap
  <1> QED
    BY <1>1 DEF Kept

\* The grant scan adds nothing to the lists it works on.
LEMMA GrantScanLists ==
  ASSUME CoordinatorTypeOK,
         NEW t \in Task, NEW f \in Frame, FiniteFrame(f),
         NEW lk, NEW q \in SUBSET Hold, IsFiniteSet(q),
         NEW ts, FrameMap(ts),
         GrantScan(t, f, lk, q, ts)
  PROVE  Lists' \subseteq Lists \cup q \cup Kept(ts) \cup f.snap \cup f.remaining
  <1> DEFINE list == Seen(f, q)
             unblocked == {h \in Ahead(list, f.at) : AllFree(h, lk)}
  <1>1. ASSUME NEW h \in unblocked,
               tasks' = [ts EXCEPT ![t] =
                               [f EXCEPT !.to = h.wf, !.sig = "sent",
                                         !.at = Position(h, list),
                                         !.triggered = @ \cup {h}]],
               hold_queue' = q
        PROVE  Lists' \subseteq q \cup Kept(ts) \cup f.snap \cup f.remaining
    <2> DEFINE g == [f EXCEPT !.to = h.wf, !.sig = "sent", !.at = Position(h, list),
                              !.triggered = @ \cup {h}]
    <2>1. list \in SUBSET Hold /\ IsFiniteSet(list)
      BY DEF Seen, FiniteFrame, Frame
    <2>2. h \in Hold /\ Position(h, list) \in Nat
      BY <2>1, AheadType, PositionType
    <2>3. g \in Frame /\ g.snap = f.snap /\ g.remaining = f.remaining
      <3> HIDE DEF list
      <3> QED
        BY <2>2 DEF Frame, Hold
    <2>4. tasks' = [ts EXCEPT ![t] = g]
      BY <1>1
    <2> HIDE DEF g
    <2>5. Kept(tasks') \subseteq Kept(ts) \cup f.snap \cup f.remaining
      BY <2>3, <2>4, SlotLists
    <2>6. Kept(tasks)' = Kept(tasks')
      BY DEF Kept
    <2> QED
      BY <1>1, <2>5, <2>6 DEF Lists
  <1>2. ASSUME hold_queue' = RemoveEach(f.triggered, q), tasks' = [ts EXCEPT ![t] = Idle]
        PROVE  Lists' \subseteq q \cup Kept(ts)
    <2>1. Kept(tasks') \subseteq Kept(ts) \cup Idle.snap \cup Idle.remaining
      BY <1>2, IdleType, SlotLists
    <2>2. Idle.snap = {} /\ Idle.remaining = {}
      BY DEF Idle
    <2>3. Kept(tasks)' = Kept(tasks')
      BY DEF Kept
    <2>4. hold_queue' \subseteq q
      BY <1>2 DEF RemoveEach
    <2> QED
      BY <2>1, <2>2, <2>3, <2>4 DEF Lists
  <1>3. ASSUME UNCHANGED <<hold_queue, tasks>>
        PROVE  Lists' = Lists
    BY <1>3 DEF Lists, Kept
  <1> QED
    BY <1>1, <1>2, <1>3 DEF GrantScan

\* acquire_locks adds at most the request it is about.
LEMMA AcquireLocksLists ==
  ASSUME CoordinatorTypeOK, NEW t \in Task, NEW r \in Wf, NEW ds \in SUBSET Dir,
         NEW p \in Wf \cup {None}, AcquireLocks(t, r, ds, p)
  PROVE  \/ Lists' \subseteq Lists /\ arrivals' = arrivals
         \/ /\ Lists' \subseteq
                  Lists \cup {[no |-> arrivals, wf |-> r, dirs |-> ds, parent |-> p]}
            /\ arrivals' = arrivals + 1
  <1> DEFINE blocked == {d \in ds : locks[d] \notin {None, p}}
             g == [Idle EXCEPT !.pc = "acquire", !.to = r, !.sig = "sent"]
  <1>1. CASE blocked = {}
    <2>1. g \in Frame /\ g.snap = {} /\ g.remaining = {}
      BY DEF Idle, Frame
    <2>2. tasks' = [tasks EXCEPT ![t] = g] /\ UNCHANGED <<hold_queue, arrivals>>
      BY <1>1 DEF AcquireLocks
    <2>3. FrameMap(tasks)
      BY DEF CoordinatorTypeOK, FrameMap
    <2> HIDE DEF g
    <2>4. Kept(tasks') \subseteq Kept(tasks)
      BY <2>1, <2>2, <2>3, SlotLists
    <2> QED
      BY <2>2, <2>4 DEF Lists, Kept
  <1>2. CASE blocked # {}
    BY <1>2 DEF AcquireLocks, NewHold, Lists, Kept
  <1> QED
    BY <1>1, <1>2

\* The other handlers add none.
LEMMA ReleaseLocksLists ==
  ASSUME CoordinatorTypeOK, NEW t \in Task, NEW r \in Wf, NEW ds \in SUBSET Dir,
         ReleaseLocks(t, r, ds)
  PROVE  Lists' \subseteq Lists
  <1> DEFINE lk == Drop(locks, IF ds = {} THEN Dir ELSE ds, r)
  <1>1. GrantScan(t, NewScan, lk, hold_queue, tasks)
    BY DEF ReleaseLocks
  <1>2. FrameMap(tasks) /\ hold_queue \in SUBSET Hold /\ IsFiniteSet(hold_queue)
    BY DEF CoordinatorTypeOK, FrameMap
  <1>3. NewScan.snap = {} /\ NewScan.remaining = {}
    BY DEF NewScan, Idle
  <1> HIDE DEF lk
  <1>4. Lists' \subseteq Lists \cup hold_queue \cup Kept(tasks) \cup NewScan.snap
                           \cup NewScan.remaining
    BY <1>1, <1>2, NewScanType, GrantScanLists
  <1> QED
    BY <1>3, <1>4 DEF Lists

LEMMA AbortSweepLists ==
  ASSUME CoordinatorTypeOK, NEW t \in Task, NEW f \in Frame, FiniteFrame(f),
         AbortSweep(t, f)
  PROVE  Lists' \subseteq Lists \cup f.snap \cup f.remaining
  <1> DEFINE list == Seen(f, hold_queue)
             todo == Ahead(list, f.at)
             overlapping == {h \in todo : h.dirs \cap f.dirs # {}}
  <1>1. list \in SUBSET Hold /\ IsFiniteSet(list) /\ list \subseteq hold_queue \cup f.snap
    BY DEF Seen, FiniteFrame, Frame, CoordinatorTypeOK
  <1>2. todo \subseteq list /\ IsFiniteSet(todo)
    BY <1>1, AheadType
  <1>3. FrameMap(tasks)
    BY DEF CoordinatorTypeOK, FrameMap
  <1>4. ASSUME NEW h \in overlapping,
               tasks' = [tasks EXCEPT ![t] =
                            [f EXCEPT !.to = h.wf, !.sig = "sent",
                                      !.at = Position(h, list),
                                      !.remaining = @ \cup {g \in todo : g.no < h.no}]],
               UNCHANGED hold_queue
        PROVE  Lists' \subseteq Lists \cup f.snap \cup f.remaining
    <2> DEFINE kept == {g \in todo : g.no < h.no}
               g2 == [f EXCEPT !.to = h.wf, !.sig = "sent", !.at = Position(h, list),
                               !.remaining = @ \cup {g \in todo : g.no < h.no}]
    <2>1. h \in Hold /\ Position(h, list) \in Nat /\ kept \in SUBSET Hold
      BY <1>1, <1>2, PositionType
    <2>2. g2 \in Frame /\ g2.snap = f.snap /\ g2.remaining = f.remaining \cup kept
      <3> HIDE DEF list, todo
      <3> QED
        BY <2>1 DEF Frame, Hold
    <2>3. tasks' = [tasks EXCEPT ![t] = g2]
      BY <1>4
    <2>4. kept \subseteq hold_queue \cup f.snap
      BY <1>1, <1>2
    <2> HIDE DEF g2, kept
    <2>5. Kept(tasks') \subseteq Kept(tasks) \cup f.snap \cup f.remaining \cup kept
      BY <1>3, <2>2, <2>3, SlotLists
    <2>6. Kept(tasks)' = Kept(tasks')
      BY DEF Kept
    <2> QED
      BY <1>4, <2>4, <2>5, <2>6 DEF Lists
  <1>5. ASSUME GrantScan(t, NewScan, Drop(locks, f.dirs, f.by), f.remaining \cup todo,
                         Detach([tasks EXCEPT ![t] = Idle]))
        PROVE  Lists' \subseteq Lists \cup f.snap \cup f.remaining
    <2> DEFINE lk == Drop(locks, f.dirs, f.by)
               q == f.remaining \cup todo
               ts1 == [tasks EXCEPT ![t] = Idle]
               ts == Detach(ts1)
    <2>1. q \in SUBSET Hold /\ IsFiniteSet(q)
      BY <1>1, <1>2, FS_Union DEF Frame, FiniteFrame
    <2>2. FrameMap(ts1) /\ FrameMap(ts)
      BY IdleType, SlotType, DetachType DEF CoordinatorTypeOK
    <2>3. Kept(ts1) \subseteq Kept(tasks)
      <3>1. Idle.snap = {} /\ Idle.remaining = {}
        BY DEF Idle
      <3> QED
        BY <1>3, <3>1, IdleType, SlotLists
    <2>4. Kept(ts) \subseteq hold_queue \cup Kept(ts1)
      BY <2>2, DetachLists
    <2>5. q \subseteq Lists \cup f.snap \cup f.remaining
      BY <1>1, <1>2 DEF Lists
    <2>6. NewScan.snap = {} /\ NewScan.remaining = {}
      BY DEF NewScan, Idle
    <2> HIDE DEF lk, q, ts1, ts
    <2>7. GrantScan(t, NewScan, lk, q, ts)
      BY <1>5 DEF lk, q, ts1, ts
    <2>8. Lists' \subseteq Lists \cup q \cup Kept(ts) \cup NewScan.snap \cup NewScan.remaining
      BY <2>1, <2>2, <2>7, NewScanType, GrantScanLists
    <2> QED
      BY <2>3, <2>4, <2>5, <2>6, <2>8 DEF Lists
  <1> QED
    BY <1>4, <1>5 DEF AbortSweep

LEMMA AbortQueuedForDirsLists ==
  ASSUME CoordinatorTypeOK, NEW t \in Task, NEW r \in Wf, NEW ds \in SUBSET Dir,
         AbortQueuedForDirs(t, r, ds)
  PROVE  Lists' \subseteq Lists
  <1> DEFINE g == [Idle EXCEPT !.pc = "abort", !.live = TRUE, !.by = r, !.dirs = ds]
  <1>1. g \in Frame /\ FiniteFrame(g) /\ g.snap = {} /\ g.remaining = {}
    BY FS_EmptySet DEF Idle, Frame, FiniteFrame
  <1>2. AbortSweep(t, g)
    BY DEF AbortQueuedForDirs
  <1> HIDE DEF g
  <1> QED
    BY <1>1, <1>2, AbortSweepLists

LEMMA ReleaseHoldLists ==
  ASSUME CoordinatorTypeOK, NEW r, ReleaseHold(r)
  PROVE  Lists' \subseteq Lists
  <1>1. FrameMap(tasks)
    BY DEF CoordinatorTypeOK, FrameMap
  <1>2. Kept(tasks') \subseteq hold_queue \cup Kept(tasks)
    BY <1>1, DetachLists DEF ReleaseHold
  <1>3. Kept(tasks)' = Kept(tasks')
    BY DEF Kept
  <1> QED
    BY <1>2, <1>3 DEF Lists, ReleaseHold

LEMMA ResetStateLists ==
  ASSUME CoordinatorTypeOK, ResetState
  PROVE  Lists' \subseteq Lists
  <1>1. FrameMap(tasks)
    BY DEF CoordinatorTypeOK, FrameMap
  <1>2. Kept(tasks') \subseteq hold_queue \cup Kept(tasks)
    BY <1>1, DetachLists DEF ResetState
  <1>3. Kept(tasks)' = Kept(tasks')
    BY DEF Kept
  <1> QED
    BY <1>2, <1>3 DEF Lists, ResetState

LEMMA DeliverLists ==
  ASSUME CoordinatorTypeOK, NEW t \in Task, NEW ok \in BOOLEAN, Deliver(t, ok)
  PROVE  Lists' = Lists
  <1>1. ASSUME NEW u \in Task
        PROVE  tasks'[u].snap = tasks[u].snap /\ tasks'[u].remaining = tasks[u].remaining
    BY DEF Deliver, CoordinatorTypeOK, Frame
  <1> QED
    BY <1>1 DEF Lists, Kept, Deliver

LEMMA RestartLists ==
  ASSUME Restart
  PROVE  Lists' \subseteq Lists
  BY DEF Restart, Lists, Kept

LEMMA ResumeLists ==
  ASSUME CoordinatorTypeOK, NEW t \in Task, Resume(t)
  PROVE  Lists' \subseteq Lists
  <1>1. tasks[t] \in Frame /\ FiniteFrame(tasks[t])
    BY DEF CoordinatorTypeOK
  <1>2. tasks[t].snap \subseteq Lists /\ tasks[t].remaining \subseteq Lists
    BY DEF Lists, Kept
  <1>3. FrameMap(tasks) /\ hold_queue \in SUBSET Hold /\ IsFiniteSet(hold_queue)
    BY DEF CoordinatorTypeOK, FrameMap
  <1>4. Idle.snap = {} /\ Idle.remaining = {}
    BY DEF Idle
  <1>5. CASE ResumeAcquire(t)
    <2>1. Kept(tasks') \subseteq Kept(tasks)
      BY <1>3, <1>4, <1>5, IdleType, SlotLists DEF ResumeAcquire
    <2>2. Kept(tasks)' = Kept(tasks')
      BY DEF Kept
    <2> QED
      BY <1>5, <2>1, <2>2 DEF Lists, ResumeAcquire
  <1>6. CASE ResumeScan(t)
    <2>1. GrantScan(t, tasks[t], locks, hold_queue, tasks)
      BY <1>6 DEF ResumeScan
    <2>2. Lists' \subseteq Lists \cup hold_queue \cup Kept(tasks) \cup tasks[t].snap
                             \cup tasks[t].remaining
      BY <1>1, <1>3, <2>1, GrantScanLists
    <2> QED
      BY <1>2, <2>2 DEF Lists
  <1>7. CASE ResumeAbort(t)
    <2>1. Lists' \subseteq Lists \cup tasks[t].snap \cup tasks[t].remaining
      BY <1>1, <1>7, AbortSweepLists DEF ResumeAbort
    <2> QED
      BY <1>2, <2>1
  <1>8. CASE FailRun(t)
    BY <1>4, <1>8 DEF FailRun, Lists, Kept
  <1> QED
    BY <1>5, <1>6, <1>7, <1>8 DEF Resume

-----------------------------------------------------------------------------
(* What a step of a handler does to the lock table and to the frames: it   *)
(* releases ds on behalf of r, and then grants one request, aborts one     *)
(* request, or ends.                                                       *)

SameRole(f, g) ==
    f.pc = g.pc /\ f.to = g.to /\ f.sig = g.sig /\ f.by = g.by /\ f.dirs = g.dirs

OthersStay(t) == \A u \in Task \ {t} : SameRole(tasks'[u], tasks[u])

\* The scan of t registers the workflow of h, whose directories are all free
\* then, and signals it.
Grants(t, r, ds, h) ==
    /\ \A d \in h.dirs : Drop(locks, ds, r)[d] = None
    /\ locks' = Claim(Drop(locks, ds, r), h.dirs, h.wf)
    /\ tasks'[t].pc = "scan" /\ tasks'[t].to = h.wf /\ tasks'[t].sig = "sent"

\* The abort sweep of t signals the workflow of h, which asks for one of ds.
Aborts(t, r, ds, h) ==
    /\ h.dirs \cap ds # {}
    /\ UNCHANGED locks
    /\ tasks'[t].pc = "abort" /\ tasks'[t].to = h.wf /\ tasks'[t].sig = "sent"
    /\ tasks'[t].by = r /\ tasks'[t].dirs = ds

Ends(t, r, ds) == locks' = Drop(locks, ds, r) /\ tasks'[t].pc = "idle"

ScanMove(t, r, ds) ==
    \/ OthersStay(t) /\ ((\E h \in Lists : Grants(t, r, ds, h)) \/ Ends(t, r, ds))
    \/ status' = "stuck" /\ UNCHANGED <<locks, tasks>>

SweepMove(t, r, ds) ==
    \/ ScanMove(t, r, ds)
    \/ OthersStay(t) /\ \E h \in Lists : Aborts(t, r, ds, h)

\* The grant scan.
LEMMA GrantScanMoves ==
  ASSUME CoordinatorTypeOK,
         NEW t \in Task, NEW f \in Frame, FiniteFrame(f), f.pc = "scan",
         NEW ds, NEW r,
         NEW q \in SUBSET Hold, IsFiniteSet(q), q \cup f.snap \subseteq Lists,
         NEW ts, FrameMap(ts),
         \A u \in Task \ {t} : SameRole(ts[u], tasks[u]),
         GrantScan(t, f, Drop(locks, ds, r), q, ts)
  PROVE  ScanMove(t, r, ds)
  <1> DEFINE lk == Drop(locks, ds, r)
             list == Seen(f, q)
             unblocked == {h \in Ahead(list, f.at) : AllFree(h, lk)}
  <1>1. list \subseteq q \cup f.snap /\ list \in SUBSET Hold /\ IsFiniteSet(list)
    BY DEF Seen, Frame, FiniteFrame
  <1>2. unblocked \subseteq list
    BY <1>1, AheadType
  <1>3. ASSUME NEW h \in unblocked,
               locks' = Claim(lk, h.dirs, h.wf),
               tasks' = [ts EXCEPT ![t] =
                               [f EXCEPT !.to = h.wf, !.sig = "sent",
                                         !.at = Position(h, list),
                                         !.triggered = @ \cup {h}]]
        PROVE  OthersStay(t) /\ \E x \in Lists : Grants(t, r, ds, x)
    <2> DEFINE g == [f EXCEPT !.to = h.wf, !.sig = "sent", !.at = Position(h, list),
                              !.triggered = @ \cup {h}]
    <2>1. h \in Lists /\ AllFree(h, lk)
      BY <1>1, <1>2
    <2>2. g.pc = "scan" /\ g.to = h.wf /\ g.sig = "sent"
      <3> HIDE DEF list
      <3> QED
        BY DEF Frame
    <2>3. tasks' = [ts EXCEPT ![t] = g]
      BY <1>3
    <2> HIDE DEF g
    <2>4. \A u \in Task : tasks'[u] = IF u = t THEN g ELSE ts[u]
      BY <2>3 DEF FrameMap
    <2>5. OthersStay(t)
      BY <2>4 DEF OthersStay
    <2>6. Grants(t, r, ds, h)
      BY <1>3, <2>1, <2>2, <2>4 DEF Grants, AllFree
    <2> QED
      BY <2>1, <2>5, <2>6
  <1>4. ASSUME locks' = lk, tasks' = [ts EXCEPT ![t] = Idle]
        PROVE  OthersStay(t) /\ Ends(t, r, ds)
    <2>1. \A u \in Task : tasks'[u] = IF u = t THEN Idle ELSE ts[u]
      BY <1>4 DEF FrameMap
    <2>2. Idle.pc = "idle"
      BY DEF Idle
    <2> QED
      BY <1>4, <2>1, <2>2 DEF OthersStay, Ends
  <1> QED
    BY <1>3, <1>4 DEF GrantScan, ScanMove

LEMMA NewScanPc == NewScan.pc = "scan" /\ NewScan.snap = {}
  BY DEF NewScan, Idle

\* release_locks by r.
LEMMA ReleaseLocksMoves ==
  ASSUME CoordinatorTypeOK, NEW t \in Task, NEW r, NEW ds, ReleaseLocks(t, r, ds)
  PROVE  /\ tasks[t].pc = "idle"
         /\ ScanMove(t, r, IF ds = {} THEN Dir ELSE ds)
  <1> DEFINE dirs == IF ds = {} THEN Dir ELSE ds
  <1>1. GrantScan(t, NewScan, Drop(locks, dirs, r), hold_queue, tasks) /\ tasks[t].pc = "idle"
    BY DEF ReleaseLocks, Slot
  <1>2. FrameMap(tasks) /\ hold_queue \in SUBSET Hold /\ IsFiniteSet(hold_queue)
    BY DEF CoordinatorTypeOK, FrameMap
  <1>3. hold_queue \cup NewScan.snap \subseteq Lists
    BY NewScanPc DEF Lists
  <1>4. \A u \in Task \ {t} : SameRole(tasks[u], tasks[u])
    BY DEF SameRole
  <1> HIDE DEF dirs
  <1>5. ScanMove(t, r, dirs)
    BY <1>1, <1>2, <1>3, <1>4, NewScanType, NewScanPc, GrantScanMoves
  <1> QED
    BY <1>1, <1>5 DEF dirs

\* A frame whose list is rebound keeps its role.
LEMMA DetachRole ==
  ASSUME NEW ts, FrameMap(ts), NEW u \in Task
  PROVE  SameRole(Detach(ts)[u], ts[u])
  <1>1. ts[u] \in Frame
    BY DEF FrameMap
  <1>2. CASE ts[u].live
    <2>1. Detach(ts)[u] = [ts[u] EXCEPT !.live = FALSE, !.snap = hold_queue]
      BY <1>2 DEF Detach
    <2> QED
      BY <1>1, <2>1 DEF Frame, SameRole
  <1>3. CASE ~ts[u].live
    BY <1>3 DEF Detach, SameRole
  <1> QED
    BY <1>2, <1>3

\* The abort sweep from frame f on.
LEMMA AbortSweepMoves ==
  ASSUME CoordinatorTypeOK, NEW t \in Task, NEW f \in Frame, FiniteFrame(f),
         f.pc = "abort", f.snap \cup f.remaining \subseteq Lists,
         AbortSweep(t, f)
  PROVE  SweepMove(t, f.by, f.dirs)
  <1> DEFINE list == Seen(f, hold_queue)
             todo == Ahead(list, f.at)
             overlapping == {h \in todo : h.dirs \cap f.dirs # {}}
  <1>1. list \in SUBSET Hold /\ IsFiniteSet(list) /\ list \subseteq Lists
    BY DEF Seen, FiniteFrame, Frame, CoordinatorTypeOK, Lists
  <1>2. todo \subseteq list /\ IsFiniteSet(todo)
    BY <1>1, AheadType
  <1>3. FrameMap(tasks)
    BY DEF CoordinatorTypeOK, FrameMap
  <1>4. ASSUME NEW h \in overlapping,
               tasks' = [tasks EXCEPT ![t] =
                            [f EXCEPT !.to = h.wf, !.sig = "sent",
                                      !.at = Position(h, list),
                                      !.remaining = @ \cup {g \in todo : g.no < h.no}]],
               UNCHANGED locks
        PROVE  OthersStay(t) /\ \E x \in Lists : Aborts(t, f.by, f.dirs, x)
    <2> DEFINE g2 == [f EXCEPT !.to = h.wf, !.sig = "sent", !.at = Position(h, list),
                               !.remaining = @ \cup {g \in todo : g.no < h.no}]
    <2>1. /\ g2.pc = "abort" /\ g2.by = f.by /\ g2.dirs = f.dirs
          /\ g2.to = h.wf /\ g2.sig = "sent"
      <3> HIDE DEF list, todo
      <3> QED
        BY DEF Frame
    <2>2. tasks' = [tasks EXCEPT ![t] = g2]
      BY <1>4
    <2> HIDE DEF g2
    <2>3. \A u \in Task : tasks'[u] = IF u = t THEN g2 ELSE tasks[u]
      BY <1>3, <2>2 DEF FrameMap
    <2>4. OthersStay(t)
      BY <2>3 DEF OthersStay, SameRole
    <2>5. h \in Lists /\ h.dirs \cap f.dirs # {}
      BY <1>1, <1>2
    <2> QED
      BY <1>4, <2>1, <2>3, <2>4, <2>5 DEF Aborts
  <1>5. ASSUME GrantScan(t, NewScan, Drop(locks, f.dirs, f.by), f.remaining \cup todo,
                         Detach([tasks EXCEPT ![t] = Idle]))
        PROVE  ScanMove(t, f.by, f.dirs)
    <2> DEFINE q == f.remaining \cup todo
               ts1 == [tasks EXCEPT ![t] = Idle]
               ts == Detach(ts1)
    <2>1. q \in SUBSET Hold /\ IsFiniteSet(q)
      BY <1>1, <1>2, FS_Union DEF Frame, FiniteFrame
    <2>2. FrameMap(ts1) /\ FrameMap(ts)
      BY IdleType, SlotType, DetachType DEF CoordinatorTypeOK
    <2>3. q \cup NewScan.snap \subseteq Lists
      BY <1>1, <1>2, NewScanPc
    <2>4. \A u \in Task \ {t} : ts1[u] = tasks[u]
      BY <1>3 DEF FrameMap
    <2> HIDE DEF ts1
    <2>5. \A u \in Task \ {t} : SameRole(ts[u], tasks[u])
      BY <2>2, <2>4, DetachRole
    <2> HIDE DEF q, ts
    <2>6. GrantScan(t, NewScan, Drop(locks, f.dirs, f.by), q, ts)
      BY <1>5 DEF q, ts1, ts
    <2> QED
      BY <2>1, <2>2, <2>3, <2>5, <2>6, NewScanType, NewScanPc, GrantScanMoves
  <1> QED
    BY <1>4, <1>5 DEF AbortSweep, SweepMove

\* abort_queued_for_dirs by r.
LEMMA AbortQueuedForDirsMoves ==
  ASSUME CoordinatorTypeOK, NEW t \in Task, NEW r \in Wf, NEW ds \in SUBSET Dir,
         AbortQueuedForDirs(t, r, ds)
  PROVE  tasks[t].pc = "idle" /\ SweepMove(t, r, ds)
  <1> DEFINE g == [Idle EXCEPT !.pc = "abort", !.live = TRUE, !.by = r, !.dirs = ds]
  <1>1. g \in Frame /\ FiniteFrame(g) /\ g.snap = {} /\ g.remaining = {}
        /\ g.pc = "abort" /\ g.by = r /\ g.dirs = ds
    BY FS_EmptySet DEF Idle, Frame, FiniteFrame
  <1>2. AbortSweep(t, g) /\ tasks[t].pc = "idle"
    BY DEF AbortQueuedForDirs, Slot
  <1> HIDE DEF g
  <1>3. SweepMove(t, g.by, g.dirs)
    BY <1>1, <1>2, AbortSweepMoves
  <1> QED
    BY <1>1, <1>2, <1>3

\* release_hold moves no lock and no frame.
LEMMA ReleaseHoldMoves ==
  ASSUME CoordinatorTypeOK, NEW r, ReleaseHold(r)
  PROVE  locks' = locks /\ \A u \in Task : SameRole(tasks'[u], tasks[u])
  <1>1. FrameMap(tasks) /\ tasks' = Detach(tasks)
    BY DEF CoordinatorTypeOK, FrameMap, ReleaseHold
  <1> QED
    BY <1>1, DetachRole DEF ReleaseHold

\* A delivery moves no lock and decides one signal.
LEMMA DeliverMoves ==
  ASSUME CoordinatorTypeOK, NEW t \in Task, NEW ok \in BOOLEAN, Deliver(t, ok)
  PROVE  /\ locks' = locks /\ tasks[t].sig = "sent" /\ OthersStay(t)
         /\ tasks'[t].pc = tasks[t].pc /\ tasks'[t].to = tasks[t].to
         /\ tasks'[t].by = tasks[t].by /\ tasks'[t].dirs = tasks[t].dirs
         /\ tasks'[t].sig = IF ok THEN "ok" ELSE "failed"
  <1>1. \A u \in Task : tasks[u] \in Frame
    BY DEF CoordinatorTypeOK
  <1>2. tasks' = [tasks EXCEPT ![t].sig = IF ok THEN "ok" ELSE "failed"] /\ locks' = locks
    BY DEF Deliver
  <1>3. OthersStay(t)
    BY <1>2 DEF OthersStay, SameRole, CoordinatorTypeOK
  <1> QED
    BY <1>1, <1>2, <1>3 DEF Frame, CoordinatorTypeOK, Deliver

\* A resumed handler releases for the requester of its abort, or for nobody.
LEMMA ResumeMoves ==
  ASSUME CoordinatorTypeOK, NEW t \in Task, Resume(t)
  PROVE  \/ /\ tasks[t].pc \in {"acquire", "scan"} /\ tasks[t].sig = "ok"
            /\ ScanMove(t, None, {})
         \/ /\ tasks[t].pc = "abort" /\ tasks[t].sig \in {"ok", "failed"}
            /\ SweepMove(t, tasks[t].by, tasks[t].dirs)
         \/ status' = "failed" /\ locks' = locks /\ \A u \in Task : tasks'[u].pc = "idle"
  <1>1. tasks[t] \in Frame /\ FiniteFrame(tasks[t])
        /\ tasks[t].snap \cup tasks[t].remaining \subseteq Lists
    BY DEF CoordinatorTypeOK, Lists, Kept
  <1>2. FrameMap(tasks) /\ hold_queue \in SUBSET Hold /\ IsFiniteSet(hold_queue)
    BY DEF CoordinatorTypeOK, FrameMap
  <1>3. Idle.pc = "idle"
    BY DEF Idle
  <1>4. Drop(locks, {}, None) = locks
    BY DEF Drop, CoordinatorTypeOK
  <1>5. CASE ResumeAcquire(t)
    <2>1. \A u \in Task : tasks'[u] = IF u = t THEN Idle ELSE tasks[u]
      BY <1>2, <1>5 DEF ResumeAcquire, FrameMap
    <2>2. OthersStay(t) /\ Ends(t, None, {})
      BY <1>3, <1>4, <1>5, <2>1 DEF ResumeAcquire, OthersStay, Ends, SameRole
    <2> QED
      BY <1>5, <2>2 DEF ResumeAcquire, ScanMove
  <1>6. CASE ResumeScan(t)
    <2>1. GrantScan(t, tasks[t], Drop(locks, {}, None), hold_queue, tasks)
          /\ tasks[t].pc = "scan" /\ tasks[t].sig = "ok"
      BY <1>4, <1>6 DEF ResumeScan
    <2>2. hold_queue \cup tasks[t].snap \subseteq Lists
      BY <1>1 DEF Lists
    <2>3. \A u \in Task \ {t} : SameRole(tasks[u], tasks[u])
      BY DEF SameRole
    <2>4. ScanMove(t, None, {})
      BY <1>1, <1>2, <2>1, <2>2, <2>3, GrantScanMoves
    <2> QED
      BY <2>1, <2>4
  <1>7. CASE ResumeAbort(t)
    BY <1>1, <1>7, AbortSweepMoves DEF ResumeAbort
  <1>8. CASE FailRun(t)
    BY <1>3, <1>8 DEF FailRun
  <1> QED
    BY <1>5, <1>6, <1>7, <1>8 DEF Resume

\* acquire_locks claims what is free when nothing blocks, or queues.
LEMMA AcquireLocksMoves ==
  ASSUME CoordinatorTypeOK, NEW t \in Task, NEW r \in Wf, NEW ds \in SUBSET Dir,
         NEW p \in Wf \cup {None}, AcquireLocks(t, r, ds, p)
  PROVE  \/ /\ \A d \in ds : locks[d] \in {None, p}
            /\ locks' = Claim(locks, {d \in ds : locks[d] = None}, r)
            /\ tasks[t].pc = "idle" /\ OthersStay(t)
            /\ tasks'[t].pc = "acquire" /\ tasks'[t].to = r /\ tasks'[t].sig = "sent"
            /\ Lists' \subseteq Lists
         \/ /\ \E d \in ds : locks[d] \notin {None, p}
            /\ UNCHANGED <<locks, tasks>>
            /\ Lists' \subseteq Lists \cup {NewHold(r, ds, p)}
  <1> DEFINE g == [Idle EXCEPT !.pc = "acquire", !.to = r, !.sig = "sent"]
  <1>1. FrameMap(tasks) /\ arrivals \in Nat /\ tasks[t].pc = "idle"
    BY DEF CoordinatorTypeOK, FrameMap, AcquireLocks, Slot
  <1>2. \/ Lists' \subseteq Lists /\ arrivals' = arrivals
        \/ /\ Lists' \subseteq Lists \cup {NewHold(r, ds, p)}
           /\ arrivals' = arrivals + 1
    BY AcquireLocksLists DEF NewHold
  <1>3. CASE {d \in ds : locks[d] \notin {None, p}} = {}
    <2>1. /\ locks' = Claim(locks, {d \in ds : locks[d] = None}, r)
          /\ tasks' = [tasks EXCEPT ![t] = g] /\ arrivals' = arrivals
      BY <1>3 DEF AcquireLocks
    <2>2. g.pc = "acquire" /\ g.to = r /\ g.sig = "sent"
      BY DEF Idle
    <2> HIDE DEF g
    <2>3. \A u \in Task : tasks'[u] = IF u = t THEN g ELSE tasks[u]
      BY <1>1, <2>1 DEF FrameMap
    <2>4. OthersStay(t)
      BY <2>3 DEF OthersStay, SameRole
    <2> QED
      BY <1>1, <1>2, <1>3, <2>1, <2>2, <2>3, <2>4
  <1>4. CASE {d \in ds : locks[d] \notin {None, p}} # {}
    <2>1. UNCHANGED <<locks, tasks>>
      BY <1>4 DEF AcquireLocks
    <2> QED
      BY <1>2, <1>4, <2>1
  <1> QED
    BY <1>3, <1>4

-----------------------------------------------------------------------------
(* The same steps, with what a scan marks and what it takes out.           *)

KeepsFrames(t) == \A u \in Task \ {t} : tasks'[u] = tasks[u]

\* The scan of t, in frame f with lock table lk, marks and signals h.
ScanGrants(t, f, lk, h) ==
    /\ locks' = Claim(lk, h.dirs, h.wf)
    /\ UNCHANGED <<hold_queue, status>>
    /\ tasks'[t].pc = "scan" /\ tasks'[t].to = h.wf /\ tasks'[t].sig = "sent"
    /\ tasks'[t].triggered = f.triggered \cup {h}

ScanEnds(t, f, lk) ==
    /\ locks' = lk
    /\ hold_queue' = RemoveEach(f.triggered, hold_queue)
    /\ tasks'[t] = Idle
    /\ UNCHANGED status

ScanStep(t, f, lk) ==
    \/ KeepsFrames(t) /\ ((\E h \in Lists : ScanGrants(t, f, lk, h)) \/ ScanEnds(t, f, lk))
    \/ status' = "stuck" /\ UNCHANGED <<locks, hold_queue, tasks>>

LEMMA GrantScanSteps ==
  ASSUME CoordinatorTypeOK,
         NEW t \in Task, NEW f \in Frame, FiniteFrame(f), f.pc = "scan", f.snap \subseteq Lists,
         NEW lk, GrantScan(t, f, lk, hold_queue, tasks)
  PROVE  ScanStep(t, f, lk)
  <1> DEFINE list == Seen(f, hold_queue)
             unblocked == {h \in Ahead(list, f.at) : AllFree(h, lk)}
  <1>0. FrameMap(tasks) /\ hold_queue \in SUBSET Hold /\ IsFiniteSet(hold_queue)
    BY DEF CoordinatorTypeOK, FrameMap
  <1>1. list \subseteq hold_queue \cup f.snap /\ list \in SUBSET Hold /\ IsFiniteSet(list)
    BY <1>0 DEF Seen, Frame, FiniteFrame
  <1>2. unblocked \subseteq list
    BY <1>1, AheadType
  <1>3. ASSUME NEW h \in unblocked,
               locks' = Claim(lk, h.dirs, h.wf), UNCHANGED <<hold_queue, status>>,
               tasks' = [tasks EXCEPT ![t] =
                               [f EXCEPT !.to = h.wf, !.sig = "sent",
                                         !.at = Position(h, list),
                                         !.triggered = @ \cup {h}]]
        PROVE  KeepsFrames(t) /\ \E x \in Lists : ScanGrants(t, f, lk, x)
    <2> DEFINE g == [f EXCEPT !.to = h.wf, !.sig = "sent", !.at = Position(h, list),
                              !.triggered = @ \cup {h}]
    <2>1. h \in Lists
      BY <1>1, <1>2 DEF Lists
    <2>2. g.pc = "scan" /\ g.to = h.wf /\ g.sig = "sent" /\ g.triggered = f.triggered \cup {h}
      <3> HIDE DEF list
      <3> QED
        BY DEF Frame
    <2>3. tasks' = [tasks EXCEPT ![t] = g]
      BY <1>3
    <2> HIDE DEF g
    <2>4. \A u \in Task : tasks'[u] = IF u = t THEN g ELSE tasks[u]
      BY <1>0, <2>3 DEF FrameMap
    <2>5. KeepsFrames(t) /\ ScanGrants(t, f, lk, h)
      BY <1>3, <2>2, <2>4 DEF KeepsFrames, ScanGrants
    <2> QED
      BY <2>1, <2>5
  <1>4. ASSUME locks' = lk, tasks' = [tasks EXCEPT ![t] = Idle],
               hold_queue' = RemoveEach(f.triggered, hold_queue), UNCHANGED status
        PROVE  KeepsFrames(t) /\ ScanEnds(t, f, lk)
    BY <1>0, <1>4 DEF FrameMap, KeepsFrames, ScanEnds
  <1> QED
    BY <1>3, <1>4 DEF GrantScan, ScanStep

\* Where nobody has two requests, what a scan has marked is what it takes out.
LEMMA RemoveEachOnce ==
  ASSUME NEW T \in SUBSET Hold, NEW q \in SUBSET Hold,
         \A g, h \in T \cup q : g.wf = h.wf => g = h
  PROVE  RemoveEach(T, q) = q \ T
  <1>1. ASSUME NEW h \in q
        PROVE  Cardinality({g \in Copies(h, q) : g.no < h.no}) >= Cardinality(Copies(h, T))
                 <=> h \notin T
    <2>1. {g \in Copies(h, q) : g.no < h.no} = {}
      <3>1. h.no \in Nat
        BY DEF Hold
      <3> QED
        BY <3>1 DEF Copies, SameHold
    <2>2. CASE h \in T
      <3>1. Copies(h, T) = {h}
        BY <2>2 DEF Copies, SameHold
      <3>2. Cardinality(Copies(h, T)) = 1
        BY <3>1, FS_Singleton
      <3>3. Cardinality({g \in Copies(h, q) : g.no < h.no}) = 0
        BY <2>1, FS_EmptySet
      <3> QED
        BY <2>2, <3>2, <3>3
    <2>3. CASE h \notin T
      <3>1. Copies(h, T) = {}
        BY <2>3 DEF Copies, SameHold
      <3>2. Cardinality(Copies(h, T)) = 0
        BY <3>1, FS_EmptySet
      <3>3. Cardinality({g \in Copies(h, q) : g.no < h.no}) = 0
        BY <2>1, FS_EmptySet
      <3> QED
        BY <2>3, <3>2, <3>3
    <2> QED
      BY <2>2, <2>3
  <1> QED
    BY <1>1 DEF RemoveEach

\* Rebinding the queue changes neither what a handler sends nor what it has marked.
LEMMA DetachMarks ==
  ASSUME NEW ts, FrameMap(ts), NEW u \in Task
  PROVE  SameRole(Detach(ts)[u], ts[u]) /\ Detach(ts)[u].triggered = ts[u].triggered
  <1>1. ts[u] \in Frame
    BY DEF FrameMap
  <1>2. CASE ts[u].live
    <2>1. Detach(ts)[u] = [ts[u] EXCEPT !.live = FALSE, !.snap = hold_queue]
      BY <1>2 DEF Detach
    <2> QED
      BY <1>1, <2>1, DetachRole DEF Frame
  <1>3. CASE ~ts[u].live
    BY <1>3 DEF Detach, SameRole
  <1> QED
    BY <1>2, <1>3

\* What release_locks and the resumed scan do, in these terms.
LEMMA ReleaseLocksSteps ==
  ASSUME CoordinatorTypeOK, NEW t \in Task, NEW r, NEW ds, ReleaseLocks(t, r, ds)
  PROVE  /\ tasks[t].pc = "idle" /\ status = "running"
         /\ ScanStep(t, NewScan, Drop(locks, IF ds = {} THEN Dir ELSE ds, r))
  <1>1. /\ GrantScan(t, NewScan, Drop(locks, IF ds = {} THEN Dir ELSE ds, r), hold_queue, tasks)
        /\ tasks[t].pc = "idle" /\ status = "running"
    BY DEF ReleaseLocks, Slot
  <1> QED
    BY <1>1, NewScanType, NewScanPc, GrantScanSteps

LEMMA ResumeScanSteps ==
  ASSUME CoordinatorTypeOK, NEW t \in Task, ResumeScan(t)
  PROVE  /\ tasks[t].pc = "scan" /\ tasks[t].sig = "ok" /\ status = "running"
         /\ ScanStep(t, tasks[t], locks)
  <1>1. tasks[t] \in Frame /\ FiniteFrame(tasks[t]) /\ tasks[t].snap \subseteq Lists
    BY DEF CoordinatorTypeOK, Lists, Kept
  <1> QED
    BY <1>1, GrantScanSteps DEF ResumeScan

-----------------------------------------------------------------------------
(* Wake-ups: a loop that releases directories comes to every request that  *)
(* they unblock, as long as no other handler runs in its slot's place.     *)

\* Lists are in the order of distinct numbers, and every request asks for something.
OrderedLists ==
    /\ \A h \in Lists : h.no < arrivals /\ h.dirs # {}
    /\ \A g, h \in Lists : g.no = h.no => g = h

\* What the loop of f has still to visit, when self._hold_queue is q.
ToVisit(f, q) == Ahead(Seen(f, q), f.at)

\* A request that waits is blocked, or a scan has still to visit it.
Awaited ==
    \A h \in hold_queue :
      AllFree(h, locks) =>
        \E t \in Task : tasks[t].pc = "scan" /\ h \in ToVisit(tasks[t], hold_queue)

\* At most one handler is suspended at a time.
OneHandler == \A t, u \in Task : t = u

\* In a list, later numbers have later positions.
LEMMA PositionOrder ==
  ASSUME NEW list \in SUBSET Hold, IsFiniteSet(list),
         NEW g \in list, NEW h \in list, h.no < g.no
  PROVE  Position(h, list) < Position(g, list)
  <1> DEFINE A == {x \in list : x.no <= h.no}
             B == {x \in list : x.no <= g.no}
  <1>1. \A x \in list : x.no \in Nat
    BY DEF Hold
  <1>2. A \in SUBSET B /\ B \in SUBSET list /\ g \in B /\ g \notin A
    BY <1>1
  <1>3. IsFiniteSet(B)
    BY <1>2, FS_Subset
  <1> HIDE DEF A, B
  <1>4. IsFiniteSet(A) /\ Cardinality(A) <= Cardinality(B) /\ Cardinality(A) # Cardinality(B)
    BY <1>2, <1>3, FS_Subset
  <1>5. Cardinality(A) \in Nat /\ Cardinality(B) \in Nat
    BY <1>3, <1>4, FS_CardinalityType
  <1>6. Cardinality(A) < Cardinality(B)
    BY <1>4, <1>5
  <1> QED
    BY <1>6 DEF Position, A, B

\* An iterator that starts has every entry ahead.
LEMMA NothingVisited ==
  ASSUME NEW list \in SUBSET Hold, IsFiniteSet(list)
  PROVE  Ahead(list, 0) = list
  <1>1. ASSUME NEW h \in list
        PROVE  Position(h, list) > 0
    <2> DEFINE A == {x \in list : x.no <= h.no}
    <2>1. A \in SUBSET list /\ h \in A
      BY DEF Hold
    <2>2. IsFiniteSet(A)
      BY <2>1, FS_Subset
    <2> HIDE DEF A
    <2>3. Cardinality(A) # 0 /\ Cardinality(A) \in Nat
      BY <2>1, <2>2, FS_EmptySet, FS_CardinalityType
    <2>4. Cardinality(A) > 0
      BY <2>3
    <2> QED
      BY <2>4 DEF Position, A
  <1> QED
    BY <1>1 DEF Ahead

\* A scan that has visited whatever was unblocked before goes on so.
LEMMA GrantScanAwaits ==
  ASSUME CoordinatorTypeOK,
         NEW t \in Task, NEW f \in Frame, FiniteFrame(f), f.pc = "scan",
         NEW lk, NEW q \in SUBSET Hold, IsFiniteSet(q),
         NEW ts, FrameMap(ts),
         \A h \in q \cup f.snap : h.dirs # {},
         \A g, h \in q \cup f.snap : g.no = h.no => g = h,
         \A h \in q : AllFree(h, lk) => h \in ToVisit(f, q),
         GrantScan(t, f, lk, q, ts), status' # "stuck"
  PROVE  Awaited'
  <1> DEFINE list == Seen(f, q)
             unblocked == {h \in Ahead(list, f.at) : AllFree(h, lk)}
  <1>1. list \subseteq q \cup f.snap /\ list \in SUBSET Hold /\ IsFiniteSet(list)
    BY DEF Seen, Frame, FiniteFrame
  <1>2. unblocked \subseteq list /\ \A g \in Ahead(list, f.at) : g \in list
    BY <1>1, AheadType
  <1>3. ASSUME NEW h \in unblocked, Earliest(h, unblocked),
               locks' = Claim(lk, h.dirs, h.wf), hold_queue' = q,
               tasks' = [ts EXCEPT ![t] =
                               [f EXCEPT !.to = h.wf, !.sig = "sent",
                                         !.at = Position(h, list),
                                         !.triggered = @ \cup {h}]]
        PROVE  Awaited'
    <2> DEFINE n == [f EXCEPT !.to = h.wf, !.sig = "sent", !.at = Position(h, list),
                              !.triggered = @ \cup {h}]
    <2>1. n.pc = "scan" /\ n.at = Position(h, list) /\ n.live = f.live /\ n.snap = f.snap
      <3> HIDE DEF list
      <3> QED
        BY DEF Frame
    <2>2. tasks' = [ts EXCEPT ![t] = n]
      BY <1>3
    <2> HIDE DEF n
    <2>3. tasks'[t] = n
      BY <2>2 DEF FrameMap
    <2>4. ToVisit(tasks'[t], hold_queue') = Ahead(list, Position(h, list))
      BY <1>3, <2>1, <2>3 DEF ToVisit, Seen
    <2>5. SUFFICES ASSUME NEW g \in q, AllFree(g, locks')
                   PROVE  g \in Ahead(list, Position(h, list))
      BY <1>3, <2>1, <2>3, <2>4 DEF Awaited
    <2>6. h \in Hold /\ g \in Hold /\ h.dirs # {} /\ h.wf # None
      BY <1>1, <1>2, CoordinatorAssumption DEF Hold
    <2>7. AllFree(g, lk) /\ g # h
      BY <1>3, <2>5, <2>6 DEF AllFree, Claim, Hold
    <2>8. g \in unblocked
      BY <2>7 DEF ToVisit
    <2>9. h.no < g.no
      <3>1. h.no <= g.no /\ h.no # g.no
        BY <1>1, <1>2, <1>3, <2>7, <2>8 DEF Earliest
      <3> QED
        BY <2>6, <3>1 DEF Hold
    <2> HIDE DEF list
    <2> QED
      BY <1>1, <1>2, <2>8, <2>9, PositionOrder DEF Ahead
  <1>4. ASSUME unblocked = {}, locks' = lk, hold_queue' = RemoveEach(f.triggered, q)
        PROVE  Awaited'
    <2>1. hold_queue' \subseteq q
      BY <1>4 DEF RemoveEach
    <2>2. \A h \in q : ~AllFree(h, lk)
      BY <1>4 DEF ToVisit
    <2> QED
      BY <1>4, <2>1, <2>2 DEF Awaited
  <1> QED
    BY <1>3, <1>4 DEF GrantScan

\* release_locks and the end of an abort start a scan of the whole queue.
LEMMA NewScanAwaits ==
  ASSUME CoordinatorTypeOK,
         NEW t \in Task, NEW lk, NEW q \in SUBSET Hold, IsFiniteSet(q),
         NEW ts, FrameMap(ts), OrderedLists, q \subseteq Lists,
         GrantScan(t, NewScan, lk, q, ts), status' # "stuck"
  PROVE  Awaited'
  <1>1. NewScan.live /\ NewScan.at = 0 /\ NewScan.snap = {} /\ NewScan.pc = "scan"
    BY DEF NewScan, Idle
  <1>2. ToVisit(NewScan, q) = q
    BY <1>1, NothingVisited DEF ToVisit, Seen
  <1> QED
    BY <1>1, <1>2, NewScanType, GrantScanAwaits DEF OrderedLists

LEMMA ReleaseLocksAwaits ==
  ASSUME CoordinatorTypeOK, OrderedLists, NEW t \in Task, NEW r, NEW ds,
         ReleaseLocks(t, r, ds), status' # "stuck"
  PROVE  Awaited'
  <1> DEFINE lk == Drop(locks, IF ds = {} THEN Dir ELSE ds, r)
  <1>1. GrantScan(t, NewScan, lk, hold_queue, tasks)
    BY DEF ReleaseLocks
  <1>2. FrameMap(tasks) /\ hold_queue \in SUBSET Hold /\ IsFiniteSet(hold_queue)
    BY DEF CoordinatorTypeOK, FrameMap
  <1> HIDE DEF lk
  <1> QED
    BY <1>1, <1>2, NewScanAwaits DEF Lists

\* While the sweep signals, nothing is released and no scan is suspended.
LEMMA AbortSweepAwaits ==
  ASSUME CoordinatorTypeOK, OrderedLists, NEW t \in Task, NEW f \in Frame, FiniteFrame(f),
         f.snap \cup f.remaining \subseteq Lists, AbortSweep(t, f), status' # "stuck",
         Awaited, \A u \in Task : tasks[u].pc # "scan"
  PROVE  Awaited'
  <1> DEFINE list == Seen(f, hold_queue)
             todo == Ahead(list, f.at)
  <1>1. list \in SUBSET Hold /\ IsFiniteSet(list) /\ list \subseteq Lists
    BY DEF Seen, FiniteFrame, Frame, CoordinatorTypeOK, Lists
  <1>2. todo \subseteq list /\ IsFiniteSet(todo)
    BY <1>1, AheadType
  <1>3. FrameMap(tasks)
    BY DEF CoordinatorTypeOK, FrameMap
  <1>4. CASE UNCHANGED <<locks, hold_queue>>
    BY <1>4 DEF Awaited, AllFree
  <1>5. CASE GrantScan(t, NewScan, Drop(locks, f.dirs, f.by), f.remaining \cup todo,
                       Detach([tasks EXCEPT ![t] = Idle]))
    <2> DEFINE q == f.remaining \cup todo
               lk == Drop(locks, f.dirs, f.by)
               ts1 == [tasks EXCEPT ![t] = Idle]
               ts == Detach(ts1)
    <2>1. q \in SUBSET Hold /\ IsFiniteSet(q) /\ q \subseteq Lists
      BY <1>1, <1>2, FS_Union DEF Frame, FiniteFrame
    <2>2. FrameMap(ts1) /\ FrameMap(ts)
      BY IdleType, SlotType, DetachType DEF CoordinatorTypeOK
    <2> HIDE DEF q, ts, lk
    <2>3. GrantScan(t, NewScan, lk, q, ts)
      BY <1>5 DEF q, ts1, ts, lk
    <2> QED
      BY <2>1, <2>2, <2>3, NewScanAwaits
  <1> QED
    BY <1>4, <1>5 DEF AbortSweep

LEMMA AbortQueuedForDirsAwaits ==
  ASSUME CoordinatorTypeOK, OrderedLists, OneHandler, NEW t \in Task, NEW r \in Wf,
         NEW ds \in SUBSET Dir, AbortQueuedForDirs(t, r, ds), status' # "stuck", Awaited
  PROVE  Awaited'
  <1> DEFINE g == [Idle EXCEPT !.pc = "abort", !.live = TRUE, !.by = r, !.dirs = ds]
  <1>1. g \in Frame /\ FiniteFrame(g) /\ g.snap = {} /\ g.remaining = {}
    BY FS_EmptySet DEF Idle, Frame, FiniteFrame
  <1>2. AbortSweep(t, g) /\ \A u \in Task : tasks[u].pc # "scan"
    BY DEF AbortQueuedForDirs, Slot, OneHandler
  <1> HIDE DEF g
  <1> QED
    BY <1>1, <1>2, AbortSweepAwaits

\* A request is queued when a directory of it is held; a grant frees none.
LEMMA AcquireLocksAwaits ==
  ASSUME CoordinatorTypeOK, OneHandler, NEW t \in Task, NEW r \in Wf, NEW ds \in SUBSET Dir,
         AcquireLocks(t, r, ds, None), Awaited
  PROVE  Awaited'
  <1>1. \A u \in Task : tasks[u].pc # "scan"
    BY DEF AcquireLocks, Slot, OneHandler
  <1>2. \A h \in hold_queue : h \in Hold /\ ~AllFree(h, locks)
    BY <1>1 DEF Awaited, CoordinatorTypeOK
  <1>3. CASE {d \in ds : locks[d] \notin {None, None}} = {}
    <2>1. locks' = Claim(locks, {d \in ds : locks[d] = None}, r) /\ hold_queue' = hold_queue
      BY <1>3 DEF AcquireLocks
    <2> QED
      BY <1>2, <2>1 DEF Awaited, AllFree, Claim, Hold
  <1>4. CASE {d \in ds : locks[d] \notin {None, None}} # {}
    <2>1. locks' = locks /\ hold_queue' = hold_queue \cup {NewHold(r, ds, None)}
      BY <1>4 DEF AcquireLocks
    <2>2. ~AllFree(NewHold(r, ds, None), locks)
      BY <1>4 DEF NewHold, AllFree
    <2> QED
      BY <1>2, <2>1, <2>2 DEF Awaited, AllFree
  <1> QED
    BY <1>3, <1>4

\* A withdrawal leaves the loops their lists.
LEMMA ReleaseHoldAwaits ==
  ASSUME CoordinatorTypeOK, NEW r, ReleaseHold(r), Awaited
  PROVE  Awaited'
  <1>1. tasks' = Detach(tasks) /\ locks' = locks /\ hold_queue' \subseteq hold_queue
    BY DEF ReleaseHold
  <1>2. ASSUME NEW t \in Task
        PROVE  /\ tasks'[t].pc = tasks[t].pc
               /\ ToVisit(tasks'[t], hold_queue') = ToVisit(tasks[t], hold_queue)
    <2>1. tasks[t] \in Frame
      BY DEF CoordinatorTypeOK
    <2>2. CASE tasks[t].live
      <3>1. tasks'[t] = [tasks[t] EXCEPT !.live = FALSE, !.snap = hold_queue]
        BY <1>1, <2>2 DEF Detach
      <3>2. /\ ~tasks'[t].live /\ tasks'[t].snap = hold_queue
            /\ tasks'[t].at = tasks[t].at /\ tasks'[t].pc = tasks[t].pc
        BY <2>1, <3>1 DEF Frame
      <3> QED
        BY <2>2, <3>2 DEF ToVisit, Seen
    <2>3. CASE ~tasks[t].live
      <3>1. tasks'[t] = tasks[t]
        BY <1>1, <2>3 DEF Detach
      <3> QED
        BY <2>3, <3>1 DEF ToVisit, Seen
    <2> QED
      BY <2>2, <2>3
  <1> QED
    BY <1>1, <1>2 DEF Awaited, AllFree

LEMMA DeliverAwaits ==
  ASSUME CoordinatorTypeOK, NEW t \in Task, NEW ok \in BOOLEAN, Deliver(t, ok), Awaited
  PROVE  Awaited'
  <1>1. locks' = locks /\ hold_queue' = hold_queue
    BY DEF Deliver
  <1>2. \A u \in Task : /\ tasks'[u].pc = tasks[u].pc /\ tasks'[u].at = tasks[u].at
                        /\ tasks'[u].live = tasks[u].live /\ tasks'[u].snap = tasks[u].snap
    BY DEF Deliver, CoordinatorTypeOK, Frame
  <1> QED
    BY <1>1, <1>2 DEF Awaited, AllFree, ToVisit, Seen

LEMMA ResumeAwaits ==
  ASSUME CoordinatorTypeOK, OrderedLists, OneHandler, NEW t \in Task, Resume(t),
         status' = "running", Awaited
  PROVE  Awaited'
  <1>1. tasks[t] \in Frame /\ FiniteFrame(tasks[t])
        /\ tasks[t].snap \subseteq Lists /\ tasks[t].remaining \subseteq Lists
    BY DEF CoordinatorTypeOK, Lists, Kept
  <1>2. FrameMap(tasks) /\ hold_queue \in SUBSET Hold /\ IsFiniteSet(hold_queue)
    BY DEF CoordinatorTypeOK, FrameMap
  <1>3. CASE ResumeAcquire(t)
    <2>1. UNCHANGED <<locks, hold_queue>> /\ \A u \in Task : tasks[u].pc # "scan"
      BY <1>3 DEF ResumeAcquire, OneHandler
    <2> QED
      BY <2>1 DEF Awaited, AllFree
  <1>4. CASE ResumeScan(t)
    <2>1. GrantScan(t, tasks[t], locks, hold_queue, tasks) /\ tasks[t].pc = "scan"
      BY <1>4 DEF ResumeScan
    <2>2. \A h \in hold_queue : AllFree(h, locks) => h \in ToVisit(tasks[t], hold_queue)
      BY DEF Awaited, OneHandler
    <2>3. hold_queue \cup tasks[t].snap \subseteq Lists
      BY <1>1 DEF Lists
    <2>4. /\ \A h \in hold_queue \cup tasks[t].snap : h.dirs # {}
          /\ \A g, h \in hold_queue \cup tasks[t].snap : g.no = h.no => g = h
      BY <2>3 DEF OrderedLists
    <2> QED
      BY <1>1, <1>2, <2>1, <2>2, <2>4, GrantScanAwaits
  <1>5. CASE ResumeAbort(t)
    <2>1. AbortSweep(t, tasks[t]) /\ \A u \in Task : tasks[u].pc # "scan"
      BY <1>5 DEF ResumeAbort, OneHandler
    <2> QED
      BY <1>1, <2>1, AbortSweepAwaits
  <1>6. CASE FailRun(t)
    BY <1>6 DEF FailRun
  <1> QED
    BY <1>3, <1>4, <1>5, <1>6 DEF Resume

\* Arrival numbers keep the lists ordered.
LEMMA OrderedStep ==
  ASSUME CoordinatorTypeOK, OrderedLists, Lists' \subseteq Lists, arrivals' = arrivals
  PROVE  OrderedLists'
  BY DEF OrderedLists

LEMMA AcquireLocksOrdered ==
  ASSUME CoordinatorTypeOK, OrderedLists, NEW t \in Task, NEW r \in Wf, NEW ds \in SUBSET Dir,
         NEW p \in Wf \cup {None}, AcquireLocks(t, r, ds, p)
  PROVE  OrderedLists'
  <1> DEFINE new == NewHold(r, ds, p)
  <1>1. \A h \in Lists : h \in Hold /\ h.no \in Nat
    BY DEF Lists, Kept, CoordinatorTypeOK, Frame, Hold
  <1>2. arrivals \in Nat
    BY DEF CoordinatorTypeOK
  <1>3. CASE {d \in ds : locks[d] \notin {None, p}} = {}
    <2>1. arrivals' = arrivals
      BY <1>3 DEF AcquireLocks
    <2>2. Lists' \subseteq Lists
      BY <1>2, <2>1, AcquireLocksLists
    <2> QED
      BY <2>1, <2>2, OrderedStep
  <1>4. CASE {d \in ds : locks[d] \notin {None, p}} # {}
    <2>1. /\ arrivals' = arrivals + 1 /\ UNCHANGED tasks
          /\ hold_queue' = hold_queue \cup {new}
      BY <1>4 DEF AcquireLocks
    <2>2. Lists' = Lists \cup {new}
      BY <2>1 DEF Lists, Kept
    <2>3. new.no = arrivals /\ new.dirs = ds /\ ds # {}
      BY <1>4 DEF NewHold
    <2> HIDE DEF new
    <2>4. \A h \in Lists' : h.no < arrivals' /\ h.dirs # {}
      BY <1>1, <1>2, <2>1, <2>2, <2>3 DEF OrderedLists
    <2>5. \A g, h \in Lists' : g.no = h.no => g = h
      BY <1>1, <1>2, <2>2, <2>3 DEF OrderedLists
    <2> QED
      BY <2>4, <2>5 DEF OrderedLists
  <1> QED
    BY <1>3, <1>4
=============================================================================

------------------------- MODULE DeployLocksProofs -------------------------
(***************************************************************************)
(* Deployments and their coordinator, for every set of deployments,        *)
(* directories, handler slots and faults: type correctness, that the lock  *)
(* table backs every grant, mutual exclusion; that a waiting deployment    *)
(* holds nothing, that its request is kept until it is granted or gives    *)
(* up, and that one that has ended leaves neither request nor lock behind. *)
(***************************************************************************)
EXTENDS DeployLocks, CoordinatorProofs

\* Each queued request names the directories of a deployment that has started,
\* each signal goes to one, and an abort runs for a deployment that has ended.
Addressed ==
    /\ \A h \in Lists : h.dirs = Needs[h.wf] /\ dep[h.wf] # "idle"
    /\ \A t \in Task : tasks[t].pc \in {"acquire", "scan"} =>
                         tasks[t].to \in Wf /\ dep[tasks[t].to] # "idle"
    /\ \A t \in Task : tasks[t].pc = "abort" =>
                         tasks[t].by \in Wf /\ dep[tasks[t].by] \in {"done", "conflicted"}
    /\ \A c \in Wf : dep[c] = "idle" => ~granted[c]
    /\ boots >= 1

Inv == TypeOK /\ Addressed /\ GrantsBacked

-----------------------------------------------------------------------------
(* What a step of the coordinator may do to holders and suspended handlers *)
(* when it releases on behalf of r.                                        *)

SameDuty(f, g) == f.pc = g.pc /\ f.to = g.to /\ f.by = g.by

\* Nobody but r loses a directory.
KeepsOthers(r) == \A d \in Dir : locks[d] \notin {None, r} => locks'[d] = locks[d]

\* A handler that is suspended afterwards was so before, aborts for r, or has
\* just registered the deployment it signals as holder of what it queued for.
Evolved(r) ==
    \A u \in Task :
      \/ tasks'[u].pc = "idle"
      \/ SameDuty(tasks'[u], tasks[u])
      \/ tasks'[u].pc = "abort" /\ tasks'[u].by = r /\ r # None
      \/ /\ tasks'[u].pc = "scan"
         /\ \E h \in Lists : /\ h.wf \in Wf /\ tasks'[u].to = h.wf
                             /\ \A d \in h.dirs : locks'[d] = h.wf

\* The grant scan after a release by r.
LEMMA ScanEvolves ==
  ASSUME CoordinatorTypeOK, NEW t \in Task, NEW r, NEW ds, ScanMove(t, r, ds)
  PROVE  KeepsOthers(r) /\ Evolved(r)
  <1>1. \A h \in Lists : h \in Hold
    BY DEF CoordinatorTypeOK, Lists, Kept, Frame
  <1>2. \A d \in Dir : locks[d] \notin {None, r} => Drop(locks, ds, r)[d] = locks[d]
    BY DEF Drop
  <1>3. ASSUME OthersStay(t), NEW h \in Lists, Grants(t, r, ds, h)
        PROVE  KeepsOthers(r) /\ Evolved(r)
    <2>1. h.dirs \subseteq Dir /\ h.wf \in Wf
      BY <1>1 DEF Hold
    <2>2. KeepsOthers(r)
      BY <1>2, <1>3, <2>1 DEF KeepsOthers, Grants, Claim
    <2>3. \A d \in h.dirs : locks'[d] = h.wf
      BY <1>3, <2>1 DEF Grants, Claim
    <2>4. ASSUME NEW u \in Task
          PROVE  \/ SameDuty(tasks'[u], tasks[u])
                 \/ tasks'[u].pc = "scan" /\ tasks'[u].to = h.wf
      BY <1>3 DEF Grants, OthersStay, SameRole, SameDuty
    <2> QED
      BY <2>1, <2>2, <2>3, <2>4 DEF Evolved
  <1>4. ASSUME OthersStay(t), Ends(t, r, ds)
        PROVE  KeepsOthers(r) /\ Evolved(r)
    <2>1. KeepsOthers(r)
      BY <1>2, <1>4 DEF Ends, KeepsOthers
    <2>2. \A u \in Task : tasks'[u].pc = "idle" \/ SameDuty(tasks'[u], tasks[u])
      BY <1>4 DEF Ends, OthersStay, SameRole, SameDuty
    <2> QED
      BY <2>1, <2>2 DEF Evolved
  <1>5. ASSUME UNCHANGED <<locks, tasks>>
        PROVE  KeepsOthers(r) /\ Evolved(r)
    BY <1>5 DEF KeepsOthers, Evolved, SameDuty
  <1> QED
    BY <1>3, <1>4, <1>5 DEF ScanMove

\* The abort sweep for r, and the scan that ends it.
LEMMA SweepEvolves ==
  ASSUME CoordinatorTypeOK, NEW t \in Task, NEW r, r # None, NEW ds, SweepMove(t, r, ds)
  PROVE  KeepsOthers(r) /\ Evolved(r)
  <1>1. ASSUME OthersStay(t), NEW h \in Lists, Aborts(t, r, ds, h)
        PROVE  KeepsOthers(r) /\ Evolved(r)
    BY <1>1 DEF Aborts, OthersStay, SameRole, SameDuty, KeepsOthers, Evolved
  <1> QED
    BY <1>1, ScanEvolves DEF SweepMove

\* release_locks by r.
LEMMA ReleaseLocksEvolves ==
  ASSUME CoordinatorTypeOK, NEW t \in Task, NEW r, NEW ds, ReleaseLocks(t, r, ds)
  PROVE  KeepsOthers(r) /\ Evolved(r)
  BY ReleaseLocksMoves, ScanEvolves

\* abort_queued_for_dirs by r.
LEMMA AbortQueuedForDirsEvolves ==
  ASSUME CoordinatorTypeOK, NEW t \in Task, NEW r \in Wf, NEW ds \in SUBSET Dir,
         AbortQueuedForDirs(t, r, ds)
  PROVE  KeepsOthers(r) /\ Evolved(r)
  BY AbortQueuedForDirsMoves, SweepEvolves, CoordinatorAssumption

\* release_hold moves no lock.
LEMMA ReleaseHoldEvolves ==
  ASSUME CoordinatorTypeOK, NEW r, ReleaseHold(r)
  PROVE  KeepsOthers(r) /\ Evolved(r)
  BY ReleaseHoldMoves DEF KeepsOthers, Evolved, SameRole, SameDuty

\* A delivery moves no lock either.
LEMMA DeliverEvolves ==
  ASSUME CoordinatorTypeOK, NEW t \in Task, NEW ok \in BOOLEAN, Deliver(t, ok)
  PROVE  KeepsOthers(None) /\ Evolved(None)
  <1>1. \A u \in Task : SameDuty(tasks'[u], tasks[u])
    BY DeliverMoves DEF OthersStay, SameRole, SameDuty
  <1> QED
    BY <1>1, DeliverMoves DEF KeepsOthers, Evolved

\* A resumed handler releases for the requester of its abort, or for nobody.
LEMMA ResumeEvolves ==
  ASSUME CoordinatorTypeOK, NEW t \in Task, Resume(t),
         tasks[t].pc = "abort" => tasks[t].by # None
  PROVE  \/ KeepsOthers(None) /\ Evolved(None)
         \/ tasks[t].pc = "abort" /\ KeepsOthers(tasks[t].by) /\ Evolved(tasks[t].by)
  <1>1. CASE locks' = locks /\ \A u \in Task : tasks'[u].pc = "idle"
    BY <1>1 DEF KeepsOthers, Evolved
  <1> QED
    BY <1>1, ResumeMoves, ScanEvolves, SweepEvolves

-----------------------------------------------------------------------------
(* Type correctness.                                                       *)

LEMMA GotoType ==
  ASSUME TypeOK, NEW c \in Wf, NEW s \in DepState, Goto(c, s), CoordinatorTypeOK'
  PROVE  TypeOK'
  BY DEF Goto, TypeOK

LEMMA UnchangedType ==
  ASSUME CoordinatorTypeOK, UNCHANGED coordinator
  PROVE  CoordinatorTypeOK'
  BY DEF coordinator, CoordinatorTypeOK

LEMMA ClientType ==
  ASSUME TypeOK, NEW c \in Wf, Client(c)
  PROVE  TypeOK'
  <1> USE DeployAssumption
  <1>1. CoordinatorTypeOK /\ Needs[c] \in SUBSET Dir /\ {} \in SUBSET Dir
    BY DEF TypeOK
  <1>2. \A s \in DepState : Goto(c, s) /\ CoordinatorTypeOK' => TypeOK'
    BY GotoType
  <1>3. {"waiting", "running", "withdrawing", "terminated", "cleaning", "dead", "done", "conflicted"}
          \subseteq DepState
    BY DEF DepState
  <1>4. CASE Start(c)
    BY <1>1, <1>2, <1>3, <1>4, AcquireLocksType, UnchangedType DEF Start, Ignored
  <1>5. CASE Finish(c) \/ Withdraw(c)
    BY <1>1, <1>2, <1>3, <1>5, ReleaseLocksType, UnchangedType DEF Finish, Withdraw, Ignored
  <1>6. CASE CleanUpLocks(c)
    BY <1>1, <1>2, <1>3, <1>6, ReleaseLocksType, UnchangedType DEF CleanUpLocks, Ignored
  <1>7. CASE LockWaitTimeout(c) \/ CleanUpHold(c)
    BY <1>1, <1>2, <1>3, <1>7, ReleaseHoldType, UnchangedType
       DEF LockWaitTimeout, CleanUpHold, Ignored
  <1>8. CASE AtlantisLockTimeout(c)
    BY <1>1, <1>2, <1>3, <1>8, AbortQueuedForDirsType, UnchangedType
       DEF AtlantisLockTimeout, Ignored
  <1>9. CASE Proceed(c) \/ AbortedLockConflict(c) \/ Die(c) \/ CoordinatorGone(c) \/ Terminate(c)
    BY <1>1, <1>2, <1>3, <1>9, UnchangedType
       DEF Proceed, AbortedLockConflict, Die, CoordinatorGone, Terminate
  <1> QED
    BY <1>4, <1>5, <1>6, <1>7, <1>8, <1>9 DEF Client

LEMMA HandlerType ==
  ASSUME TypeOK, NEW t \in Task, Handler(t)
  PROVE  TypeOK'
  <1>1. CASE LocksGranted(t) \/ AtlasLockAbort(t)
    <2>1. Open(tasks[t].to) \in BOOLEAN
      BY DEF Open
    <2>2. CoordinatorTypeOK'
      BY <1>1, <2>1, DeliverType DEF LocksGranted, AtlasLockAbort, TypeOK
    <2> QED
      BY <1>1, <2>1, <2>2 DEF LocksGranted, AtlasLockAbort, TypeOK
  <1>2. CASE Resume(t) /\ UNCHANGED <<dep, granted, aborted>>
    BY <1>2, ResumeType DEF TypeOK
  <1> QED
    BY <1>1, <1>2 DEF Handler

LEMMA NextType ==
  ASSUME TypeOK, [Next]_vars
  PROVE  TypeOK'
  <1>1. CASE Reset
    BY <1>1, ResetStateType DEF Reset, TypeOK
  <1>2. CASE Boot
    BY <1>2, RestartType DEF Boot, TypeOK
  <1>3. CASE UNCHANGED vars
    BY <1>3, UnchangedType DEF vars, TypeOK, coordinator
  <1> QED
    BY <1>1, <1>2, <1>3, ClientType, HandlerType DEF Next

\* Type correctness of the deployments and their coordinator.
THEOREM TypeCorrect == Spec => []TypeOK
  <1>1. DInit => TypeOK
    BY InitType DEF DInit, TypeOK, DepState
  <1>2. TypeOK /\ [Next]_vars => TypeOK'
    BY NextType
  <1> QED
    BY <1>1, <1>2, PTL DEF Spec

-----------------------------------------------------------------------------
(* The table backs every grant.                                            *)

\* What every step but Start, Reset and Boot does to a deployment's life cycle:
\* nobody starts, nobody waits or runs who did not before, and a grant is
\* recorded only where one was on its way.
Advances ==
    /\ \A c \in Wf : dep[c] # "idle" => dep'[c] # "idle"
    /\ \A c \in Wf : dep[c] \in {"done", "conflicted"} => dep'[c] \in {"done", "conflicted"}
    /\ \A c \in Wf : dep'[c] = "waiting" => dep[c] = "waiting"
    /\ \A c \in Wf : dep'[c] = "running" =>
                       dep[c] = "running" \/ (dep[c] = "waiting" /\ granted[c])
    /\ \A c \in Wf : granted'[c] => granted[c] \/ GrantPending(c)

\* A step that releases on behalf of r only, where r neither waits nor runs
\* afterwards, keeps the invariant.
LEMMA Preserve ==
  ASSUME Inv, TypeOK', Lists' \subseteq Lists, boots' = boots, Advances,
         NEW r, KeepsOthers(r), Evolved(r),
         r \in Wf => dep'[r] \notin {"waiting", "running"},
         \A u \in Task : tasks'[u].pc = "abort" /\ tasks'[u].by = r =>
                           r = None \/ (r \in Wf /\ dep'[r] \in {"done", "conflicted"})
  PROVE  Inv'
  <1> USE DeployAssumption
  <1>1. \A h \in Lists : h \in Hold
    BY DEF Inv, TypeOK, CoordinatorTypeOK, Lists, Kept, Frame
  <1>2. \A h \in Lists' : h.dirs = Needs[h.wf] /\ dep'[h.wf] # "idle"
    BY <1>1 DEF Inv, Addressed, Advances, Hold
  <1>3. ASSUME NEW t \in Task, tasks'[t].pc \in {"acquire", "scan"}
        PROVE  /\ tasks'[t].to \in Wf /\ dep'[tasks'[t].to] # "idle"
               /\ \/ GrantPending(tasks'[t].to)
                  \/ \A d \in Needs[tasks'[t].to] : locks'[d] = tasks'[t].to
    <2>1. CASE SameDuty(tasks'[t], tasks[t])
      BY <1>3, <2>1 DEF Inv, Addressed, Advances, SameDuty, GrantPending
    <2>2. CASE \E h \in Lists : /\ h.wf \in Wf /\ tasks'[t].to = h.wf
                                /\ \A d \in h.dirs : locks'[d] = h.wf
      BY <2>2 DEF Inv, Addressed, Advances
    <2> QED
      BY <1>3, <2>1, <2>2 DEF Evolved
  <1>4. ASSUME NEW t \in Task, tasks'[t].pc = "abort"
        PROVE  tasks'[t].by \in Wf /\ dep'[tasks'[t].by] \in {"done", "conflicted"}
    <2>1. CASE SameDuty(tasks'[t], tasks[t])
      BY <1>4, <2>1 DEF Inv, Addressed, Advances, SameDuty
    <2> QED
      BY <1>4, <2>1 DEF Evolved
  <1>5. ASSUME NEW c \in Wf, dep'[c] = "idle"
        PROVE  ~granted'[c]
    BY <1>5 DEF Inv, Addressed, Advances, GrantPending
  <1>6. ASSUME boots' = 1, NEW c \in Wf, Holds(c)'
        PROVE  \A d \in Needs[c] : locks'[d] = c
    <2>1. Holds(c) \/ \A d \in Needs[c] : locks'[d] = c
      <3>1. CASE dep'[c] = "running"
        BY <3>1 DEF Advances, Holds
      <3>2. CASE dep'[c] = "waiting" /\ granted'[c]
        BY <3>2 DEF Advances, Holds
      <3>3. ASSUME dep'[c] = "waiting", NEW t \in Task,
                   tasks'[t].pc \in {"acquire", "scan"}, tasks'[t].to = c
            PROVE  Holds(c) \/ \A d \in Needs[c] : locks'[d] = c
        BY <1>3, <3>3 DEF Advances, Holds
      <3> QED
        BY <1>6, <3>1, <3>2, <3>3 DEF Holds, GrantPending
    <2>2. ASSUME Holds(c)
          PROVE  \A d \in Needs[c] : locks'[d] = c
      <3>1. \A d \in Needs[c] : d \in Dir /\ locks[d] = c
        BY <1>6, <2>2 DEF Inv, GrantsBacked
      <3>2. c # r /\ c # None
        BY <1>6, CoordinatorAssumption DEF Holds
      <3> QED
        BY <3>1, <3>2 DEF KeepsOthers
    <2> QED
      BY <2>1, <2>2
  <1>7. Addressed'
    BY <1>2, <1>3, <1>4, <1>5 DEF Addressed, Inv
  <1>8. GrantsBacked'
    BY <1>6 DEF GrantsBacked
  <1> QED
    BY <1>7, <1>8 DEF Inv

\* A step without a release, by the coordinator or by nobody.
LEMMA StayEvolves ==
  ASSUME NEW r, UNCHANGED <<locks, tasks>>
  PROVE  KeepsOthers(r) /\ Evolved(r)
  BY DEF KeepsOthers, Evolved, SameDuty

\* A deployment moves on.
LEMMA GotoAdvances ==
  ASSUME TypeOK, NEW c \in Wf, NEW s, Goto(c, s), s # "idle", s # "waiting",
         dep[c] \notin {"done", "conflicted"},
         s = "running" => dep[c] = "waiting" /\ granted[c]
  PROVE  Advances /\ dep'[c] = s
  BY DEF Goto, TypeOK, Advances

\* acquire_locks by a deployment that starts.
LEMMA StartInv ==
  ASSUME Inv, TypeOK', NEW c \in Wf, Start(c)
  PROVE  Inv'
  <1> USE DeployAssumption
  <1>1. /\ dep[c] = "idle" /\ ~granted[c] /\ dep' = [dep EXCEPT ![c] = "waiting"]
        /\ granted' = granted /\ Needs[c] \in SUBSET Dir
    BY DEF Start, Goto, Inv, Addressed
  <1>2. \A e \in Wf : dep'[e] = IF e = c THEN "waiting" ELSE dep[e]
    BY <1>1 DEF Inv, TypeOK
  <1>3. \A t \in Task : tasks[t].pc \in {"acquire", "scan"} =>
                          tasks[t].to \in Wf /\ tasks[t].to # c
    BY <1>1 DEF Inv, Addressed
  <1>4. \A t \in Task : tasks[t].pc = "abort" => tasks[t].by \in Wf /\ dep'[tasks[t].by] \in {"done", "conflicted"}
    BY <1>1, <1>2 DEF Inv, Addressed
  <1>5. \A h \in Lists : h \in Hold /\ h.dirs = Needs[h.wf] /\ dep'[h.wf] # "idle"
    <2>1. \A h \in Lists : h \in Hold
      BY DEF Inv, TypeOK, CoordinatorTypeOK, Lists, Kept, Frame
    <2> QED
      BY <1>2, <2>1 DEF Inv, Addressed, Hold
  <1>6. ASSUME NEW e \in Wf, e # c, boots = 1,
               \/ dep'[e] = "running"
               \/ dep'[e] = "waiting" /\ (granted[e] \/ GrantPending(e))
        PROVE  \A d \in Needs[e] : d \in Dir /\ locks[d] = e
    BY <1>2, <1>6 DEF Inv, GrantsBacked, Holds
  <1>7. CASE UNCHANGED coordinator
    <2>1. Addressed'
      BY <1>1, <1>2, <1>3, <1>4, <1>5, <1>7 DEF Addressed, Inv, coordinator, Lists, Kept
    <2>2. ASSUME boots' = 1, NEW e \in Wf, Holds(e)'
          PROVE  \A d \in Needs[e] : locks'[d] = e
      BY <1>1, <1>2, <1>3, <1>6, <1>7, <2>2 DEF Holds, GrantPending, coordinator
    <2> QED
      BY <2>1, <2>2 DEF Inv, GrantsBacked
  <1>8. ASSUME NEW t \in Task, AcquireLocks(t, c, Needs[c], None)
        PROVE  Inv'
    <2> DEFINE blocked == {d \in Needs[c] : locks[d] \notin {None, None}}
               g == [Idle EXCEPT !.pc = "acquire", !.to = c, !.sig = "sent"]
               new == [no |-> arrivals, wf |-> c, dirs |-> Needs[c], parent |-> None]
    <2>1. boots' = boots /\ boots >= 1
      BY <1>8 DEF AcquireLocks, Inv, Addressed
    <2>2. CASE blocked = {}
      <3>1. /\ locks' = Claim(locks, {d \in Needs[c] : locks[d] = None}, c)
            /\ tasks' = [tasks EXCEPT ![t] = g]
            /\ UNCHANGED <<hold_queue, arrivals>>
        BY <1>8, <2>2 DEF AcquireLocks
      <3>2. g.pc = "acquire" /\ g.to = c /\ g \in Frame /\ g.snap = {} /\ g.remaining = {}
        BY DEF Idle, Frame
      <3>3. FrameMap(tasks)
        BY DEF Inv, TypeOK, CoordinatorTypeOK, FrameMap
      <3> HIDE DEF g
      <3>4. \A u \in Task : tasks'[u] = IF u = t THEN g ELSE tasks[u]
        BY <3>1, <3>3 DEF FrameMap
      <3>5. Lists' \subseteq Lists
        <4>1. Kept(tasks') \subseteq Kept(tasks)
          BY <3>1, <3>2, <3>3, SlotLists
        <4>2. Kept(tasks)' = Kept(tasks')
          BY DEF Kept
        <4> QED
          BY <3>1, <4>1, <4>2 DEF Lists
      <3>6. \A d \in Needs[c] : locks'[d] = c
        BY <1>1, <2>2, <3>1 DEF Claim
      <3>7. \A d \in Dir : locks[d] # None => locks'[d] = locks[d]
        BY <3>1 DEF Claim
      <3>8. Addressed'
        <4>1. \A h \in Lists' : h.dirs = Needs[h.wf] /\ dep'[h.wf] # "idle"
          BY <1>5, <3>5
        <4>2. \A u \in Task : tasks'[u].pc \in {"acquire", "scan"} =>
                                tasks'[u].to \in Wf /\ dep'[tasks'[u].to] # "idle"
          BY <1>2, <3>2, <3>4 DEF Inv, Addressed
        <4>3. \A u \in Task : tasks'[u].pc = "abort" =>
                                tasks'[u].by \in Wf /\ dep'[tasks'[u].by] \in {"done", "conflicted"}
          BY <1>4, <3>2, <3>4
        <4>4. \A e \in Wf : dep'[e] = "idle" => ~granted'[e]
          BY <1>1, <1>2 DEF Inv, Addressed
        <4> QED
          BY <2>1, <4>1, <4>2, <4>3, <4>4 DEF Addressed
      <3>9. ASSUME boots' = 1, NEW e \in Wf, Holds(e)'
            PROVE  \A d \in Needs[e] : locks'[d] = e
        <4>1. CASE e = c
          BY <3>6, <4>1
        <4>2. CASE e # c
          <5>1. GrantPending(e)' => GrantPending(e)
            BY <3>2, <3>4, <4>2 DEF GrantPending
          <5>2. \A d \in Needs[e] : d \in Dir /\ locks[d] = e
            BY <1>1, <1>6, <2>1, <3>9, <4>2, <5>1 DEF Holds
          <5> QED
            BY <3>7, <5>2, CoordinatorAssumption
        <4> QED
          BY <4>1, <4>2
      <3> QED
        BY <3>8, <3>9 DEF Inv, GrantsBacked
    <2>3. CASE blocked # {}
      <3>1. hold_queue' = hold_queue \cup {new} /\ UNCHANGED <<locks, tasks>>
        BY <1>8, <2>3 DEF AcquireLocks, NewHold
      <3>2. Lists' \subseteq Lists \cup {new}
        BY <3>1 DEF Lists, Kept
      <3>3. \A h \in Lists' : h.dirs = Needs[h.wf] /\ dep'[h.wf] # "idle"
        BY <1>2, <1>5, <3>2
      <3>4. Addressed'
        BY <1>1, <1>2, <1>3, <1>4, <2>1, <3>1, <3>3 DEF Addressed, Inv
      <3>5. ASSUME boots' = 1, NEW e \in Wf, Holds(e)'
            PROVE  \A d \in Needs[e] : locks'[d] = e
        BY <1>1, <1>2, <1>3, <1>6, <2>1, <3>1, <3>5 DEF Holds, GrantPending
      <3> QED
        BY <3>4, <3>5 DEF Inv, GrantsBacked
    <2> QED
      BY <2>2, <2>3
  <1> QED
    BY <1>7, <1>8 DEF Start, Ignored

\* The other steps of a deployment and of its clean-up.
LEMMA ClientInv ==
  ASSUME Inv, TypeOK', NEW c \in Wf, Client(c)
  PROVE  Inv'
  <1> USE DeployAssumption
  <1>1. CoordinatorTypeOK /\ TypeOK /\ Needs[c] \in SUBSET Dir /\ {} \in SUBSET Dir
    BY DEF Inv, TypeOK
  <1>2. CASE Start(c)
    BY <1>2, StartInv
  <1>3. ASSUME NEW s \in {"running", "withdrawing", "terminated", "cleaning", "dead", "done", "conflicted"},
               Goto(c, s), dep[c] \notin {"done", "conflicted"},
               s = "running" => dep[c] = "waiting" /\ granted[c],
               UNCHANGED coordinator
        PROVE  Inv'
    <2>1. Advances
      BY <1>1, <1>3, GotoAdvances
    <2>2. KeepsOthers(None) /\ Evolved(None) /\ boots' = boots
      BY <1>3, StayEvolves DEF coordinator
    <2>3. Lists' \subseteq Lists
      BY <1>3 DEF coordinator, Lists, Kept
    <2> QED
      BY <2>1, <2>2, <2>3, CoordinatorAssumption, Preserve
  <1>4. ASSUME NEW s \in {"withdrawing", "cleaning", "done", "conflicted"}, Goto(c, s), dep[c] \notin {"done", "conflicted"},
               Lists' \subseteq Lists, boots' = boots, KeepsOthers(c), Evolved(c),
               \A u \in Task : tasks'[u].pc = "abort" /\ tasks'[u].by = c => s \in {"done", "conflicted"}
        PROVE  Inv'
    <2>1. Advances /\ dep'[c] = s
      BY <1>1, <1>4, GotoAdvances
    <2> QED
      BY <1>4, <2>1, Preserve
  <1>5. ASSUME NEW t \in Task, NEW ds \in SUBSET Dir, ReleaseLocks(t, c, ds),
               Goto(c, "done"), dep[c] \notin {"done", "conflicted"}
        PROVE  Inv'
    <2>1. Lists' \subseteq Lists /\ boots' = boots
      BY <1>1, <1>5, ReleaseLocksLists DEF ReleaseLocks, GrantScan
    <2>2. KeepsOthers(c) /\ Evolved(c)
      BY <1>1, <1>5, ReleaseLocksEvolves
    <2> QED
      BY <1>4, <1>5, <2>1, <2>2
  <1>6. ASSUME ReleaseHold(c), NEW s \in {"withdrawing", "cleaning"}, Goto(c, s),
               dep[c] \notin {"idle", "done", "conflicted"}
        PROVE  Inv'
    <2>1. Lists' \subseteq Lists /\ boots' = boots
      BY <1>1, <1>6, ReleaseHoldLists DEF ReleaseHold
    <2>2. KeepsOthers(c) /\ Evolved(c)
      BY <1>1, <1>6, ReleaseHoldEvolves
    <2>3. ASSUME NEW u \in Task, tasks'[u].pc = "abort", tasks'[u].by = c
          PROVE  FALSE
      <3>1. tasks'[u].pc = tasks[u].pc /\ tasks'[u].by = tasks[u].by
        <4>1. tasks[u] \in Frame
          BY <1>1 DEF CoordinatorTypeOK
        <4>2. CASE tasks[u].live
          <5>1. tasks'[u] = [tasks[u] EXCEPT !.live = FALSE, !.snap = hold_queue]
            BY <1>6, <4>2 DEF ReleaseHold, Detach
          <5> QED
            BY <4>1, <5>1 DEF Frame
        <4>3. CASE ~tasks[u].live
          BY <1>6, <4>3 DEF ReleaseHold, Detach
        <4> QED
          BY <4>2, <4>3
      <3> QED
        BY <1>6, <2>3, <3>1 DEF Inv, Addressed
    <2> QED
      BY <1>4, <1>6, <2>1, <2>2, <2>3
  <1>7. CASE Finish(c)
    BY <1>1, <1>3, <1>5, <1>7 DEF Finish, Ignored
  <1>8. CASE Withdraw(c)
    BY <1>1, <1>3, <1>5, <1>8 DEF Withdraw, Ignored
  <1>9. CASE CleanUpLocks(c)
    BY <1>1, <1>3, <1>5, <1>9 DEF CleanUpLocks, Ignored
  <1>10. CASE LockWaitTimeout(c)
    BY <1>3, <1>6, <1>10 DEF LockWaitTimeout, Ignored
  <1>11. CASE CleanUpHold(c)
    BY <1>3, <1>6, <1>11 DEF CleanUpHold, Ignored
  <1>12. CASE AtlantisLockTimeout(c)
    <2>1. ASSUME NEW t \in Task, AbortQueuedForDirs(t, c, Needs[c])
          PROVE  Inv'
      <3>1. Lists' \subseteq Lists /\ boots' = boots
        BY <1>1, <2>1, AbortQueuedForDirsLists
           DEF AbortQueuedForDirs, AbortSweep, GrantScan
      <3>2. KeepsOthers(c) /\ Evolved(c)
        BY <1>1, <2>1, AbortQueuedForDirsEvolves
      <3> QED
        BY <1>4, <1>12, <3>1, <3>2 DEF AtlantisLockTimeout
    <2> QED
      BY <1>3, <1>12, <2>1 DEF AtlantisLockTimeout, Ignored
  <1>13. CASE Proceed(c)
    BY <1>3, <1>13 DEF Proceed
  <1>14. CASE AbortedLockConflict(c) \/ Die(c) \/ CoordinatorGone(c) \/ Terminate(c)
    BY <1>3, <1>14 DEF AbortedLockConflict, Die, CoordinatorGone, Terminate, Open
  <1> QED
    BY <1>2, <1>7, <1>8, <1>9, <1>10, <1>11, <1>12, <1>13, <1>14 DEF Client

\* The steps of the coordinator's handlers.
LEMMA HandlerInv ==
  ASSUME Inv, TypeOK', NEW t \in Task, Handler(t)
  PROVE  Inv'
  <1>1. CoordinatorTypeOK /\ TypeOK
    BY DEF Inv, TypeOK
  <1>2. \A u \in Task : tasks[u].pc = "abort" => tasks[u].by \in Wf /\ dep[tasks[u].by] \in {"done", "conflicted"}
    BY DEF Inv, Addressed
  <1>3. CASE LocksGranted(t) \/ AtlasLockAbort(t)
    <2> DEFINE ok == Open(tasks[t].to)
    <2>1. ok \in BOOLEAN /\ Deliver(t, ok)
      BY <1>3 DEF LocksGranted, AtlasLockAbort, Open
    <2> HIDE DEF ok
    <2>2. Lists' \subseteq Lists /\ boots' = boots /\ dep' = dep
      BY <1>1, <1>3, <2>1, DeliverLists DEF Deliver, LocksGranted, AtlasLockAbort
    <2>3. KeepsOthers(None) /\ Evolved(None)
      BY <1>1, <2>1, DeliverEvolves
    <2>4. \A e \in Wf : granted'[e] => granted[e] \/ GrantPending(e)
      <3>1. CASE LocksGranted(t)
        BY <1>1, <3>1 DEF LocksGranted, GrantPending, TypeOK
      <3>2. CASE AtlasLockAbort(t)
        BY <3>2 DEF AtlasLockAbort
      <3> QED
        BY <1>3, <3>1, <3>2
    <2>5. Advances
      BY <2>2, <2>4 DEF Advances
    <2> QED
      BY <2>2, <2>3, <2>5, CoordinatorAssumption, Preserve
  <1>4. CASE Resume(t) /\ UNCHANGED <<dep, granted, aborted>>
    <2>1. Lists' \subseteq Lists
      BY <1>1, <1>4, ResumeLists
    <2>2. boots' = boots
      BY <1>4 DEF Resume, ResumeAcquire, ResumeScan, ResumeAbort, FailRun, AbortSweep,
                  GrantScan
    <2>3. Advances
      BY <1>4 DEF Advances
    <2>4. ASSUME KeepsOthers(None), Evolved(None)
          PROVE  Inv'
      BY <2>1, <2>2, <2>3, <2>4, CoordinatorAssumption, Preserve
    <2>5. ASSUME tasks[t].pc = "abort", KeepsOthers(tasks[t].by), Evolved(tasks[t].by)
          PROVE  Inv'
      BY <1>2, <1>4, <2>1, <2>2, <2>3, <2>5, Preserve
    <2> QED
      BY <1>1, <1>2, <1>4, <2>4, <2>5, CoordinatorAssumption, ResumeEvolves
  <1> QED
    BY <1>3, <1>4 DEF Handler

\* A reset comes when no deployment is open, a new run after a loss of the table.
LEMMA AdminInv ==
  ASSUME Inv, TypeOK', Reset \/ Boot
  PROVE  Inv'
  <1>1. CoordinatorTypeOK
    BY DEF Inv, TypeOK
  <1>2. CASE Reset
    <2>1. Lists' \subseteq Lists /\ UNCHANGED <<dep, granted, boots>>
      BY <1>1, <1>2, ResetStateLists DEF Reset, ResetState
    <2>2. \A c \in Wf : ~Holds(c)'
      BY <1>2 DEF Reset, Open, Holds
    <2>3. \A u \in Task : SameDuty(tasks'[u], tasks[u])
      <3>1. ASSUME NEW u \in Task
            PROVE  SameDuty(tasks'[u], tasks[u])
        <4>1. tasks[u] \in Frame
          BY <1>1 DEF CoordinatorTypeOK
        <4>2. CASE tasks[u].live
          <5>1. tasks'[u] = [tasks[u] EXCEPT !.live = FALSE, !.snap = hold_queue]
            BY <1>2, <4>2 DEF Reset, ResetState, Detach
          <5> QED
            BY <4>1, <5>1 DEF Frame, SameDuty
        <4>3. CASE ~tasks[u].live
          BY <1>2, <4>3 DEF Reset, ResetState, Detach, SameDuty
        <4> QED
          BY <4>2, <4>3
      <3> QED
        BY <3>1
    <2>4. Addressed'
      BY <2>1, <2>3 DEF Inv, Addressed, SameDuty
    <2>5. GrantsBacked'
      BY <2>2 DEF GrantsBacked
    <2> QED
      BY <2>4, <2>5 DEF Inv
  <1>3. CASE Boot
    <2>1. UNCHANGED <<dep, granted, tasks>> /\ boots' = boots + 1 /\ boots \in Nat
          /\ boots >= 1
      BY <1>1, <1>3 DEF Boot, Restart, CoordinatorTypeOK, Inv, Addressed
    <2>2. Lists' \subseteq Lists
      BY <1>3, RestartLists DEF Boot
    <2>3. Addressed'
      BY <2>1, <2>2 DEF Inv, Addressed
    <2>4. GrantsBacked'
      BY <2>1 DEF GrantsBacked
    <2> QED
      BY <2>3, <2>4 DEF Inv
  <1> QED
    BY <1>2, <1>3

LEMMA NextInv ==
  ASSUME Inv, [Next]_vars
  PROVE  Inv'
  <1>1. TypeOK'
    BY NextType DEF Inv
  <1>2. CASE UNCHANGED vars
    BY <1>1, <1>2 DEF vars, coordinator, Inv, Addressed, GrantsBacked, Holds, GrantPending,
                      Lists, Kept
  <1> QED
    BY <1>1, <1>2, ClientInv, HandlerInv, AdminInv DEF Next

LEMMA InitInv == DInit => Inv
  <1> SUFFICES ASSUME DInit PROVE Inv
    OBVIOUS
  <1>1. TypeOK
    BY InitType DEF DInit, TypeOK, DepState
  <1>2. Lists = {} /\ \A t \in Task : tasks[t].pc = "idle"
    BY DEF DInit, Init, Lists, Kept, Idle
  <1> QED
    BY <1>1, <1>2 DEF DInit, Init, Inv, Addressed, GrantsBacked, Holds, GrantPending

\* The lock table backs every grant, whatever interleaves, times out, dies or is
\* aborted, as long as the coordinator's first run lives.
THEOREM TableBacksGrants == Spec => []GrantsBacked
  <1>1. Inv => GrantsBacked
    BY DEF Inv
  <1> QED
    BY <1>1, InitInv, NextInv, PTL DEF Spec

\* Two deployments that need a common directory never run at the same time.
THEOREM DeploymentsExclude == Spec => []MutualExclusion
  <1>1. Inv => MutualExclusion
    <2> SUFFICES ASSUME Inv, boots = 1, NEW c \in Wf, NEW e \in Wf, c # e,
                        dep[c] = "running", dep[e] = "running"
                 PROVE  Needs[c] \cap Needs[e] = {}
      BY DEF MutualExclusion, Exclusive
    <2>1. (\A d \in Needs[c] : locks[d] = c) /\ (\A d \in Needs[e] : locks[d] = e)
      BY DEF Inv, GrantsBacked, Holds
    <2> QED
      BY <2>1
  <1> QED
    BY <1>1, InitInv, NextInv, PTL DEF Spec

-----------------------------------------------------------------------------
(* A deployment that waits owns nothing.                                   *)

\* A grant that was delivered is recorded.
Told ==
    \A t \in Task : tasks[t].pc \in {"acquire", "scan"} /\ tasks[t].sig = "ok" =>
                      granted[tasks[t].to]

\* c has not asked yet, or waits and is not being told to go on.
Unserved(c) ==
    dep[c] = "idle" \/ (dep[c] = "waiting" /\ ~granted[c] /\ ~GrantPending(c))

\* Nobody claims part of what a deployment asks for.
Unclaimed == status # "failed" => \A c \in Wf : Unserved(c) => Owned(c) = {}

WaitInv == Inv /\ Told /\ Unclaimed

\* Each directory somebody gains comes with a signal to the one who gains it, no
\* signal is given up before it has arrived, and none arrives unsent.
Signals ==
    /\ \A d \in Dir : \/ locks'[d] \in {None, locks[d]}
                      \/ \E u \in Task : tasks'[u].pc = "scan" /\ tasks'[u].to = locks'[d]
    /\ \A u \in Task : tasks[u].pc \in {"acquire", "scan"} /\ tasks[u].sig # "ok" =>
                         tasks'[u].pc \in {"acquire", "scan"} /\ tasks'[u].to = tasks[u].to
    /\ \A u \in Task : tasks'[u].pc \in {"acquire", "scan"} /\ tasks'[u].sig = "ok" =>
                         /\ tasks[u].pc \in {"acquire", "scan"} /\ tasks[u].sig = "ok"
                         /\ tasks'[u].to = tasks[u].to

LEMMA ScanSignals ==
  ASSUME CoordinatorTypeOK, NEW t \in Task, NEW r, NEW ds, ScanMove(t, r, ds),
         tasks[t].pc \in {"acquire", "scan"} => tasks[t].sig = "ok"
  PROVE  Signals
  <1>1. \A h \in Lists : h.dirs \subseteq Dir
    BY DEF CoordinatorTypeOK, Lists, Kept, Frame, Hold
  <1>2. \A d \in Dir : Drop(locks, ds, r)[d] \in {None, locks[d]}
    BY DEF Drop
  <1>3. ASSUME OthersStay(t), NEW h \in Lists, Grants(t, r, ds, h)
        PROVE  Signals
    <2>1. \A d \in Dir : IF d \in h.dirs THEN locks'[d] = h.wf
                                         ELSE locks'[d] = Drop(locks, ds, r)[d]
      BY <1>3 DEF Grants, Claim
    <2> QED
      BY <1>2, <1>3, <2>1 DEF Grants, OthersStay, SameRole, Signals
  <1>4. ASSUME OthersStay(t), Ends(t, r, ds)
        PROVE  Signals
    BY <1>2, <1>4 DEF Ends, OthersStay, SameRole, Signals
  <1>5. ASSUME UNCHANGED <<locks, tasks>>
        PROVE  Signals
    BY <1>5 DEF Signals
  <1> QED
    BY <1>3, <1>4, <1>5 DEF ScanMove

LEMMA SweepSignals ==
  ASSUME CoordinatorTypeOK, NEW t \in Task, NEW r, NEW ds, SweepMove(t, r, ds),
         tasks[t].pc \in {"idle", "abort"}
  PROVE  Signals
  <1>1. ASSUME OthersStay(t), NEW h \in Lists, Aborts(t, r, ds, h)
        PROVE  Signals
    BY <1>1 DEF Aborts, OthersStay, SameRole, Signals
  <1> QED
    BY <1>1, ScanSignals DEF SweepMove

\* A step that gives locks by signals only keeps the waiters empty-handed.
LEMMA PreserveWait ==
  ASSUME WaitInv, Inv', Signals, Advances, status # "failed",
         \A c \in Wf : granted[c] => granted'[c]
  PROVE  WaitInv'
  <1>1. \A t \in Task : tasks[t].pc \in {"acquire", "scan"} => tasks[t].to \in Wf
    BY DEF WaitInv, Inv, Addressed
  <1>2. Told'
    BY <1>1 DEF WaitInv, Told, Signals
  <1>3. ASSUME NEW c \in Wf, Unserved(c)'
        PROVE  Owned(c)' = {}
    <2>1. \A u \in Task : tasks[u].pc \in {"acquire", "scan"} /\ tasks[u].to = c =>
                            granted[c] \/ GrantPending(c)'
      BY DEF WaitInv, Told, Signals, GrantPending
    <2>2. GrantPending(c) => granted[c] \/ GrantPending(c)'
      BY <2>1 DEF GrantPending
    <2>3. Unserved(c) /\ ~GrantPending(c)'
      <3>1. CASE dep'[c] = "idle"
        BY <3>1 DEF Unserved, Advances, Inv, Addressed, GrantPending
      <3>2. CASE dep'[c] = "waiting"
        BY <1>3, <2>2, <3>2 DEF Unserved, Advances
      <3> QED
        BY <1>3, <3>1, <3>2 DEF Unserved
    <2>4. Owned(c) = {}
      BY <2>3 DEF WaitInv, Unclaimed
    <2>5. ASSUME NEW d \in Dir, locks'[d] = c
          PROVE  FALSE
      <3>1. locks'[d] \notin {None, locks[d]}
        BY <2>4, <2>5, CoordinatorAssumption DEF Owned
      <3> QED
        BY <2>3, <2>5, <3>1 DEF Signals, GrantPending
    <2> QED
      BY <2>5 DEF Owned
  <1> QED
    BY <1>2, <1>3 DEF WaitInv, Unclaimed

\* acquire_locks claims all of a request, with a signal, or none of it.
LEMMA StartWait ==
  ASSUME WaitInv, Inv', NEW c \in Wf, Start(c)
  PROVE  WaitInv'
  <1> USE DeployAssumption
  <1>1. /\ dep[c] = "idle" /\ granted' = granted /\ CoordinatorTypeOK
        /\ \A e \in Wf : dep'[e] = IF e = c THEN "waiting" ELSE dep[e]
    BY DEF Start, Goto, WaitInv, Inv, TypeOK
  <1>2. ASSUME UNCHANGED <<locks, tasks, status>>
        PROVE  WaitInv'
    <2>1. \A e \in Wf : Unserved(e)' => Unserved(e)
      BY <1>1, <1>2 DEF Unserved, GrantPending
    <2> QED
      BY <1>1, <1>2, <2>1 DEF WaitInv, Told, Unclaimed, Owned
  <1>3. ASSUME NEW t \in Task, AcquireLocks(t, c, Needs[c], None)
        PROVE  WaitInv'
    <2> DEFINE ds == {d \in Needs[c] : locks[d] = None}
               g == [Idle EXCEPT !.pc = "acquire", !.to = c, !.sig = "sent"]
    <2>1. \/ UNCHANGED <<locks, tasks, status>>
          \/ /\ locks' = Claim(locks, ds, c)
             /\ tasks' = [tasks EXCEPT ![t] = g]
             /\ tasks[t].pc = "idle" /\ status' = status
      BY <1>3 DEF AcquireLocks, Slot
    <2>2. g.pc = "acquire" /\ g.to = c /\ g.sig = "sent"
      BY DEF Idle
    <2> HIDE DEF g
    <2>3. ASSUME locks' = Claim(locks, ds, c), tasks' = [tasks EXCEPT ![t] = g],
                 tasks[t].pc = "idle", status' = status
          PROVE  WaitInv'
      <3>1. \A u \in Task : tasks'[u] = IF u = t THEN g ELSE tasks[u]
        BY <1>1, <2>3 DEF CoordinatorTypeOK
      <3>2. Told'
        BY <1>1, <2>2, <3>1 DEF WaitInv, Told
      <3>3. ASSUME NEW e \in Wf, Unserved(e)', status # "failed"
            PROVE  Owned(e)' = {}
        <4>1. GrantPending(c)' /\ dep'[c] # "idle"
          BY <1>1, <2>2, <3>1 DEF GrantPending
        <4>2. e # c
          BY <3>3, <4>1 DEF Unserved
        <4>3. Unserved(e)
          BY <1>1, <2>3, <3>1, <3>3, <4>2 DEF Unserved, GrantPending
        <4> QED
          BY <2>3, <3>3, <4>2, <4>3 DEF WaitInv, Unclaimed, Owned, Claim
      <3> QED
        BY <2>3, <3>2, <3>3 DEF WaitInv, Unclaimed
    <2> QED
      BY <1>2, <2>1, <2>3
  <1> QED
    BY <1>2, <1>3 DEF Start, Ignored, coordinator

LEMMA StaySignals ==
  ASSUME locks' = locks, \A u \in Task : SameRole(tasks'[u], tasks[u])
  PROVE  Signals
  BY DEF Signals, SameRole

\* The other steps of a deployment.
LEMMA ClientWait ==
  ASSUME WaitInv, Inv', NEW c \in Wf, Client(c)
  PROVE  WaitInv'
  <1> USE DeployAssumption
  <1>1. CoordinatorTypeOK /\ TypeOK /\ Needs[c] \in SUBSET Dir /\ {} \in SUBSET Dir
    BY DEF WaitInv, Inv, TypeOK
  <1>2. CASE Start(c)
    BY <1>2, StartWait
  <1>3. ASSUME NEW s \in {"running", "withdrawing", "terminated", "cleaning", "dead", "done", "conflicted"},
               Goto(c, s), dep[c] \notin {"done", "conflicted"},
               s = "running" => dep[c] = "waiting" /\ granted[c],
               Signals, status # "failed"
        PROVE  WaitInv'
    <2>1. Advances
      BY <1>1, <1>3, GotoAdvances
    <2>2. granted' = granted
      BY <1>3 DEF Goto
    <2> QED
      BY <1>3, <2>1, <2>2, PreserveWait
  <1>4. ASSUME UNCHANGED coordinator
        PROVE  Signals
    BY <1>4 DEF coordinator, Signals
  <1>5. ASSUME NEW t \in Task, NEW ds \in SUBSET Dir, ReleaseLocks(t, c, ds)
        PROVE  Signals /\ status # "failed"
    BY <1>1, <1>5, ReleaseLocksMoves, ScanSignals DEF ReleaseLocks
  <1>6. ASSUME ReleaseHold(c)
        PROVE  Signals /\ status # "failed"
    BY <1>1, <1>6, ReleaseHoldMoves, StaySignals DEF ReleaseHold
  <1>7. ASSUME NEW t \in Task, AbortQueuedForDirs(t, c, Needs[c])
        PROVE  Signals /\ status # "failed"
    BY <1>1, <1>7, AbortQueuedForDirsMoves, SweepSignals DEF AbortQueuedForDirs
  <1>8. ASSUME status = "failed", UNCHANGED coordinator, NEW s \in DepState, Goto(c, s)
        PROVE  WaitInv'
    BY <1>8 DEF WaitInv, Told, Unclaimed, coordinator, Goto
  <1>9. CASE Finish(c) \/ Withdraw(c) \/ CleanUpLocks(c)
    BY <1>1, <1>3, <1>4, <1>5, <1>9 DEF Finish, Withdraw, CleanUpLocks, Ignored
  <1>10. CASE LockWaitTimeout(c) \/ CleanUpHold(c)
    BY <1>3, <1>4, <1>6, <1>10 DEF LockWaitTimeout, CleanUpHold, Ignored
  <1>11. CASE AtlantisLockTimeout(c)
    BY <1>3, <1>4, <1>7, <1>11 DEF AtlantisLockTimeout, Ignored
  <1>12. CASE Proceed(c) \/ AbortedLockConflict(c) \/ Die(c) \/ CoordinatorGone(c) \/ Terminate(c)
    <2> DEFINE s == dep'[c]
    <2>1. /\ s \in {"running", "terminated", "dead", "done"} /\ Goto(c, s)
          /\ dep[c] \notin {"done", "conflicted"}
          /\ s = "running" => dep[c] = "waiting" /\ granted[c]
          /\ UNCHANGED coordinator
      BY <1>1, <1>12
         DEF Proceed, AbortedLockConflict, Die, CoordinatorGone, Terminate, Goto, Open, TypeOK
    <2> HIDE DEF s
    <2> QED
      BY <1>3, <1>4, <1>8, <2>1 DEF DepState
  <1> QED
    BY <1>2, <1>9, <1>10, <1>11, <1>12 DEF Client

\* The steps of the handlers, and of administrators.
LEMMA HandlerWait ==
  ASSUME WaitInv, Inv', NEW t \in Task, Handler(t)
  PROVE  WaitInv'
  <1>1. CoordinatorTypeOK /\ TypeOK
    BY DEF WaitInv, Inv, TypeOK
  <1>2. CASE LocksGranted(t) \/ AtlasLockAbort(t)
    <2> DEFINE ok == Open(tasks[t].to)
    <2>1. ok \in BOOLEAN /\ Deliver(t, ok) /\ dep' = dep
      BY <1>2 DEF LocksGranted, AtlasLockAbort, Open
    <2>2. tasks[t].pc \in {"acquire", "scan"} => tasks[t].to \in Wf
      BY DEF WaitInv, Inv, Addressed
    <2>3. /\ \A e \in Wf : granted[e] => granted'[e]
          /\ tasks[t].pc \in {"acquire", "scan"} /\ ok => granted'[tasks[t].to]
      <3>1. CASE LocksGranted(t)
        BY <1>1, <2>2, <3>1 DEF LocksGranted, TypeOK
      <3>2. CASE AtlasLockAbort(t)
        BY <3>2 DEF AtlasLockAbort
      <3> QED
        BY <1>2, <3>1, <3>2
    <2> HIDE DEF ok
    <2>4. /\ locks' = locks /\ OthersStay(t) /\ status' = status
          /\ tasks'[t].pc = tasks[t].pc /\ tasks'[t].to = tasks[t].to
          /\ tasks'[t].sig = IF ok THEN "ok" ELSE "failed"
      BY <1>1, <2>1, DeliverMoves DEF Deliver
    <2>5. \A u \in Task : tasks'[u].pc = tasks[u].pc /\ tasks'[u].to = tasks[u].to
      BY <2>4 DEF OthersStay, SameRole
    <2>6. Told'
      <3>1. ASSUME NEW u \in Task, tasks'[u].pc \in {"acquire", "scan"}, tasks'[u].sig = "ok"
            PROVE  granted'[tasks'[u].to]
        <4>1. CASE u = t
          BY <2>3, <2>4, <3>1, <4>1
        <4>2. CASE u # t
          <5>1. tasks[u].sig = "ok"
            BY <2>4, <3>1, <4>2 DEF OthersStay, SameRole
          <5>2. granted[tasks[u].to] /\ tasks[u].to \in Wf
            BY <2>5, <3>1, <5>1 DEF WaitInv, Told, Inv, Addressed
          <5> QED
            BY <2>3, <2>5, <5>2
        <4> QED
          BY <4>1, <4>2
      <3> QED
        BY <3>1 DEF Told
    <2>7. \A e \in Wf : Unserved(e)' => Unserved(e)
      BY <2>1, <2>3, <2>5 DEF Unserved, GrantPending
    <2> QED
      BY <2>4, <2>6, <2>7 DEF WaitInv, Unclaimed, Owned
  <1>3. CASE Resume(t) /\ UNCHANGED <<dep, granted, aborted>>
    <2>1. Advances
      BY <1>3 DEF Advances
    <2>2. status = "running"
      BY <1>3 DEF Resume, ResumeAcquire, ResumeScan, ResumeAbort, FailRun
    <2>3. CASE status' = "failed" /\ \A u \in Task : tasks'[u].pc = "idle"
      BY <2>3 DEF WaitInv, Told, Unclaimed
    <2>4. ASSUME tasks[t].pc \in {"acquire", "scan"}, tasks[t].sig = "ok",
                 ScanMove(t, None, {})
          PROVE  Signals
      BY <1>1, <2>4, ScanSignals
    <2>5. ASSUME tasks[t].pc = "abort", SweepMove(t, tasks[t].by, tasks[t].dirs)
          PROVE  Signals
      BY <1>1, <2>5, SweepSignals
    <2>6. ASSUME Signals
          PROVE  WaitInv'
      BY <1>3, <2>1, <2>2, <2>6, PreserveWait
    <2> QED
      BY <1>1, <1>3, <2>3, <2>4, <2>5, <2>6, ResumeMoves
  <1> QED
    BY <1>2, <1>3 DEF Handler

LEMMA AdminWait ==
  ASSUME WaitInv, Inv', Reset \/ Boot
  PROVE  WaitInv'
  <1>1. CoordinatorTypeOK /\ granted' = granted
    BY DEF WaitInv, Inv, TypeOK, Reset, Boot
  <1>2. \A d \in Dir : locks'[d] = None
    BY DEF Reset, Boot, ResetState, Restart
  <1>3. \A u \in Task : SameRole(tasks'[u], tasks[u])
    <2>1. CASE Reset
      BY <1>1, <2>1, DetachRole DEF Reset, ResetState, CoordinatorTypeOK, FrameMap
    <2>2. CASE Boot
      BY <2>2 DEF Boot, Restart, SameRole
    <2> QED
      BY <2>1, <2>2
  <1>4. Told'
    BY <1>1, <1>3 DEF WaitInv, Told, SameRole
  <1>5. Unclaimed'
    BY <1>2, CoordinatorAssumption DEF Unclaimed, Owned
  <1> QED
    BY <1>4, <1>5 DEF WaitInv

LEMMA NextWait ==
  ASSUME WaitInv, [Next]_vars
  PROVE  WaitInv'
  <1>1. Inv'
    BY NextInv DEF WaitInv
  <1>2. CASE UNCHANGED vars
    BY <1>1, <1>2 DEF vars, coordinator, WaitInv, Told, Unclaimed, Unserved, GrantPending, Owned
  <1> QED
    BY <1>1, <1>2, ClientWait, HandlerWait, AdminWait DEF Next

\* A deployment that waits owns no directory: no part of a request is ever
\* claimed, so that two waiters cannot block each other.
THEOREM WaitersOwnNothing == Spec => []NoHoldAndWait
  <1>1. DInit => WaitInv
    <2> SUFFICES ASSUME DInit PROVE WaitInv
      OBVIOUS
    <2>1. \A t \in Task : tasks[t].pc = "idle"
      BY DEF DInit, Init, Idle
    <2>2. \A c \in Wf : Owned(c) = {}
      BY CoordinatorAssumption DEF DInit, Init, Owned
    <2> QED
      BY <2>1, <2>2, InitInv DEF WaitInv, Told, Unclaimed
  <1>2. WaitInv => NoHoldAndWait
    BY DEF WaitInv, Unclaimed, NoHoldAndWait, Unserved
  <1> QED
    BY <1>1, <1>2, NextWait, PTL DEF Spec

-----------------------------------------------------------------------------
(* No request is lost, and none stays behind.                              *)

\* Every request a list or a loop of the coordinator still knows.
Known == Lists \cup UNION {tasks[t].triggered : t \in Task}

\* Each is of a deployment that has started, and its only one.
KnownRequests ==
    /\ \A h \in Known : h \in Hold /\ h.dirs = Needs[h.wf] /\ dep[h.wf] # "idle"
    /\ \A g, h \in Known : g.wf = h.wf => g = h

\* A grant answers the request of the acquire_locks that sends it, or one the scan
\* that sends it has marked.
Sources ==
    /\ \A t \in Task : tasks[t].pc = "acquire" => \A h \in Known : h.wf # tasks[t].to
    /\ \A t \in Task : tasks[t].pc = "scan" => \E h \in tasks[t].triggered : h.wf = tasks[t].to

\* What a scan has marked was answered, but for the one it is telling.
Answered ==
    \A t \in Task : \A h \in tasks[t].triggered :
      dep[h.wf] = "waiting" => granted[h.wf] \/ tasks[t].to = h.wf

OwnNeeds == \A c \in Wf : Owned(c) \subseteq Needs[c]

Unaborted == \A c \in Wf : ~aborted[c]

\* Some scan has marked h, and will take it out of the queue.
Marked(h) == \E t \in Task : tasks[t].pc = "scan" /\ h \in tasks[t].triggered

\* An entry of the queue waits to be answered, or to be taken out.
QueueLive ==
    \A h \in hold_queue :
      (dep[h.wf] \in {"waiting", "terminated"} /\ ~granted[h.wf]) \/ Marked(h)

\* What a deployment that is done owns, it owns by a grant that cannot reach it.
Returned ==
    \A c \in Wf : dep[c] = "done" /\ Owned(c) # {} =>
      \E t \in Task : tasks[t].pc \in {"acquire", "scan"} /\ tasks[t].to = c
                      /\ tasks[t].sig # "ok"

Recalled ==
    boots = 1 => \A c \in Wf : dep[c] = "waiting" /\ ~granted[c] =>
                   GrantPending(c) \/ \E h \in hold_queue : h.wf = c

AbortsConflict ==
    \A t \in Task : tasks[t].pc = "abort" => dep[tasks[t].by] = "conflicted"

CalmInv ==
    /\ KnownRequests /\ Sources /\ Answered /\ OwnNeeds /\ Unaborted
    /\ status = "running" => QueueLive /\ Returned /\ Recalled

QueueInv == Inv /\ Told /\ AbortsConflict /\ (NoneConflicted => CalmInv)

\* What a step of the coordinator's loop does to requests and signals: none is
\* invented, none forgotten before it is delivered, and a directory that changes
\* hands goes to a request with a signal.
Serves ==
    /\ Known' \subseteq Known
    /\ \A u \in Task : tasks'[u].pc = "acquire" =>
                         tasks[u].pc = "acquire" /\ tasks'[u].to = tasks[u].to
    /\ \A u \in Task : tasks'[u].pc = "scan" =>
                         \E h \in tasks'[u].triggered : h.wf = tasks'[u].to
    /\ \A u \in Task : \A h \in tasks'[u].triggered :
         \/ tasks'[u].to = h.wf
         \/ h \in tasks[u].triggered /\ (tasks[u].to # h.wf \/ granted[h.wf])
    /\ \A d \in Dir : \/ locks'[d] \in {None, locks[d]}
                      \/ \E h \in Known : d \in h.dirs /\ locks'[d] = h.wf

LEMMA KnownTyped ==
  ASSUME CoordinatorTypeOK
  PROVE  \A h \in Known : h \in Hold
  BY DEF CoordinatorTypeOK, Known, Lists, Kept, Frame

\* Such a step keeps the part of the invariant that needs no running coordinator.
LEMMA ServesKeeps ==
  ASSUME QueueInv, TypeOK', NoneConflicted, Serves, Advances,
         \A c \in Wf : granted[c] => granted'[c], aborted' = aborted
  PROVE  KnownRequests' /\ Sources' /\ Answered' /\ OwnNeeds' /\ Unaborted'
  <1>1. KnownRequests /\ Sources /\ Answered /\ OwnNeeds /\ Unaborted
    BY DEF QueueInv, CalmInv
  <1>2. \A h \in Known : h \in Hold /\ h.wf \in Wf
    BY <1>1 DEF KnownRequests, Hold
  <1>3. KnownRequests'
    BY <1>1, <1>2 DEF KnownRequests, Serves, Advances
  <1>4. Sources'
    <2>1. \A u \in Task : tasks'[u].pc = "acquire" => \A h \in Known' : h.wf # tasks'[u].to
      BY <1>1 DEF Sources, Serves
    <2>2. \A u \in Task : tasks'[u].pc = "scan" =>
            \E h \in tasks'[u].triggered : h.wf = tasks'[u].to
      BY DEF Serves
    <2> QED
      BY <2>1, <2>2 DEF Sources
  <1>5. Answered'
    <2> SUFFICES ASSUME NEW u \in Task, NEW h \in tasks'[u].triggered, dep'[h.wf] = "waiting",
                        tasks'[u].to # h.wf
                 PROVE  granted'[h.wf]
      BY DEF Answered
    <2>1. h \in tasks[u].triggered /\ (tasks[u].to # h.wf \/ granted[h.wf])
      BY DEF Serves
    <2>2. h \in Known
      BY <2>1 DEF Known
    <2>3. dep[h.wf] = "waiting" /\ h.wf \in Wf
      BY <1>2, <2>2 DEF Advances
    <2> QED
      BY <1>1, <2>1, <2>3 DEF Answered
  <1>6. OwnNeeds'
    <2> SUFFICES ASSUME NEW c \in Wf, NEW d \in Dir, locks'[d] = c
                 PROVE  d \in Needs[c]
      BY DEF OwnNeeds, Owned
    <2>1. CASE locks'[d] = locks[d]
      BY <1>1, <2>1 DEF OwnNeeds, Owned
    <2>2. ASSUME NEW h \in Known, d \in h.dirs, locks'[d] = h.wf
          PROVE  d \in Needs[c]
      BY <1>1, <2>2 DEF KnownRequests
    <2> QED
      BY <2>1, <2>2, CoordinatorAssumption DEF Serves
  <1>7. Unaborted'
    BY <1>1 DEF Unaborted
  <1> QED
    BY <1>3, <1>4, <1>5, <1>6, <1>7

-----------------------------------------------------------------------------
(* The grant scan.                                                         *)

\* Frame f is that of a scan that starts, or whose signal has been delivered.
ScanFrame(t, f) ==
    \/ tasks[t].pc = "idle" /\ f = NewScan
    \/ tasks[t].pc = "scan" /\ tasks[t].sig = "ok" /\ f = tasks[t]

LEMMA ScanServes ==
  ASSUME QueueInv, NoneConflicted, NEW t \in Task, NEW f, ScanFrame(t, f),
         NEW r, NEW ds, ScanStep(t, f, Drop(locks, ds, r)), Lists' \subseteq Lists
  PROVE  Serves
  <1>0. KnownRequests /\ Sources /\ Told
    BY DEF QueueInv, CalmInv
  <1>1. /\ f.triggered \subseteq tasks[t].triggered
        /\ \A h \in f.triggered : tasks[t].to # h.wf \/ granted[h.wf]
    BY <1>0 DEF ScanFrame, NewScan, Idle, Told
  <1>2. \A d \in Dir : Drop(locks, ds, r)[d] \in {None, locks[d]}
    BY DEF Drop
  <1>3. Lists \subseteq Known /\ \A u \in Task : tasks[u].triggered \subseteq Known
    BY DEF Known
  <1>4. ASSUME KeepsFrames(t), NEW h \in Lists, ScanGrants(t, f, Drop(locks, ds, r), h)
        PROVE  Serves
    <2>1. \A u \in Task : tasks'[u].triggered \subseteq Known
      BY <1>1, <1>3, <1>4 DEF KeepsFrames, ScanGrants
    <2>2. Known' \subseteq Known
      BY <1>3, <2>1 DEF Known
    <2>3. \A u \in Task : tasks'[u].pc = "acquire" =>
                         tasks[u].pc = "acquire" /\ tasks'[u].to = tasks[u].to
      BY <1>4 DEF KeepsFrames, ScanGrants
    <2>4. \A u \in Task : tasks'[u].pc = "scan" =>
                         \E x \in tasks'[u].triggered : x.wf = tasks'[u].to
      BY <1>0, <1>4 DEF KeepsFrames, ScanGrants, Sources
    <2>5. ASSUME NEW u \in Task, NEW x \in tasks'[u].triggered
          PROVE  \/ tasks'[u].to = x.wf
                 \/ x \in tasks[u].triggered /\ (tasks[u].to # x.wf \/ granted[x.wf])
      BY <1>1, <1>4 DEF KeepsFrames, ScanGrants
    <2>6. ASSUME NEW d \in Dir
          PROVE  locks'[d] \in {None, locks[d]} \/ (d \in h.dirs /\ locks'[d] = h.wf)
      BY <1>2, <1>4 DEF ScanGrants, Claim
    <2> QED
      BY <1>3, <2>2, <2>3, <2>4, <2>5, <2>6 DEF Serves
  <1>5. ASSUME KeepsFrames(t), ScanEnds(t, f, Drop(locks, ds, r))
        PROVE  Serves
    <2>0. Idle.pc = "idle" /\ Idle.triggered = {}
      BY DEF Idle
    <2>1. \A u \in Task : tasks'[u].triggered \subseteq tasks[u].triggered
      BY <1>5, <2>0 DEF KeepsFrames, ScanEnds
    <2>2. Known' \subseteq Known
      BY <1>3, <2>1 DEF Known
    <2>3. \A u \in Task : tasks'[u] = tasks[u] \/ (tasks'[u].pc = "idle" /\ tasks'[u].triggered = {})
      BY <1>5, <2>0 DEF KeepsFrames, ScanEnds
    <2>4. \A d \in Dir : locks'[d] \in {None, locks[d]}
      BY <1>2, <1>5 DEF ScanEnds
    <2> QED
      BY <1>0, <2>2, <2>3, <2>4 DEF Serves, Sources
  <1>6. ASSUME UNCHANGED <<locks, hold_queue, tasks>>
        PROVE  Serves
    BY <1>0, <1>6 DEF Serves, Known, Lists, Kept, Sources
  <1> QED
    BY <1>4, <1>5, <1>6 DEF ScanStep

\* A scan after a release by a deployment that is done with it, or one that goes on.
LEMMA ScanCalm ==
  ASSUME QueueInv, TypeOK', NoneConflicted, NEW t \in Task, NEW f, ScanFrame(t, f),
         NEW r, NEW ds, ScanStep(t, f, Drop(locks, ds, r)), Lists' \subseteq Lists,
         status = "running", boots' = boots, UNCHANGED <<granted, aborted>>, Advances,
         \A c \in Wf : \/ dep'[c] = dep[c]
                       \/ /\ dep[c] \notin {"waiting", "terminated"}
                          /\ \A d \in Dir : Drop(locks, ds, r)[d] # c
  PROVE  CalmInv'
  <1> DEFINE lk == Drop(locks, ds, r)
  <1>0. /\ KnownRequests /\ Answered /\ QueueLive /\ Returned /\ Recalled /\ Told
        /\ CoordinatorTypeOK /\ TypeOK
    BY DEF QueueInv, CalmInv, Inv, TypeOK
  <1>1. KnownRequests' /\ Sources' /\ Answered' /\ OwnNeeds' /\ Unaborted'
    BY ScanServes, ServesKeeps
  <1>2. SUFFICES ASSUME status' = "running"
                 PROVE  QueueLive' /\ Returned' /\ Recalled'
    BY <1>1 DEF CalmInv
  <1>3. KeepsFrames(t) /\ ((\E h \in Lists : ScanGrants(t, f, lk, h)) \/ ScanEnds(t, f, lk))
    BY <1>2 DEF ScanStep
  <1>4. \A d \in Dir : lk[d] \in {None, locks[d]}
    BY DEF Drop
  <1>5. /\ f.triggered \subseteq Known /\ hold_queue \subseteq Known
        /\ \A h \in Known : h \in Hold /\ h.wf \in Wf
    BY <1>0 DEF ScanFrame, NewScan, Idle, Known, Lists, KnownRequests, Hold
  <1>6. hold_queue' = hold_queue \/ (tasks'[t] = Idle /\ hold_queue' = hold_queue \ f.triggered)
    <2>1. RemoveEach(f.triggered, hold_queue) = hold_queue \ f.triggered
      <3>1. \A g, h \in f.triggered \cup hold_queue : g.wf = h.wf => g = h
        BY <1>0, <1>5 DEF KnownRequests
      <3> QED
        BY <1>5, <3>1, RemoveEachOnce
    <2> QED
      BY <1>3, <2>1 DEF ScanGrants, ScanEnds
  <1>7. QueueLive'
    <2> SUFFICES ASSUME NEW h \in hold_queue'
                 PROVE  \/ dep'[h.wf] \in {"waiting", "terminated"} /\ ~granted'[h.wf]
                        \/ Marked(h)'
      BY DEF QueueLive
    <2>1. h \in hold_queue /\ h.wf \in Wf
      BY <1>5, <1>6
    <2>2. CASE dep[h.wf] \in {"waiting", "terminated"} /\ ~granted[h.wf]
      BY <2>1, <2>2
    <2>3. ASSUME NEW u \in Task, tasks[u].pc = "scan", h \in tasks[u].triggered
          PROVE  Marked(h)'
      <3>1. CASE u # t
        BY <1>3, <2>3, <3>1 DEF KeepsFrames, Marked
      <3>2. CASE u = t
        <4>1. h \in f.triggered
          BY <2>3, <3>2 DEF ScanFrame
        <4>2. \E x \in Lists : ScanGrants(t, f, lk, x)
          <5>1. ASSUME ScanEnds(t, f, lk)
                PROVE  FALSE
            <6>1. hold_queue' = hold_queue \ f.triggered
              <7>1. \A g, x \in f.triggered \cup hold_queue : g.wf = x.wf => g = x
                BY <1>0, <1>5 DEF KnownRequests
              <7> QED
                BY <1>5, <5>1, <7>1, RemoveEachOnce DEF ScanEnds
            <6> QED
              BY <4>1, <6>1
          <5> QED
            BY <1>3, <5>1
        <4> QED
          BY <4>1, <4>2 DEF ScanGrants, Marked
      <3> QED
        BY <3>1, <3>2
    <2> QED
      BY <1>0, <2>1, <2>2, <2>3 DEF QueueLive, Marked
  <1>8. Returned'
    <2> SUFFICES ASSUME NEW c \in Wf, dep'[c] = "done", NEW d \in Dir, locks'[d] = c
                 PROVE  \E u \in Task : tasks'[u].pc \in {"acquire", "scan"} /\ tasks'[u].to = c
                                        /\ tasks'[u].sig # "ok"
      BY DEF Returned, Owned
    <2>1. CASE lk[d] # c
      <3>1. ASSUME NEW h \in Lists, ScanGrants(t, f, lk, h)
            PROVE  tasks'[t].pc = "scan" /\ tasks'[t].to = c /\ tasks'[t].sig = "sent"
        BY <2>1, <3>1 DEF ScanGrants, Claim
      <3> QED
        BY <1>3, <2>1, <3>1 DEF ScanEnds
    <2>2. CASE lk[d] = c
      <3>1. dep[c] = "done" /\ locks[d] = c
        BY <1>4, <2>2, CoordinatorAssumption
      <3>2. PICK u \in Task : tasks[u].pc \in {"acquire", "scan"} /\ tasks[u].to = c
                              /\ tasks[u].sig # "ok"
        BY <1>0, <3>1 DEF Returned, Owned
      <3>3. u # t
        BY <3>2 DEF ScanFrame
      <3> QED
        BY <1>3, <3>2, <3>3 DEF KeepsFrames
    <2> QED
      BY <2>1, <2>2
  <1>9. Recalled'
    <2> SUFFICES ASSUME boots' = 1, NEW c \in Wf, dep'[c] = "waiting", ~granted'[c]
                 PROVE  GrantPending(c)' \/ \E h \in hold_queue' : h.wf = c
      BY DEF Recalled
    <2>1. dep[c] = "waiting" /\ ~granted[c]
      BY DEF Advances
    <2>2. ASSUME NEW u \in Task, tasks[u].pc \in {"acquire", "scan"}, tasks[u].to = c
          PROVE  GrantPending(c)'
      <3>1. u # t
        BY <1>0, <2>1, <2>2 DEF ScanFrame, Told
      <3> QED
        BY <1>3, <2>2, <3>1 DEF KeepsFrames, GrantPending
    <2>3. ASSUME NEW h \in hold_queue, h.wf = c
          PROVE  h \in hold_queue' \/ GrantPending(c)
      <3>1. CASE h \in f.triggered
        <4>1. tasks[t].pc = "scan" /\ h \in tasks[t].triggered
          BY <3>1 DEF ScanFrame, NewScan, Idle
        <4>2. tasks[t].to = c
          BY <1>0, <2>1, <2>3, <4>1 DEF Answered
        <4> QED
          BY <4>1, <4>2 DEF GrantPending
      <3>2. CASE h \notin f.triggered
        BY <1>6, <3>2
      <3> QED
        BY <3>1, <3>2
    <2> QED
      BY <1>0, <2>1, <2>2, <2>3 DEF Recalled, GrantPending
  <1> QED
    BY <1>7, <1>8, <1>9

-----------------------------------------------------------------------------
(* Steps that send nothing.                                                *)

KeepsDuties ==
    \A u \in Task : SameRole(tasks'[u], tasks[u]) /\ tasks'[u].triggered = tasks[u].triggered

LEMMA DutiesServe ==
  ASSUME QueueInv, NoneConflicted, KeepsDuties, Lists' \subseteq Lists,
         \A d \in Dir : locks'[d] \in {None, locks[d]}
  PROVE  Serves
  <1>1. Sources
    BY DEF QueueInv, CalmInv
  <1>2. Known' \subseteq Known
    BY DEF Known, KeepsDuties
  <1>3. \A u \in Task : tasks'[u].pc = tasks[u].pc /\ tasks'[u].to = tasks[u].to
                        /\ tasks'[u].triggered = tasks[u].triggered
    BY DEF KeepsDuties, SameRole
  <1> QED
    BY <1>1, <1>2, <1>3 DEF Serves, Sources

\* A deployment moves on by itself, or takes its entries out of the queue.
LEMMA QuietCalm ==
  ASSUME QueueInv, TypeOK', NoneConflicted, KeepsDuties, Lists' \subseteq Lists,
         UNCHANGED <<locks, granted, aborted, boots>>, Advances,
         hold_queue' \subseteq hold_queue,
         \A h \in hold_queue : h \in hold_queue' \/ dep'[h.wf] # "waiting",
         status' = "running" => status = "running",
         status' = "running" => \A c \in Wf :
           \/ dep'[c] = dep[c]
           \/ /\ dep'[c] # "done"
              /\ \/ dep'[c] = "terminated" \/ granted[c] \/ dep[c] \notin {"waiting", "terminated"}
                 \/ \A h \in hold_queue' : h.wf # c
  PROVE  CalmInv'
  <1>0. KnownRequests /\ CoordinatorTypeOK
    BY DEF QueueInv, CalmInv, Inv, TypeOK
  <1>1. KnownRequests' /\ Sources' /\ Answered' /\ OwnNeeds' /\ Unaborted'
    BY DutiesServe, ServesKeeps
  <1>2. SUFFICES ASSUME status' = "running"
                 PROVE  QueueLive' /\ Returned' /\ Recalled'
    BY <1>1 DEF CalmInv
  <1>3. QueueLive /\ Returned /\ Recalled
    BY <1>2 DEF QueueInv, CalmInv
  <1>4. \A h \in hold_queue : h.wf \in Wf
    BY <1>0 DEF CoordinatorTypeOK, Hold
  <1>5. \A u \in Task : tasks'[u].pc = tasks[u].pc /\ tasks'[u].to = tasks[u].to
                        /\ tasks'[u].sig = tasks[u].sig
                        /\ tasks'[u].triggered = tasks[u].triggered
    BY DEF KeepsDuties, SameRole
  <1>6. QueueLive'
    BY <1>2, <1>3, <1>4, <1>5 DEF QueueLive, Marked
  <1>7. Returned'
    <2> SUFFICES ASSUME NEW c \in Wf, dep'[c] = "done", Owned(c)' # {}
                 PROVE  \E u \in Task : tasks'[u].pc \in {"acquire", "scan"} /\ tasks'[u].to = c
                                        /\ tasks'[u].sig # "ok"
      BY DEF Returned
    <2>1. dep[c] = "done" /\ Owned(c) # {}
      BY <1>2 DEF Owned
    <2> QED
      BY <1>3, <1>5, <2>1 DEF Returned
  <1>8. Recalled'
    <2> SUFFICES ASSUME boots' = 1, NEW c \in Wf, dep'[c] = "waiting", ~granted'[c]
                 PROVE  GrantPending(c)' \/ \E h \in hold_queue' : h.wf = c
      BY DEF Recalled
    <2>1. dep[c] = "waiting" /\ ~granted[c]
      BY DEF Advances
    <2>2. GrantPending(c) => GrantPending(c)'
      BY <1>5 DEF GrantPending
    <2> QED
      BY <1>3, <2>1, <2>2 DEF Recalled
  <1> QED
    BY <1>6, <1>7, <1>8

\* A deployment is told that it has its locks, or is found closed.
LEMMA GrantedCalm ==
  ASSUME QueueInv, TypeOK', NoneConflicted, NEW t \in Task, LocksGranted(t)
  PROVE  CalmInv'
  <1> DEFINE ok == Open(tasks[t].to)
  <1>0. /\ CalmInv /\ Told /\ TypeOK /\ CoordinatorTypeOK /\ tasks[t].to \in Wf
        /\ tasks[t].pc \in {"acquire", "scan"}
    BY DEF QueueInv, Inv, TypeOK, Addressed, LocksGranted
  <1>1. ok \in BOOLEAN /\ Deliver(t, ok) /\ UNCHANGED <<dep, aborted>>
        /\ \A e \in Wf : granted'[e] = (granted[e] \/ (e = tasks[t].to /\ ok))
    BY <1>0 DEF LocksGranted, Open, TypeOK
  <1>2. ok => dep[tasks[t].to] # "done"
    BY DEF Open
  <1> HIDE DEF ok
  <1>3. /\ UNCHANGED <<locks, hold_queue, boots, status>> /\ Lists' \subseteq Lists
        /\ \A u \in Task : /\ tasks'[u].pc = tasks[u].pc /\ tasks'[u].to = tasks[u].to
                           /\ tasks'[u].triggered = tasks[u].triggered
                           /\ u # t => tasks'[u].sig = tasks[u].sig
        /\ tasks[t].sig = "sent" /\ tasks'[t].sig = IF ok THEN "ok" ELSE "failed"
    <2>1. \A u \in Task : tasks[u] \in Frame
      BY <1>0 DEF CoordinatorTypeOK
    <2>2. tasks' = [tasks EXCEPT ![t] = [tasks[t] EXCEPT !.sig = IF ok THEN "ok" ELSE "failed"]]
      BY <1>1 DEF Deliver
    <2>3. \A u \in Task : tasks'[u] = IF u = t
             THEN [tasks[t] EXCEPT !.sig = IF ok THEN "ok" ELSE "failed"] ELSE tasks[u]
      BY <1>0, <2>2 DEF CoordinatorTypeOK
    <2>4. \A u \in Task : /\ tasks'[u].pc = tasks[u].pc /\ tasks'[u].to = tasks[u].to
                          /\ tasks'[u].triggered = tasks[u].triggered
                          /\ u # t => tasks'[u].sig = tasks[u].sig
      BY <2>1, <2>3 DEF Frame
    <2>5. tasks'[t].sig = IF ok THEN "ok" ELSE "failed"
      BY <2>1, <2>3 DEF Frame
    <2>6. Lists' \subseteq Lists
      BY <1>0, <1>1, DeliverLists
    <2> QED
      BY <1>1, <2>4, <2>5, <2>6 DEF Deliver
  <1>4. Serves
    <2>1. Known' \subseteq Known
      BY <1>3 DEF Known
    <2> QED
      BY <1>0, <1>3, <2>1 DEF CalmInv, Serves, Sources
  <1>5. Advances
    BY <1>0, <1>1 DEF Advances, GrantPending
  <1>6. KnownRequests' /\ Sources' /\ Answered' /\ OwnNeeds' /\ Unaborted'
    BY <1>1, <1>4, <1>5, ServesKeeps
  <1>7. SUFFICES ASSUME status' = "running"
                 PROVE  QueueLive' /\ Returned' /\ Recalled'
    BY <1>6 DEF CalmInv
  <1>8. QueueLive /\ Returned /\ Recalled
    BY <1>0, <1>3, <1>7 DEF CalmInv
  <1>9. QueueLive'
    <2> SUFFICES ASSUME NEW h \in hold_queue
                 PROVE  \/ dep'[h.wf] \in {"waiting", "terminated"} /\ ~granted'[h.wf]
                        \/ Marked(h)'
      BY <1>3 DEF QueueLive
    <2>1. h \in Known /\ h.wf \in Wf
      BY <1>0 DEF Known, Lists, CalmInv, KnownRequests, Hold
    <2>2. Marked(h) => Marked(h)'
      BY <1>3 DEF Marked
    <2>3. ASSUME h.wf = tasks[t].to
          PROVE  Marked(h)
      <3>1. tasks[t].pc = "scan"
        BY <1>0, <2>1, <2>3 DEF CalmInv, Sources
      <3>2. PICK x \in tasks[t].triggered : x.wf = tasks[t].to
        BY <1>0, <3>1 DEF CalmInv, Sources
      <3>3. x = h
        BY <1>0, <2>1, <2>3, <3>2 DEF CalmInv, KnownRequests, Known
      <3> QED
        BY <3>1, <3>2, <3>3 DEF Marked
    <2> QED
      BY <1>1, <1>8, <2>1, <2>2, <2>3 DEF QueueLive
  <1>10. Returned'
    <2> SUFFICES ASSUME NEW c \in Wf, dep[c] = "done", Owned(c) # {}
                 PROVE  \E u \in Task : tasks'[u].pc \in {"acquire", "scan"} /\ tasks'[u].to = c
                                        /\ tasks'[u].sig # "ok"
      BY <1>1, <1>3 DEF Returned, Owned
    <2>1. PICK u \in Task : tasks[u].pc \in {"acquire", "scan"} /\ tasks[u].to = c
                            /\ tasks[u].sig # "ok"
      BY <1>8 DEF Returned
    <2> QED
      BY <1>2, <1>3, <2>1
  <1>11. Recalled'
    <2> SUFFICES ASSUME boots' = 1, NEW c \in Wf, dep'[c] = "waiting", ~granted'[c]
                 PROVE  GrantPending(c)' \/ \E h \in hold_queue' : h.wf = c
      BY DEF Recalled
    <2>1. boots = 1 /\ dep[c] = "waiting" /\ ~granted[c]
      BY <1>1, <1>3
    <2>2. GrantPending(c) => GrantPending(c)'
      BY <1>3 DEF GrantPending
    <2> QED
      BY <1>3, <1>8, <2>1, <2>2 DEF Recalled
  <1> QED
    BY <1>9, <1>10, <1>11

\* acquire_locks ends.
LEMMA ResumeAcquireCalm ==
  ASSUME QueueInv, TypeOK', NoneConflicted, NEW t \in Task, ResumeAcquire(t),
         Lists' \subseteq Lists, UNCHANGED <<dep, granted, aborted>>
  PROVE  CalmInv'
  <1>0. CalmInv /\ Told /\ TypeOK /\ CoordinatorTypeOK
    BY DEF QueueInv, Inv, TypeOK
  <1>1. /\ UNCHANGED <<locks, hold_queue, boots, status>>
        /\ tasks[t].pc = "acquire" /\ tasks[t].sig = "ok"
        /\ \A u \in Task : tasks'[u] = IF u = t THEN Idle ELSE tasks[u]
    BY <1>0 DEF ResumeAcquire, CoordinatorTypeOK
  <1>2. Idle.pc = "idle" /\ Idle.triggered = {}
    BY DEF Idle
  <1>3. Serves
    <2>1. Known' \subseteq Known
      BY <1>1, <1>2 DEF Known
    <2> QED
      BY <1>0, <1>1, <1>2, <2>1 DEF CalmInv, Serves, Sources
  <1>4. Advances
    BY DEF Advances
  <1>5. KnownRequests' /\ Sources' /\ Answered' /\ OwnNeeds' /\ Unaborted'
    BY <1>3, <1>4, ServesKeeps
  <1>6. SUFFICES ASSUME status' = "running"
                 PROVE  QueueLive' /\ Returned' /\ Recalled'
    BY <1>5 DEF CalmInv
  <1>7. QueueLive /\ Returned /\ Recalled
    BY <1>0, <1>1, <1>6 DEF CalmInv
  <1>8. QueueLive'
    BY <1>1, <1>7 DEF QueueLive, Marked
  <1>9. Returned'
    <2> SUFFICES ASSUME NEW c \in Wf, dep[c] = "done", Owned(c) # {}
                 PROVE  \E u \in Task : tasks'[u].pc \in {"acquire", "scan"} /\ tasks'[u].to = c
                                        /\ tasks'[u].sig # "ok"
      BY <1>1 DEF Returned, Owned
    <2> QED
      BY <1>1, <1>7 DEF Returned
  <1>10. Recalled'
    <2>1. ASSUME NEW c \in Wf, GrantPending(c), ~granted[c]
          PROVE  GrantPending(c)'
      BY <1>0, <1>1, <2>1 DEF GrantPending, Told
    <2> QED
      BY <1>1, <1>7, <2>1 DEF Recalled
  <1> QED
    BY <1>8, <1>9, <1>10

\* The run fails with its handlers.
LEMMA FailRunCalm ==
  ASSUME QueueInv, TypeOK', NoneConflicted, NEW t \in Task, FailRun(t),
         Lists' \subseteq Lists, UNCHANGED <<dep, granted, aborted>>
  PROVE  CalmInv'
  <1>1. /\ UNCHANGED <<locks, hold_queue>> /\ status' = "failed"
        /\ \A u \in Task : tasks'[u].pc = "idle" /\ tasks'[u].triggered = {}
    BY DEF FailRun, Idle
  <1>2. Serves
    <2>1. Known' \subseteq Known
      BY <1>1 DEF Known
    <2> QED
      BY <1>1, <2>1 DEF Serves
  <1>3. Advances
    BY DEF Advances
  <1> QED
    BY <1>1, <1>2, <1>3, ServesKeeps DEF CalmInv

\* An administrator's reset, when nobody is open, or a new run.
LEMMA AdminCalm ==
  ASSUME QueueInv, TypeOK', NoneConflicted, Reset \/ Boot
  PROVE  CalmInv'
  <1>0. CoordinatorTypeOK /\ Inv
    BY DEF QueueInv, Inv, TypeOK
  <1>1. /\ \A d \in Dir : locks'[d] = None
        /\ hold_queue' = {} /\ UNCHANGED <<dep, granted, aborted>>
    BY DEF Reset, Boot, ResetState, Restart
  <1>2. KeepsDuties
    <2>1. CASE Reset
      BY <1>0, <2>1, DetachMarks DEF Reset, ResetState, CoordinatorTypeOK, FrameMap, KeepsDuties
    <2>2. CASE Boot
      BY <2>2 DEF Boot, Restart, SameRole, KeepsDuties
    <2> QED
      BY <2>1, <2>2
  <1>3. Lists' \subseteq Lists
    BY <1>0, ResetStateLists, RestartLists DEF Reset, Boot
  <1>4. Advances
    BY <1>1 DEF Advances
  <1>5. KnownRequests' /\ Sources' /\ Answered' /\ OwnNeeds' /\ Unaborted'
    BY <1>1, <1>2, <1>3, <1>4, DutiesServe, ServesKeeps
  <1>6. Recalled'
    <2>1. CASE Reset
      BY <1>1, <2>1 DEF Reset, Open, Recalled
    <2>2. CASE Boot
      <3>1. boots \in Nat /\ boots >= 1 /\ boots' = boots + 1
        BY <1>0, <2>2 DEF CoordinatorTypeOK, Inv, Addressed, Boot, Restart
      <3> QED
        BY <3>1 DEF Recalled
    <2> QED
      BY <2>1, <2>2
  <1> QED
    BY <1>1, <1>5, <1>6, CoordinatorAssumption DEF CalmInv, QueueLive, Returned, Owned

-----------------------------------------------------------------------------
(* A deployment asks.                                                      *)

LEMMA StartCalm ==
  ASSUME QueueInv, Inv', NoneConflicted, NEW c \in Wf, Start(c)
  PROVE  CalmInv'
  <1> USE DeployAssumption
  <1>0. CalmInv /\ Inv /\ TypeOK /\ CoordinatorTypeOK /\ Needs[c] \in SUBSET Dir
    BY DEF QueueInv, Inv, TypeOK
  <1>1. /\ dep[c] = "idle" /\ ~granted[c] /\ UNCHANGED <<granted, aborted>>
        /\ \A e \in Wf : dep'[e] = IF e = c THEN "waiting" ELSE dep[e]
    BY <1>0 DEF Start, Goto, Inv, TypeOK, Addressed
  <1>2. /\ \A h \in Known : h.wf \in Wf /\ h.wf # c
        /\ \A u \in Task : tasks[u].pc \in {"acquire", "scan"} => tasks[u].to # c
    BY <1>0, <1>1 DEF CalmInv, KnownRequests, Hold, Inv, Addressed
  <1>3. \A u \in Task : \A h \in tasks[u].triggered : h \in Known
    BY DEF Known
  <1>4. ASSUME UNCHANGED coordinator, status = "stuck"
        PROVE  CalmInv'
    <2>1. Known' = Known
      BY <1>4 DEF coordinator, Known, Lists, Kept
    <2>2. KnownRequests'
      BY <1>0, <1>1, <1>2, <2>1 DEF CalmInv, KnownRequests
    <2>3. Sources'
      BY <1>0, <1>4, <2>1 DEF CalmInv, Sources, coordinator
    <2>4. Answered'
      BY <1>0, <1>1, <1>2, <1>3, <1>4 DEF CalmInv, Answered, coordinator
    <2>5. OwnNeeds' /\ Unaborted' /\ status' = "stuck"
      BY <1>0, <1>1, <1>4 DEF CalmInv, OwnNeeds, Owned, Unaborted, coordinator
    <2> QED
      BY <2>2, <2>3, <2>4, <2>5 DEF CalmInv
  <1>5. ASSUME NEW t \in Task, AcquireLocks(t, c, Needs[c], None)
        PROVE  CalmInv'
    <2> DEFINE ds == {d \in Needs[c] : locks[d] = None}
               g == [Idle EXCEPT !.pc = "acquire", !.to = c, !.sig = "sent"]
               new == NewHold(c, Needs[c], None)
    <2>0. /\ tasks[t].pc = "idle" /\ status' = status /\ boots' = boots /\ status = "running"
          /\ \A u \in Task : tasks[u] \in Frame
      BY <1>0, <1>5 DEF AcquireLocks, Slot, CoordinatorTypeOK
    <2>1. QueueLive /\ Returned /\ Recalled
      BY <1>0, <2>0 DEF CalmInv
    <2>2. g.pc = "acquire" /\ g.to = c /\ g.sig = "sent" /\ g.triggered = {}
          /\ g.snap = {} /\ g.remaining = {}
      BY DEF Idle
    <2>3. new \in Hold /\ new.wf = c /\ new.dirs = Needs[c]
      BY <1>0 DEF NewHold, Hold, CoordinatorTypeOK
    <2> HIDE DEF g, new
    <2>4. ASSUME locks' = Claim(locks, ds, c), tasks' = [tasks EXCEPT ![t] = g],
                 hold_queue' = hold_queue
          PROVE  CalmInv'
      <3>1. \A u \in Task : tasks'[u] = IF u = t THEN g ELSE tasks[u]
        BY <1>0, <2>4 DEF CoordinatorTypeOK
      <3>2. Known' \subseteq Known
        BY <2>2, <2>4, <3>1 DEF Known, Lists, Kept
      <3>3. KnownRequests'
        BY <1>0, <1>1, <1>2, <3>2 DEF CalmInv, KnownRequests
      <3>4. Sources'
        BY <1>0, <1>2, <2>2, <3>1, <3>2 DEF CalmInv, Sources
      <3>5. Answered'
        BY <1>0, <1>1, <1>2, <1>3, <2>2, <3>1 DEF CalmInv, Answered
      <3>6. \A d \in Dir : locks'[d] = IF d \in ds THEN c ELSE locks[d]
        BY <2>4 DEF Claim
      <3>7. OwnNeeds' /\ Unaborted'
        BY <1>0, <1>1, <3>6 DEF CalmInv, OwnNeeds, Owned, Unaborted
      <3>8. QueueLive'
        <4>1. \A h \in hold_queue : h.wf \in Wf /\ h.wf # c
          BY <1>2 DEF Known, Lists
        <4>2. \A h \in hold_queue : Marked(h) => Marked(h)'
          BY <2>0, <3>1 DEF Marked
        <4> QED
          BY <1>1, <2>1, <2>4, <4>1, <4>2 DEF QueueLive
      <3>9. Returned'
        <4> SUFFICES ASSUME NEW e \in Wf, dep'[e] = "done", NEW d \in Dir, locks'[d] = e
                     PROVE  \E u \in Task : /\ tasks'[u].pc \in {"acquire", "scan"}
                                            /\ tasks'[u].to = e /\ tasks'[u].sig # "ok"
          BY DEF Returned, Owned
        <4>1. e # c /\ dep[e] = "done" /\ locks[d] = e
          BY <1>1, <3>6
        <4>2. PICK u \in Task : tasks[u].pc \in {"acquire", "scan"} /\ tasks[u].to = e
                                /\ tasks[u].sig # "ok"
          BY <2>1, <4>1 DEF Returned, Owned
        <4> QED
          BY <2>0, <3>1, <4>2
      <3>10. Recalled'
        <4>1. GrantPending(c)'
          BY <2>2, <3>1 DEF GrantPending
        <4>2. \A e \in Wf : GrantPending(e) => GrantPending(e)'
          BY <2>0, <3>1 DEF GrantPending
        <4> QED
          BY <1>1, <2>0, <2>1, <2>4, <4>1, <4>2 DEF Recalled
      <3> QED
        BY <3>3, <3>4, <3>5, <3>7, <3>8, <3>9, <3>10 DEF CalmInv
    <2>5. ASSUME UNCHANGED <<locks, tasks>>, hold_queue' = hold_queue \cup {new}
          PROVE  CalmInv'
      <3>1. Known' = Known \cup {new}
        BY <2>5 DEF Known, Lists, Kept
      <3>2. KnownRequests'
        BY <1>0, <1>1, <1>2, <2>3, <3>1 DEF CalmInv, KnownRequests
      <3>3. Sources'
        BY <1>0, <1>2, <2>3, <2>5, <3>1 DEF CalmInv, Sources
      <3>4. Answered'
        BY <1>0, <1>1, <1>2, <1>3, <2>5 DEF CalmInv, Answered
      <3>5. OwnNeeds' /\ Unaborted'
        BY <1>0, <1>1, <2>5 DEF CalmInv, OwnNeeds, Owned, Unaborted
      <3>6. QueueLive'
        <4>1. \A h \in hold_queue : h.wf \in Wf /\ h.wf # c
          BY <1>2 DEF Known, Lists
        <4>2. \A h \in hold_queue : Marked(h) => Marked(h)'
          BY <2>5 DEF Marked
        <4> QED
          BY <1>1, <2>1, <2>3, <2>5, <4>1, <4>2 DEF QueueLive
      <3>7. Returned'
        BY <1>1, <2>1, <2>5 DEF Returned, Owned
      <3>8. Recalled'
        BY <1>1, <2>0, <2>1, <2>3, <2>5 DEF Recalled, GrantPending
      <3> QED
        BY <3>2, <3>3, <3>4, <3>5, <3>6, <3>7, <3>8 DEF CalmInv
    <2> QED
      BY <1>5, <2>4, <2>5 DEF AcquireLocks, g, new
  <1> QED
    BY <1>4, <1>5 DEF Start, Ignored

-----------------------------------------------------------------------------
(* All steps.                                                              *)

LEMMA ClientCalm ==
  ASSUME QueueInv, Inv', NoneConflicted', NEW c \in Wf, Client(c)
  PROVE  CalmInv'
  <1> USE DeployAssumption
  <1>0. /\ Inv /\ TypeOK /\ TypeOK' /\ CoordinatorTypeOK /\ Needs[c] \in SUBSET Dir
        /\ {} \in SUBSET Dir
    BY DEF QueueInv, Inv, TypeOK
  <1>1. NoneConflicted
    BY <1>0 DEF NoneConflicted, Client, Goto, Start, Proceed, Finish, LockWaitTimeout, Withdraw,
       AbortedLockConflict, AtlantisLockTimeout, Die, CoordinatorGone, Terminate, CleanUpHold,
       CleanUpLocks, Open, TypeOK
  <1>2. ~aborted[c] /\ OwnNeeds
    BY <1>1 DEF QueueInv, CalmInv, Unaborted
  <1>3. CASE Start(c)
    BY <1>1, <1>3, StartCalm
  \* Nothing is sent, or a stuck coordinator ignores it.
  <1>4. ASSUME UNCHANGED coordinator, NEW s \in DepState, Goto(c, s),
               dep[c] \notin {"idle", "done", "conflicted"} \/ status = "failed",
               s \notin {"idle", "waiting"}, dep[c] \notin {"done", "conflicted"},
               s = "running" => dep[c] = "waiting" /\ granted[c],
               status = "running" =>
                 s # "done" /\ (s = "terminated" \/ granted[c] \/ dep[c] \notin {"waiting", "terminated"})
        PROVE  CalmInv'
    <2>1. Advances /\ dep'[c] = s
      BY <1>0, <1>4, GotoAdvances
    <2>2. \A e \in Wf : dep'[e] = IF e = c THEN s ELSE dep[e]
      BY <1>0, <1>4 DEF Goto, TypeOK
    <2>3. KeepsDuties /\ Lists' \subseteq Lists
          /\ UNCHANGED <<locks, hold_queue, status, boots, granted, aborted>>
      BY <1>4 DEF coordinator, KeepsDuties, SameRole, Lists, Kept, Goto
    <2> QED
      BY <1>0, <1>1, <1>4, <2>1, <2>2, <2>3, QuietCalm
  \* release_locks.
  <1>5. ASSUME NEW t \in Task, NEW ds \in {Needs[c], {}}, ReleaseLocks(t, c, ds), Goto(c, "done"),
               dep[c] \notin {"waiting", "terminated", "done", "conflicted"}
        PROVE  CalmInv'
    <2> DEFINE dirs == IF ds = {} THEN Dir ELSE ds
    <2>1. /\ tasks[t].pc = "idle" /\ status = "running"
          /\ ScanStep(t, NewScan, Drop(locks, dirs, c))
      BY <1>0, <1>5, ReleaseLocksSteps
    <2>2. Advances
      BY <1>0, <1>5, GotoAdvances
    <2>3. \A d \in Dir : Drop(locks, dirs, c)[d] # c
      BY <1>2, CoordinatorAssumption DEF Drop, OwnNeeds, Owned
    <2>4. \A e \in Wf : e # c => dep'[e] = dep[e]
      BY <1>0, <1>5 DEF Goto, TypeOK
    <2>5. Lists' \subseteq Lists /\ boots' = boots /\ UNCHANGED <<granted, aborted>>
      BY <1>0, <1>5, ReleaseLocksLists DEF ReleaseLocks, GrantScan, Goto
    <2>6. ScanFrame(t, NewScan)
      BY <2>1 DEF ScanFrame
    <2> HIDE DEF dirs
    <2> QED
      BY <1>0, <1>1, <1>5, <2>1, <2>2, <2>3, <2>4, <2>5, <2>6, ScanCalm
  \* release_hold.
  <1>6. ASSUME ReleaseHold(c), NEW s \in {"withdrawing", "cleaning"}, Goto(c, s),
               dep[c] \in {"waiting", "terminated"}
        PROVE  CalmInv'
    <2>1. Advances /\ dep'[c] = s
      BY <1>0, <1>6, GotoAdvances
    <2>2. \A e \in Wf : dep'[e] = IF e = c THEN s ELSE dep[e]
      BY <1>0, <1>6 DEF Goto, TypeOK
    <2>3. KeepsDuties
      BY <1>0, <1>6, DetachMarks DEF ReleaseHold, CoordinatorTypeOK, FrameMap, KeepsDuties
    <2>4. /\ UNCHANGED <<locks, status, boots, granted, aborted>> /\ Lists' \subseteq Lists
          /\ hold_queue' = {h \in hold_queue : h.wf # c}
      BY <1>0, <1>6, ReleaseHoldLists DEF ReleaseHold, Goto
    <2> QED
      BY <1>0, <1>1, <1>6, <2>1, <2>2, <2>3, <2>4, QuietCalm
  <1>7. CASE Finish(c) \/ Withdraw(c) \/ CleanUpLocks(c)
    <2>1. /\ dep[c] \in {"running", "withdrawing", "cleaning", "dead"} /\ Goto(c, "done")
          /\ \/ \E t \in Task, ds \in {Needs[c], {}} : ReleaseLocks(t, c, ds)
             \/ Ignored
      BY <1>7 DEF Finish, Withdraw, CleanUpLocks
    <2> QED
      BY <1>4, <1>5, <2>1 DEF Ignored, DepState
  <1>8. CASE LockWaitTimeout(c) \/ CleanUpHold(c)
    <2>1. /\ dep[c] \in {"waiting", "terminated"} /\ (ReleaseHold(c) \/ Ignored)
          /\ \E s \in {"withdrawing", "cleaning"} : Goto(c, s)
      BY <1>8 DEF LockWaitTimeout, CleanUpHold
    <2> QED
      BY <1>4, <1>6, <2>1 DEF Ignored, DepState
  <1>9. CASE Proceed(c) \/ Die(c) \/ CoordinatorGone(c) \/ Terminate(c)
    <2>1. \E s \in {"running", "dead", "done", "terminated"} :
            /\ Goto(c, s) /\ UNCHANGED coordinator
            /\ s = "running" => dep[c] = "waiting" /\ granted[c]
            /\ s = "dead" => dep[c] = "running"
            /\ s = "done" => status = "failed"
            /\ dep[c] \notin {"done", "conflicted"}
            /\ dep[c] = "idle" => status = "failed"
      BY <1>9 DEF Proceed, Die, CoordinatorGone, Terminate, Open
    <2> QED
      BY <1>4, <2>1 DEF DepState
  <1>10. CASE AbortedLockConflict(c)
    BY <1>2, <1>10 DEF AbortedLockConflict
  <1>11. CASE AtlantisLockTimeout(c)
    BY <1>0, <1>11 DEF AtlantisLockTimeout, Goto, TypeOK, NoneConflicted
  <1> QED
    BY <1>3, <1>7, <1>8, <1>9, <1>10, <1>11 DEF Client

LEMMA HandlerCalm ==
  ASSUME QueueInv, Inv', NoneConflicted', NEW t \in Task, Handler(t)
  PROVE  CalmInv'
  <1>0. TypeOK' /\ CoordinatorTypeOK
    BY DEF QueueInv, Inv, TypeOK
  <1>1. dep' = dep /\ NoneConflicted
    BY DEF Handler, LocksGranted, AtlasLockAbort, NoneConflicted
  <1>2. tasks[t].pc # "abort"
    <2>1. tasks[t].pc = "abort" => tasks[t].by \in Wf /\ dep[tasks[t].by] = "conflicted"
      BY DEF QueueInv, Inv, Addressed, AbortsConflict
    <2> QED
      BY <1>1, <2>1 DEF NoneConflicted
  <1>3. CASE LocksGranted(t)
    BY <1>0, <1>1, <1>3, GrantedCalm
  <1>4. ASSUME Resume(t), UNCHANGED <<dep, granted, aborted>>
        PROVE  CalmInv'
    <2>1. Lists' \subseteq Lists
      BY <1>0, <1>4, ResumeLists
    <2>2. CASE ResumeAcquire(t)
      BY <1>0, <1>1, <1>4, <2>1, <2>2, ResumeAcquireCalm
    <2>3. CASE FailRun(t)
      BY <1>0, <1>1, <1>4, <2>1, <2>3, FailRunCalm
    <2>4. CASE ResumeScan(t)
      <3>1. /\ tasks[t].pc = "scan" /\ tasks[t].sig = "ok" /\ status = "running"
            /\ ScanStep(t, tasks[t], locks)
        BY <1>0, <2>4, ResumeScanSteps
      <3>2. Drop(locks, {}, None) = locks
        BY <1>0 DEF Drop, CoordinatorTypeOK
      <3>3. ScanFrame(t, tasks[t]) /\ boots' = boots
        BY <2>4, <3>1 DEF ScanFrame, ResumeScan, GrantScan
      <3>4. Advances
        BY <1>4 DEF Advances
      <3> QED
        BY <1>0, <1>1, <1>4, <2>1, <3>1, <3>2, <3>3, <3>4, ScanCalm
    <2> QED
      BY <1>2, <1>4, <2>2, <2>3, <2>4 DEF Resume, ResumeAbort
  <1> QED
    BY <1>2, <1>3, <1>4 DEF Handler, AtlasLockAbort

\* An abort is for a deployment whose Atlantis conflict outlasted its limit.
LEMMA AbortsConflictStep ==
  ASSUME Inv, AbortsConflict, [Next]_vars
  PROVE  AbortsConflict'
  <1> USE DeployAssumption
  <1>0. /\ TypeOK /\ CoordinatorTypeOK /\ \A u \in Task : tasks[u].pc = "abort" => tasks[u].by \in Wf
    BY DEF Inv, TypeOK, Addressed
  <1>1. \A e \in Wf : dep[e] = "conflicted" => dep'[e] = "conflicted"
    BY <1>0 DEF Next, Client, Handler, Reset, Boot, Goto, Start, Proceed, Finish, LockWaitTimeout,
       Withdraw, AbortedLockConflict, AtlantisLockTimeout, Die, CoordinatorGone, Terminate,
       CleanUpHold, CleanUpLocks, Open, TypeOK, LocksGranted, AtlasLockAbort, vars
  <1>2. ASSUME \A u \in Task : tasks'[u].pc = "abort" =>
                 \/ tasks[u].pc = "abort" /\ tasks'[u].by = tasks[u].by
                 \/ tasks'[u].by \in Wf /\ dep'[tasks'[u].by] = "conflicted"
        PROVE  AbortsConflict'
    BY <1>0, <1>1, <1>2 DEF AbortsConflict
  <1>3. ASSUME NEW r, \A u \in Task : tasks'[u].pc = "abort" =>
                 \/ tasks[u].pc = "abort" /\ tasks'[u].by = tasks[u].by
                 \/ tasks'[u].by = r /\ r \in Wf,
               r \in Wf => dep'[r] = "conflicted"
        PROVE  AbortsConflict'
    BY <1>2, <1>3
  <1>4. ASSUME NEW t \in Task, NEW r, NEW ds, ScanMove(t, r, ds)
        PROVE  AbortsConflict'
    BY <1>2, <1>4 DEF ScanMove, OthersStay, SameRole, Grants, Ends
  <1>5. ASSUME NEW t \in Task, NEW r, NEW ds, SweepMove(t, r, ds), dep'[r] = "conflicted", r \in Wf
        PROVE  AbortsConflict'
    BY <1>3, <1>4, <1>5 DEF SweepMove, OthersStay, SameRole, Aborts
  <1>6. ASSUME UNCHANGED tasks \/ \A u \in Task : SameRole(tasks'[u], tasks[u])
        PROVE  AbortsConflict'
    BY <1>2, <1>6 DEF SameRole
  <1>7. ASSUME NEW c \in Wf, Client(c)
        PROVE  AbortsConflict'
    <2>1. CASE Start(c)
      <3>1. ASSUME NEW t \in Task, AcquireLocks(t, c, Needs[c], None)
            PROVE  AbortsConflict'
        BY <1>0, <1>2, <3>1, AcquireLocksMoves DEF OthersStay, SameRole
      <3> QED
        BY <1>6, <2>1, <3>1 DEF Start, Ignored, coordinator
    <2>2. ASSUME NEW t \in Task, NEW ds, ReleaseLocks(t, c, ds)
          PROVE  AbortsConflict'
      BY <1>0, <1>4, <2>2, ReleaseLocksMoves
    <2>3. ASSUME ReleaseHold(c)
          PROVE  AbortsConflict'
      BY <1>0, <1>6, <2>3, ReleaseHoldMoves
    <2>4. CASE AtlantisLockTimeout(c)
      <3>1. dep'[c] = "conflicted"
        BY <1>0, <2>4 DEF AtlantisLockTimeout, Goto, TypeOK
      <3>2. ASSUME NEW t \in Task, AbortQueuedForDirs(t, c, Needs[c])
            PROVE  AbortsConflict'
        BY <1>0, <1>5, <3>1, <3>2, AbortQueuedForDirsMoves
      <3> QED
        BY <1>6, <2>4, <3>2 DEF AtlantisLockTimeout, Ignored, coordinator
    <2>5. CASE UNCHANGED coordinator
      BY <1>6, <2>5 DEF coordinator
    <2> QED
      BY <1>7, <2>1, <2>2, <2>3, <2>4, <2>5
      DEF Client, Proceed, Finish, LockWaitTimeout, Withdraw, AbortedLockConflict, Die,
          CoordinatorGone, Terminate, CleanUpHold, CleanUpLocks, Ignored
  <1>8. ASSUME NEW t \in Task, Handler(t)
        PROVE  AbortsConflict'
    <2>1. CASE LocksGranted(t) \/ AtlasLockAbort(t)
      <3>1. Open(tasks[t].to) \in BOOLEAN
        BY DEF Open
      <3>2. Deliver(t, Open(tasks[t].to))
        BY <2>1 DEF LocksGranted, AtlasLockAbort
      <3> QED
        BY <1>0, <1>2, <3>1, <3>2, DeliverMoves DEF OthersStay, SameRole
    <2>2. ASSUME Resume(t), dep' = dep
          PROVE  AbortsConflict'
      <3>1. tasks[t].pc = "abort" => tasks[t].by \in Wf /\ dep'[tasks[t].by] = "conflicted"
        BY <1>0, <2>2 DEF AbortsConflict
      <3> QED
        BY <1>0, <1>2, <1>4, <1>5, <2>2, <3>1, ResumeMoves
    <2> QED
      BY <1>8, <2>1, <2>2 DEF Handler
  <1>9. CASE Reset
    BY <1>0, <1>6, <1>9, DetachRole DEF Reset, ResetState, CoordinatorTypeOK, FrameMap
  <1>10. CASE Boot
    BY <1>6, <1>10 DEF Boot, Restart
  <1>11. CASE UNCHANGED vars
    BY <1>6, <1>11 DEF vars, coordinator
  <1> QED
    BY <1>7, <1>8, <1>9, <1>10, <1>11 DEF Next

LEMMA NextQueue ==
  ASSUME WaitInv, QueueInv, [Next]_vars
  PROVE  QueueInv'
  <1>1. WaitInv' /\ AbortsConflict'
    BY NextWait, AbortsConflictStep DEF QueueInv
  <1>2. Inv' /\ Told' /\ TypeOK'
    BY <1>1 DEF WaitInv, Inv
  <1>3. ASSUME NoneConflicted'
        PROVE  CalmInv'
    <2>1. CASE Reset \/ Boot
      <3>1. NoneConflicted
        BY <1>3, <2>1 DEF NoneConflicted, Reset, Boot
      <3> QED
        BY <1>2, <2>1, <3>1, AdminCalm
    <2>2. CASE UNCHANGED vars
      <3>1. UNCHANGED <<locks, hold_queue, tasks, status, boots, dep, granted, aborted>>
        BY <2>2 DEF vars, coordinator
      <3>2. NoneConflicted /\ KeepsDuties /\ Lists' \subseteq Lists /\ Advances
        BY <1>3, <3>1 DEF NoneConflicted, KeepsDuties, SameRole, Lists, Kept, Advances
      <3> QED
        BY <1>2, <3>1, <3>2, QuietCalm
    <2> QED
      BY <1>2, <1>3, <2>1, <2>2, ClientCalm, HandlerCalm DEF Next
  <1> QED
    BY <1>1, <1>2, <1>3 DEF QueueInv

LEMMA InitQueue == DInit => WaitInv /\ QueueInv
  <1> SUFFICES ASSUME DInit PROVE WaitInv /\ QueueInv
    OBVIOUS
  <1>1. \A t \in Task : tasks[t] = Idle
    BY DEF DInit, Init
  <1>2. Idle.pc = "idle" /\ Idle.triggered = {} /\ Idle.snap = {} /\ Idle.remaining = {}
    BY DEF Idle
  <1>3. \A c \in Wf : Owned(c) = {}
    BY CoordinatorAssumption DEF DInit, Init, Owned
  <1>4. WaitInv
    BY <1>1, <1>2, <1>3, InitInv DEF WaitInv, Told, Unclaimed
  <1>5. Known = {} /\ hold_queue = {}
    BY <1>1, <1>2 DEF DInit, Init, Known, Lists, Kept
  <1>6. /\ KnownRequests /\ Sources /\ Answered /\ OwnNeeds /\ Unaborted
        /\ QueueLive /\ Returned /\ Recalled /\ AbortsConflict
    BY <1>1, <1>2, <1>3, <1>5
    DEF DInit, KnownRequests, Sources, Answered, OwnNeeds, Unaborted, QueueLive, Returned,
        Recalled, AbortsConflict
  <1> QED
    BY <1>4, <1>6 DEF QueueInv, WaitInv, CalmInv

\* No request is lost between a list and a loop: a deployment that waits, and to
\* which no signal is on its way, is in the hold queue, as long as no abort has
\* rebound the list a second handler works on.
THEOREM RequestsAreKept == Spec => []Remembered
  <1>1. QueueInv => Remembered
    BY DEF QueueInv, CalmInv, Recalled, Remembered, GrantPending
  <1>2. WaitInv /\ QueueInv /\ [Next]_vars => (WaitInv /\ QueueInv)'
    BY NextWait, NextQueue
  <1> QED
    BY <1>1, <1>2, InitQueue, PTL DEF Spec

\* A deployment that is done leaves nothing behind: when no handler is suspended no
\* entry of the queue is its own, and no directory.
THEOREM NothingLeftBehind == Spec => []NoCorpse
  <1>1. QueueInv => NoCorpse
    <2> SUFFICES ASSUME QueueInv, status = "running", AllHandlersFinished, NoneConflicted,
                        NEW c \in Wf, dep[c] = "done"
                 PROVE  Owned(c) = {} /\ \A h \in hold_queue : h.wf # c
      BY DEF NoCorpse
    <2>1. QueueLive /\ Returned
      BY DEF QueueInv, CalmInv
    <2>2. Owned(c) = {}
      BY <2>1 DEF Returned, AllHandlersFinished
    <2>3. \A h \in hold_queue : h.wf # c
      BY <2>1 DEF QueueLive, Marked, AllHandlersFinished
    <2> QED
      BY <2>2, <2>3
  <1>2. WaitInv /\ QueueInv /\ [Next]_vars => (WaitInv /\ QueueInv)'
    BY NextWait, NextQueue
  <1> QED
    BY <1>1, <1>2, InitQueue, PTL DEF Spec

-----------------------------------------------------------------------------
(* No wake-up is lost when handlers do not overlap.                        *)

WakeInv == TypeOK /\ OrderedLists /\ (OneHandler /\ status = "running" => Awaited)

LEMMA ClientOrdered ==
  ASSUME TypeOK, OrderedLists, NEW c \in Wf, Client(c)
  PROVE  OrderedLists'
  <1> USE DeployAssumption
  <1>1. CoordinatorTypeOK /\ Needs[c] \in SUBSET Dir /\ {} \in SUBSET Dir
    BY DEF TypeOK
  <1>2. CASE Start(c)
    <2>1. CASE \E t \in Task : AcquireLocks(t, c, Needs[c], None)
      BY <1>1, <2>1, AcquireLocksOrdered
    <2>2. CASE UNCHANGED coordinator
      BY <2>2 DEF coordinator, OrderedLists, Lists, Kept
    <2> QED
      BY <1>2, <2>1, <2>2 DEF Start, Ignored
  <1>3. CASE ~Start(c)
    <2>1. arrivals' = arrivals
      BY <1>3 DEF Client, Proceed, Finish, LockWaitTimeout, Withdraw, AbortedLockConflict,
           AtlantisLockTimeout, Die, CoordinatorGone, Terminate, CleanUpHold, CleanUpLocks,
           Ignored, coordinator, ReleaseLocks, GrantScan, ReleaseHold, AbortQueuedForDirs,
           AbortSweep
    <2>2. CASE \E t \in Task : ReleaseLocks(t, c, Needs[c]) \/ ReleaseLocks(t, c, {})
      BY <1>1, <2>1, <2>2, ReleaseLocksLists, OrderedStep
    <2>3. CASE ReleaseHold(c)
      BY <1>1, <2>1, <2>3, ReleaseHoldLists, OrderedStep
    <2>4. CASE \E t \in Task : AbortQueuedForDirs(t, c, Needs[c])
      BY <1>1, <2>1, <2>4, AbortQueuedForDirsLists, OrderedStep
    <2>5. CASE UNCHANGED coordinator
      BY <2>5 DEF coordinator, OrderedLists, Lists, Kept
    <2> QED
      BY <1>3, <2>2, <2>3, <2>4, <2>5
         DEF Client, Proceed, Finish, LockWaitTimeout, Withdraw, AbortedLockConflict,
           AtlantisLockTimeout, Die, CoordinatorGone, Terminate, CleanUpHold, CleanUpLocks,
           Ignored
  <1> QED
    BY <1>2, <1>3

LEMMA ClientAwaits ==
  ASSUME WakeInv, OneHandler, status' = "running", NEW c \in Wf, Client(c)
  PROVE  Awaited'
  <1> USE DeployAssumption
  <1>1. /\ CoordinatorTypeOK /\ OrderedLists /\ Needs[c] \in SUBSET Dir
        /\ status' # "stuck" /\ (status = "running" => Awaited)
    BY DEF WakeInv, TypeOK
  <1>2. CASE \E t \in Task : AcquireLocks(t, c, Needs[c], None)
    BY <1>1, <1>2, AcquireLocksAwaits DEF AcquireLocks
  <1>3. CASE \E t \in Task : ReleaseLocks(t, c, Needs[c]) \/ ReleaseLocks(t, c, {})
    BY <1>1, <1>3, ReleaseLocksAwaits
  <1>4. CASE ReleaseHold(c)
    BY <1>1, <1>4, ReleaseHoldAwaits DEF ReleaseHold
  <1>5. CASE \E t \in Task : AbortQueuedForDirs(t, c, Needs[c])
    BY <1>1, <1>5, AbortQueuedForDirsAwaits DEF AbortQueuedForDirs
  <1>6. CASE UNCHANGED coordinator
    BY <1>1, <1>6 DEF coordinator, Awaited, AllFree, ToVisit, Seen
  <1> QED
    BY <1>2, <1>3, <1>4, <1>5, <1>6
       DEF Client, Start, Proceed, Finish, LockWaitTimeout, Withdraw, AbortedLockConflict,
         AtlantisLockTimeout, Die, CoordinatorGone, Terminate, CleanUpHold, CleanUpLocks,
         Ignored

LEMMA HandlerAwaits ==
  ASSUME WakeInv, NEW t \in Task, Handler(t)
  PROVE  OrderedLists' /\ (OneHandler /\ status' = "running" => Awaited')
  <1>1. CoordinatorTypeOK /\ OrderedLists /\ Open(tasks[t].to) \in BOOLEAN
    BY DEF WakeInv, TypeOK, Open
  <1>2. CASE LocksGranted(t) \/ AtlasLockAbort(t)
    <2>1. Deliver(t, Open(tasks[t].to))
      BY <1>2 DEF LocksGranted, AtlasLockAbort
    <2>2. UNCHANGED <<arrivals, status>>
      BY <2>1 DEF Deliver
    <2> QED
      BY <1>1, <2>1, <2>2, DeliverLists, OrderedStep, DeliverAwaits DEF WakeInv
  <1>3. CASE Resume(t)
    <2>1. arrivals' = arrivals /\ status = "running"
      BY <1>3 DEF Resume, ResumeAcquire, ResumeScan, ResumeAbort, FailRun, AbortSweep, GrantScan
    <2> QED
      BY <1>1, <1>3, <2>1, ResumeLists, OrderedStep, ResumeAwaits DEF WakeInv
  <1> QED
    BY <1>2, <1>3 DEF Handler

LEMMA NextAwaits ==
  ASSUME WakeInv, [Next]_vars
  PROVE  WakeInv'
  <1>1. TypeOK' /\ CoordinatorTypeOK /\ OrderedLists
    BY NextType DEF WakeInv, TypeOK
  <1>2. OneHandler' = OneHandler
    BY DEF OneHandler
  <1>3. CASE \E c \in Wf : Client(c)
    BY <1>1, <1>2, <1>3, ClientOrdered, ClientAwaits DEF WakeInv
  <1>4. CASE \E t \in Task : Handler(t)
    BY <1>1, <1>2, <1>4, HandlerAwaits DEF WakeInv
  <1>5. CASE Reset
    <2>1. ResetState /\ hold_queue' = {} /\ arrivals' = arrivals
      BY <1>5 DEF Reset, ResetState
    <2> QED
      BY <1>1, <2>1, ResetStateLists, OrderedStep DEF WakeInv, Awaited
  <1>6. CASE Boot
    <2>1. Restart /\ hold_queue' = {} /\ arrivals' = arrivals
      BY <1>6 DEF Boot, Restart
    <2> QED
      BY <1>1, <2>1, RestartLists, OrderedStep DEF WakeInv, Awaited
  <1>7. CASE UNCHANGED vars
    BY <1>1, <1>2, <1>7
       DEF vars, coordinator, WakeInv, OrderedLists, Lists, Kept, Awaited, AllFree, ToVisit, Seen
  <1> QED
    BY <1>3, <1>4, <1>5, <1>6, <1>7 DEF Next

\* If at most one handler is suspended at a time, a release grants everyone it
\* unblocks: when no handler is suspended, each queued request waits for a
\* directory that somebody holds.
THEOREM NobodyIsForgotten == Spec => [](OneHandler => NoLostWakeup)
  <1>1. DInit => WakeInv
    <2>1. ASSUME DInit
          PROVE  Lists = {} /\ hold_queue = {}
      BY <2>1 DEF DInit, Init, Lists, Kept, Idle
    <2> QED
      BY <2>1, InitType DEF DInit, WakeInv, TypeOK, DepState, OrderedLists, Awaited
  <1>2. WakeInv /\ [Next]_vars => WakeInv'
    BY NextAwaits
  <1>3. WakeInv => (OneHandler => NoLostWakeup)
    BY DEF WakeInv, Awaited, NoLostWakeup, AllHandlersFinished
  <1> QED
    BY <1>1, <1>2, <1>3, PTL DEF Spec
=============================================================================

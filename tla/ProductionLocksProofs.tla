----------------------- MODULE ProductionLocksProofs -----------------------
(***************************************************************************)
(* Batches, production deployments and their coordinator, for every set of *)
(* them, their directories, handler slots, parks and mishaps: type         *)
(* correctness and, as long as no parked deployment was adopted, that work *)
(* is backed by the lock table, that one deployment at a time works on the *)
(* promotion pull request, and that a parked one keeps its own directories;*)
(* and as long as nothing is terminated or fails, that who has ended owns  *)
(* nothing and waits for nothing.                                          *)
(***************************************************************************)
EXTENDS ProductionLocks, CoordinatorProofs

\* No parked deployment was adopted while a sibling was still to come.
Unadopted == "adopted" \notin mishaps

Granting(f) == f.pc \in {"acquire", "scan"}

\* A locks_granted for x that the server has not delivered yet.
InFlight(x) == \E t \in Task : Granting(tasks[t]) /\ tasks[t].sig = "sent" /\ tasks[t].to = x

Full(x) == \A d \in LockSet(x) : locks[d] = x
Back(x) == \A d \in ParkDirs(x) : locks[d] = x
Rest(x) == \A d \in LockSet(x) \ ParkDirs(x) : locks[d] = x

\* Who asks the coordinator in its own name and is not a child of a batch.
Root == Wf \ Child

-----------------------------------------------------------------------------
\* Where each kind of workflow can be, and in which order a batch runs its children.
Places ==
    /\ \A c \in Wf : pc[c] \in {"opening", "running"} => c \in Orch
    /\ \A c \in Wf : pc[c] \in {"working", "parked", "resuming"} => c \notin Orch
    /\ \A c \in Wf : pc[c] \in {"parked", "resuming"} => c \in Prod
    /\ \A o \in Orch : \A k \in Kids(o) : Open(k) => pc[o] = "running"
    /\ \A o \in Orch : \A i \in DOMAIN Children[o] :
         pc[Children[o][i]] # "idle" => Reached(o, i)

\* A workflow that has not started was told nothing.
IdleFresh == \A c \in Wf : pc[c] = "idle" => ~granted[c]

\* Requests are queued in the name of a root that has started, for all it needs
\* or for what a park gave back.
Requests ==
    \A h \in Lists :
      /\ h.wf \in Root /\ pc[h.wf] # "idle" /\ h.dirs # {}
      /\ \/ h.dirs = LockSet(h.wf)
         \/ h.wf \notin Stage /\ pc[h.wf] # "waiting" /\ h.dirs = ParkDirs(h.wf)

\* Suspended handlers signal workflows that have started.
Frames ==
    \A t \in Task : tasks[t].pc # "idle" =>
      /\ tasks[t].to \in Wf /\ pc[tasks[t].to] # "idle"
      /\ tasks[t].pc # "acquire" => tasks[t].to \in Root

\* An abort runs for a stage deployment that has failed and still holds its
\* directories; whoever it signals asks for one of them.
AbortFrames ==
    /\ \A t \in Task : tasks[t].pc = "abort" =>
         LET f == tasks[t] IN
         /\ f.by \in Stage /\ pc[f.by] = "failed" /\ f.dirs = LockSet(f.by)
         /\ \A d \in f.dirs : locks[d] = f.by
         /\ f.to \notin Orch => Own[f.to] \cap f.dirs # {}
    /\ \A t, u \in Task :
         tasks[t].pc = "abort" /\ tasks[u].pc = "abort" /\ tasks[t].by = tasks[u].by => t = u

\* An abort hits who waits, or who has given up waiting.
AbortedWaits ==
    \A c \in Wf \ Orch : aborted[c] =>
      c \in Root /\ (pc[c] \in {"waiting", "withdrawing"} \/ Ended(c))

\* A workflow that can use a grant.
Live(c) == ~Ended(c) /\ pc[c] # "withdrawing"

\* At most one grant is on its way to a workflow that can use it.
OneGrant ==
    \A t, u \in Task :
      /\ Granting(tasks[t]) /\ tasks[t].sig = "sent"
      /\ Granting(tasks[u]) /\ tasks[u].sig = "sent"
      /\ tasks[t].to = tasks[u].to /\ Live(tasks[t].to)
      => t = u

\* What every request of c asks for.
Claimed(c) == IF c \in Stage THEN Full(c) ELSE Back(c)

\* A grant on its way is registered.
FlightHolds == \A c \in Root : Live(c) /\ InFlight(c) => Claimed(c)

\* A root holds what it was or is being granted.
RootHolds ==
    /\ \A c \in Root : pc[c] = "waiting" /\ (granted[c] \/ InFlight(c)) => Full(c)
    /\ \A c \in Root : pc[c] \in {"opening", "working"} => Full(c)
    /\ \A c \in Root : pc[c] \in {"parked", "resuming"} => Rest(c)
    /\ \A c \in Root : pc[c] = "resuming" /\ granted[c] => Full(c)

\* A grant is used up when it is acted on.
RootGrant ==
    /\ \A c \in Root : pc[c] \in {"waiting", "resuming"} /\ granted[c] => ~InFlight(c)
    /\ \A c \in Root : pc[c] \in {"opening", "working"} => ~InFlight(c)

\* A child that has stepped aside, or has failed.
Aside(k) == pc[k] \in {"parked", "resuming", "failed"}

\* A child works or is still to come, and none has stepped aside.
Whole(o) == (\A k \in Kids(o) : ~Aside(k)) /\ \E k \in Kids(o) : pc[k] # "success"

\* A batch that runs holds all it asked for, except for what a child that has
\* stepped aside gave back.
BatchHolds ==
    \A o \in Orch : pc[o] = "running" =>
      /\ Whole(o) => Full(o) /\ ~InFlight(o)
      /\ \A k \in Kids(o) : pc[k] \in {"parked", "resuming"} => Rest(o)

\* The grant of a resume: on its way to the batch, on its way to the child, there.
BatchGrant ==
    /\ \A o \in Orch : pending[o] # None =>
         pending[o] \in Kids(o) /\ pc[pending[o]] \in {"resuming", "failed"}
    /\ \A k \in acks : k \in Child /\ pc[k] \in {"resuming", "failed"}
    /\ \A o \in Orch : \A k \in Kids(o) : pc[k] = "resuming" /\ (k \in acks \/ granted[k]) =>
         Full(o) /\ ~InFlight(o) /\ pending[o] = None
    /\ \A k \in Child : pc[k] = "resuming" /\ granted[k] => k \notin acks

\* The one grant of a child is its passage at the start.
ChildGrant ==
    /\ \A k \in Child : InFlight(k) => pc[k] \notin {"working", "parked", "resuming"}
    /\ \A k \in Child : pc[k] = "waiting" /\ granted[k] => ~InFlight(k)

Held ==
    /\ Places /\ IdleFresh /\ Requests /\ Frames /\ AbortFrames /\ AbortedWaits
    /\ OneGrant /\ FlightHolds /\ RootHolds /\ RootGrant /\ BatchHolds /\ BatchGrant /\ ChildGrant

Inv == TypeOK /\ (Unadopted => Held)

-----------------------------------------------------------------------------
(* Batches and their children.                                             *)

\* Every child has one batch, which holds its locks; roots hold their own.
LEMMA Families ==
  /\ \A o \in Orch : Kids(o) \subseteq Child
  /\ Child \subseteq Prod /\ Prod \subseteq Wf
  /\ Orch \subseteq Root /\ Stage \subseteq Root /\ Orch \cap Stage = {} /\ Root \subseteq Wf
  /\ \A c \in Child : Parent(c) \in Orch /\ c \in Kids(Parent(c))
  /\ \A o \in Orch : \A k \in Kids(o) : Parent(k) = o
  /\ \A c \in Child : Holder(c) = Parent(c)
  /\ \A c \in Root : Holder(c) = c
  <1> USE ProductionAssumption
  <1>1. \A o \in Orch : Kids(o) \subseteq Child
    BY DEF Child
  <1>2. ASSUME NEW o \in Orch
        PROVE  Kids(o) \subseteq Prod
    <2>1. \A i \in DOMAIN Children[o] : Children[o][i] \in Wf \ (Orch \cup Stage)
      OBVIOUS
    <2> QED
      BY <2>1 DEF Kids, Prod
  <1>3. Child \subseteq Prod /\ Prod \subseteq Wf
    BY <1>2 DEF Child, Prod
  <1>4. Orch \subseteq Root /\ Stage \subseteq Root /\ Orch \cap Stage = {} /\ Root \subseteq Wf
    BY <1>3 DEF Root, Prod
  <1>5. ASSUME NEW c \in Child
        PROVE  Parent(c) \in Orch /\ c \in Kids(Parent(c))
    <2>1. PICK o \in Orch : c \in Kids(o)
      BY DEF Child
    <2> QED
      BY <2>1 DEF Parent
  <1>6. \A o \in Orch : \A k \in Kids(o) : Parent(k) = o
    <2>1. ASSUME NEW o \in Orch, NEW k \in Kids(o)
          PROVE  Parent(k) = o
      <3>1. k \in Child
        BY <1>1
      <3>2. Parent(k) \in Orch /\ k \in Kids(Parent(k))
        BY <1>5, <3>1
      <3> QED
        BY <3>2
    <2> QED
      BY <2>1
  <1> QED
    BY <1>1, <1>3, <1>4, <1>5, <1>6 DEF Holder, Root

\* What each workflow asks for, and what it gives back when it parks.
LEMMA Directories ==
  /\ Key \in Dir
  /\ \A c \in Wf : LockSet(c) \subseteq Dir
  /\ \A c \in Wf : ParkDirs(c) \subseteq Dir /\ Key \in ParkDirs(c)
  /\ \A c \in Root \ Stage : ParkDirs(c) \subseteq LockSet(c)
  /\ \A o \in Orch : \A k \in Kids(o) : LockSet(k) \subseteq LockSet(o) /\ ParkDirs(k) = ParkDirs(o)
  /\ \A c \in Wf : Own[c] \subseteq LockSet(c)
  /\ \A c \in Root : Own[c] \cap ParkDirs(c) = {}
  /\ \A c \in Stage : Key \notin LockSet(c)
  /\ \A c \in Wf \ Stage : Key \in LockSet(c)
  /\ \A c \in Root \ Orch : LockSet(c) \subseteq Own[c] \cup {Key}
  <1> USE ProductionAssumption, DirectoriesAssumption, Families
  <1>1. \A c \in Wf : Holder(c) \in Wf
    BY DEF Root
  <1>2. \A o \in Orch : \A k \in Kids(o) : Holder(k) = o /\ k \in Wf /\ o \in Wf
    OBVIOUS
  <1>3. \A c \in Root : Holder(c) = c /\ c \in Wf
    OBVIOUS
  <1>4. \A c \in Wf : LockSet(c) \subseteq Dir /\ Own[c] \subseteq LockSet(c)
    BY DEF LockSet
  <1>5. \A c \in Wf : ParkDirs(c) \subseteq Dir /\ Key \in ParkDirs(c)
    BY <1>1 DEF ParkDirs
  <1>6. \A c \in Root \ Stage : ParkDirs(c) \subseteq LockSet(c)
    BY <1>3 DEF ParkDirs, LockSet
  <1>7. ASSUME NEW o \in Orch, NEW k \in Kids(o)
        PROVE  LockSet(k) \subseteq LockSet(o) /\ ParkDirs(k) = ParkDirs(o)
    <2>1. o \notin Stage /\ Holder(o) = o /\ Holder(k) = o
      BY <1>2
    <2>2. Own[k] \cup Shared[k] \subseteq Own[o] \cup Shared[o]
      OBVIOUS
    <2> QED
      BY <2>1, <2>2 DEF ParkDirs, LockSet
  <1>8. \A c \in Root : Own[c] \cap ParkDirs(c) = {}
    BY <1>3 DEF ParkDirs
  <1>9. (\A c \in Stage : Key \notin LockSet(c)) /\ \A c \in Wf \ Stage : Key \in LockSet(c)
    BY DEF LockSet
  <1>10. \A c \in Root \ Orch : LockSet(c) \subseteq Own[c] \cup {Key}
    BY DEF LockSet, Root
  <1> QED
    BY <1>4, <1>5, <1>6, <1>7, <1>8, <1>9, <1>10

-----------------------------------------------------------------------------
(* Type correctness.                                                       *)

LEMMA UnchangedType ==
  ASSUME CoordinatorTypeOK, UNCHANGED coordinator
  PROVE  CoordinatorTypeOK'
  BY DEF coordinator, CoordinatorTypeOK

\* The signals a workflow sends.
LEMMA SignalsType ==
  ASSUME CoordinatorTypeOK, NEW r \in Wf, NEW ds \in SUBSET Dir
  PROVE  /\ \A p \in Wf \cup {None} : Acquire(r, ds, p) => CoordinatorTypeOK'
         /\ Release(r, ds) => CoordinatorTypeOK'
         /\ Withdrawal(r) => CoordinatorTypeOK'
         /\ (\E t \in Task : AbortQueuedForDirs(t, r, ds)) => CoordinatorTypeOK'
         /\ Ignored => CoordinatorTypeOK'
  BY AcquireLocksType, ReleaseLocksType, ReleaseHoldType, AbortQueuedForDirsType, UnchangedType
     DEF Acquire, Release, Withdrawal, Ignored

LEMMA OwnReleaseType ==
  ASSUME CoordinatorTypeOK, NEW c \in Wf, OwnRelease(c)
  PROVE  CoordinatorTypeOK'
  BY SignalsType, UnchangedType, Directories DEF OwnRelease

LEMMA GotoType ==
  ASSUME TypeOK, CoordinatorTypeOK', NEW c \in Wf, NEW s \in PC, Goto(c, s),
         UNCHANGED <<granted, aborted, pending, acks, parks>>
  PROVE  TypeOK'
  BY DEF Goto, TypeOK

LEMMA BatchType ==
  ASSUME TypeOK, NEW o \in Orch, Batch(o)
  PROVE  TypeOK'
  <1> USE Families
  <1>1. CoordinatorTypeOK /\ o \in Wf /\ LockSet(o) \in SUBSET Dir
    BY Directories DEF TypeOK
  <1>2. {"waiting", "opening", "running", "working", "parked", "resuming",
         "withdrawing", "success", "failed"} \subseteq PC
    BY DEF PC
  <1>3. CASE OpenBatch(o) \/ EnterTry(o)
    BY <1>1, <1>2, <1>3, UnchangedType, GotoType DEF OpenBatch, EnterTry, flow
  <1>4. CASE StageUpdateFails(o)
    BY <1>1, <1>2, <1>4, UnchangedType, GotoType DEF StageUpdateFails
  <1>5. CASE StartChild(o)
    <2>1. PICK i \in DOMAIN Children[o] :
            /\ Acquire(Children[o][i], LockSet(Children[o][i]), o)
            /\ Goto(Children[o][i], "waiting") /\ UNCHANGED flow
      BY <1>5 DEF StartChild
    <2>2. Children[o][i] \in Kids(o)
      BY DEF Kids
    <2>3. Children[o][i] \in Wf /\ LockSet(Children[o][i]) \in SUBSET Dir
      BY <2>2, Directories
    <2> QED
      BY <1>1, <1>2, <2>1, <2>3, SignalsType, GotoType DEF flow
  <1>6. CASE LeaveTry(o)
    <2> DEFINE s == IF \A k \in Kids(o) : pc[k] = "success" THEN "success" ELSE "failed"
    <2>1. Release(o, LockSet(o)) /\ Goto(o, s) /\ UNCHANGED flow
      BY <1>6 DEF LeaveTry
    <2>2. s \in PC
      BY <1>2
    <2> QED
      BY <1>1, <2>1, <2>2, SignalsType, GotoType DEF flow
  <1> QED
    BY <1>3, <1>4, <1>5, <1>6 DEF Batch

LEMMA DeploymentType ==
  ASSUME TypeOK, NEW c \in Wf, Deployment(c)
  PROVE  TypeOK'
  <1> USE Families, CoordinatorAssumption
  <1>1. CoordinatorTypeOK /\ LockSet(c) \in SUBSET Dir /\ ParkDirs(c) \in SUBSET Dir
    BY Directories DEF TypeOK
  <1>2. {"waiting", "opening", "running", "working", "parked", "resuming",
         "withdrawing", "success", "failed"} \subseteq PC
    BY DEF PC
  <1>3. Holder(c) \in Wf
    BY DEF Root
  <1>4. CASE Start(c)
    BY <1>1, <1>2, <1>4, SignalsType, GotoType DEF Start, flow
  <1>5. CASE Proceed(c) \/ Resumed(c) \/ CoordinatorGone(c)
    BY <1>1, <1>2, <1>5, UnchangedType, GotoType DEF Proceed, Resumed, CoordinatorGone, flow
  <1>6. CASE LockWaitTimeout(c) \/ Withdraw(c)
    BY <1>1, <1>2, <1>6, SignalsType, GotoType DEF LockWaitTimeout, Withdraw, flow
  <1>7. CASE AbortedLockConflict(c)
    BY <1>1, <1>2, <1>7, OwnReleaseType, UnchangedType, GotoType DEF AbortedLockConflict, flow
  <1>8. CASE AtlantisLockTimeout(c) \/ Die(c)
    BY <1>1, <1>2, <1>8, SignalsType, UnchangedType, GotoType DEF AtlantisLockTimeout, Die
  <1>9. CASE Finish(c)
    BY <1>1, <1>2, <1>9, OwnReleaseType, GotoType DEF Finish, flow
  <1>10. CASE FailParked(c) \/ Adopt(c)
    BY <1>1, <1>2, <1>10, OwnReleaseType, GotoType DEF FailParked, Adopt, flow
  <1>11. CASE Park(c)
    <2>1. CoordinatorTypeOK'
      BY <1>1, <1>3, <1>11, SignalsType DEF Park
    <2>2. parks[c] < MaxParks /\ parks[c] \in 0..MaxParks /\ MaxParks \in Nat
      BY <1>11, ProductionAssumption DEF Park, TypeOK
    <2>3. parks[c] + 1 \in 0..MaxParks
      BY <2>2
    <2> QED
      BY <1>2, <1>11, <2>1, <2>3 DEF Park, Goto, TypeOK
  <1>12. CASE Wake(c)
    <2>1. CoordinatorTypeOK'
      BY <1>1, <1>3, <1>12, SignalsType DEF Wake
    <2>2. pending' \in [Orch -> Wf \cup {None}]
      BY <1>12 DEF Wake, TypeOK
    <2> QED
      BY <1>2, <1>12, <2>1, <2>2 DEF Wake, Goto, TypeOK
  <1>13. CASE ResumeTimeout(c)
    <2>1. CoordinatorTypeOK'
      BY <1>1, <1>13, SignalsType, UnchangedType DEF ResumeTimeout
    <2> QED
      BY <1>2, <1>13, <2>1, GotoType DEF ResumeTimeout
  <1>14. CASE Forward(c)
    BY <1>1, <1>14, UnchangedType DEF Forward, TypeOK, Open
  <1> QED
    BY <1>4, <1>5, <1>6, <1>7, <1>8, <1>9, <1>10, <1>11, <1>12, <1>13, <1>14 DEF Deployment

LEMMA HandlerType ==
  ASSUME TypeOK, NEW t \in Task, Handler(t)
  PROVE  TypeOK'
  <1>1. Open(tasks[t].to) \in BOOLEAN
    BY DEF Open
  <1>2. CASE LocksGranted(t)
    <2>1. CoordinatorTypeOK'
      BY <1>1, <1>2, DeliverType DEF LocksGranted, TypeOK
    <2>2. pending' \in [Orch -> Wf \cup {None}] /\ acks' \subseteq Wf
      BY <1>2 DEF LocksGranted, TypeOK
    <2> QED
      BY <1>1, <1>2, <2>1, <2>2 DEF LocksGranted, TypeOK
  <1>3. CASE AtlasLockAbort(t)
    BY <1>1, <1>3, DeliverType DEF AtlasLockAbort, TypeOK
  <1>4. CASE Resume(t) /\ UNCHANGED <<pc, flow>>
    BY <1>4, ResumeType DEF TypeOK, flow
  <1> QED
    BY <1>2, <1>3, <1>4 DEF Handler

LEMMA NextType ==
  ASSUME TypeOK, [Next]_vars
  PROVE  TypeOK'
  <1>1. CASE UNCHANGED vars
    BY <1>1, UnchangedType DEF vars, flow, TypeOK, coordinator
  <1> QED
    BY <1>1, BatchType, DeploymentType, HandlerType DEF Next

LEMMA InitTypes == PInit => TypeOK
  BY InitType, ProductionAssumption DEF PInit, TypeOK, PC

\* Type correctness of the batches, their children and the coordinator.
THEOREM TypeCorrect == Spec => []TypeOK
  BY InitTypes, NextType, PTL DEF Spec

-----------------------------------------------------------------------------
(* What a step of the coordinator does to locks, grants and frames when it *)
(* releases ds on behalf of r.                                             *)

\* x is registered for a request, all of which was free or given back by r.
NewGrant(x, r, ds) ==
    \E h \in Lists :
      /\ h.wf = x
      /\ \A d \in h.dirs : (locks[d] = None \/ (locks[d] = r /\ d \in ds)) /\ locks'[d] = x

Sent(f, x) == Granting(f) /\ f.sig = "sent" /\ f.to = x

Move(r, ds) ==
    /\ \A d \in Dir : locks[d] # None /\ (locks[d] # r \/ d \notin ds) => locks'[d] = locks[d]
    /\ \A x \in Wf : InFlight(x)' => InFlight(x) \/ NewGrant(x, r, ds)
    /\ \A t, u \in Task : \A x \in Wf :
         t # u /\ Sent(tasks'[t], x) /\ Sent(tasks'[u], x) =>
           \/ Sent(tasks[t], x) /\ Sent(tasks[u], x)
           \/ InFlight(x) /\ NewGrant(x, r, ds)
    /\ \A t \in Task : tasks'[t].pc # "idle" =>
         \/ tasks'[t].pc = tasks[t].pc /\ tasks'[t].to = tasks[t].to
         \/ tasks'[t].pc # "acquire" /\ \E h \in Lists : tasks'[t].to = h.wf
    /\ Lists' \subseteq Lists

\* The aborts that run are those of before.
AbortsStay ==
    \A t \in Task : tasks'[t].pc = "abort" =>
      /\ tasks[t].pc = "abort" /\ tasks'[t].by = tasks[t].by /\ tasks'[t].dirs = tasks[t].dirs
      /\ tasks'[t].to = tasks[t].to

\* The part of Sent in InFlight.
LEMMA FlightSent ==
  /\ \A x : InFlight(x) <=> \E t \in Task : Sent(tasks[t], x)
  /\ \A x : InFlight(x)' <=> \E t \in Task : Sent(tasks'[t], x)
  BY DEF InFlight, Sent, Granting

LEMMA StayMove ==
  ASSUME NEW r, NEW ds, locks' = locks, Lists' \subseteq Lists,
         \A u \in Task : SameRole(tasks'[u], tasks[u])
  PROVE  Move(r, ds) /\ AbortsStay
  <1>1. \A u \in Task : \A x : Sent(tasks'[u], x) => Sent(tasks[u], x)
    BY DEF Sent, Granting, SameRole
  <1> QED
    BY <1>1, FlightSent DEF Move, AbortsStay, SameRole

LEMMA UnchangedMove ==
  ASSUME NEW r, NEW ds, UNCHANGED coordinator
  PROVE  Move(r, ds) /\ AbortsStay
  <1>1. UNCHANGED <<locks, tasks>> /\ Lists' = Lists
    BY DEF coordinator, Lists, Kept
  <1> QED
    BY <1>1, StayMove DEF SameRole

LEMMA ScanIsMove ==
  ASSUME CoordinatorTypeOK, NEW t \in Task, NEW r, NEW ds, ScanMove(t, r, ds),
         Lists' \subseteq Lists, Granting(tasks[t]) => tasks[t].sig # "sent"
  PROVE  Move(r, ds)
  <1>1. \A h \in Lists : h.dirs \subseteq Dir /\ h.wf \in Wf
    BY DEF CoordinatorTypeOK, Lists, Kept, Frame, Hold
  <1>2. \A d \in Dir : Drop(locks, ds, r)[d] =
                         IF d \in ds /\ locks[d] = r THEN None ELSE locks[d]
    BY DEF Drop
  <1>3. ASSUME OthersStay(t), NEW h \in Lists, Grants(t, r, ds, h)
        PROVE  Move(r, ds)
    <2>1. \A d \in Dir : locks'[d] = IF d \in h.dirs THEN h.wf ELSE Drop(locks, ds, r)[d]
      BY <1>3 DEF Grants, Claim
    <2>2. \A d \in h.dirs : locks[d] = None \/ (locks[d] = r /\ d \in ds)
      BY <1>1, <1>2, <1>3 DEF Grants
    <2>3. NewGrant(h.wf, r, ds)
      BY <1>1, <2>1, <2>2 DEF NewGrant
    <2>4. \A d \in Dir : locks[d] # None /\ (locks[d] # r \/ d \notin ds) => locks'[d] = locks[d]
      BY <1>2, <2>1, <2>2
    <2>5. \A u \in Task \ {t} : \A x : Sent(tasks'[u], x) => Sent(tasks[u], x)
      BY <1>3 DEF OthersStay, SameRole, Sent, Granting
    <2>6. \A x : Sent(tasks'[t], x) => x = h.wf
      BY <1>3 DEF Grants, Sent
    <2>7. \A x \in Wf : InFlight(x)' => InFlight(x) \/ NewGrant(x, r, ds)
      BY <2>3, <2>5, <2>6, FlightSent
    <2>8. \A u, v \in Task : \A x \in Wf :
            u # v /\ Sent(tasks'[u], x) /\ Sent(tasks'[v], x) =>
              \/ Sent(tasks[u], x) /\ Sent(tasks[v], x)
              \/ InFlight(x) /\ NewGrant(x, r, ds)
      BY <2>3, <2>5, <2>6, FlightSent
    <2>9. \A u \in Task : tasks'[u].pc # "idle" =>
            \/ tasks'[u].pc = tasks[u].pc /\ tasks'[u].to = tasks[u].to
            \/ tasks'[u].pc # "acquire" /\ \E g \in Lists : tasks'[u].to = g.wf
      BY <1>3 DEF Grants, OthersStay, SameRole
    <2> QED
      BY <2>4, <2>7, <2>8, <2>9 DEF Move
  <1>4. ASSUME OthersStay(t), Ends(t, r, ds)
        PROVE  Move(r, ds)
    <2>1. \A d \in Dir : locks[d] # None /\ (locks[d] # r \/ d \notin ds) => locks'[d] = locks[d]
      BY <1>2, <1>4 DEF Ends
    <2>2. \A u \in Task : \A x : Sent(tasks'[u], x) => Sent(tasks[u], x)
      BY <1>4 DEF Ends, OthersStay, SameRole, Sent, Granting
    <2>3. \A u \in Task : tasks'[u].pc # "idle" =>
            tasks'[u].pc = tasks[u].pc /\ tasks'[u].to = tasks[u].to
      BY <1>4 DEF Ends, OthersStay, SameRole
    <2> QED
      BY <2>1, <2>2, <2>3, FlightSent DEF Move
  <1>5. ASSUME UNCHANGED <<locks, tasks>>
        PROVE  Move(r, ds)
    BY <1>5, StayMove DEF SameRole
  <1> QED
    BY <1>3, <1>4, <1>5 DEF ScanMove

LEMMA SweepIsMove ==
  ASSUME CoordinatorTypeOK, NEW t \in Task, NEW r, NEW ds, SweepMove(t, r, ds),
         Lists' \subseteq Lists, Granting(tasks[t]) => tasks[t].sig # "sent"
  PROVE  Move(r, ds)
  <1>1. ASSUME OthersStay(t), NEW h \in Lists, Aborts(t, r, ds, h)
        PROVE  Move(r, ds)
    <2>1. \A u \in Task : \A x : Sent(tasks'[u], x) => Sent(tasks[u], x)
      BY <1>1 DEF Aborts, OthersStay, SameRole, Sent, Granting
    <2>2. \A u \in Task : tasks'[u].pc # "idle" =>
            \/ tasks'[u].pc = tasks[u].pc /\ tasks'[u].to = tasks[u].to
            \/ tasks'[u].pc # "acquire" /\ \E g \in Lists : tasks'[u].to = g.wf
      BY <1>1 DEF Aborts, OthersStay, SameRole
    <2> QED
      BY <1>1, <2>1, <2>2, FlightSent DEF Move, Aborts
  <1> QED
    BY <1>1, ScanIsMove DEF SweepMove

\* A scan that starts in a free slot.
LEMMA ScanAborts ==
  ASSUME NEW t \in Task, NEW r, NEW ds, ScanMove(t, r, ds)
  PROVE  AbortsStay
  BY DEF ScanMove, Grants, Ends, OthersStay, SameRole, AbortsStay

\* release_locks by r.
LEMMA ReleaseMove ==
  ASSUME CoordinatorTypeOK, NEW r \in Wf, NEW ds \in SUBSET Dir, Release(r, ds)
  PROVE  Move(r, IF ds = {} THEN Dir ELSE ds) /\ AbortsStay
  <1>1. ASSUME NEW t \in Task, ReleaseLocks(t, r, ds)
        PROVE  Move(r, IF ds = {} THEN Dir ELSE ds) /\ AbortsStay
    <2>1. Lists' \subseteq Lists
      BY <1>1, ReleaseLocksLists
    <2>2. ~Granting(tasks[t])
      BY <1>1, ReleaseLocksMoves DEF Granting
    <2> QED
      BY <1>1, <2>1, <2>2, ReleaseLocksMoves, ScanIsMove, ScanAborts
  <1>2. CASE Ignored
    BY <1>2, UnchangedMove DEF Ignored
  <1> QED
    BY <1>1, <1>2 DEF Release

\* release_hold by r.
LEMMA WithdrawalMove ==
  ASSUME CoordinatorTypeOK, NEW r \in Wf, Withdrawal(r)
  PROVE  Move(r, {}) /\ AbortsStay
  <1>1. CASE ReleaseHold(r)
    BY <1>1, ReleaseHoldLists, ReleaseHoldMoves, StayMove
  <1>2. CASE Ignored
    BY <1>2, UnchangedMove DEF Ignored
  <1> QED
    BY <1>1, <1>2 DEF Withdrawal

\* A child's own release is none.
LEMMA OwnReleaseMove ==
  ASSUME CoordinatorTypeOK, NEW c \in Wf, OwnRelease(c)
  PROVE  (\E ds \in SUBSET Dir : Move(c, ds)) /\ AbortsStay
  <1>1. LockSet(c) \in SUBSET Dir /\ {} \in SUBSET Dir
    BY Directories
  <1>2. CASE c \in Child
    BY <1>1, <1>2, UnchangedMove DEF OwnRelease
  <1>3. CASE c \notin Child
    <2>1. Release(c, LockSet(c))
      BY <1>3 DEF OwnRelease
    <2>2. (IF LockSet(c) = {} THEN Dir ELSE LockSet(c)) \in SUBSET Dir
      BY <1>1
    <2> QED
      BY <1>1, <2>1, <2>2, ReleaseMove
  <1> QED
    BY <1>2, <1>3

-----------------------------------------------------------------------------
(* Steps in which workflows only come to an end or give up waiting.        *)

\* What a request says of the workflow it is granted to while r releases ds.
LEMMA GrantFacts ==
  ASSUME TypeOK, Requests, NEW r, NEW ds, NEW x \in Wf, x # r, NewGrant(x, r, ds)
  PROVE  /\ x \in Root /\ pc[x] # "idle"
         /\ ~Claimed(x) /\ Claimed(x)'
         /\ ~Full(x) /\ (pc[x] = "waiting" => Full(x)')
  <1>1. PICK h \in Lists :
          /\ h.wf = x
          /\ \A d \in h.dirs : (locks[d] = None \/ (locks[d] = r /\ d \in ds)) /\ locks'[d] = x
    BY DEF NewGrant
  <1>2. /\ x \in Root /\ pc[x] # "idle" /\ h.dirs # {}
        /\ \/ h.dirs = LockSet(x)
           \/ x \notin Stage /\ pc[x] # "waiting" /\ h.dirs = ParkDirs(x)
    BY <1>1 DEF Requests
  <1>3. \A d \in h.dirs : locks[d] # x
    BY <1>1, CoordinatorAssumption
  <1>4. /\ x \in Stage => h.dirs = LockSet(x)
        /\ x \notin Stage => ParkDirs(x) \subseteq h.dirs /\ Key \in ParkDirs(x)
        /\ h.dirs \subseteq LockSet(x)
    BY <1>2, Directories, Families
  <1>5. ~Full(x) /\ ~Claimed(x)
    BY <1>2, <1>3, <1>4 DEF Full, Back, Claimed
  <1>6. Claimed(x)'
    BY <1>1, <1>4 DEF Full, Back, Claimed
  <1>7. pc[x] = "waiting" => Full(x)'
    BY <1>1, <1>2 DEF Full
  <1> QED
    BY <1>2, <1>5, <1>6, <1>7

\* What others hold stays theirs.
LEMMA HoldingStays ==
  ASSUME NEW r, NEW ds, Move(r, ds), NEW x \in Wf, x # r
  PROVE  /\ Full(x) => Full(x)'
         /\ Rest(x) => Rest(x)'
         /\ Claimed(x) => Claimed(x)'
  <1>1. \A d \in Dir : locks[d] = x => locks'[d] = x
    BY CoordinatorAssumption DEF Move
  <1>2. LockSet(x) \subseteq Dir /\ ParkDirs(x) \subseteq Dir
    BY Directories
  <1> QED
    BY <1>1, <1>2 DEF Full, Rest, Back, Claimed

Recede(r) ==
    /\ r \in Wf => pc'[r] \in {"failed", "success", "withdrawing"}
    /\ \A x \in Wf : pc'[x] # pc[x] =>
         /\ Open(x) /\ pc'[x] \in {"failed", "success", "withdrawing"}
         /\ x \in Orch => \A k \in Kids(x) : ~Open(k)
         /\ x \in Child =>
              /\ pc[x] = "parked" => pc'[x] # "withdrawing"
              /\ pc[x] = "resuming" => pc'[x] = "failed"
              /\ pc'[x] = "success" => pc[x] = "working" \/ ~Followed(x)
    /\ UNCHANGED <<granted, aborted, pending, acks>>

\* The order of the children and the places of the workflows.
LEMMA RecedePlaces ==
  ASSUME TypeOK, Places, NEW r, Recede(r)
  PROVE  /\ Places'
         /\ \A o \in Orch : Whole(o)' => Whole(o)
  <1> USE Families
  <1>1. \A x \in Wf : pc'[x] \notin {"failed", "success", "withdrawing"} => pc'[x] = pc[x]
    BY DEF Recede
  <1>2. \A x \in Wf : Open(x)' => Open(x)
    BY DEF Recede, Open, Ended
  <1>3. \A x \in Wf : (pc'[x] = "idle" <=> pc[x] = "idle") /\ (pc[x] = "success" => pc'[x] = "success")
    BY DEF Recede, Open, Ended
  <1>4. \A o \in Orch : \A i \in DOMAIN Children[o] :
          Children[o][i] \in Kids(o) /\ Children[o][i] \in Wf
    BY DEF Kids
  <1>5. \A o \in Orch : \A i \in DOMAIN Children[o] : \A j \in 1..(i - 1) : j \in DOMAIN Children[o]
    BY ProductionAssumption
  <1>6. \A o \in Orch : \A k \in Kids(o) : Open(k)' => pc'[o] = "running"
    <2>1. ASSUME NEW o \in Orch, NEW k \in Kids(o), Open(k)'
          PROVE  pc'[o] = "running"
      <3>1. Open(k) /\ pc[o] = "running"
        BY <1>2, <2>1 DEF Places
      <3> QED
        BY <3>1 DEF Recede
    <2> QED
      BY <2>1
  <1>7. \A o \in Orch : \A i \in DOMAIN Children[o] :
          pc'[Children[o][i]] # "idle" => Reached(o, i)'
    <2>1. ASSUME NEW o \in Orch, NEW i \in DOMAIN Children[o], pc'[Children[o][i]] # "idle"
          PROVE  Reached(o, i)'
      <3>1. Reached(o, i)
        BY <1>3, <1>4, <2>1 DEF Places
      <3> QED
        BY <1>3, <1>4, <1>5, <3>1 DEF Reached
    <2> QED
      BY <2>1
  <1>8. Places'
    BY <1>1, <1>6, <1>7 DEF Places
  <1>9. ASSUME NEW o \in Orch, Whole(o)'
        PROVE  Whole(o)
    <2>1. PICK l \in Kids(o) : pc'[l] # "success" /\ pc[l] # "success"
      BY <1>3, <1>9 DEF Whole
    <2>2. SUFFICES ASSUME NEW k \in Kids(o), Aside(k) PROVE FALSE
      BY <2>1 DEF Whole
    <2>3. ~Aside(k)' /\ pc'[k] # pc[k]
      BY <1>9, <2>2 DEF Whole, Aside
    <2>4. pc[k] = "parked" /\ pc'[k] = "success" /\ ~Followed(k)
      BY <2>2, <2>3 DEF Recede, Aside, Open, Ended
    <2>5. pc[l] # "idle"
      BY <2>4 DEF Followed
    <2>6. PICK i \in DOMAIN Children[o], j \in DOMAIN Children[o] :
            k = Children[o][i] /\ l = Children[o][j]
      BY DEF Kids
    <2>7. i \in Nat /\ j \in Nat /\ i >= 1 /\ j >= 1
      BY ProductionAssumption
    <2>8. CASE i < j
      BY <2>4, <2>5, <2>6, <2>7, <2>8 DEF Places, Reached
    <2>9. CASE j < i
      BY <2>1, <2>4, <2>6, <2>7, <2>9 DEF Places, Reached
    <2> QED
      BY <2>1, <2>4, <2>6, <2>7, <2>8, <2>9
  <1> QED
    BY <1>8, <1>9

\* Everything but the aborts that run.
LEMMA RecedeHeld ==
  ASSUME TypeOK, Held, NEW r, NEW ds, Move(r, ds), Recede(r), AbortFrames'
  PROVE  Held'
  <1> USE Families
  <1>1. Places' /\ \A o \in Orch : Whole(o)' => Whole(o)
    BY RecedePlaces DEF Held
  <1>2. \A x \in Wf : pc'[x] \notin {"failed", "success", "withdrawing"} => pc'[x] = pc[x] /\ x # r
    BY DEF Recede
  <1>3. \A x \in Wf : pc'[x] = "idle" <=> pc[x] = "idle"
    BY DEF Recede, Open, Ended
  <1>4. \A x \in Wf : Live(x)' => Live(x) /\ x # r /\ (pc'[x] # "idle" => pc'[x] = pc[x])
    BY <1>2 DEF Recede, Live, Open, Ended
  <1>5. /\ \A x \in Wf : InFlight(x)' => InFlight(x) \/ NewGrant(x, r, ds)
        /\ Lists' \subseteq Lists
    BY DEF Move
  <1>6. /\ granted' = granted /\ aborted' = aborted /\ pending' = pending /\ acks' = acks
    BY DEF Recede
  <1>7. \A x \in Wf : x # r /\ NewGrant(x, r, ds) =>
          /\ x \in Root /\ pc[x] # "idle" /\ ~Claimed(x) /\ Claimed(x)'
          /\ ~Full(x) /\ (pc[x] = "waiting" => Full(x)')
    BY GrantFacts DEF Held
  <1>8. \A x \in Wf : x # r =>
          (Full(x) => Full(x)') /\ (Rest(x) => Rest(x)') /\ (Claimed(x) => Claimed(x)')
    BY HoldingStays
  <1>9. IdleFresh'
    BY <1>2, <1>6 DEF Held, IdleFresh
  <1>10. Requests'
    <2>1. ASSUME NEW h \in Lists'
          PROVE  /\ h.wf \in Root /\ pc'[h.wf] # "idle" /\ h.dirs # {}
                 /\ \/ h.dirs = LockSet(h.wf)
                    \/ h.wf \notin Stage /\ pc'[h.wf] # "waiting" /\ h.dirs = ParkDirs(h.wf)
      <3>1. h \in Lists
        BY <1>5
      <3>2. /\ h.wf \in Root /\ pc[h.wf] # "idle" /\ h.dirs # {}
            /\ \/ h.dirs = LockSet(h.wf)
               \/ h.wf \notin Stage /\ pc[h.wf] # "waiting" /\ h.dirs = ParkDirs(h.wf)
        BY <3>1 DEF Held, Requests
      <3> QED
        BY <1>2, <1>3, <3>2
    <2> QED
      BY <2>1 DEF Requests
  <1>11. Frames'
    <2>1. ASSUME NEW t \in Task, tasks'[t].pc # "idle"
          PROVE  /\ tasks'[t].to \in Wf /\ pc'[tasks'[t].to] # "idle"
                 /\ tasks'[t].pc # "acquire" => tasks'[t].to \in Root
      <3>1. \/ tasks'[t].pc = tasks[t].pc /\ tasks'[t].to = tasks[t].to
            \/ tasks'[t].pc # "acquire" /\ \E h \in Lists : tasks'[t].to = h.wf
        BY <2>1 DEF Move
      <3> QED
        BY <1>3, <2>1, <3>1 DEF Held, Frames, Requests
    <2> QED
      BY <2>1 DEF Frames
  <1>12. AbortedWaits'
    BY <1>6 DEF Held, AbortedWaits, Recede, Open, Ended
  <1>13. OneGrant'
    <2>1. SUFFICES ASSUME NEW t \in Task, NEW u \in Task, t # u, NEW x \in Wf, Live(x)',
                          Sent(tasks'[t], x), Sent(tasks'[u], x)
                   PROVE  FALSE
      <3>1. \A t \in Task : Granting(tasks'[t]) => tasks'[t].to \in Wf
        BY <1>11 DEF Frames, Granting
      <3> QED
        BY <2>1, <3>1 DEF OneGrant, Sent, Granting
    <2>2. CASE Sent(tasks[t], x) /\ Sent(tasks[u], x)
      BY <1>4, <2>1, <2>2 DEF Held, OneGrant, Sent
    <2>3. CASE InFlight(x) /\ NewGrant(x, r, ds)
      BY <1>4, <1>7, <2>1, <2>3 DEF Held, FlightHolds
    <2> QED
      BY <2>1, <2>2, <2>3 DEF Move
  <1>14. FlightHolds'
    BY <1>4, <1>5, <1>7, <1>8 DEF Held, FlightHolds
  <1>15. RootHolds'
    BY <1>2, <1>5, <1>6, <1>7, <1>8 DEF Held, RootHolds
  <1>16. RootGrant'
    <2>1. ASSUME NEW c \in Root, pc'[c] \in {"opening", "working"} \/
                   (pc'[c] \in {"waiting", "resuming"} /\ granted'[c])
          PROVE  ~InFlight(c)'
      <3>1. pc'[c] = pc[c] /\ c # r /\ Full(c)
        BY <1>2, <1>6, <2>1 DEF Held, RootHolds
      <3> QED
        BY <1>5, <1>6, <1>7, <2>1, <3>1 DEF Held, RootGrant
    <2> QED
      BY <2>1 DEF RootGrant
  <1>17. BatchHolds'
    <2>1. ASSUME NEW o \in Orch, pc'[o] = "running"
          PROVE  /\ Whole(o)' => Full(o)' /\ ~InFlight(o)'
                 /\ \A k \in Kids(o) : pc'[k] \in {"parked", "resuming"} => Rest(o)'
      <3>1. pc[o] = "running" /\ o # r
        BY <1>2, <2>1
      <3> QED
        BY <1>1, <1>2, <1>5, <1>7, <1>8, <3>1 DEF Held, BatchHolds
    <2> QED
      BY <2>1 DEF BatchHolds
  <1>18. BatchGrant'
    <2>1. \A k \in Child : pc[k] \in {"resuming", "failed"} => pc'[k] \in {"resuming", "failed"}
      BY DEF Recede, Open, Ended
    <2>2. ASSUME NEW o \in Orch, NEW k \in Kids(o),
                 pc'[k] = "resuming" /\ (k \in acks' \/ granted'[k])
          PROVE  Full(o)' /\ ~InFlight(o)' /\ pending'[o] = None
      <3>1. pc[k] = "resuming"
        BY <1>2, <2>2
      <3>2. pc'[o] = "running"
        BY <1>1, <2>2 DEF Places, Open, Ended
      <3>3. Full(o) /\ ~InFlight(o) /\ pending[o] = None
        BY <1>6, <2>2, <3>1 DEF Held, BatchGrant
      <3> QED
        BY <1>2, <1>5, <1>6, <1>7, <1>8, <3>2, <3>3
    <2> QED
      BY <1>2, <1>6, <2>1, <2>2 DEF Held, BatchGrant
  <1>19. ChildGrant'
    <2>1. \A k \in Child : InFlight(k)' /\ k # r => InFlight(k)
      BY <1>5, <1>7 DEF Root
    <2> QED
      BY <1>2, <1>6, <2>1 DEF Held, ChildGrant
  <1> QED
    BY <1>1, <1>9, <1>10, <1>11, <1>12, <1>13, <1>14, <1>15, <1>16, <1>17, <1>18, <1>19 DEF Held

\* The aborts that run are not disturbed by who has not failed.
LEMMA AbortFramesKept ==
  ASSUME TypeOK, AbortFrames, NEW r, AbortsStay,
         \A d \in Dir : locks[d] \notin {None, r} => locks'[d] = locks[d],
         \A t \in Task : tasks[t].pc = "abort" => tasks[t].by # r,
         \A x \in Wf : pc[x] = "failed" => pc'[x] = "failed"
  PROVE  AbortFrames'
  <1>1. ASSUME NEW t \in Task, tasks'[t].pc = "abort"
        PROVE  LET f == tasks'[t] IN
               /\ f.by \in Stage /\ pc'[f.by] = "failed" /\ f.dirs = LockSet(f.by)
               /\ \A d \in f.dirs : locks'[d] = f.by
               /\ f.to \notin Orch => Own[f.to] \cap f.dirs # {}
    <2> DEFINE f == tasks[t]
    <2>1. /\ f.pc = "abort" /\ tasks'[t].by = f.by /\ tasks'[t].dirs = f.dirs
          /\ tasks'[t].to = f.to
      BY <1>1 DEF AbortsStay
    <2>2. /\ f.by \in Stage /\ pc[f.by] = "failed" /\ f.dirs = LockSet(f.by) /\ f.by # r
          /\ \A d \in f.dirs : locks[d] = f.by
          /\ f.to \notin Orch => Own[f.to] \cap f.dirs # {}
      BY <2>1 DEF AbortFrames
    <2>3. f.by \in Wf /\ LockSet(f.by) \subseteq Dir
      BY <2>2, Families, Directories
    <2>4. \A d \in f.dirs : locks'[d] = f.by
      BY <2>2, <2>3, CoordinatorAssumption
    <2> QED
      BY <2>1, <2>2, <2>3, <2>4
  <1>2. \A t, u \in Task :
          tasks'[t].pc = "abort" /\ tasks'[u].pc = "abort" /\ tasks'[t].by = tasks'[u].by => t = u
    BY DEF AbortFrames, AbortsStay
  <1> QED
    BY <1>1, <1>2 DEF AbortFrames

LEMMA AbortFramesStay ==
  ASSUME TypeOK, AbortFrames, NEW r, NEW ds, Move(r, ds), AbortsStay,
         \A t \in Task : tasks[t].pc = "abort" => tasks[t].by # r,
         \A x \in Wf : pc[x] = "failed" => pc'[x] = "failed"
  PROVE  AbortFrames'
  <1>1. \A d \in Dir : locks[d] \notin {None, r} => locks'[d] = locks[d]
    BY DEF Move
  <1> QED
    BY <1>1, AbortFramesKept

\* One workflow comes to an end or gives up waiting.
LEMMA OneRecedes ==
  ASSUME TypeOK, Held, NEW c \in Wf, Open(c),
         NEW s \in {"failed", "success", "withdrawing"}, Goto(c, s),
         UNCHANGED <<granted, aborted, pending, acks>>,
         c \in Orch => \A k \in Kids(c) : ~Open(k),
         c \in Child => /\ pc[c] \in {"parked", "resuming"} => s # "withdrawing"
                        /\ pc[c] = "resuming" => s = "failed"
                        /\ s = "success" => pc[c] = "working" \/ ~Followed(c),
         NEW ds, Move(c, ds), AbortsStay
  PROVE  Held'
  <1>1. \A x \in Wf : pc'[x] = IF x = c THEN s ELSE pc[x]
    BY DEF Goto, TypeOK
  <1>2. Recede(c)
    BY <1>1 DEF Recede
  <1>3. /\ \A t \in Task : tasks[t].pc = "abort" => tasks[t].by # c
        /\ \A x \in Wf : pc[x] = "failed" => pc'[x] = "failed"
    BY <1>1 DEF Held, AbortFrames, Open, Ended
  <1>4. AbortFrames'
    BY <1>3, AbortFramesStay DEF Held
  <1> QED
    BY <1>2, <1>4, RecedeHeld

\* Every end of a deployment but the one that aborts others.
LEMMA EndHeld ==
  ASSUME TypeOK, Held, Unadopted', NEW c \in Wf,
         \/ LockWaitTimeout(c) \/ Withdraw(c) \/ AbortedLockConflict(c)
         \/ Finish(c) \/ FailParked(c) \/ Adopt(c) \/ ResumeTimeout(c) \/ Die(c)
         \/ CoordinatorGone(c)
  PROVE  Held'
  <1> USE Families
  <1>1. CoordinatorTypeOK /\ LockSet(c) \in SUBSET Dir
    BY Directories DEF TypeOK
  <1>2. c \in Orch => pc[c] \notin {"working", "parked", "resuming"}
    BY DEF Held, Places
  <1>3. pc[c] # "running" /\ c \in Orch => \A k \in Kids(c) : ~Open(k)
    BY DEF Held, Places
  <1>4. CASE LockWaitTimeout(c)
    <2>1. Move(c, {}) /\ AbortsStay
      BY <1>1, <1>4, WithdrawalMove DEF LockWaitTimeout
    <2>2. Open(c) /\ Goto(c, "withdrawing") /\ pc[c] = "waiting"
          /\ UNCHANGED <<granted, aborted, pending, acks>>
      BY <1>4 DEF LockWaitTimeout, Open, Ended
    <2> QED
      BY <1>3, <2>1, <2>2, OneRecedes
  <1>5. CASE Withdraw(c)
    <2>1. PICK ds : Move(c, ds) /\ AbortsStay
      BY <1>1, <1>5, ReleaseMove DEF Withdraw
    <2>2. Open(c) /\ Goto(c, "failed") /\ pc[c] = "withdrawing"
          /\ UNCHANGED <<granted, aborted, pending, acks>>
      BY <1>5 DEF Withdraw, Open, Ended, flow
    <2> QED
      BY <1>3, <2>1, <2>2, OneRecedes
  <1>6. CASE AbortedLockConflict(c)
    <2>1. PICK ds : Move(c, ds) /\ AbortsStay
      BY <1>1, <1>6, OwnReleaseMove, UnchangedMove DEF AbortedLockConflict
    <2>2. Open(c) /\ Goto(c, "failed") /\ pc[c] = "waiting"
          /\ UNCHANGED <<granted, aborted, pending, acks>>
      BY <1>6 DEF AbortedLockConflict, Open, Ended, flow
    <2> QED
      BY <1>3, <2>1, <2>2, OneRecedes
  <1>7. CASE Finish(c)
    <2>1. PICK ds : Move(c, ds) /\ AbortsStay
      BY <1>1, <1>7, OwnReleaseMove DEF Finish
    <2>2. PICK s \in {"success", "failed"} : Goto(c, s)
      BY <1>7 DEF Finish
    <2>3. Open(c) /\ pc[c] = "working" /\ UNCHANGED <<granted, aborted, pending, acks>>
      BY <1>7 DEF Finish, Open, Ended, flow
    <2> QED
      BY <1>3, <2>1, <2>2, <2>3, OneRecedes
  <1>8. CASE FailParked(c)
    <2>1. PICK ds : Move(c, ds) /\ AbortsStay
      BY <1>1, <1>8, OwnReleaseMove DEF FailParked
    <2>2. Open(c) /\ Goto(c, "failed") /\ pc[c] = "parked"
          /\ UNCHANGED <<granted, aborted, pending, acks>>
      BY <1>8 DEF FailParked, Open, Ended, flow
    <2> QED
      BY <1>3, <2>1, <2>2, OneRecedes
  <1>9. CASE Adopt(c)
    <2>1. PICK ds : Move(c, ds) /\ AbortsStay
      BY <1>1, <1>9, OwnReleaseMove DEF Adopt
    <2>2. Open(c) /\ Goto(c, "success") /\ pc[c] = "parked"
          /\ UNCHANGED <<granted, aborted, pending, acks>>
      BY <1>9 DEF Adopt, Open, Ended
    <2>3. ~Followed(c)
      BY <1>9 DEF Adopt, Unadopted, Mishap
    <2> QED
      BY <1>3, <2>1, <2>2, <2>3, OneRecedes
  <1>10. CASE ResumeTimeout(c)
    <2>1. PICK ds : Move(c, ds) /\ AbortsStay
      BY <1>1, <1>10, WithdrawalMove, UnchangedMove DEF ResumeTimeout
    <2>2. Open(c) /\ pc[c] = "resuming" /\ UNCHANGED <<granted, aborted, pending, acks>>
      BY <1>10 DEF ResumeTimeout, Open, Ended
    <2>3. PICK s \in {"failed", "withdrawing"} : Goto(c, s) /\ (c \in Child => s = "failed")
      BY <1>10 DEF ResumeTimeout
    <2> QED
      BY <1>3, <2>1, <2>2, <2>3, OneRecedes
  <1>11. CASE Die(c)
    <2>1. Move(c, {}) /\ AbortsStay
      BY <1>11, UnchangedMove DEF Die
    <2>2. Open(c) /\ Goto(c, "failed") /\ pc[c] = "working"
          /\ UNCHANGED <<granted, aborted, pending, acks>>
      BY <1>11 DEF Die, Open, Ended
    <2> QED
      BY <1>3, <2>1, <2>2, OneRecedes
  <1>12. CASE CoordinatorGone(c)
    <2>1. Move(c, {}) /\ AbortsStay
      BY <1>12, UnchangedMove DEF CoordinatorGone
    <2>2. Open(c) /\ Goto(c, "failed") /\ (c \in Orch => \A k \in Kids(c) : ~Open(k))
          /\ UNCHANGED <<granted, aborted, pending, acks>>
      BY <1>12 DEF CoordinatorGone, flow
    <2> QED
      BY <2>1, <2>2, OneRecedes
  <1> QED
    BY <1>4, <1>5, <1>6, <1>7, <1>8, <1>9, <1>10, <1>11, <1>12

\* The ends of a batch.
LEMMA BatchEndHeld ==
  ASSUME TypeOK, Held, NEW o \in Orch, StageUpdateFails(o) \/ LeaveTry(o)
  PROVE  Held'
  <1> USE Families
  <1>1. CoordinatorTypeOK /\ o \in Wf /\ LockSet(o) \in SUBSET Dir /\ o \notin Child
    BY Directories DEF TypeOK, Root
  <1>2. CASE StageUpdateFails(o)
    <2>1. Move(o, {}) /\ AbortsStay
      BY <1>2, UnchangedMove DEF StageUpdateFails
    <2>2. Open(o) /\ Goto(o, "failed") /\ UNCHANGED <<granted, aborted, pending, acks>>
      BY <1>2 DEF StageUpdateFails, Open, Ended
    <2>3. \A k \in Kids(o) : ~Open(k)
      BY <1>2 DEF StageUpdateFails, Held, Places
    <2> QED
      BY <1>1, <2>1, <2>2, <2>3, OneRecedes
  <1>3. CASE LeaveTry(o)
    <2>1. PICK ds : Move(o, ds) /\ AbortsStay
      BY <1>1, <1>3, ReleaseMove DEF LeaveTry
    <2>2. Open(o) /\ UNCHANGED <<granted, aborted, pending, acks>>
          /\ \A k \in Kids(o) : ~Open(k)
      BY <1>3 DEF LeaveTry, Open, Ended, flow
    <2>3. PICK s \in {"success", "failed"} : Goto(o, s)
      BY <1>3 DEF LeaveTry
    <2> QED
      BY <1>1, <2>1, <2>2, <2>3, OneRecedes
  <1> QED
    BY <1>2, <1>3

\* Who asks for one of the directories of a stage deployment without being a
\* batch asks for it among its own: the key is none of them.
LEMMA Overlaps ==
  ASSUME NEW by \in Stage, NEW x \in Root \ Orch, NEW ds,
         ds = LockSet(x) \/ ds = ParkDirs(x), ds \cap LockSet(by) # {}
  PROVE  Own[x] \cap LockSet(by) # {}
  <1>1. PICK d \in ds : d \in LockSet(by)
    OBVIOUS
  <1>2. by \in Wf /\ x \in Wf /\ x \notin Child /\ Holder(x) = x
    BY Families DEF Root
  <1>3. d # Key
    BY <1>1, <1>2, Directories
  <1>4. Shared[x] = {}
    BY <1>2, DirectoriesAssumption
  <1> QED
    BY <1>1, <1>2, <1>3, <1>4, Directories DEF ParkDirs

\* The sweep of an abort by `by`: one more abort frame, or none of its own left.
LEMMA SweepAborts ==
  ASSUME TypeOK, Held, NEW t \in Task, NEW by \in Stage,
         SweepMove(t, by, LockSet(by)), pc'[by] = "failed",
         \A x \in Wf : pc[x] = "failed" => pc'[x] = "failed",
         \A u \in Task \ {t} : tasks[u].pc = "abort" => tasks[u].by # by,
         Full(by),
         tasks[t].pc = "abort" => tasks[t].by = by
  PROVE  \/ AbortFrames'
         \/ status' = "stuck" /\ UNCHANGED <<locks, tasks>>
  <1> USE Families
  <1>1. by \in Wf /\ by \notin Orch /\ LockSet(by) \subseteq Dir
    BY Directories
  <1>2. ASSUME OthersStay(t),
               \A d \in Dir : locks[d] \notin {None, by} => locks'[d] = locks[d],
               tasks'[t].pc = "abort" =>
                 /\ tasks'[t].by = by /\ tasks'[t].dirs = LockSet(by)
                 /\ \A d \in LockSet(by) : locks'[d] = by
                 /\ tasks'[t].to \notin Orch => Own[tasks'[t].to] \cap LockSet(by) # {}
        PROVE  AbortFrames'
    <2>1. \A u \in Task \ {t} :
            /\ tasks'[u].pc = tasks[u].pc /\ tasks'[u].by = tasks[u].by
            /\ tasks'[u].dirs = tasks[u].dirs /\ tasks'[u].to = tasks[u].to
      BY <1>2 DEF OthersStay, SameRole
    <2>2. ASSUME NEW u \in Task, tasks'[u].pc = "abort"
          PROVE  /\ tasks'[u].by \in Stage /\ pc'[tasks'[u].by] = "failed"
                 /\ tasks'[u].dirs = LockSet(tasks'[u].by)
                 /\ \A d \in tasks'[u].dirs : locks'[d] = tasks'[u].by
                 /\ tasks'[u].to \notin Orch => Own[tasks'[u].to] \cap tasks'[u].dirs # {}
      <3>1. CASE u = t
        BY <1>2, <2>2, <3>1
      <3>2. CASE u # t
        <4> DEFINE g == tasks[u]
        <4>1. /\ g.pc = "abort" /\ g.by = tasks'[u].by /\ g.dirs = tasks'[u].dirs
              /\ g.to = tasks'[u].to /\ g.by # by
          BY <2>1, <2>2, <3>2
        <4>2. /\ g.by \in Stage /\ pc[g.by] = "failed" /\ g.dirs = LockSet(g.by)
              /\ \A d \in g.dirs : locks[d] = g.by
              /\ g.to \notin Orch => Own[g.to] \cap g.dirs # {}
          BY <4>1 DEF Held, AbortFrames
        <4>3. g.by \in Wf /\ g.dirs \subseteq Dir /\ g.by # None
          BY <4>2, Directories, CoordinatorAssumption
        <4>4. \A d \in g.dirs : locks'[d] = g.by
          BY <1>2, <4>1, <4>2, <4>3
        <4> QED
          BY <4>1, <4>2, <4>3, <4>4
      <3> QED
        BY <3>1, <3>2
    <2>3. \A u, v \in Task :
            tasks'[u].pc = "abort" /\ tasks'[v].pc = "abort" /\ tasks'[u].by = tasks'[v].by => u = v
      BY <1>2, <2>1 DEF Held, AbortFrames
    <2> QED
      BY <2>2, <2>3 DEF AbortFrames
  <1>3. \A h \in Lists : h.wf \in Wf /\ h.dirs \subseteq Dir
    BY DEF TypeOK, CoordinatorTypeOK, Lists, Kept, Frame, Hold
  <1>4. ASSUME OthersStay(t), NEW h \in Lists, Grants(t, by, LockSet(by), h)
        PROVE  AbortFrames'
    <2>1. \A d \in Dir : locks[d] \notin {None, by} => locks'[d] = locks[d]
      BY <1>4 DEF Grants, Claim, Drop
    <2> QED
      BY <1>2, <1>4, <2>1 DEF Grants
  <1>5. ASSUME OthersStay(t), Ends(t, by, LockSet(by))
        PROVE  AbortFrames'
    <2>1. \A d \in Dir : locks[d] \notin {None, by} => locks'[d] = locks[d]
      BY <1>5 DEF Ends, Drop
    <2> QED
      BY <1>2, <1>5, <2>1 DEF Ends
  <1>6. ASSUME OthersStay(t), NEW h \in Lists, Aborts(t, by, LockSet(by), h)
        PROVE  AbortFrames'
    <2>1. /\ h.wf \in Root /\ h.dirs \in {LockSet(h.wf), ParkDirs(h.wf)}
          /\ h.dirs \cap LockSet(by) # {}
      BY <1>6 DEF Held, Requests, Aborts
    <2>2. h.wf \notin Orch => Own[h.wf] \cap LockSet(by) # {}
      BY <1>6, <2>1, Overlaps DEF Held, Requests, Aborts
    <2> QED
      BY <1>2, <1>6, <2>2 DEF Aborts, Full
  <1> QED
    BY <1>4, <1>5, <1>6 DEF SweepMove, ScanMove

\* A stage deployment whose lock conflict outlasted its limit.
LEMMA AtlantisLockTimeoutHeld ==
  ASSUME TypeOK, Held, NEW c \in Wf, AtlantisLockTimeout(c)
  PROVE  Held'
  <1> USE Families
  <1>1. c \in Stage /\ c \in Root /\ c \notin Orch /\ c \notin Child /\ pc[c] = "working"
    BY DEF AtlantisLockTimeout, Root, Prod
  <1>2. \A x \in Wf : pc'[x] = IF x = c THEN "failed" ELSE pc[x]
    BY DEF AtlantisLockTimeout, Goto, TypeOK
  <1>3. Recede(c)
    BY <1>1, <1>2 DEF AtlantisLockTimeout, Recede, Open, Ended
  <1>4. CoordinatorTypeOK /\ LockSet(c) \in SUBSET Dir
    BY Directories DEF TypeOK
  <1>5. Full(c)
    BY <1>1 DEF Held, RootHolds
  <1>6. \A u \in Task : tasks[u].pc = "abort" => tasks[u].by # c
    BY <1>1 DEF Held, AbortFrames
  <1>7. CASE Ignored
    <2>1. Move(c, {}) /\ AbortsStay
      BY <1>7, UnchangedMove DEF Ignored
    <2>2. AbortFrames'
      BY <1>2, <1>6, <2>1, AbortFramesStay DEF Held
    <2> QED
      BY <1>3, <2>1, <2>2, RecedeHeld
  <1>8. ASSUME NEW t \in Task, AbortQueuedForDirs(t, c, LockSet(c))
        PROVE  Held'
    <2>1. tasks[t].pc = "idle" /\ SweepMove(t, c, LockSet(c)) /\ Lists' \subseteq Lists
      BY <1>4, <1>8, AbortQueuedForDirsMoves, AbortQueuedForDirsLists
    <2>2. Move(c, LockSet(c))
      BY <1>4, <2>1, SweepIsMove DEF Granting
    <2>3. CASE AbortFrames'
      BY <1>3, <2>2, <2>3, RecedeHeld
    <2>4. CASE UNCHANGED <<locks, tasks>>
      <3>1. Move(c, LockSet(c)) /\ AbortsStay
        BY <2>1, <2>4, StayMove DEF SameRole
      <3>2. AbortFrames'
        BY <1>2, <1>6, <3>1, AbortFramesStay DEF Held
      <3> QED
        BY <1>3, <3>1, <3>2, RecedeHeld
    <2> QED
      BY <1>1, <1>2, <1>5, <1>6, <2>1, <2>3, <2>4, SweepAborts
  <1> QED
    BY <1>7, <1>8 DEF AtlantisLockTimeout

\* A handler of the coordinator goes on after its await.
LEMMA ResumeHeld ==
  ASSUME TypeOK, Held, NEW t \in Task, Resume(t), UNCHANGED <<pc, flow>>
  PROVE  Held'
  <1> USE Families, CoordinatorAssumption
  <1>1. CoordinatorTypeOK /\ Lists' \subseteq Lists
    BY ResumeLists DEF TypeOK
  <1>2. pc' = pc /\ granted' = granted /\ aborted' = aborted /\ pending' = pending /\ acks' = acks
    BY DEF flow
  <1>3. \A r : (r \in Wf => pc[r] = "failed") => Recede(r)
    BY <1>2 DEF Recede
  <1>4. CASE tasks[t].pc \in {"acquire", "scan"} /\ tasks[t].sig = "ok" /\ ScanMove(t, None, {})
    <2>1. Move(None, {}) /\ AbortsStay
      BY <1>1, <1>4, ScanIsMove, ScanAborts
    <2>2. \A u \in Task : tasks[u].pc = "abort" => tasks[u].by # None
      BY DEF Held, AbortFrames
    <2>3. AbortFrames'
      BY <1>2, <2>1, <2>2, AbortFramesStay DEF Held
    <2> QED
      BY <1>3, <2>1, <2>3, RecedeHeld
  <1>5. CASE /\ tasks[t].pc = "abort" /\ tasks[t].sig \in {"ok", "failed"}
             /\ SweepMove(t, tasks[t].by, tasks[t].dirs)
    <2> DEFINE by == tasks[t].by
    <2>1. /\ by \in Stage /\ pc[by] = "failed" /\ tasks[t].dirs = LockSet(by) /\ Full(by)
          /\ \A u \in Task \ {t} : tasks[u].pc = "abort" => tasks[u].by # by
      BY <1>5 DEF Held, AbortFrames, Full
    <2>2. Move(by, LockSet(by)) /\ Recede(by) /\ SweepMove(t, by, LockSet(by))
      BY <1>1, <1>3, <1>5, <2>1, SweepIsMove DEF Granting
    <2> HIDE DEF by
    <2>3. CASE AbortFrames'
      BY <2>2, <2>3, RecedeHeld
    <2>4. CASE UNCHANGED <<locks, tasks>>
      <3>1. Move(None, {}) /\ AbortsStay
        BY <1>1, <2>4, StayMove DEF SameRole
      <3>2. AbortFrames'
        BY <1>2, <2>4 DEF Held, AbortFrames
      <3> QED
        BY <1>3, <3>1, <3>2, RecedeHeld
    <2>5. tasks[t].pc = "abort" => tasks[t].by = by
      BY DEF by
    <2> QED
      BY <1>2, <2>1, <2>2, <2>3, <2>4, <2>5, SweepAborts
  <1>6. CASE locks' = locks /\ \A u \in Task : tasks'[u].pc = "idle"
    <2>1. Move(None, {})
      BY <1>1, <1>6 DEF Move, InFlight, Sent, Granting
    <2>2. AbortFrames'
      BY <1>6 DEF AbortFrames
    <2> QED
      BY <1>3, <2>1, <2>2, RecedeHeld
  <1> QED
    BY <1>1, <1>4, <1>5, <1>6, ResumeMoves

-----------------------------------------------------------------------------
(* Signals that arrive.                                                    *)

\* The server delivers the signal of t: one grant or abort less on its way.
LEMMA Delivered ==
  ASSUME CoordinatorTypeOK, NEW t \in Task, NEW ok \in BOOLEAN, Deliver(t, ok)
  PROVE  /\ locks' = locks /\ Lists' = Lists /\ tasks[t].sig = "sent"
         /\ \A u \in Task : /\ tasks'[u].pc = tasks[u].pc /\ tasks'[u].to = tasks[u].to
                            /\ tasks'[u].by = tasks[u].by /\ tasks'[u].dirs = tasks[u].dirs
         /\ \A u \in Task : \A x : Sent(tasks'[u], x) <=> u # t /\ Sent(tasks[u], x)
         /\ \A x : InFlight(x)' => InFlight(x)
  <1>1. /\ locks' = locks /\ tasks[t].sig = "sent" /\ OthersStay(t)
        /\ tasks'[t].pc = tasks[t].pc /\ tasks'[t].to = tasks[t].to
        /\ tasks'[t].by = tasks[t].by /\ tasks'[t].dirs = tasks[t].dirs
        /\ tasks'[t].sig = IF ok THEN "ok" ELSE "failed"
    BY DeliverMoves
  <1>2. \A u \in Task : \A x : Sent(tasks'[u], x) <=> u # t /\ Sent(tasks[u], x)
    BY <1>1 DEF OthersStay, SameRole, Sent, Granting
  <1> QED
    BY <1>1, <1>2, DeliverLists, FlightSent DEF OthersStay, SameRole

\* What does not read who was told what, when a signal was delivered.
LEMMA DeliveredHeld ==
  ASSUME TypeOK, Held, pc' = pc, locks' = locks, Lists' = Lists, NEW t \in Task,
         \A u \in Task : /\ tasks'[u].pc = tasks[u].pc /\ tasks'[u].to = tasks[u].to
                         /\ tasks'[u].by = tasks[u].by /\ tasks'[u].dirs = tasks[u].dirs,
         \A u \in Task : \A x : Sent(tasks'[u], x) => Sent(tasks[u], x)
  PROVE  /\ Places' /\ Requests' /\ Frames' /\ AbortFrames' /\ OneGrant' /\ FlightHolds'
         /\ BatchHolds'
  <1>1. \A x : InFlight(x)' => InFlight(x)
    BY FlightSent
  <1>2. /\ \A x : Full(x)' = Full(x) /\ Rest(x)' = Rest(x) /\ Claimed(x)' = Claimed(x)
        /\ \A x : Live(x)' = Live(x) /\ Open(x)' = Open(x)
        /\ \A o : Whole(o)' = Whole(o)
    BY DEF Full, Rest, Claimed, Back, Live, Open, Ended, Whole, Aside
  <1>3. Places' /\ Requests' /\ Frames'
    BY DEF Held, Places, Requests, Frames, Open, Ended, Reached
  <1>4. AbortFrames'
    <2>1. \A u \in Task : tasks'[u].pc = "abort" =>
            /\ tasks'[u].by \in Stage /\ pc'[tasks'[u].by] = "failed"
            /\ tasks'[u].dirs = LockSet(tasks'[u].by)
            /\ \A d \in tasks'[u].dirs : locks'[d] = tasks'[u].by
            /\ tasks'[u].to \notin Orch => Own[tasks'[u].to] \cap tasks'[u].dirs # {}
      BY DEF Held, AbortFrames
    <2> QED
      BY <2>1 DEF Held, AbortFrames
  <1>5. OneGrant'
    <2>1. SUFFICES ASSUME NEW u \in Task, NEW v \in Task, NEW x, Live(x)',
                          Sent(tasks'[u], x), Sent(tasks'[v], x)
                   PROVE  u = v
      BY DEF OneGrant, Sent
    <2> QED
      BY <1>2, <2>1 DEF Held, OneGrant, Sent
  <1>6. FlightHolds' /\ BatchHolds'
    BY <1>1, <1>2 DEF Held, FlightHolds, BatchHolds
  <1> QED
    BY <1>3, <1>4, <1>5, <1>6

\* A live workflow whose one grant arrives has no other on its way.
LEMMA LastGrant ==
  ASSUME TypeOK, Held, NEW t \in Task, NEW x, Sent(tasks[t], x), Live(x),
         \A u \in Task : Sent(tasks'[u], x) => u # t /\ Sent(tasks[u], x)
  PROVE  ~InFlight(x)'
  BY FlightSent DEF Held, OneGrant, Sent

\* Who waits for what it has asked for back has it all when the grant is there.
LEMMA Restored ==
  ASSUME NEW x \in Root \ Stage, Claimed(x), Rest(x)
  PROVE  Full(x)
  BY Directories, Families DEF Claimed, Back, Rest, Full

\* locks_granted, and a batch forwards the grant of a resume.
LEMMA LocksGrantedHeld ==
  ASSUME TypeOK, Held, NEW t \in Task, LocksGranted(t)
  PROVE  Held'
  <1> USE Families
  <1>1. tasks[t].to \in Wf /\ pc[tasks[t].to] # "idle"
    BY DEF LocksGranted, Held, Frames
  <1>2. PICK x \in Wf : x = tasks[t].to
    BY <1>1
  <1>3. Open(x) \in BOOLEAN /\ CoordinatorTypeOK
    BY DEF Open, TypeOK
  <1>4. /\ locks' = locks /\ Lists' = Lists
        /\ \A u \in Task : /\ tasks'[u].pc = tasks[u].pc /\ tasks'[u].to = tasks[u].to
                           /\ tasks'[u].by = tasks[u].by /\ tasks'[u].dirs = tasks[u].dirs
        /\ \A u \in Task : \A y : Sent(tasks'[u], y) <=> u # t /\ Sent(tasks[u], y)
        /\ \A y : InFlight(y)' => InFlight(y)
        /\ tasks[t].sig = "sent"
    BY <1>2, <1>3, Delivered DEF LocksGranted
  <1>5. Sent(tasks[t], x) /\ InFlight(x) /\ x \in Wf /\ pc[x] # "idle"
    BY <1>1, <1>2, <1>4, FlightSent DEF LocksGranted, Sent, Granting
  <1>6. pc' = pc /\ aborted' = aborted
    BY DEF LocksGranted
  <1>7. \A c \in Wf : granted'[c] <=> granted[c] \/ (c = x /\ Open(x))
    BY <1>2, <1>5 DEF LocksGranted, TypeOK
  <1>8. \/ acks' = acks /\ pending' = pending
        \/ /\ x \in Orch /\ Open(x) /\ pending[x] # None
           /\ acks' = acks \cup {pending[x]}
           /\ pending' = [pending EXCEPT ![x] = None]
    BY <1>2 DEF LocksGranted
  <1>9. \A o \in Orch : pending'[o] \in {pending[o], None}
    BY <1>8 DEF TypeOK
  <1>10. Live(x) => ~InFlight(x)'
    BY <1>4, <1>5, LastGrant
  <1>11. /\ Places' /\ Requests' /\ Frames' /\ AbortFrames' /\ OneGrant' /\ FlightHolds'
        /\ BatchHolds'
    BY <1>4, <1>6, DeliveredHeld
  <1>12. /\ \A y : Full(y)' = Full(y) /\ Rest(y)' = Rest(y)
    BY <1>4 DEF Full, Rest
  <1>13. IdleFresh' /\ AbortedWaits'
    BY <1>6, <1>7 DEF Held, IdleFresh, AbortedWaits, Open, Ended
  <1>14. ASSUME x \in Root, pc[x] = "resuming"
         PROVE  Full(x)
    BY <1>5, <1>14, Restored DEF Held, Places, Prod, FlightHolds, RootHolds, Live, Ended
  <1>15. RootHolds'
    BY <1>4, <1>5, <1>6, <1>7, <1>12, <1>14 DEF Held, RootHolds
  <1>16. RootGrant'
    BY <1>4, <1>6, <1>7, <1>10 DEF Held, RootGrant, Live, Ended
  <1>17. BatchGrant'
    <2>1. \A o \in Orch : pending'[o] # None =>
            pending'[o] \in Kids(o) /\ pc'[pending'[o]] \in {"resuming", "failed"}
      BY <1>6, <1>9 DEF Held, BatchGrant
    <2>2. \A k \in acks' : k \in Child /\ pc'[k] \in {"resuming", "failed"}
      BY <1>6, <1>8 DEF Held, BatchGrant
    <2>3. ASSUME NEW o \in Orch, NEW k \in Kids(o), pc'[k] = "resuming", k \in acks' \/ granted'[k]
          PROVE  /\ Full(o)' /\ ~InFlight(o)' /\ pending'[o] = None
                 /\ granted'[k] => k \notin acks'
      <3>1. k \in Child /\ k \in Wf /\ pc[k] = "resuming"
        BY <1>6, <2>3
      <3>2. k # x
        BY <1>5, <3>1 DEF Held, ChildGrant
      <3>3. granted'[k] => granted[k]
        BY <1>7, <3>1, <3>2
      <3>4. CASE k \in acks \/ granted[k]
        <4>1. Full(o) /\ ~InFlight(o) /\ pending[o] = None
          BY <3>1, <3>4 DEF Held, BatchGrant
        <4>2. granted[k] => k \notin acks'
          <5>1. SUFFICES ASSUME granted[k], k \in acks' PROVE FALSE
            OBVIOUS
          <5>2. k \notin acks
            BY <3>1, <5>1 DEF Held, BatchGrant
          <5>3. x \in Orch /\ pending[x] = k /\ k \in Kids(x)
            BY <1>8, <5>1, <5>2 DEF Held, BatchGrant
          <5>4. x = o
            BY <5>3
          <5> QED
            BY <1>5, <4>1, <5>4
        <4> QED
          BY <1>4, <1>9, <1>12, <3>3, <4>1, <4>2
      <3>5. CASE k \notin acks /\ ~granted[k]
        <4>1. x \in Orch /\ Open(x) /\ pending[x] = k /\ k \in Kids(x)
              /\ pending' = [pending EXCEPT ![x] = None]
          BY <1>8, <2>3, <3>3, <3>5 DEF Held, BatchGrant
        <4>2. x = o
          BY <4>1
        <4>3. pc[o] = "running" /\ Rest(o)
          BY <3>1 DEF Held, Places, BatchHolds, Open, Ended
        <4>4. Full(o)
          BY <1>5, <4>2, <4>3, Restored DEF Held, FlightHolds, Live, Ended
        <4>5. ~InFlight(o)'
          BY <1>10, <4>2, <4>3 DEF Live, Ended
        <4>6. pending'[o] = None
          BY <4>1, <4>2 DEF TypeOK
        <4> QED
          BY <1>12, <3>3, <3>5, <4>4, <4>5, <4>6
      <3> QED
        BY <3>4, <3>5
    <2> QED
      BY <2>1, <2>2, <2>3 DEF BatchGrant, Child
  <1>18. ChildGrant'
    BY <1>4, <1>6, <1>7, <1>10 DEF Held, ChildGrant, Live, Ended
  <1> QED
    BY <1>11, <1>13, <1>15, <1>16, <1>17, <1>18 DEF Held

\* The forwarded grant reaches the child.
LEMMA ForwardHeld ==
  ASSUME TypeOK, Held, NEW c \in Wf, Forward(c)
  PROVE  Held'
  <1> USE Families
  <1>1. /\ locks' = locks /\ tasks' = tasks /\ Lists' = Lists /\ pc' = pc
        /\ aborted' = aborted /\ pending' = pending
    BY DEF Forward, coordinator, Lists, Kept
  <1>2. c \in Child /\ pc[c] \in {"resuming", "failed"} /\ c \in acks /\ acks' = acks \ {c}
    BY DEF Forward, Held, BatchGrant
  <1>3. \A x \in Wf : granted'[x] <=> granted[x] \/ (x = c /\ Open(c))
    BY DEF Forward, TypeOK
  <1>4. /\ \A x : Full(x)' = Full(x) /\ Rest(x)' = Rest(x) /\ InFlight(x)' = InFlight(x)
    BY <1>1 DEF Full, Rest, InFlight
  <1>5. /\ Places' /\ Requests' /\ Frames' /\ AbortFrames' /\ OneGrant' /\ FlightHolds'
        /\ BatchHolds'
    <2>1. CASE Task = {}
      BY <1>1, <2>1 DEF Held, Places, Requests, Frames, AbortFrames, OneGrant, FlightHolds,
         BatchHolds, Open, Ended, Reached, Whole, Aside, Full, Rest, Claimed, Back, Live, InFlight
    <2>2. CASE Task # {}
      BY <1>1, <2>2, DeliveredHeld
    <2> QED
      BY <2>1, <2>2
  <1>6. IdleFresh' /\ AbortedWaits'
    BY <1>1, <1>2, <1>3 DEF Held, IdleFresh, AbortedWaits, Ended
  <1>7. RootHolds' /\ RootGrant'
    BY <1>1, <1>2, <1>3, <1>4 DEF Held, RootHolds, RootGrant, Root
  <1>8. BatchGrant'
    <2>1. \A o \in Orch : \A k \in Kids(o) : k \in Wf /\ k \in Child
      OBVIOUS
    <2>2. \A k \in Wf : k \in acks' \/ granted'[k] => k \in acks \/ granted[k]
      BY <1>2, <1>3
    <2>3. \A o \in Orch : \A k \in Kids(o) : pc'[k] = "resuming" /\ (k \in acks' \/ granted'[k]) =>
            Full(o)' /\ ~InFlight(o)' /\ pending'[o] = None
      BY <1>1, <1>4, <2>1, <2>2 DEF Held, BatchGrant
    <2>4. \A k \in Child : pc'[k] = "resuming" /\ granted'[k] => k \notin acks'
      BY <1>1, <1>2, <1>3 DEF Held, BatchGrant
    <2> QED
      BY <1>1, <1>2, <2>3, <2>4 DEF Held, BatchGrant
  <1>9. ChildGrant'
    BY <1>1, <1>2, <1>3, <1>4 DEF Held, ChildGrant
  <1> QED
    BY <1>5, <1>6, <1>7, <1>8, <1>9 DEF Held

\* atlas_lock_abort reaches who waits, or who has given up.
LEMMA AtlasLockAbortHeld ==
  ASSUME TypeOK, Held, NEW t \in Task, AtlasLockAbort(t)
  PROVE  Held'
  <1> USE Families
  <1> DEFINE f == tasks[t]
             x == tasks[t].to
  <1>1. Open(x) \in BOOLEAN /\ CoordinatorTypeOK /\ f.pc = "abort"
    BY DEF Open, TypeOK, AtlasLockAbort
  <1>2. /\ locks' = locks /\ Lists' = Lists
        /\ \A u \in Task : /\ tasks'[u].pc = tasks[u].pc /\ tasks'[u].to = tasks[u].to
                           /\ tasks'[u].by = tasks[u].by /\ tasks'[u].dirs = tasks[u].dirs
        /\ \A u \in Task : \A y : Sent(tasks'[u], y) => Sent(tasks[u], y)
        /\ \A y : InFlight(y)' => InFlight(y)
    BY <1>1, Delivered DEF AtlasLockAbort
  <1>3. x \in Root /\ x \in Wf /\ pc[x] # "idle"
    BY <1>1 DEF Held, Frames
  <1>4. pc' = pc /\ granted' = granted /\ pending' = pending /\ acks' = acks
    BY DEF AtlasLockAbort
  <1>5. \A c \in Wf : aborted'[c] <=> aborted[c] \/ (c = x /\ Open(x))
    BY <1>3 DEF AtlasLockAbort, TypeOK
  <1>6. /\ Places' /\ Requests' /\ Frames' /\ AbortFrames' /\ OneGrant' /\ FlightHolds'
        /\ BatchHolds'
    BY <1>2, <1>4, DeliveredHeld
  <1>7. \A y : Full(y)' = Full(y) /\ Rest(y)' = Rest(y)
    BY <1>2 DEF Full, Rest
  <1>8. ASSUME x \notin Orch, Open(x)
        PROVE  pc[x] \in {"waiting", "withdrawing"}
    <2>1. /\ f.by \in Stage /\ pc[f.by] = "failed"
          /\ \A d \in f.dirs : locks[d] = f.by
          /\ Own[x] \cap f.dirs # {}
      BY <1>1, <1>8 DEF Held, AbortFrames
    <2>2. PICK d \in Own[x] : locks[d] = f.by
      BY <2>1
    <2>3. d \in LockSet(x) /\ d \notin ParkDirs(x)
      BY <1>3, <2>2, Directories
    <2>4. x # f.by
      BY <1>8, <2>1 DEF Open, Ended
    <2>5. ~Full(x) /\ ~Rest(x)
      BY <2>2, <2>3, <2>4 DEF Full, Rest
    <2>6. pc[x] \notin {"opening", "running", "working", "parked", "resuming"}
      BY <1>3, <1>8, <2>5 DEF Held, Places, RootHolds
    <2> QED
      BY <1>3, <1>8, <2>6 DEF TypeOK, PC, Open, Ended
  <1> HIDE DEF f, x
  <1>9. AbortedWaits'
    BY <1>3, <1>4, <1>5, <1>8 DEF Held, AbortedWaits, Ended
  <1>10. IdleFresh' /\ RootHolds' /\ RootGrant' /\ ChildGrant'
    BY <1>2, <1>4, <1>7 DEF Held, IdleFresh, RootHolds, RootGrant, ChildGrant
  <1>11. BatchGrant'
    BY <1>2, <1>4, <1>7 DEF Held, BatchGrant
  <1> QED
    BY <1>6, <1>9, <1>10, <1>11 DEF Held

-----------------------------------------------------------------------------
(* Steps in which a workflow goes on.                                      *)

\* The children of a batch come one after the other.
LEMMA Succession ==
  ASSUME Places, NEW o \in Orch, NEW k \in Kids(o), NEW l \in Kids(o), k # l,
         pc[k] \notin {"idle", "success"}
  PROVE  pc[l] \in {"idle", "success"}
  <1>1. SUFFICES ASSUME pc[l] \notin {"idle", "success"} PROVE FALSE
    OBVIOUS
  <1>2. PICK i \in DOMAIN Children[o], j \in DOMAIN Children[o] :
          k = Children[o][i] /\ l = Children[o][j]
    BY DEF Kids
  <1>3. i \in Nat /\ j \in Nat /\ i >= 1 /\ j >= 1 /\ i # j
    BY <1>2, ProductionAssumption
  <1>4. CASE i < j
    BY <1>1, <1>2, <1>3, <1>4 DEF Places, Reached
  <1>5. CASE j < i
    BY <1>1, <1>2, <1>3, <1>5 DEF Places, Reached
  <1> QED
    BY <1>3, <1>4, <1>5

\* While a child works or is to come, its batch is whole.
LEMMA WholeWith ==
  ASSUME Held, NEW o \in Orch, NEW k \in Kids(o), pc[o] = "running",
         pc[k] \in {"waiting", "working"}
  PROVE  Full(o) /\ ~InFlight(o)
  <1>1. \A l \in Kids(o) : ~Aside(l)
    BY Succession DEF Held, Aside
  <1> QED
    BY <1>1 DEF Held, BatchHolds, Whole

\* A wait is over: the steps that leave the coordinator alone.
LEMMA AdvanceHeld ==
  ASSUME TypeOK, Held, NEW c \in Wf,
         Proceed(c) \/ Resumed(c) \/ (c \in Orch /\ (OpenBatch(c) \/ EnterTry(c)))
  PROVE  Held'
  <1> USE Families
  <1>1. /\ locks' = locks /\ tasks' = tasks /\ Lists' = Lists
        /\ granted' = granted /\ aborted' = aborted /\ pending' = pending /\ acks' = acks
    BY DEF Proceed, Resumed, OpenBatch, EnterTry, flow, coordinator, Lists, Kept
  <1>2. PICK s \in {"working", "opening", "running"} : Goto(c, s)
    BY DEF Proceed, Resumed, OpenBatch, EnterTry
  <1>3. \A x \in Wf : pc'[x] = IF x = c THEN s ELSE pc[x]
    BY <1>2 DEF Goto, TypeOK
  <1>4. \/ s = "working" /\ c \notin Orch
        \/ s = "opening" /\ c \in Orch /\ pc[c] = "waiting"
        \/ s = "running" /\ c \in Orch /\ pc[c] = "opening"
    BY <1>3 DEF Proceed, Resumed, OpenBatch, EnterTry, Goto, TypeOK, Held, Places
  <1>5. \/ pc[c] = "waiting" /\ granted[c] /\ (c \notin Orch => ~aborted[c])
        \/ pc[c] = "resuming" /\ granted[c] /\ ~aborted[c] /\ c \notin Orch
        \/ pc[c] = "opening" /\ c \in Orch /\ s = "running"
    <2>1. CASE Proceed(c) \/ (c \in Orch /\ OpenBatch(c))
      BY <2>1 DEF Proceed, OpenBatch
    <2>2. CASE Resumed(c)
      BY <2>2 DEF Resumed, Held, Places, AbortedWaits, Ended
    <2>3. CASE c \in Orch /\ EnterTry(c)
      <3>1. pc[c] = "opening" /\ pc'[c] = "running"
        BY <2>3 DEF EnterTry, Goto, TypeOK
      <3> QED
        BY <1>3, <2>3, <3>1
    <2> QED
      BY <2>1, <2>2, <2>3
  <1>6. /\ \A x : Full(x)' = Full(x) /\ Rest(x)' = Rest(x) /\ InFlight(x)' = InFlight(x)
        /\ \A x : Claimed(x)' = Claimed(x)
    BY <1>1 DEF Full, Rest, InFlight, Claimed, Back
  <1>7. \A o \in Orch : \A k \in Kids(o) : k \in Wf /\ k \in Child /\ k \notin Orch
    BY DEF Prod
  <1>8. \A x \in Wf : Live(x)' <=> Live(x)
    BY <1>3, <1>4, <1>5 DEF Live, Ended
  <1>9. Places'
    <2>1. \A o \in Orch : \A k \in Kids(o) : Open(k)' => pc'[o] = "running"
      <3>1. ASSUME NEW o \in Orch, NEW k \in Kids(o), Open(k)'
            PROVE  pc'[o] = "running"
        <4>1. Open(k)
          BY <1>3, <1>5, <1>7, <3>1 DEF Open, Ended
        <4>2. pc[o] = "running"
          BY <4>1 DEF Held, Places
        <4> QED
          BY <1>3, <1>5, <4>2
      <3> QED
        BY <3>1
    <2>2. \A o \in Orch : \A i \in DOMAIN Children[o] :
            pc'[Children[o][i]] # "idle" => Reached(o, i)'
      <3>1. ASSUME NEW o \in Orch, NEW i \in DOMAIN Children[o], pc'[Children[o][i]] # "idle"
            PROVE  Reached(o, i)'
        <4>1. \A j \in DOMAIN Children[o] : Children[o][j] \in Wf
          BY ProductionAssumption
        <4>2. \A j \in 1..(i - 1) : j \in DOMAIN Children[o]
          BY ProductionAssumption
        <4>3. Reached(o, i)
          BY <1>3, <1>5, <3>1, <4>1 DEF Held, Places
        <4> QED
          BY <1>3, <1>5, <4>1, <4>2, <4>3 DEF Reached
      <3> QED
        BY <3>1
    <2> QED
      BY <1>3, <1>4, <2>1, <2>2 DEF Held, Places
  <1>10. IdleFresh' /\ Requests' /\ Frames' /\ AbortFrames' /\ AbortedWaits'
    <2>1. IdleFresh' /\ AbortedWaits'
      BY <1>1, <1>3, <1>4, <1>5 DEF Held, IdleFresh, AbortedWaits, Ended
    <2>2. Requests'
      BY <1>1, <1>3, <1>4 DEF Held, Requests, Root
    <2>3. Frames'
      BY <1>1, <1>3, <1>4 DEF Held, Frames
    <2>4. AbortFrames'
      <3>1. \A u \in Task : tasks[u].pc = "abort" => pc'[tasks[u].by] = "failed"
        BY <1>3, <1>5 DEF Held, AbortFrames
      <3> QED
        BY <1>1, <3>1 DEF Held, AbortFrames
    <2> QED
      BY <2>1, <2>2, <2>3, <2>4
  <1>11. OneGrant' /\ FlightHolds'
    <2>1. OneGrant'
      BY <1>1, <1>8 DEF Held, OneGrant, Frames, Granting
    <2> QED
      BY <1>6, <1>8, <2>1 DEF Held, FlightHolds
  <1>12. RootHolds' /\ RootGrant'
    <2>1. c \in Root => Full(c) /\ ~InFlight(c)
      BY <1>5 DEF Held, RootHolds, RootGrant
    <2> QED
      BY <1>1, <1>3, <1>4, <1>6, <2>1 DEF Held, RootHolds, RootGrant
  <1>13. BatchHolds'
    <2>1. ASSUME NEW o \in Orch, pc'[o] = "running"
          PROVE  /\ Whole(o)' => Full(o)' /\ ~InFlight(o)'
                 /\ \A k \in Kids(o) : pc'[k] \in {"parked", "resuming"} => Rest(o)'
      <3>1. CASE o = c
        <4>1. Full(o) /\ ~InFlight(o)
          BY <1>5, <1>7, <2>1, <1>3, <1>4, <3>1 DEF Held, RootHolds, RootGrant
        <4> QED
          BY <1>6, <4>1 DEF Full, Rest
      <3>2. CASE o # c /\ c \notin Kids(o)
        <4>1. \A k \in Kids(o) : pc'[k] = pc[k]
          BY <1>3, <1>7, <3>2
        <4> QED
          BY <1>3, <1>6, <2>1, <3>2, <4>1 DEF Held, BatchHolds, Whole, Aside
      <3>3. CASE c \in Kids(o)
        <4>1. pc[o] = "running" /\ c \in Child /\ c \notin Orch
          BY <1>3, <1>7, <2>1, <3>3
        <4>2. CASE pc[c] = "waiting"
          BY <1>3, <1>4, <1>6, <1>7, <3>3, <4>1, <4>2, WholeWith DEF Held, BatchHolds
        <4>3. CASE pc[c] = "resuming" /\ granted[c]
          <5>1. Full(o) /\ ~InFlight(o)
            BY <3>3, <4>3 DEF Held, BatchGrant
          <5> QED
            BY <1>6, <5>1 DEF Full, Rest
        <4> QED
          BY <1>5, <4>1, <4>2, <4>3
      <3> QED
        BY <3>1, <3>2, <3>3
    <2> QED
      BY <2>1 DEF BatchHolds
  <1>14. BatchGrant'
    <2>1. \A o \in Orch : pending[o] # None => pending[o] # c
      <3>1. ASSUME NEW o \in Orch, pending[o] = c, pending[o] # None
            PROVE  FALSE
        <4>1. c \in Kids(o) /\ pc[c] = "resuming" /\ granted[c] /\ c \in Wf
          BY <1>5, <3>1 DEF Held, BatchGrant
        <4> QED
          BY <3>1, <4>1 DEF Held, BatchGrant
      <3> QED
        BY <3>1
    <2>2. c \notin acks
      BY <1>5, <1>7 DEF Held, BatchGrant
    <2>3. \A o \in Orch : pending[o] \in Wf \cup {None}
      BY DEF TypeOK
    <2>4. \A o \in Orch : pending'[o] # None =>
            pending'[o] \in Kids(o) /\ pc'[pending'[o]] \in {"resuming", "failed"}
      BY <1>1, <1>3, <2>1, <2>3 DEF Held, BatchGrant
    <2>5. \A k \in acks' : k \in Child /\ pc'[k] \in {"resuming", "failed"}
      BY <1>1, <1>3, <2>2 DEF Held, BatchGrant
    <2>6. \A o \in Orch : \A k \in Kids(o) : pc'[k] = "resuming" /\ (k \in acks' \/ granted'[k]) =>
            Full(o)' /\ ~InFlight(o)' /\ pending'[o] = None
      BY <1>1, <1>3, <1>6, <1>7 DEF Held, BatchGrant
    <2>7. \A k \in Child : pc'[k] = "resuming" /\ granted'[k] => k \notin acks'
      BY <1>1, <1>3 DEF Held, BatchGrant
    <2> QED
      BY <2>4, <2>5, <2>6, <2>7 DEF BatchGrant
  <1>15. ChildGrant'
    <2>1. c \in Child => ~InFlight(c)
      BY <1>5, <1>7 DEF Held, ChildGrant, Prod
    <2> QED
      BY <1>1, <1>3, <1>4, <1>6, <2>1 DEF Held, ChildGrant
  <1> QED
    BY <1>9, <1>10, <1>11, <1>12, <1>13, <1>14, <1>15 DEF Held

-----------------------------------------------------------------------------
(* Steps in which a workflow asks for locks.                               *)

\* What acquire_locks does for r, that asks for ds with passage through what p holds.
Asks(r, ds, p) ==
    /\ \A d \in Dir : locks'[d] = locks[d] \/ (locks[d] = None /\ d \in ds /\ locks'[d] = r)
    /\ \A t \in Task : \A x \in Wf : Sent(tasks'[t], x) /\ ~Sent(tasks[t], x) =>
         x = r /\ \A d \in ds : (locks[d] = None /\ locks'[d] = r) \/ (locks[d] = p /\ p # None)
    /\ \A t, u \in Task : \A x, y \in Wf :
         /\ Sent(tasks'[t], x) /\ ~Sent(tasks[t], x)
         /\ Sent(tasks'[u], y) /\ ~Sent(tasks[u], y)
         => t = u
    /\ \A t \in Task : tasks'[t].pc # "idle" =>
         \/ tasks'[t].pc = tasks[t].pc /\ tasks'[t].to = tasks[t].to
         \/ tasks'[t].pc = "acquire" /\ tasks'[t].to = r
    /\ \A h \in Lists' : h \in Lists \/
         (h.wf = r /\ h.dirs = ds /\ \E d \in ds : locks[d] \notin {None, p})

LEMMA AcquireAsks ==
  ASSUME CoordinatorTypeOK, NEW r \in Wf, NEW ds \in SUBSET Dir, NEW p \in Wf \cup {None},
         Acquire(r, ds, p)
  PROVE  Asks(r, ds, p) /\ AbortsStay
  <1>1. ASSUME UNCHANGED <<locks, tasks>>,
               \A h \in Lists' : h \in Lists \/
                 (h.wf = r /\ h.dirs = ds /\ \E d \in ds : locks[d] \notin {None, p})
        PROVE  Asks(r, ds, p) /\ AbortsStay
    BY <1>1 DEF Asks, AbortsStay
  <1>2. CASE Ignored
    <2>1. UNCHANGED <<locks, tasks>> /\ Lists' = Lists
      BY <1>2 DEF Ignored, coordinator, Lists, Kept
    <2> QED
      BY <1>1, <2>1
  <1>3. ASSUME NEW t \in Task, AcquireLocks(t, r, ds, p)
        PROVE  Asks(r, ds, p) /\ AbortsStay
    <2>1. CASE /\ \A d \in ds : locks[d] \in {None, p}
               /\ locks' = Claim(locks, {d \in ds : locks[d] = None}, r)
               /\ tasks[t].pc = "idle" /\ OthersStay(t)
               /\ tasks'[t].pc = "acquire" /\ tasks'[t].to = r /\ tasks'[t].sig = "sent"
               /\ Lists' \subseteq Lists
      <3>1. \A d \in Dir : locks'[d] = IF d \in ds /\ locks[d] = None THEN r ELSE locks[d]
        BY <2>1 DEF Claim
      <3>2. \A u \in Task : \A x : Sent(tasks'[u], x) /\ ~Sent(tasks[u], x) => u = t /\ x = r
        BY <2>1 DEF OthersStay, SameRole, Sent, Granting
      <3>3. \A d \in ds : (locks[d] = None /\ locks'[d] = r) \/ (locks[d] = p /\ p # None)
        BY <2>1, <3>1
      <3>4. \A u \in Task : tasks'[u].pc # "idle" =>
              \/ tasks'[u].pc = tasks[u].pc /\ tasks'[u].to = tasks[u].to
              \/ tasks'[u].pc = "acquire" /\ tasks'[u].to = r
        BY <2>1 DEF OthersStay, SameRole
      <3>5. AbortsStay
        BY <2>1 DEF OthersStay, SameRole, AbortsStay
      <3>6. \A d \in Dir : locks'[d] = locks[d] \/ (locks[d] = None /\ d \in ds /\ locks'[d] = r)
        BY <3>1
      <3>7. Asks(r, ds, p)
        BY <2>1, <3>2, <3>3, <3>4, <3>6 DEF Asks
      <3> QED
        BY <3>5, <3>7
    <2>2. CASE /\ \E d \in ds : locks[d] \notin {None, p}
               /\ UNCHANGED <<locks, tasks>>
               /\ Lists' \subseteq Lists \cup {NewHold(r, ds, p)}
      <3>1. NewHold(r, ds, p).wf = r /\ NewHold(r, ds, p).dirs = ds
        BY DEF NewHold
      <3> QED
        BY <1>1, <2>2, <3>1
    <2> QED
      BY <1>3, <2>1, <2>2, AcquireLocksMoves
  <1> QED
    BY <1>2, <1>3 DEF Acquire

\* Nobody loses a lock, and nobody but who asks is granted something.
LEMMA AskedStays ==
  ASSUME CoordinatorTypeOK, NEW r, NEW ds, NEW p, Asks(r, ds, p)
  PROVE  /\ \A x \in Wf : (Full(x) => Full(x)') /\ (Rest(x) => Rest(x)')
                          /\ (Claimed(x) => Claimed(x)')
         /\ \A x \in Wf : InFlight(x)' => InFlight(x) \/
              (x = r /\ \A d \in ds : (locks[d] = None /\ locks'[d] = r) \/ (locks[d] = p /\ p # None))
  <1>1. \A d \in Dir : \A x \in Wf : locks[d] = x => locks'[d] = x
    BY CoordinatorAssumption DEF Asks
  <1>2. \A x \in Wf : LockSet(x) \subseteq Dir /\ ParkDirs(x) \subseteq Dir
    BY Directories
  <1>3. \A x \in Wf : (Full(x) => Full(x)') /\ (Rest(x) => Rest(x)') /\ (Claimed(x) => Claimed(x)')
    BY <1>1, <1>2 DEF Full, Rest, Back, Claimed
  <1> QED
    BY <1>3, FlightSent DEF Asks

\* c asks in the name of r for the first time, or again after a park.
LEMMA AskHeld ==
  ASSUME TypeOK, Held, NEW c \in Wf, NEW s, Goto(c, s), NEW r \in Wf,
         \/ pc[c] = "idle" /\ s = "waiting" /\ r = c
         \/ pc[c] = "parked" /\ s = "resuming" /\ (r = c \/ pc[r] = "running"),
         NEW ds \in SUBSET Dir, NEW p, Asks(r, ds, p), AbortsStay, aborted' = aborted,
         r \in Root => /\ p = None
                       /\ \/ ds = LockSet(r)
                          \/ r \notin Stage /\ pc'[r] # "waiting" /\ ds = ParkDirs(r),
         r \in Child => \A d \in ds : locks[d] = p,
         InFlight(r) /\ Live(r) => \E d \in ds : locks[d] \notin {None, p}
  PROVE  Requests' /\ Frames' /\ AbortFrames' /\ AbortedWaits' /\ OneGrant' /\ FlightHolds'
  <1> USE Families
  <1>1. \A x \in Wf : pc'[x] = IF x = c THEN s ELSE pc[x]
    BY DEF Goto, TypeOK
  <1>2. CoordinatorTypeOK /\ r \in Root \cup Child /\ pc'[r] # "idle"
    BY <1>1 DEF TypeOK, Root
  <1>3. \A x \in Wf : Live(x)' <=> Live(x)
    BY <1>1 DEF Live, Ended
  <1>4. Requests'
    <2>1. ASSUME NEW h \in Lists'
          PROVE  /\ h.wf \in Root /\ pc'[h.wf] # "idle" /\ h.dirs # {}
                 /\ \/ h.dirs = LockSet(h.wf)
                    \/ h.wf \notin Stage /\ pc'[h.wf] # "waiting" /\ h.dirs = ParkDirs(h.wf)
      <3>1. CASE h \in Lists
        <4>1. /\ h.wf \in Root /\ pc[h.wf] # "idle" /\ h.dirs # {}
              /\ \/ h.dirs = LockSet(h.wf)
                 \/ h.wf \notin Stage /\ pc[h.wf] # "waiting" /\ h.dirs = ParkDirs(h.wf)
          BY <3>1 DEF Held, Requests
        <4> QED
          BY <1>1, <4>1
      <3>2. CASE h.wf = r /\ h.dirs = ds /\ \E d \in ds : locks[d] \notin {None, p}
        BY <1>2, <3>2
      <3> QED
        BY <3>1, <3>2 DEF Asks
    <2> QED
      BY <2>1 DEF Requests
  <1>5. Frames'
    <2>1. ASSUME NEW t \in Task, tasks'[t].pc # "idle"
          PROVE  /\ tasks'[t].to \in Wf /\ pc'[tasks'[t].to] # "idle"
                 /\ tasks'[t].pc # "acquire" => tasks'[t].to \in Root
      <3>1. \/ tasks'[t].pc = tasks[t].pc /\ tasks'[t].to = tasks[t].to
            \/ tasks'[t].pc = "acquire" /\ tasks'[t].to = r
        BY <2>1 DEF Asks
      <3> QED
        BY <1>1, <1>2, <2>1, <3>1 DEF Held, Frames
    <2> QED
      BY <2>1 DEF Frames
  <1>6. AbortFrames'
    <2>1. \A d \in Dir : locks[d] \notin {None} => locks'[d] = locks[d]
      BY DEF Asks
    <2>2. \A x \in Wf : pc[x] = "failed" => pc'[x] = "failed"
      BY <1>1
    <2>3. \A t \in Task : tasks[t].pc = "abort" => tasks[t].by # None
      BY CoordinatorAssumption DEF Held, AbortFrames
    <2> QED
      BY <2>1, <2>2, <2>3, AbortFramesKept DEF Held
  <1>7. AbortedWaits'
    BY <1>1 DEF Held, AbortedWaits, Ended
  <1>8. OneGrant'
    <2>1. SUFFICES ASSUME NEW t \in Task, NEW u \in Task, t # u, NEW x \in Wf, Live(x)',
                          Sent(tasks'[t], x), Sent(tasks'[u], x)
                   PROVE  FALSE
      <3>1. \A v \in Task : Granting(tasks'[v]) => tasks'[v].to \in Wf
        BY <1>5 DEF Frames, Granting
      <3> QED
        BY <2>1, <3>1 DEF OneGrant, Sent
    <2>2. Live(x)
      BY <1>3, <2>1
    <2>3. CASE Sent(tasks[t], x) /\ Sent(tasks[u], x)
      BY <2>1, <2>2, <2>3 DEF Held, OneGrant, Sent
    <2>4. ASSUME InFlight(x), x = r, \A d \in ds : locks[d] \in {None, p}
          PROVE  FALSE
      BY <2>2, <2>4
    <2>5. \/ Sent(tasks[t], x) /\ Sent(tasks[u], x)
          \/ (Sent(tasks[t], x) \/ Sent(tasks[u], x)) /\ x = r /\ \A d \in ds : locks[d] \in {None, p}
      BY <2>1 DEF Asks
    <2> QED
      BY <2>3, <2>4, <2>5, FlightSent
  <1>9. FlightHolds'
    <2>1. ASSUME NEW x \in Root, Live(x)', InFlight(x)'
          PROVE  Claimed(x)'
      <3>1. CASE InFlight(x)
        BY <1>2, <1>3, <2>1, <3>1, AskedStays DEF Held, FlightHolds
      <3>2. CASE ~InFlight(x)
        <4>1. x = r /\ \A d \in ds : locks'[d] = r
          BY <1>2, <2>1, <3>2, AskedStays
        <4>2. ds = LockSet(r) \/ (r \notin Stage /\ ds = ParkDirs(r))
          BY <2>1, <4>1
        <4>3. r \notin Stage => ParkDirs(r) \subseteq LockSet(r)
          BY <2>1, <4>1, Directories
        <4> QED
          BY <4>1, <4>2, <4>3 DEF Claimed, Full, Back
      <3> QED
        BY <3>1, <3>2
    <2> QED
      BY <2>1 DEF FlightHolds
  <1> QED
    BY <1>4, <1>5, <1>6, <1>7, <1>8, <1>9

\* The places of the others while c goes from s to a later place.
LEMMA PlacesStay ==
  ASSUME TypeOK, Places, NEW c \in Wf, NEW s, Goto(c, s),
         \/ pc[c] = "idle" /\ s = "waiting"
         \/ c \in Prod /\ pc[c] = "working" /\ s = "parked"
         \/ c \in Prod /\ pc[c] = "parked" /\ s = "resuming",
         \A o \in Orch : c \in Kids(o) => pc[o] = "running",
         \A o \in Orch : \A i \in DOMAIN Children[o] : Children[o][i] = c => Reached(o, i)
  PROVE  Places'
  <1> USE Families
  <1>1. \A x \in Wf : pc'[x] = IF x = c THEN s ELSE pc[x]
    BY DEF Goto, TypeOK
  <1>2. s \notin {"idle", "success", "running", "opening", "working"} /\ pc[c] \notin {"success", "running"}
    OBVIOUS
  <1>3. ASSUME NEW o \in Orch, NEW k \in Kids(o), Open(k)'
        PROVE  pc'[o] = "running"
    <2>1. k \in Wf /\ pc[o] = "running"
      BY <1>1, <1>3 DEF Places, Open, Ended
    <2> QED
      BY <1>1, <1>2, <2>1
  <1>4. ASSUME NEW o \in Orch, NEW i \in DOMAIN Children[o], pc'[Children[o][i]] # "idle"
        PROVE  Reached(o, i)'
    <2>1. \A j \in DOMAIN Children[o] : Children[o][j] \in Wf
      BY ProductionAssumption
    <2>2. \A j \in 1..(i - 1) : j \in DOMAIN Children[o]
      BY ProductionAssumption
    <2>3. Reached(o, i)
      BY <1>1, <1>4, <2>1 DEF Places
    <2> QED
      BY <1>1, <1>2, <2>1, <2>2, <2>3 DEF Reached
  <1>5. /\ \A x \in Wf : pc'[x] \in {"opening", "running"} => x \in Orch
        /\ \A x \in Wf : pc'[x] \in {"working", "parked", "resuming"} => x \notin Orch
        /\ \A x \in Wf : pc'[x] \in {"parked", "resuming"} => x \in Prod
    BY <1>1, <1>2 DEF Places, Prod
  <1> QED
    BY <1>3, <1>4, <1>5 DEF Places

\* The first request.
LEMMA StartHeld ==
  ASSUME TypeOK, Held, NEW c \in Wf, Start(c)
  PROVE  Held'
  <1> USE Families
  <1>1. /\ c \in Root /\ c \notin Child /\ pc[c] = "idle" /\ Goto(c, "waiting")
        /\ granted' = granted /\ aborted' = aborted /\ pending' = pending /\ acks' = acks
    BY DEF Start, Root, flow
  <1>2. CoordinatorTypeOK /\ LockSet(c) \in SUBSET Dir
    BY Directories DEF TypeOK
  <1>3. Asks(c, LockSet(c), None) /\ AbortsStay
    BY <1>2, AcquireAsks DEF Start
  <1>4. ~InFlight(c) /\ ~granted[c]
    BY <1>1 DEF Held, Frames, IdleFresh, InFlight, Granting
  <1>5. \A x \in Wf : pc'[x] = IF x = c THEN "waiting" ELSE pc[x]
    BY <1>1 DEF Goto, TypeOK
  <1>6. \A o \in Orch : \A k \in Kids(o) : k \in Child /\ k \in Wf /\ k # c
    BY <1>1
  <1>7. Places'
    <2>1. \A o \in Orch : \A i \in DOMAIN Children[o] : Children[o][i] # c
      BY <1>6 DEF Kids
    <2> QED
      BY <1>1, <1>6, <2>1, PlacesStay DEF Held
  <1>8. /\ \A x \in Wf : (Full(x) => Full(x)') /\ (Rest(x) => Rest(x)')
        /\ \A x \in Wf : InFlight(x)' => InFlight(x) \/
             (x = c /\ \A d \in LockSet(c) : locks'[d] = c)
    BY <1>2, <1>3, AskedStays
  <1>9. Requests' /\ Frames' /\ AbortFrames' /\ AbortedWaits' /\ OneGrant' /\ FlightHolds'
    BY <1>1, <1>2, <1>3, <1>4, AskHeld
  <1>10. IdleFresh'
    BY <1>1, <1>5 DEF Held, IdleFresh
  <1>11. RootHolds'
    <2>1. InFlight(c)' => Full(c)'
      BY <1>4, <1>8 DEF Full
    <2> QED
      BY <1>1, <1>4, <1>5, <1>8, <2>1 DEF Held, RootHolds
  <1>12. RootGrant'
    BY <1>1, <1>4, <1>5, <1>8 DEF Held, RootGrant
  <1>13. BatchHolds'
    <2>1. \A o \in Orch : \A k \in Kids(o) : pc'[k] = pc[k]
      BY <1>5, <1>6
    <2>2. \A o \in Orch : Whole(o)' => Whole(o)
      BY <2>1 DEF Whole, Aside
    <2>3. \A o \in Orch : pc'[o] = "running" => pc[o] = "running" /\ o # c
      BY <1>5
    <2> QED
      BY <1>8, <2>1, <2>2, <2>3 DEF Held, BatchHolds
  <1>14. BatchGrant'
    <2>1. \A o \in Orch : pending[o] # c
      BY <1>1, CoordinatorAssumption DEF Held, BatchGrant
    <2>2. \A o \in Orch : \A k \in Kids(o) : pc'[k] = pc[k]
      BY <1>5, <1>6
    <2>3. \A o \in Orch : \A k \in Kids(o) : pc'[k] = "resuming" => pc[o] = "running" /\ o # c
      BY <1>1, <2>2 DEF Held, Places, Open, Ended
    <2>4. \A o \in Orch : pending'[o] # None =>
            pending'[o] \in Kids(o) /\ pc'[pending'[o]] \in {"resuming", "failed"}
      BY <1>1, <2>2 DEF Held, BatchGrant
    <2>5. \A k \in acks' : k \in Child /\ pc'[k] \in {"resuming", "failed"}
      BY <1>1, <1>5 DEF Held, BatchGrant
    <2>6. \A o \in Orch : \A k \in Kids(o) : pc'[k] = "resuming" /\ (k \in acks' \/ granted'[k]) =>
            Full(o)' /\ ~InFlight(o)' /\ pending'[o] = None
      BY <1>1, <1>8, <2>2, <2>3 DEF Held, BatchGrant
    <2>7. \A k \in Child : pc'[k] = "resuming" /\ granted'[k] => k \notin acks'
      BY <1>1, <1>5 DEF Held, BatchGrant
    <2> QED
      BY <2>4, <2>5, <2>6, <2>7 DEF BatchGrant
  <1>15. ChildGrant'
    BY <1>1, <1>5, <1>8 DEF Held, ChildGrant
  <1> QED
    BY <1>7, <1>9, <1>10, <1>11, <1>12, <1>13, <1>14, <1>15 DEF Held

\* When the next child is to start, none stands aside and the batch is whole.
LEMMA WholeBefore ==
  ASSUME Held, NEW b \in Orch, pc[b] = "running", NEW i \in DOMAIN Children[b],
         Reached(b, i), pc[Children[b][i]] = "idle"
  PROVE  Full(b) /\ ~InFlight(b)
  <1>1. Children[b][i] \in Kids(b)
    BY DEF Kids
  <1>2. \A k \in Kids(b) : ~Aside(k)
    <2>1. SUFFICES ASSUME NEW k \in Kids(b), pc[k] \notin {"idle", "success"} PROVE FALSE
      BY DEF Aside
    <2>2. PICK j \in DOMAIN Children[b] : k = Children[b][j]
      BY DEF Kids
    <2>3. i \in Nat /\ j \in Nat /\ i >= 1 /\ j >= 1 /\ i # j
      BY <2>1, <2>2, ProductionAssumption
    <2>4. ~(j < i)
      BY <2>1, <2>2, <2>3 DEF Reached
    <2>5. ~(i < j)
      BY <2>1, <2>2, <2>3 DEF Held, Places, Reached
    <2> QED
      BY <2>3, <2>4, <2>5
  <1> QED
    BY <1>1, <1>2 DEF Held, BatchHolds, Whole

\* The next child of a batch: the batch is whole, so the request passes through.
LEMMA StartChildHeld ==
  ASSUME TypeOK, Held, NEW b \in Orch, StartChild(b)
  PROVE  Held'
  <1> USE Families
  <1>1. PICK i \in DOMAIN Children[b] :
          /\ Reached(b, i) /\ pc[Children[b][i]] = "idle"
          /\ Acquire(Children[b][i], LockSet(Children[b][i]), b)
          /\ Goto(Children[b][i], "waiting")
    BY DEF StartChild
  <1>2. PICK c \in Kids(b) : c = Children[b][i]
    BY DEF Kids
  <1>3. /\ c \in Child /\ c \in Wf /\ c \notin Root /\ pc[c] = "idle" /\ pc[b] = "running"
        /\ b \in Wf /\ b # None
        /\ granted' = granted /\ aborted' = aborted /\ pending' = pending /\ acks' = acks
    BY <1>1, <1>2, CoordinatorAssumption DEF StartChild, Root, flow
  <1>4. CoordinatorTypeOK /\ LockSet(c) \in SUBSET Dir /\ Goto(c, "waiting")
    BY <1>1, <1>2, Directories DEF TypeOK
  <1>5. Asks(c, LockSet(c), b) /\ AbortsStay
    BY <1>1, <1>2, <1>3, <1>4, AcquireAsks
  <1>6. ~InFlight(c) /\ ~granted[c]
    BY <1>3 DEF Held, Frames, IdleFresh, InFlight, Granting
  <1>7. \A x \in Wf : pc'[x] = IF x = c THEN "waiting" ELSE pc[x]
    BY <1>3, <1>4 DEF Goto, TypeOK
  <1>8. Full(b) /\ ~InFlight(b)
    BY <1>1, <1>3, WholeBefore
  <1>9. \A d \in LockSet(c) : locks[d] = b
    BY <1>8, Directories DEF Full
  <1>10. /\ \A x \in Wf : (Full(x) => Full(x)') /\ (Rest(x) => Rest(x)')
         /\ \A x \in Wf : x # c /\ InFlight(x)' => InFlight(x)
    BY <1>4, <1>5, AskedStays
  <1>11. Places'
    <2>1. \A o \in Orch : c \in Kids(o) => pc[o] = "running"
      BY <1>3
    <2>2. ASSUME NEW o \in Orch, NEW j \in DOMAIN Children[o], Children[o][j] = c
          PROVE  Reached(o, j)
      <3>1. c \in Kids(o)
        BY <2>2 DEF Kids
      <3>2. o = b
        BY <3>1
      <3>3. j = i
        BY <1>2, <2>2, <3>2, ProductionAssumption
      <3> QED
        BY <1>1, <3>2, <3>3
    <2> QED
      BY <1>3, <1>4, <2>1, <2>2, PlacesStay DEF Held
  <1>12. Requests' /\ Frames' /\ AbortFrames' /\ AbortedWaits' /\ OneGrant' /\ FlightHolds'
    BY <1>3, <1>4, <1>5, <1>6, <1>9, AskHeld
  <1>13. IdleFresh'
    BY <1>3, <1>7 DEF Held, IdleFresh
  <1>14. RootHolds' /\ RootGrant'
    BY <1>3, <1>7, <1>10 DEF Held, RootHolds, RootGrant
  <1>15. BatchHolds'
    <2>1. ASSUME NEW o \in Orch, pc'[o] = "running"
          PROVE  /\ Whole(o)' => Full(o)' /\ ~InFlight(o)'
                 /\ \A k \in Kids(o) : pc'[k] \in {"parked", "resuming"} => Rest(o)'
      <3>1. pc[o] = "running" /\ o # c /\ o \in Wf
        BY <1>3, <1>7, <2>1
      <3>2. CASE o = b
        BY <1>8, <1>10, <3>1, <3>2 DEF Full, Rest
      <3>3. CASE o # b
        <4>1. \A k \in Kids(o) : pc'[k] = pc[k]
          BY <1>3, <1>7, <3>3
        <4>2. Whole(o)' => Whole(o)
          BY <4>1 DEF Whole, Aside
        <4> QED
          BY <1>10, <3>1, <4>1, <4>2 DEF Held, BatchHolds
      <3> QED
        BY <3>2, <3>3
    <2> QED
      BY <2>1 DEF BatchHolds
  <1>16. BatchGrant'
    <2>1. \A o \in Orch : pending[o] # c
      BY <1>3, CoordinatorAssumption DEF Held, BatchGrant
    <2>2. c \notin acks
      BY <1>3 DEF Held, BatchGrant
    <2>3. \A o \in Orch : o # c
      BY <1>3
    <2>4. \A o \in Orch : pending'[o] # None =>
            pending'[o] \in Kids(o) /\ pc'[pending'[o]] \in {"resuming", "failed"}
      BY <1>3, <1>7, <2>1 DEF Held, BatchGrant
    <2>5. \A k \in acks' : k \in Child /\ pc'[k] \in {"resuming", "failed"}
      BY <1>3, <1>7, <2>2 DEF Held, BatchGrant
    <2>6. \A o \in Orch : \A k \in Kids(o) : pc'[k] = "resuming" /\ (k \in acks' \/ granted'[k]) =>
            Full(o)' /\ ~InFlight(o)' /\ pending'[o] = None
      BY <1>3, <1>7, <1>10, <2>3 DEF Held, BatchGrant
    <2>7. \A k \in Child : pc'[k] = "resuming" /\ granted'[k] => k \notin acks'
      BY <1>3, <1>7 DEF Held, BatchGrant
    <2> QED
      BY <2>4, <2>5, <2>6, <2>7 DEF BatchGrant
  <1>17. ChildGrant'
    BY <1>3, <1>6, <1>7, <1>10 DEF Held, ChildGrant
  <1> QED
    BY <1>11, <1>12, <1>13, <1>14, <1>15, <1>16, <1>17 DEF Held

\* Who was started was reached.
LEMMA StartedReached ==
  ASSUME Places, NEW c \in Wf, pc[c] # "idle"
  PROVE  /\ \A o \in Orch : c \in Kids(o) /\ Open(c) => pc[o] = "running"
         /\ \A o \in Orch : \A i \in DOMAIN Children[o] : Children[o][i] = c => Reached(o, i)
  BY DEF Places

\* A park gives back the key and the shared directories of who holds them.
LEMMA ParkHeld ==
  ASSUME TypeOK, Held, NEW c \in Wf, Park(c)
  PROVE  Held'
  <1> USE Families
  <1>1. /\ c \in Prod /\ c \notin Orch /\ c \notin Stage /\ pc[c] = "working" /\ Goto(c, "parked")
        /\ granted' = granted /\ aborted' = aborted /\ pending' = pending /\ acks' = acks
    BY DEF Park, Prod
  <1>2. PICK r \in Root : r = Holder(c)
    BY DEF Root
  <1>3. /\ c \in Root => r = c
        /\ c \in Child => r \in Orch /\ c \in Kids(r) /\ pc[r] = "running"
        /\ c \in Root \cup Child
    <2>1. c \in Child => pc[Parent(c)] = "running"
      BY <1>1 DEF Held, Places, Open, Ended
    <2> QED
      BY <1>2, <2>1 DEF Root
  <1>4. r \in Wf /\ r \notin Stage /\ r \notin Child /\ ParkDirs(c) = ParkDirs(r)
        /\ ParkDirs(r) \in SUBSET Dir /\ ParkDirs(r) # {} /\ CoordinatorTypeOK
    BY <1>1, <1>2, <1>3, Directories DEF Root, TypeOK
  <1> DEFINE ds == ParkDirs(r)
  <1>5. Release(r, ds)
    BY <1>2, <1>4 DEF Park
  <1>6. Move(r, ds) /\ AbortsStay
    BY <1>4, <1>5, ReleaseMove
  <1>7. Full(r) /\ ~InFlight(r)
    BY <1>1, <1>3, WholeWith DEF Held, RootHolds, RootGrant
  <1>8. \A x \in Wf : pc'[x] = IF x = c THEN "parked" ELSE pc[x]
    BY <1>1 DEF Goto, TypeOK
  <1>9. Rest(r)'
    <2>1. \A d \in LockSet(r) \ ParkDirs(r) : locks[d] = r /\ d \in Dir /\ d \notin ds
      BY <1>4, <1>7, Directories DEF Full
    <2>2. \A d \in LockSet(r) \ ParkDirs(r) : locks'[d] = r
      BY <1>4, <1>6, <2>1, CoordinatorAssumption DEF Move
    <2> QED
      BY <2>2 DEF Rest
  <1>10. InFlight(r)' => Claimed(r)'
    <2>1. SUFFICES ASSUME NewGrant(r, r, ds) PROVE Claimed(r)'
      BY <1>4, <1>6, <1>7 DEF Move
    <2>2. PICK h \in Lists : h.wf = r /\ \A d \in h.dirs : locks'[d] = r
      BY <2>1 DEF NewGrant
    <2>3. h.dirs = LockSet(r) \/ h.dirs = ParkDirs(r)
      BY <2>2 DEF Held, Requests
    <2> QED
      BY <1>4, <2>2, <2>3, Directories DEF Claimed, Back
  <1> HIDE DEF ds
  <1>11. /\ \A x \in Wf : InFlight(x)' => InFlight(x) \/ NewGrant(x, r, ds)
         /\ Lists' \subseteq Lists
    BY <1>6 DEF Move
  <1>12. \A x \in Wf : x # r /\ NewGrant(x, r, ds) =>
           /\ x \in Root /\ pc[x] # "idle" /\ ~Claimed(x) /\ Claimed(x)'
           /\ ~Full(x) /\ (pc[x] = "waiting" => Full(x)')
    BY GrantFacts DEF Held
  <1>13. \A x \in Wf : x # r =>
           (Full(x) => Full(x)') /\ (Rest(x) => Rest(x)') /\ (Claimed(x) => Claimed(x)')
    BY <1>6, HoldingStays
  <1>14. Places'
    BY <1>1, PlacesStay, StartedReached DEF Held, Open, Ended
  <1>15. \A x \in Wf : (Live(x)' <=> Live(x)) /\ (pc'[x] # "idle" <=> pc[x] # "idle")
    BY <1>1, <1>8 DEF Live, Ended
  <1>16. IdleFresh' /\ AbortedWaits'
    BY <1>1, <1>8 DEF Held, IdleFresh, AbortedWaits, Ended
  <1>17. Requests'
    <2>1. ASSUME NEW h \in Lists'
          PROVE  /\ h.wf \in Root /\ pc'[h.wf] # "idle" /\ h.dirs # {}
                 /\ \/ h.dirs = LockSet(h.wf)
                    \/ h.wf \notin Stage /\ pc'[h.wf] # "waiting" /\ h.dirs = ParkDirs(h.wf)
      <3>1. /\ h.wf \in Root /\ pc[h.wf] # "idle" /\ h.dirs # {}
            /\ \/ h.dirs = LockSet(h.wf)
               \/ h.wf \notin Stage /\ pc[h.wf] # "waiting" /\ h.dirs = ParkDirs(h.wf)
        BY <1>11, <2>1 DEF Held, Requests
      <3> QED
        BY <1>8, <3>1
    <2> QED
      BY <2>1 DEF Requests
  <1>18. Frames'
    <2>1. ASSUME NEW t \in Task, tasks'[t].pc # "idle"
          PROVE  /\ tasks'[t].to \in Wf /\ pc'[tasks'[t].to] # "idle"
                 /\ tasks'[t].pc # "acquire" => tasks'[t].to \in Root
      <3>1. \/ tasks'[t].pc = tasks[t].pc /\ tasks'[t].to = tasks[t].to
            \/ tasks'[t].pc # "acquire" /\ \E h \in Lists : tasks'[t].to = h.wf
        BY <1>6, <2>1 DEF Move
      <3> QED
        BY <1>15, <2>1, <3>1 DEF Held, Frames, Requests
    <2> QED
      BY <2>1 DEF Frames
  <1>19. AbortFrames'
    <2>1. \A u \in Task : tasks[u].pc = "abort" => tasks[u].by # r
      BY <1>1, <1>3 DEF Held, AbortFrames
    <2>2. \A x \in Wf : pc[x] = "failed" => pc'[x] = "failed"
      BY <1>1, <1>8
    <2> QED
      BY <1>6, <2>1, <2>2, AbortFramesStay DEF Held
  <1>20. OneGrant'
    <2>1. SUFFICES ASSUME NEW t \in Task, NEW u \in Task, t # u, NEW x \in Wf, Live(x)',
                          Sent(tasks'[t], x), Sent(tasks'[u], x)
                   PROVE  FALSE
      <3>1. \A v \in Task : Granting(tasks'[v]) => tasks'[v].to \in Wf
        BY <1>18 DEF Frames, Granting
      <3> QED
        BY <2>1, <3>1 DEF OneGrant, Sent
    <2>2. CASE Sent(tasks[t], x) /\ Sent(tasks[u], x)
      BY <1>15, <2>1, <2>2 DEF Held, OneGrant, Sent
    <2>3. CASE InFlight(x) /\ NewGrant(x, r, ds)
      BY <1>7, <1>12, <1>15, <2>1, <2>3 DEF Held, FlightHolds
    <2> QED
      BY <1>6, <2>1, <2>2, <2>3 DEF Move
  <1>21. FlightHolds'
    BY <1>10, <1>11, <1>12, <1>13, <1>15 DEF Held, FlightHolds
  <1>22. RootHolds'
    <2>1. ASSUME NEW x \in Root, x # r
          PROVE  /\ pc'[x] = pc[x]
                 /\ pc'[x] = "waiting" /\ (granted'[x] \/ InFlight(x)') => Full(x)'
                 /\ pc'[x] \in {"opening", "working"} => Full(x)'
                 /\ pc'[x] \in {"parked", "resuming"} => Rest(x)'
                 /\ pc'[x] = "resuming" /\ granted'[x] => Full(x)'
      <3>1. pc'[x] = pc[x] /\ x \in Wf
        BY <1>3, <1>8, <2>1 DEF Root
      <3> QED
        BY <1>1, <1>11, <1>12, <1>13, <2>1, <3>1 DEF Held, RootHolds
    <2>2. pc'[r] \in {"parked", "running"}
      BY <1>3, <1>4, <1>8
    <2> QED
      BY <1>9, <2>1, <2>2 DEF RootHolds
  <1>23. RootGrant'
    <2>1. ASSUME NEW x \in Root, pc'[x] \in {"opening", "working"} \/
                   (pc'[x] \in {"waiting", "resuming"} /\ granted'[x])
          PROVE  ~InFlight(x)'
      <3>1. x # r /\ x \in Wf /\ x # c
        BY <1>3, <1>4, <1>8, <2>1
      <3>2. Full(x) /\ ~InFlight(x)
        BY <1>1, <1>8, <2>1, <3>1 DEF Held, RootHolds, RootGrant
      <3> QED
        BY <1>11, <1>12, <3>1, <3>2
    <2> QED
      BY <2>1 DEF RootGrant
  <1>24. BatchHolds'
    <2>1. ASSUME NEW o \in Orch, pc'[o] = "running"
          PROVE  /\ Whole(o)' => Full(o)' /\ ~InFlight(o)'
                 /\ \A k \in Kids(o) : pc'[k] \in {"parked", "resuming"} => Rest(o)'
      <3>1. pc[o] = "running" /\ o \in Wf /\ o # c
        BY <1>1, <1>8, <2>1
      <3>2. CASE o = r
        <4>1. c \in Kids(o) /\ pc'[c] = "parked"
          BY <1>3, <1>8, <3>1, <3>2
        <4> QED
          BY <1>9, <3>2, <4>1 DEF Whole, Aside
      <3>3. CASE o # r
        <4>1. c \notin Kids(o)
          BY <1>2, <3>3
        <4>2. \A k \in Kids(o) : pc'[k] = pc[k]
          BY <1>8, <4>1
        <4>3. Whole(o)' => Whole(o)
          BY <4>2 DEF Whole, Aside
        <4> QED
          BY <1>11, <1>12, <1>13, <3>1, <3>3, <4>2, <4>3 DEF Held, BatchHolds
      <3> QED
        BY <3>2, <3>3
    <2> QED
      BY <2>1 DEF BatchHolds
  <1>25. BatchGrant'
    <2>1. \A o \in Orch : pending[o] # None => pending[o] # c
      BY <1>1 DEF Held, BatchGrant
    <2>2. c \notin acks
      BY <1>1 DEF Held, BatchGrant
    <2>3. ASSUME NEW o \in Orch, NEW k \in Kids(o),
                 pc'[k] = "resuming" /\ (k \in acks' \/ granted'[k])
          PROVE  Full(o)' /\ ~InFlight(o)' /\ pending'[o] = None
      <3>1. k # c /\ k \in Wf /\ k \in Child /\ pc[k] = "resuming"
        BY <1>8, <2>3
      <3>2. Full(o) /\ ~InFlight(o) /\ pending[o] = None
        BY <1>1, <2>3, <3>1 DEF Held, BatchGrant
      <3>3. o # r
        <4>1. SUFFICES ASSUME o = r PROVE FALSE
          OBVIOUS
        <4>2. c \in Kids(o)
          BY <1>3, <4>1, <2>3, <1>1, <3>1 DEF Prod
        <4> QED
          BY <1>1, <3>1, <4>2, Succession DEF Held
      <3> QED
        BY <1>1, <1>11, <1>12, <1>13, <3>2, <3>3
    <2>4. \A o \in Orch : pending'[o] # None =>
            pending'[o] \in Kids(o) /\ pc'[pending'[o]] \in {"resuming", "failed"}
      BY <1>1, <1>8, <2>1 DEF Held, BatchGrant
    <2>5. \A k \in acks' : k \in Child /\ pc'[k] \in {"resuming", "failed"}
      BY <1>1, <1>8, <2>2 DEF Held, BatchGrant
    <2>6. \A k \in Child : pc'[k] = "resuming" /\ granted'[k] => k \notin acks'
      BY <1>1, <1>8 DEF Held, BatchGrant
    <2> QED
      BY <2>3, <2>4, <2>5, <2>6 DEF BatchGrant
  <1>26. ChildGrant'
    <2>1. \A k \in Child : InFlight(k)' => InFlight(k)
      BY <1>4, <1>11, <1>12 DEF Root
    <2> QED
      BY <1>1, <1>8, <2>1 DEF Held, ChildGrant
  <1> QED
    BY <1>14, <1>16, <1>17, <1>18, <1>19, <1>20, <1>21, <1>22, <1>23, <1>24, <1>25, <1>26 DEF Held

\* The fix was seen: what the park gave back is asked for again.
LEMMA WakeHeld ==
  ASSUME TypeOK, Held, NEW c \in Wf, Wake(c)
  PROVE  Held'
  <1> USE Families
  <1>1. /\ c \in Prod /\ c \notin Orch /\ c \notin Stage /\ pc[c] = "parked" /\ Goto(c, "resuming")
        /\ aborted' = aborted /\ acks' = acks
    BY DEF Wake, Prod, Held, Places
  <1>2. PICK r \in Root : r = Holder(c)
    BY DEF Root
  <1>3. /\ c \in Root => r = c
        /\ c \in Child => r \in Orch /\ c \in Kids(r) /\ pc[r] = "running"
        /\ c \in Root \cup Child
    <2>1. c \in Child => pc[Parent(c)] = "running"
      BY <1>1 DEF Held, Places, Open, Ended
    <2> QED
      BY <1>2, <2>1 DEF Root
  <1>4. r \in Wf /\ r \notin Stage /\ r \notin Child /\ ParkDirs(c) = ParkDirs(r)
        /\ ParkDirs(r) \in SUBSET Dir /\ Key \in ParkDirs(r) /\ CoordinatorTypeOK
    BY <1>1, <1>2, <1>3, Directories DEF Root, TypeOK
  <1>5. Acquire(r, ParkDirs(r), None)
    BY <1>2, <1>4 DEF Wake
  <1>6. Asks(r, ParkDirs(r), None) /\ AbortsStay
    BY <1>4, <1>5, AcquireAsks
  <1>7. \A x \in Wf : pc'[x] = IF x = c THEN "resuming" ELSE pc[x]
    BY <1>1 DEF Goto, TypeOK
  <1>8. /\ \A x \in Wf : granted'[x] <=> granted[x] /\ x # c /\ x # r
        /\ c \in Child => pending' = [pending EXCEPT ![r] = c]
        /\ c \notin Child => pending' = pending
    BY <1>2 DEF Wake, TypeOK
  <1>9. InFlight(r) /\ Live(r) => \E d \in ParkDirs(r) : locks[d] \notin {None, None}
    <2>1. InFlight(r) /\ Live(r) => locks[Key] = r
      BY <1>4 DEF Held, FlightHolds, Claimed, Back
    <2> QED
      BY <1>4, <2>1, CoordinatorAssumption
  <1>10. pc'[r] # "waiting" /\ (r = c \/ pc[r] = "running")
    BY <1>3, <1>4, <1>7
  <1>11. Requests' /\ Frames' /\ AbortFrames' /\ AbortedWaits' /\ OneGrant' /\ FlightHolds'
    BY <1>1, <1>4, <1>6, <1>9, <1>10, AskHeld
  <1>12. /\ \A x \in Wf : (Full(x) => Full(x)') /\ (Rest(x) => Rest(x)')
         /\ \A x \in Wf : x # r /\ InFlight(x)' => InFlight(x)
    BY <1>4, <1>6, AskedStays
  <1>13. Places'
    BY <1>1, PlacesStay, StartedReached DEF Held, Open, Ended
  <1>14. IdleFresh'
    BY <1>7, <1>8 DEF Held, IdleFresh
  <1>15. RootHolds'
    <2>1. ASSUME NEW x \in Root, x # r
          PROVE  /\ pc'[x] = "waiting" /\ (granted'[x] \/ InFlight(x)') => Full(x)'
                 /\ pc'[x] \in {"opening", "working"} => Full(x)'
                 /\ pc'[x] \in {"parked", "resuming"} => Rest(x)'
                 /\ pc'[x] = "resuming" /\ granted'[x] => Full(x)'
      <3>1. pc'[x] = pc[x] /\ x \in Wf
        BY <1>3, <1>7, <2>1 DEF Root
      <3> QED
        BY <1>8, <1>12, <2>1, <3>1 DEF Held, RootHolds
    <2>2. pc'[r] \in {"resuming", "running"} /\ ~granted'[r]
      BY <1>3, <1>4, <1>7, <1>8
    <2>3. pc'[r] = "resuming" => Rest(r)'
      BY <1>1, <1>3, <1>4, <1>7, <1>12 DEF Held, RootHolds
    <2> QED
      BY <2>1, <2>2, <2>3 DEF RootHolds
  <1>16. RootGrant'
    <2>1. \A x \in Root : x # r => pc'[x] = pc[x] /\ x \in Wf
      BY <1>3, <1>7 DEF Root
    <2>2. pc'[r] \in {"resuming", "running"} /\ ~granted'[r]
      BY <1>3, <1>4, <1>7, <1>8
    <2> QED
      BY <1>8, <1>12, <2>1, <2>2 DEF Held, RootGrant
  <1>17. BatchHolds'
    <2>1. ASSUME NEW o \in Orch, pc'[o] = "running"
          PROVE  /\ Whole(o)' => Full(o)' /\ ~InFlight(o)'
                 /\ \A k \in Kids(o) : pc'[k] \in {"parked", "resuming"} => Rest(o)'
      <3>1. pc[o] = "running" /\ o \in Wf /\ o # c
        BY <1>1, <1>7, <2>1
      <3>2. CASE o = r
        <4>1. c \in Kids(o) /\ pc'[c] = "resuming"
          BY <1>3, <1>7, <3>1, <3>2
        <4>2. Rest(o)
          BY <1>1, <3>1, <4>1 DEF Held, BatchHolds
        <4> QED
          BY <1>12, <3>1, <4>1, <4>2 DEF Whole, Aside
      <3>3. CASE o # r
        <4>1. c \notin Kids(o)
          BY <1>2, <3>3
        <4>2. \A k \in Kids(o) : pc'[k] = pc[k]
          BY <1>7, <4>1
        <4>3. Whole(o)' => Whole(o)
          BY <4>2 DEF Whole, Aside
        <4> QED
          BY <1>12, <3>1, <3>3, <4>2, <4>3 DEF Held, BatchHolds
      <3> QED
        BY <3>2, <3>3
    <2> QED
      BY <2>1 DEF BatchHolds
  <1>18. BatchGrant'
    <2>1. c \notin acks
      BY <1>1 DEF Held, BatchGrant
    <2>2. \A o \in Orch : pending'[o] = IF c \in Child /\ o = r THEN c ELSE pending[o]
      BY <1>8 DEF TypeOK
    <2>3. ASSUME NEW o \in Orch, NEW k \in Kids(o),
                 pc'[k] = "resuming" /\ (k \in acks' \/ granted'[k])
          PROVE  Full(o)' /\ ~InFlight(o)' /\ pending'[o] = None
      <3>1. k # c /\ k \in Wf /\ k \in Child /\ pc[k] = "resuming"
        BY <1>1, <1>7, <1>8, <2>1, <2>3
      <3>2. Full(o) /\ ~InFlight(o) /\ pending[o] = None
        BY <1>1, <1>8, <2>3, <3>1 DEF Held, BatchGrant
      <3>3. o # r
        <4>1. SUFFICES ASSUME o = r PROVE FALSE
          OBVIOUS
        <4>2. c \in Kids(o)
          BY <1>1, <1>3, <4>1
        <4> QED
          BY <1>1, <3>1, <4>2, Succession DEF Held
      <3> QED
        BY <1>12, <2>2, <3>2, <3>3
    <2>4. ASSUME NEW o \in Orch, pending'[o] # None
          PROVE  pending'[o] \in Kids(o) /\ pc'[pending'[o]] \in {"resuming", "failed"}
      <3>1. CASE c \in Child /\ o = r
        BY <1>3, <1>7, <2>2, <3>1
      <3>2. CASE ~(c \in Child /\ o = r)
        <4>1. pending[o] \in Kids(o) /\ pc[pending[o]] \in {"resuming", "failed"}
          BY <2>2, <2>4, <3>2 DEF Held, BatchGrant
        <4> QED
          BY <1>7, <2>2, <3>2, <4>1
      <3> QED
        BY <3>1, <3>2
    <2>5. \A k \in acks' : k \in Child /\ pc'[k] \in {"resuming", "failed"}
      BY <1>1, <1>7, <2>1 DEF Held, BatchGrant
    <2>6. \A k \in Child : pc'[k] = "resuming" /\ granted'[k] => k \notin acks'
      BY <1>1, <1>7, <1>8, <2>1 DEF Held, BatchGrant
    <2> QED
      BY <2>3, <2>4, <2>5, <2>6 DEF BatchGrant
  <1>19. ChildGrant'
    <2>1. \A k \in Child : InFlight(k)' => InFlight(k)
      BY <1>4, <1>12
    <2> QED
      BY <1>1, <1>7, <1>8, <2>1 DEF Held, ChildGrant
  <1> QED
    BY <1>11, <1>13, <1>14, <1>15, <1>16, <1>17, <1>18, <1>19 DEF Held

-----------------------------------------------------------------------------
(* The inductive invariant.                                                *)

LEMMA InitHolds == PInit => Held
  <1> SUFFICES ASSUME PInit PROVE Held
    OBVIOUS
  <1> USE Families
  <1>1. Init /\ \A c \in Wf : pc[c] = "idle" /\ ~granted[c] /\ ~aborted[c]
    BY DEF PInit
  <1>2. \A t \in Task : tasks[t].pc = "idle" /\ tasks[t].snap = {} /\ tasks[t].remaining = {}
    BY <1>1 DEF Init, Idle
  <1>3. Lists = {} /\ \A x : ~InFlight(x)
    BY <1>1, <1>2 DEF Init, Lists, Kept, InFlight, Granting
  <1>4. acks = {} /\ \A o \in Orch : pending[o] = None
    BY DEF PInit
  <1>5. \A o \in Orch : \A i \in DOMAIN Children[o] : Children[o][i] \in Wf
    BY ProductionAssumption
  <1>6. Places /\ IdleFresh /\ Requests /\ Frames /\ AbortFrames /\ AbortedWaits
    BY <1>1, <1>2, <1>3, <1>5
       DEF Places, IdleFresh, Requests, Frames, AbortFrames, AbortedWaits, Open
  <1>7. OneGrant /\ FlightHolds /\ RootHolds /\ RootGrant
    BY <1>1, <1>2, <1>3 DEF OneGrant, FlightHolds, RootHolds, RootGrant, Granting
  <1>8. BatchHolds /\ BatchGrant /\ ChildGrant
    BY <1>1, <1>3, <1>4 DEF BatchHolds, BatchGrant, ChildGrant
  <1> QED
    BY <1>6, <1>7, <1>8 DEF Held

\* What went wrong stays in the history.
LEMMA MishapsStay ==
  ASSUME [Next]_vars
  PROVE  mishaps \subseteq mishaps'
  <1>1. CASE UNCHANGED vars
    BY <1>1 DEF vars, flow
  <1>2. ASSUME NEW o \in Orch, Batch(o)
        PROVE  mishaps \subseteq mishaps'
    BY <1>2 DEF Batch, OpenBatch, EnterTry, StageUpdateFails, StartChild, LeaveTry, Mishap, flow
  <1>3. ASSUME NEW c \in Wf, Deployment(c)
        PROVE  mishaps \subseteq mishaps'
    <2>1. CASE Start(c) \/ Proceed(c) \/ Withdraw(c) \/ AbortedLockConflict(c) \/ Finish(c)
               \/ FailParked(c) \/ Resumed(c) \/ CoordinatorGone(c)
      BY <2>1 DEF Start, Proceed, Withdraw, AbortedLockConflict, Finish, FailParked, Resumed,
         CoordinatorGone, flow
    <2>2. CASE LockWaitTimeout(c) \/ AtlantisLockTimeout(c) \/ Adopt(c) \/ ResumeTimeout(c) \/ Die(c)
      BY <2>2 DEF LockWaitTimeout, AtlantisLockTimeout, Adopt, ResumeTimeout, Die, Mishap, NoMishap
    <2>3. CASE Park(c) \/ Wake(c) \/ Forward(c)
      BY <2>3 DEF Park, Wake, Forward
    <2> QED
      BY <1>3, <2>1, <2>2, <2>3 DEF Deployment
  <1>4. ASSUME NEW t \in Task, Handler(t)
        PROVE  mishaps \subseteq mishaps'
    BY <1>4 DEF Handler, LocksGranted, AtlasLockAbort, flow
  <1> QED
    BY <1>1, <1>2, <1>3, <1>4 DEF Next

LEMMA NextHeld ==
  ASSUME TypeOK, Held, [Next]_vars, Unadopted'
  PROVE  Held'
  <1>1. CASE UNCHANGED vars
    <2>1. Move(None, {}) /\ AbortsStay
      BY <1>1, UnchangedMove DEF vars
    <2>2. Recede(None)
      BY <1>1, CoordinatorAssumption DEF Recede, vars, flow
    <2>3. AbortFrames'
      <3>1. \A t \in Task : tasks[t].pc = "abort" => tasks[t].by # None
        BY Families, CoordinatorAssumption DEF Held, AbortFrames
      <3>2. \A x \in Wf : pc[x] = "failed" => pc'[x] = "failed"
        BY <1>1 DEF vars
      <3> QED
        BY <2>1, <3>1, <3>2, AbortFramesStay DEF Held
    <2> QED
      BY <2>1, <2>2, <2>3, RecedeHeld
  <1>2. ASSUME NEW o \in Orch, Batch(o)
        PROVE  Held'
    <2>1. o \in Wf
      BY Families
    <2> QED
      BY <1>2, <2>1, AdvanceHeld, BatchEndHeld, StartChildHeld DEF Batch
  <1>3. ASSUME NEW c \in Wf, Deployment(c)
        PROVE  Held'
    BY <1>3, StartHeld, AdvanceHeld, EndHeld, AtlantisLockTimeoutHeld, ParkHeld, WakeHeld,
       ForwardHeld DEF Deployment
  <1>4. ASSUME NEW t \in Task, Handler(t)
        PROVE  Held'
    BY <1>4, LocksGrantedHeld, AtlasLockAbortHeld, ResumeHeld DEF Handler
  <1> QED
    BY <1>1, <1>2, <1>3, <1>4 DEF Next

LEMMA SpecInv == Spec => []Inv
  <1>1. PInit => Inv
    BY InitTypes, InitHolds DEF Inv
  <1>2. Inv /\ [Next]_vars => Inv'
    BY NextType, NextHeld, MishapsStay DEF Inv, Unadopted
  <1> QED
    BY <1>1, <1>2, PTL DEF Spec

\* Who works holds all its directories, a child through its batch.
LEMMA Backing ==
  ASSUME Held, NEW c \in Wf, pc[c] = "working"
  PROVE  \A d \in LockSet(c) : locks[d] = Holder(c)
  <1> USE Families
  <1>1. CASE c \in Root
    BY <1>1 DEF Held, RootHolds, Full
  <1>2. CASE c \in Child
    <2>1. Parent(c) \in Orch /\ c \in Kids(Parent(c)) /\ Holder(c) = Parent(c)
      BY <1>2
    <2>2. pc[Parent(c)] = "running"
      BY <2>1 DEF Held, Places, Open, Ended
    <2>3. Full(Parent(c))
      BY <2>1, <2>2, WholeWith
    <2> QED
      BY <2>1, <2>3, Directories DEF Full
  <1> QED
    BY <1>1, <1>2 DEF Root

\* As long as no sibling of a child still to come was adopted, a deployment works
\* only under a lock table that gives it, or its batch, every directory: through
\* parks, resumes, aborts, timeouts and a coordinator that gets stuck or fails.
THEOREM WorkIsBacked == Spec => [](Unadopted => WorkBacked)
  <1>1. Inv => (Unadopted => WorkBacked)
    BY Backing DEF Inv, WorkBacked
  <1> QED
    BY <1>1, SpecInv, PTL

\* The key has one root, and a batch one child at work.
LEMMA Alone ==
  ASSUME Held, NEW c \in Prod, NEW e \in Prod, pc[c] = "working", pc[e] = "working"
  PROVE  c = e
  <1> USE Families
  <1>1. c \in Wf \ Stage /\ e \in Wf \ Stage /\ c \notin Orch /\ e \notin Orch
    BY DEF Prod
  <1>2. locks[Key] = Holder(c) /\ locks[Key] = Holder(e)
    BY <1>1, Backing, Directories
  <1>3. CASE c \in Root \/ e \in Root
    <2>1. c \in Child => Holder(c) \in Orch
      OBVIOUS
    <2>2. e \in Child => Holder(e) \in Orch
      OBVIOUS
    <2>3. (c \in Root => Holder(c) = c) /\ (e \in Root => Holder(e) = e)
      OBVIOUS
    <2>4. Holder(c) = Holder(e)
      BY <1>2
    <2>5. (c \in Root \/ c \in Child) /\ (e \in Root \/ e \in Child)
      BY <1>1 DEF Root
    <2> QED
      BY <1>1, <1>3, <2>1, <2>2, <2>3, <2>4, <2>5
  <1>4. CASE c \in Child /\ e \in Child
    <2>1. Parent(c) \in Orch /\ c \in Kids(Parent(c)) /\ e \in Kids(Parent(c))
      BY <1>2, <1>4
    <2> QED
      BY <2>1, Succession DEF Held
  <1> QED
    BY <1>1, <1>3, <1>4 DEF Root

\* Under the same premise one production deployment at a time works on the
\* promotion pull request.
THEOREM OneAtATime == Spec => [](Unadopted => OneActor)
  <1>1. Inv => (Unadopted => OneActor)
    BY Alone DEF Inv, OneActor
  <1> QED
    BY <1>1, SpecInv, PTL

\* Who is aside, or its batch, holds all that a park keeps.
LEMMA KeptAside ==
  ASSUME Held, NEW c \in Prod, pc[c] \in {"parked", "resuming"}
  PROVE  Rest(Holder(c))
  <1> USE Families
  <1>1. c \in Root \cup Child
    BY DEF Root
  <1>2. CASE c \in Root
    BY <1>2 DEF Held, RootHolds
  <1>3. CASE c \in Child
    <2>1. Parent(c) \in Orch /\ c \in Kids(Parent(c)) /\ Holder(c) = Parent(c)
      BY <1>3
    <2>2. pc[Parent(c)] = "running"
      BY <2>1 DEF Held, Places, Open, Ended
    <2> QED
      BY <2>1, <2>2 DEF Held, BatchHolds
  <1> QED
    BY <1>1, <1>2, <1>3

\* A parked deployment, and one that queues to resume, keeps its own directories.
THEOREM ParkedKeepsItsOwn == Spec => []ParkKeeps
  <1> USE Families
  <1>1. ASSUME Held, NEW c \in Prod, pc[c] \in {"parked", "resuming"}
        PROVE  \A d \in Own[Holder(c)] : locks[d] = Holder(c)
    <2>1. Holder(c) \in Root
      BY DEF Root
    <2>2. Own[Holder(c)] \subseteq LockSet(Holder(c)) \ ParkDirs(Holder(c))
      BY <2>1, Directories
    <2> QED
      BY <1>1, <2>2, KeptAside DEF Rest
  <1>2. Inv => ParkKeeps
    BY <1>1 DEF Inv, ParkKeeps, Unadopted
  <1> QED
    BY <1>2, SpecInv, PTL

-----------------------------------------------------------------------------
(* What MergeGate is built on.                                             *)

\* Who works shares nothing with one that is aside: its own holder has it all.
LEMMA Apart ==
  ASSUME Held, NEW c \in Prod, pc[c] = "working",
         NEW v \in Prod \ {c}, pc[v] \in {"parked", "resuming"}
  PROVE  Keeps[v] \cap (Keeps[c] \cup Yields[c]) = {}
  <1> USE Families
  <1>1. Holder(v) \in Root /\ Holder(c) \in Root /\ c \in Wf /\ v \in Wf
    BY DEF Root
  <1>2. Holder(v) # Holder(c)
    <2>1. ASSUME c \in Child, v \in Child
          PROVE  Holder(v) # Holder(c)
      <3>1. /\ Parent(c) \in Orch /\ c \in Kids(Parent(c)) /\ Holder(c) = Parent(c)
            /\ v \in Kids(Parent(v)) /\ Holder(v) = Parent(v)
        BY <2>1
      <3> QED
        BY <3>1, Succession DEF Held
    <2>2. \A x \in Prod : (x \in Child => Holder(x) \in Orch) /\ (x \notin Child => Holder(x) = x)
      BY DEF Root
    <2>3. c \notin Orch /\ v \notin Orch
      BY DEF Prod
    <2> QED
      BY <2>1, <2>2, <2>3
  <1>3. ASSUME NEW d \in Keeps[v]
        PROVE  locks[d] = Holder(v)
    <2>1. d \in Own[v] \cup Shared[v] /\ d \notin Shared[Holder(v)]
      BY DEF Keeps
    <2>2. d # Key
      BY <1>1, <2>1, ProductionAssumption
    <2>3. d \notin ParkDirs(Holder(v))
      BY <1>1, <2>1, <2>2 DEF ParkDirs
    <2>4. d \in LockSet(Holder(v))
      <3>1. CASE v \in Child
        BY <2>1, <3>1, Directories DEF LockSet
      <3>2. CASE v \notin Child
        BY <1>1, <2>1, <3>2 DEF LockSet, Root
      <3> QED
        BY <3>1, <3>2
    <2> QED
      BY <2>3, <2>4, KeptAside DEF Rest
  <1>4. ASSUME NEW d \in Keeps[c] \cup Yields[c]
        PROVE  locks[d] = Holder(c)
    <2>1. d \in LockSet(c)
      BY DEF Keeps, Yields, LockSet
    <2> QED
      BY <1>1, <2>1, Backing
  <1> QED
    BY <1>2, <1>3, <1>4

\* Nobody else is inside or keeps what one that works needs.
Undisturbed ==
    \A c, v \in Prod : pc[c] = "working" /\ v # c =>
      /\ pc[v] # "working"
      /\ pc[v] \in {"parked", "resuming"} => Keeps[v] \cap (Keeps[c] \cup Yields[c]) = {}

\* The step of one deployment, if it ends in peace, is a step of PromotionLocks.
LEMMA PlaceStep ==
  ASSUME TypeOK, Undisturbed', NEW c \in Wf, NEW s \in PC, Goto(c, s),
         \/ s = "waiting" /\ pc[c] = "idle"
         \/ s = "working" /\ pc[c] \in {"waiting", "resuming"}
         \/ s = "parked" /\ pc[c] = "working"
         \/ s = "resuming" /\ pc[c] = "parked"
         \/ s \in {"withdrawing", "success", "failed"}
         \/ c \notin Prod
  PROVE  Promotion!Next \/ UNCHANGED LockPlace
  <1>1. pc' = [pc EXCEPT ![c] = s] /\ pc \in [Wf -> PC]
    BY DEF Goto, TypeOK
  <1>2. Prod \subseteq Wf
    BY Families
  <1>3. CASE c \notin Prod
    <2>1. \A x \in Prod : pc'[x] = pc[x]
      BY <1>1, <1>2, <1>3
    <2> QED
      BY <2>1 DEF LockPlace
  <1>4. CASE c \in Prod
    <2> DEFINE to == CASE s \in {"idle", "waiting"} -> "out"
                       [] s = "working" -> "inside"
                       [] s \in {"parked", "resuming"} -> "aside"
                       [] OTHER -> "over"
    <2>1. LockPlace' = [LockPlace EXCEPT ![c] = to]
      BY <1>1, <1>2, <1>4 DEF LockPlace
    <2>2. CASE s = "working"
      <3>1. to = "inside"
        BY <2>2
      <3>2. ASSUME NEW v \in Prod \ {c}
            PROVE  /\ LockPlace[v] # "inside"
                   /\ Promotion!Holds(v) \cap (Keeps[c] \cup Yields[c]) = {}
        <4>1. pc'[c] = "working" /\ pc'[v] = pc[v] /\ v \in Prod /\ v # c
          BY <1>1, <1>2, <1>4, <2>2
        <4>2. pc[v] # "working"
          BY <1>4, <4>1 DEF Undisturbed
        <4>3. CASE pc[v] \in {"parked", "resuming"}
          <5>1. LockPlace[v] = "aside"
            BY <4>1, <4>3 DEF LockPlace
          <5>2. Keeps[v] \cap (Keeps[c] \cup Yields[c]) = {}
            BY <1>4, <4>1, <4>3 DEF Undisturbed, Keeps, Yields
          <5> QED
            BY <5>1, <5>2 DEF Promotion!Holds
        <4>4. CASE pc[v] \notin {"working", "parked", "resuming"}
          <5>1. LockPlace[v] \in {"out", "over"}
            BY <4>1, <4>4 DEF LockPlace
          <5> QED
            BY <5>1 DEF Promotion!Holds
        <4> QED
          BY <4>2, <4>3, <4>4
      <3>3. CASE pc[c] = "waiting"
        <4>1. LockPlace[c] = "out"
          BY <1>4, <3>3 DEF LockPlace
        <4>2. Promotion!Enter(c)
          BY <2>1, <3>1, <3>2, <4>1 DEF Promotion!Enter, Promotion!Free, Promotion!Move
        <4> QED
          BY <1>4, <4>2 DEF Promotion!Next
      <3>4. CASE pc[c] = "resuming"
        <4>1. LockPlace[c] = "aside"
          BY <1>4, <3>4 DEF LockPlace
        <4>2. Promotion!Free(c, Yields[c])
          BY <3>2 DEF Promotion!Free
        <4>3. Promotion!Return(c)
          BY <2>1, <3>1, <4>1, <4>2 DEF Promotion!Return, Promotion!Move
        <4> QED
          BY <1>4, <4>3 DEF Promotion!Next
      <3> QED
        BY <1>4, <2>2, <3>3, <3>4
    <2>3. CASE s = "parked" /\ pc[c] = "working"
      <3>1. to = "aside" /\ LockPlace[c] = "inside"
        BY <1>4, <2>3 DEF LockPlace
      <3>2. Promotion!StepAside(c)
        BY <2>1, <3>1 DEF Promotion!StepAside, Promotion!Move
      <3> QED
        BY <1>4, <3>2 DEF Promotion!Next
    <2>4. CASE s \in {"withdrawing", "success", "failed"}
      <3>1. to = "over" /\ LockPlace[c] \in {"out", "inside", "aside", "over"}
        BY <1>4, <2>4 DEF LockPlace
      <3>2. CASE LockPlace[c] = "over"
        <4>1. LockPlace' = LockPlace
          BY <2>1, <3>1, <3>2 DEF LockPlace
        <4> QED
          BY <4>1
      <3>3. CASE LockPlace[c] # "over"
        <4>1. Promotion!Leave(c)
          BY <2>1, <3>1, <3>3 DEF Promotion!Leave, Promotion!Move
        <4> QED
          BY <1>4, <4>1 DEF Promotion!Next
      <3> QED
        BY <3>2, <3>3
    <2>5. CASE (s = "waiting" /\ pc[c] = "idle") \/ (s = "resuming" /\ pc[c] = "parked")
      <3>1. to = LockPlace[c]
        BY <1>4, <2>5 DEF LockPlace
      <3>2. LockPlace' = LockPlace
        BY <2>1, <3>1 DEF LockPlace
      <3> QED
        BY <3>2
    <2> QED
      BY <1>4, <2>2, <2>3, <2>4, <2>5
  <1> QED
    BY <1>3, <1>4

LEMMA PromotionStep ==
  ASSUME TypeOK, Undisturbed', [Next]_vars
  PROVE  Promotion!Next \/ UNCHANGED LockPlace
  <1> USE Families
  <1>1. \A o \in Orch : o \in Wf /\ o \notin Prod
    BY DEF Prod
  <1>2. {"waiting", "opening", "running", "working", "parked", "resuming",
         "withdrawing", "success", "failed"} \subseteq PC
    BY DEF PC
  <1>3. CASE UNCHANGED pc
    BY <1>3 DEF LockPlace
  <1>4. ASSUME NEW o \in Orch, Batch(o)
        PROVE  Promotion!Next \/ UNCHANGED LockPlace
    <2>1. CASE \E s \in PC : Goto(o, s)
      BY <1>1, <2>1, PlaceStep
    <2>2. CASE StartChild(o)
      <3>1. PICK i \in DOMAIN Children[o] :
              pc[Children[o][i]] = "idle" /\ Goto(Children[o][i], "waiting")
        BY <2>2 DEF StartChild
      <3>2. Children[o][i] \in Wf
        BY DEF Kids
      <3> QED
        BY <1>2, <3>1, <3>2, PlaceStep
    <2> QED
      BY <1>2, <1>4, <2>1, <2>2 DEF Batch, OpenBatch, EnterTry, StageUpdateFails, LeaveTry
  <1>5. ASSUME NEW c \in Wf, Deployment(c)
        PROVE  Promotion!Next \/ UNCHANGED LockPlace
    <2>1. CASE Start(c)
      BY <1>2, <2>1, PlaceStep DEF Start
    <2>2. CASE Proceed(c)
      BY <1>2, <2>2, PlaceStep DEF Proceed
    <2>3. CASE Resumed(c)
      BY <1>2, <2>3, PlaceStep DEF Resumed
    <2>4. CASE Park(c)
      BY <1>2, <2>4, PlaceStep DEF Park
    <2>5. CASE Wake(c)
      BY <1>2, <2>5, PlaceStep DEF Wake
    <2>6. CASE Forward(c)
      BY <1>3, <2>6 DEF Forward
    <2>7. CASE \E s \in {"withdrawing", "success", "failed"} : Goto(c, s)
      BY <1>2, <2>7, PlaceStep
    <2> QED
      BY <1>5, <2>1, <2>2, <2>3, <2>4, <2>5, <2>6, <2>7
      DEF Deployment, LockWaitTimeout, Withdraw, AbortedLockConflict, AtlantisLockTimeout, Finish,
          FailParked, Adopt, ResumeTimeout, Die, CoordinatorGone
  <1>6. ASSUME NEW t \in Task, Handler(t)
        PROVE  UNCHANGED pc
    BY <1>6 DEF Handler, LocksGranted, AtlasLockAbort
  <1> QED
    BY <1>3, <1>4, <1>5, <1>6 DEF Next, vars

\* Until a child is adopted before its siblings are done, batches, their children
\* and the coordinator implement PromotionLocks, on which MergeGate is built.
THEOREM PromotionIsProvided == Spec => PromotionProvided
  <1> DEFINE Calmly == TypeOK /\ (Unadopted => Undisturbed)
  <1>1. PInit => Promotion!Init
    BY Families DEF PInit, Promotion!Init, LockPlace
  <1>2. Inv => Calmly
    BY Alone, Apart DEF Inv, Undisturbed
  <1>3. Calmly /\ Calmly' /\ [Next]_vars => ["adopted" \notin mishaps' => Promotion!Next]_LockPlace
    BY PromotionStep DEF Unadopted
  <1> QED
    BY <1>1, <1>2, <1>3, SpecInv, PTL DEF Spec, PromotionProvided

-----------------------------------------------------------------------------
\* What remove takes out of a list.
\* A set of numbers has a least one.
LEMMA LeastNumber ==
  ASSUME NEW N \in SUBSET Nat, N # {}
  PROVE  \E n \in N : \A m \in N : n <= m
  <1> DEFINE R == OpToRel(<, Nat)
  <1>1. IsWellFoundedOn(R, Nat)
    BY NatLessThanWellFounded
  <1>2. \A m, n \in Nat : m < n => <<m, n>> \in R
    BY DEF OpToRel
  <1> HIDE DEF R
  <1>3. PICK n \in N : \A m \in N : <<m, n>> \notin R
    BY <1>1, WFMin
  <1>4. \A m \in N : ~(m < n) /\ m \in Nat /\ n \in Nat
    BY <1>2, <1>3
  <1>5. \A m \in N : n <= m
    BY <1>4
  <1> QED
    BY <1>5

\* remove takes an equal entry out of the list for each one the scan has marked.
LEMMA RemovedCopies ==
  ASSUME NEW T \in SUBSET Hold, NEW q \in SUBSET Hold, IsFiniteSet(T), IsFiniteSet(q),
         Removable(T, q), NEW h
  PROVE  /\ IsFiniteSet(Copies(h, RemoveEach(T, q)))
         /\ Cardinality(Copies(h, RemoveEach(T, q))) + Cardinality(Copies(h, T))
              <= Cardinality(Copies(h, q))
  <1> DEFINE S == Copies(h, q)
             K == Copies(h, RemoveEach(T, q))
             n == Cardinality(Copies(h, T))
  <1>1. S \in SUBSET q /\ K \in SUBSET S /\ Copies(h, T) \in SUBSET T
    BY DEF Copies, RemoveEach
  <1>2. IsFiniteSet(S) /\ IsFiniteSet(Copies(h, T))
    BY <1>1, FS_Subset
  <1>3. IsFiniteSet(K) /\ Cardinality(K) <= Cardinality(S)
    BY <1>1, <1>2, FS_Subset
  <1>4. Cardinality(S) \in Nat /\ Cardinality(K) \in Nat /\ n \in Nat
    BY <1>2, <1>3, FS_CardinalityType
  <1>5. CASE K = {}
    <2>1. Cardinality(K) = 0
      BY <1>5, FS_EmptySet
    <2>2. n <= Cardinality(S)
      <3>1. CASE Copies(h, T) = {}
        <4>1. n = 0
          BY <3>1, FS_EmptySet
        <4> QED
          BY <1>4, <4>1
      <3>2. CASE Copies(h, T) # {}
        <4>1. PICK g \in T : SameHold(g, h)
          BY <3>2 DEF Copies
        <4>2. Copies(g, T) = Copies(h, T) /\ Copies(g, q) = S
          BY <4>1 DEF Copies, SameHold
        <4> QED
          BY <4>1, <4>2 DEF Removable
      <3> QED
        BY <3>1, <3>2
    <2> HIDE DEF K, S, n
    <2>3. Cardinality(K) + n <= Cardinality(S)
      BY <1>4, <2>1, <2>2
    <2> QED
      BY <1>3, <2>3 DEF K, S, n
  <1>6. CASE K # {}
    <2>1. PICK k \in K : \A g \in K : k.no <= g.no
      <3>1. \A g \in K : g.no \in Nat
        BY <1>1 DEF Hold
      <3>2. {g.no : g \in K} \in SUBSET Nat /\ {g.no : g \in K} # {}
        BY <1>6, <3>1
      <3>3. PICK m \in {g.no : g \in K} : \A l \in {g.no : g \in K} : m <= l
        BY <3>2, LeastNumber
      <3> QED
        BY <3>3
    <2> DEFINE B == {g \in S : g.no < k.no}
    <2>2. k \in S /\ SameHold(k, h)
      BY <1>1 DEF Copies
    <2>3. Copies(k, q) = S /\ Copies(k, T) = Copies(h, T)
      BY <2>2 DEF Copies, SameHold
    <2>4. Cardinality(B) >= n
      BY <2>3 DEF RemoveEach, Copies
    <2>5. B \in SUBSET S /\ B \cap K = {} /\ B \cup K \in SUBSET S
      <3>1. \A g \in K : ~(g.no < k.no)
        <4>1. \A g \in K : g.no \in Nat /\ k.no \in Nat
          BY <1>1 DEF Hold
        <4> QED
          BY <2>1, <4>1
      <3> HIDE DEF K, S
      <3> QED
        BY <1>1, <3>1
    <2> HIDE DEF B, K, S, n
    <2>6. IsFiniteSet(B) /\ Cardinality(B) \in Nat
      BY <1>2, <2>5, FS_Subset, FS_CardinalityType
    <2>7. Cardinality(B \cup K) = Cardinality(B) + Cardinality(K) - Cardinality(B \cap K)
      BY <1>3, <2>6, FS_Union
    <2>8. Cardinality(B \cap K) = 0
      BY <2>5, FS_EmptySet
    <2>9. Cardinality(B \cup K) <= Cardinality(S)
      BY <1>2, <2>5, FS_Subset
    <2>10. Cardinality(K) + n <= Cardinality(S)
      BY <1>4, <2>4, <2>6, <2>7, <2>8, <2>9
    <2> QED
      BY <1>3, <2>10 DEF K, S, n
  <1> QED
    BY <1>5, <1>6

-----------------------------------------------------------------------------
(* The accounts of the coordinator: requests, grants, marks.               *)

\* A request of a root, for all it needs or for what a park gave back.
Asked(h) ==
    /\ h.wf \in Root /\ h.parent = None
    /\ h.dirs = LockSet(h.wf) \/ (h.wf \notin Stage /\ h.dirs = ParkDirs(h.wf))

\* A suspended handler is no abort; a scan iterates the queue itself, and what it
\* has marked it has visited.
Orderly(f, q) ==
    /\ f.pc # "abort" /\ IsFiniteSet(f.triggered)
    /\ f.pc # "scan" => f.triggered = {}
    /\ f.pc = "scan" => f.live
    /\ \A h \in f.triggered : Asked(h) /\ (h \in q => Position(h, q) <= f.at)

EntriesOf(r, S) == {h \in S : h.wf = r}

\* The grants to r that are on their way, and its requests that scans have marked.
Flights(r) == {t \in Task : Sent(tasks[t], r)}
Marks(r) == {m \in Task \X Hold : m[2] \in tasks[m[1]].triggered /\ m[2].wf = r}

\* What r can still be granted: requests nobody has marked, grants on their way.
Due(r) ==
    Cardinality(EntriesOf(r, hold_queue)) + Cardinality(Flights(r)) - Cardinality(Marks(r))

Accounts ==
    /\ \A h \in hold_queue : Asked(h) /\ h.no < arrivals
    /\ \A t \in Task : Orderly(tasks[t], hold_queue)
    /\ \A t \in Task : \A h \in tasks[t].triggered : h.no < arrivals
    /\ \A r \in Root : IsFiniteSet(Flights(r)) /\ IsFiniteSet(Marks(r))
    /\ \A d \in Dir : locks[d] # None => locks[d] \in Root /\ d \in LockSet(locks[d])

\* The two forms of a request of r.
LEMMA TwoForms ==
  ASSUME NEW S \in SUBSET Hold, IsFiniteSet(S), \A h \in S : Asked(h), NEW r \in Root
  PROVE  LET a == [wf |-> r, dirs |-> LockSet(r), parent |-> None]
             b == [wf |-> r, dirs |-> ParkDirs(r), parent |-> None]
         IN  /\ IsFiniteSet(EntriesOf(r, S))
             /\ a = b => EntriesOf(r, S) = Copies(a, S)
             /\ a # b => Cardinality(EntriesOf(r, S)) =
                           Cardinality(Copies(a, S)) + Cardinality(Copies(b, S))
  <1> DEFINE a == [wf |-> r, dirs |-> LockSet(r), parent |-> None]
             b == [wf |-> r, dirs |-> ParkDirs(r), parent |-> None]
             A == Copies(a, S)
             B == Copies(b, S)
  <1>1. EntriesOf(r, S) \in SUBSET S /\ A \in SUBSET S /\ B \in SUBSET S
    BY DEF EntriesOf, Copies
  <1>2. IsFiniteSet(EntriesOf(r, S)) /\ IsFiniteSet(A) /\ IsFiniteSet(B)
    BY <1>1, FS_Subset
  <1>3. EntriesOf(r, S) = A \cup B
    BY DEF EntriesOf, Copies, SameHold, Asked
  <1>4. a # b => A \cap B = {}
    BY DEF Copies, SameHold
  <1>5. a = b => A = B
    OBVIOUS
  <1> HIDE DEF A, B, a, b
  <1>6. a # b => Cardinality(A \cup B) = Cardinality(A) + Cardinality(B)
    <2>1. Cardinality(A \cup B) = Cardinality(A) + Cardinality(B) - Cardinality(A \cap B)
      BY <1>2, FS_Union
    <2>2. Cardinality(A) \in Nat /\ Cardinality(B) \in Nat
      BY <1>2, FS_CardinalityType
    <2>3. a # b => Cardinality(A \cap B) = 0
      BY <1>4, FS_EmptySet
    <2> QED
      BY <2>1, <2>2, <2>3
  <1>7. /\ IsFiniteSet(EntriesOf(r, S))
        /\ a = b => EntriesOf(r, S) = A
        /\ a # b => Cardinality(EntriesOf(r, S)) = Cardinality(A) + Cardinality(B)
    BY <1>2, <1>3, <1>5, <1>6
  <1> QED
    BY <1>7 DEF A, B, a, b

\* A scan that ends takes out as many requests of r as it has marked.
LEMMA RemovedEntries ==
  ASSUME NEW T \in SUBSET Hold, NEW q \in SUBSET Hold, IsFiniteSet(T), IsFiniteSet(q),
         Removable(T, q), \A h \in T \cup q : Asked(h), NEW r \in Root
  PROVE  Cardinality(EntriesOf(r, RemoveEach(T, q))) + Cardinality(EntriesOf(r, T))
           <= Cardinality(EntriesOf(r, q))
  <1> DEFINE a == [wf |-> r, dirs |-> LockSet(r), parent |-> None]
             b == [wf |-> r, dirs |-> ParkDirs(r), parent |-> None]
             p == RemoveEach(T, q)
  <1>1. p \in SUBSET q /\ p \in SUBSET Hold
    BY DEF RemoveEach
  <1>2. IsFiniteSet(p) /\ \A h \in p : Asked(h)
    BY <1>1, FS_Subset
  <1>3. \A h : /\ Cardinality(Copies(h, p)) + Cardinality(Copies(h, T)) <= Cardinality(Copies(h, q))
               /\ Cardinality(Copies(h, p)) \in Nat /\ Cardinality(Copies(h, T)) \in Nat
               /\ Cardinality(Copies(h, q)) \in Nat
    <2>1. SUFFICES ASSUME NEW h
                   PROVE /\ Cardinality(Copies(h, p)) + Cardinality(Copies(h, T)) <= Cardinality(Copies(h, q))
                         /\ Cardinality(Copies(h, p)) \in Nat /\ Cardinality(Copies(h, T)) \in Nat
                         /\ Cardinality(Copies(h, q)) \in Nat
      OBVIOUS
    <2>2. Copies(h, p) \in SUBSET p /\ Copies(h, T) \in SUBSET T /\ Copies(h, q) \in SUBSET q
      BY DEF Copies
    <2>3. IsFiniteSet(Copies(h, p)) /\ IsFiniteSet(Copies(h, T)) /\ IsFiniteSet(Copies(h, q))
      BY <1>2, <2>2, FS_Subset
    <2>4. Cardinality(Copies(h, p)) \in Nat /\ Cardinality(Copies(h, T)) \in Nat
          /\ Cardinality(Copies(h, q)) \in Nat
      BY <2>3, FS_CardinalityType
    <2> QED
      BY <2>4, RemovedCopies
  <1>4. CASE a = b
    <2>1. /\ EntriesOf(r, p) = Copies(a, p) /\ EntriesOf(r, T) = Copies(a, T)
          /\ EntriesOf(r, q) = Copies(a, q)
      BY <1>1, <1>2, <1>4, TwoForms
    <2> QED
      BY <1>3, <2>1
  <1>5. CASE a # b
    <2>1. /\ Cardinality(EntriesOf(r, p)) = Cardinality(Copies(a, p)) + Cardinality(Copies(b, p))
          /\ Cardinality(EntriesOf(r, T)) = Cardinality(Copies(a, T)) + Cardinality(Copies(b, T))
          /\ Cardinality(EntriesOf(r, q)) = Cardinality(Copies(a, q)) + Cardinality(Copies(b, q))
      BY <1>1, <1>2, <1>5, TwoForms
    <2> HIDE DEF a, b, p
    <2>2. /\ Cardinality(Copies(a, p)) + Cardinality(Copies(a, T)) <= Cardinality(Copies(a, q))
          /\ Cardinality(Copies(b, p)) + Cardinality(Copies(b, T)) <= Cardinality(Copies(b, q))
      BY <1>3
    <2>3. Cardinality(EntriesOf(r, p)) + Cardinality(EntriesOf(r, T)) <= Cardinality(EntriesOf(r, q))
      BY <1>3, <2>1, <2>2
    <2> QED
      BY <2>3 DEF p
  <1> QED
    BY <1>4, <1>5

LEMMA DueType ==
  ASSUME CoordinatorTypeOK, Accounts, NEW r \in Root
  PROVE  /\ Cardinality(EntriesOf(r, hold_queue)) \in Nat /\ Cardinality(Flights(r)) \in Nat
         /\ Cardinality(Marks(r)) \in Nat /\ Due(r) \in Int
         /\ IsFiniteSet(EntriesOf(r, hold_queue))
  <1>1. EntriesOf(r, hold_queue) \in SUBSET hold_queue
    BY DEF EntriesOf
  <1>2. IsFiniteSet(EntriesOf(r, hold_queue)) /\ IsFiniteSet(Flights(r)) /\ IsFiniteSet(Marks(r))
    BY <1>1, FS_Subset DEF CoordinatorTypeOK, Accounts
  <1>3. /\ Cardinality(EntriesOf(r, hold_queue)) \in Nat /\ Cardinality(Flights(r)) \in Nat
        /\ Cardinality(Marks(r)) \in Nat
    BY <1>2, FS_CardinalityType
  <1> QED
    BY <1>2, <1>3 DEF Due

\* A signal to c that the coordinator has not seen arrive: c may have ended.
Returning(c) ==
    \E t \in Task : Granting(tasks[t]) /\ tasks[t].to = c /\ tasks[t].sig # "ok"

\* What a step of the coordinator that releases ds on behalf of r does to the
\* accounts: nobody is due more, and who holds something held it before and did not
\* release it, or is being told.
Settles(r, ds) ==
    /\ Accounts'
    /\ \A x \in Root :
         /\ Due(x)' <= Due(x)
         /\ Returning(x) => Returning(x)'
         /\ (\E d \in Dir : locks'[d] = x) =>
              Returning(x)' \/ \E d \in Dir : locks[d] = x /\ ~(x = r /\ d \in ds)

\* The scan of t marks and grants h.
LEMMA MarkAccounts ==
  ASSUME CoordinatorTypeOK, Accounts, NEW t \in Task, NEW f \in Frame, f.pc = "scan",
         Orderly(f, hold_queue), f.triggered = tasks[t].triggered,
         ~Granting(tasks[t]) \/ tasks[t].sig = "ok",
         NEW r, NEW ds, NEW h \in Ahead(hold_queue, f.at),
         AllFree(h, Drop(locks, ds, r)),
         locks' = Claim(Drop(locks, ds, r), h.dirs, h.wf),
         hold_queue' = hold_queue, arrivals' = arrivals,
         tasks' = [tasks EXCEPT ![t] =
                     [f EXCEPT !.to = h.wf, !.sig = "sent", !.at = Position(h, hold_queue),
                               !.triggered = @ \cup {h}]]
  PROVE  Settles(r, ds)
  <1> USE Families
  <1> DEFINE g == [f EXCEPT !.to = h.wf, !.sig = "sent", !.at = Position(h, hold_queue),
                            !.triggered = @ \cup {h}]
  <1>0. hold_queue \in SUBSET Hold /\ IsFiniteSet(hold_queue) /\ arrivals \in Nat
    BY DEF CoordinatorTypeOK
  <1>1. h \in hold_queue /\ h \in Hold /\ Asked(h) /\ Position(h, hold_queue) > f.at
        /\ h.wf \in Root
    BY <1>0, AheadType DEF Ahead, Accounts, Asked
  <1>2. Position(h, hold_queue) \in Nat /\ f.at \in Nat
    BY <1>0, <1>1, PositionType DEF Frame
  <1>3. h \notin f.triggered
    BY <1>1, <1>2 DEF Orderly
  <1>4. /\ g.pc = "scan" /\ g.to = h.wf /\ g.sig = "sent" /\ g.at = Position(h, hold_queue)
        /\ g.triggered = f.triggered \cup {h} /\ g.live = f.live
    BY DEF Frame
  <1>5. tasks' = [tasks EXCEPT ![t] = g]
    OBVIOUS
  <1> HIDE DEF g
  <1>6. \A u \in Task : tasks'[u] = IF u = t THEN g ELSE tasks[u]
    BY <1>5 DEF CoordinatorTypeOK
  <1>7. Orderly(g, hold_queue)
    <2>1. IsFiniteSet(g.triggered)
      BY <1>4, FS_AddElement DEF Orderly
    <2>2. \A k \in g.triggered \cap hold_queue : Position(k, hold_queue) <= g.at
      <3>1. SUFFICES ASSUME NEW k \in g.triggered \cap hold_queue
                     PROVE  Position(k, hold_queue) <= g.at
        OBVIOUS
      <3>2. Position(k, hold_queue) \in Nat
        BY <1>0, PositionType
      <3>3. k = h \/ (k \in f.triggered /\ Position(k, hold_queue) <= f.at)
        BY <1>4, <3>1 DEF Orderly
      <3> QED
        BY <1>1, <1>2, <1>4, <3>2, <3>3
    <2> QED
      BY <1>1, <1>4, <2>1, <2>2 DEF Orderly
  <1>8. \A u \in Task : Orderly(tasks'[u], hold_queue')
    BY <1>6, <1>7 DEF Accounts
  <1>9. \A x : /\ ~Sent(tasks[t], x)
               /\ Sent(g, x) <=> x = h.wf
    BY <1>4 DEF Sent, Granting
  <1>10. ASSUME NEW x \in Root
         PROVE  /\ IsFiniteSet(Flights(x)') /\ IsFiniteSet(Marks(x)')
                /\ Due(x)' = Due(x)
    <2>1. /\ IsFiniteSet(Flights(x)) /\ IsFiniteSet(Marks(x))
          /\ Cardinality(Flights(x)) \in Nat /\ Cardinality(Marks(x)) \in Nat
          /\ Cardinality(EntriesOf(x, hold_queue)) \in Nat
      BY DueType DEF Accounts
    <2>2. Cardinality(EntriesOf(x, hold_queue))' = Cardinality(EntriesOf(x, hold_queue))
      BY DEF EntriesOf
    <2>3. CASE x = h.wf
      <3>1. Flights(x)' = Flights(x) \cup {t} /\ t \notin Flights(x)
        BY <1>6, <1>9, <2>3 DEF Flights
      <3>2. Marks(x)' = Marks(x) \cup {<<t, h>>}
        BY <1>1, <1>4, <1>6, <2>3 DEF Marks
      <3>3. <<t, h>> \notin Marks(x)
        BY <1>3 DEF Marks
      <3>4. IsFiniteSet(Flights(x)') /\ Cardinality(Flights(x)') = Cardinality(Flights(x)) + 1
        BY <2>1, <3>1, FS_AddElement
      <3>5. IsFiniteSet(Marks(x)') /\ Cardinality(Marks(x)') = Cardinality(Marks(x)) + 1
        <4> DEFINE m == <<t, h>>
        <4>1. Marks(x)' = Marks(x) \cup {m} /\ m \notin Marks(x)
          BY <3>2, <3>3
        <4> HIDE DEF m
        <4> QED
          BY <2>1, <4>1, FS_AddElement
      <3> QED
        BY <2>1, <2>2, <3>4, <3>5 DEF Due
    <2>4. CASE x # h.wf
      <3>1. Flights(x)' = Flights(x)
        BY <1>6, <1>9, <2>4 DEF Flights
      <3>2. Marks(x)' = Marks(x)
        BY <1>4, <1>6, <2>4 DEF Marks
      <3> QED
        BY <2>1, <2>2, <3>1, <3>2 DEF Due
    <2> QED
      BY <2>3, <2>4
  <1>11. h.wf # None /\ h.wf \in Wf /\ h.dirs \subseteq LockSet(h.wf)
    BY <1>1, Directories, CoordinatorAssumption DEF Asked
  <1>12. \A d \in Dir : locks'[d] = IF d \in h.dirs THEN h.wf
                                    ELSE IF d \in ds /\ locks[d] = r THEN None ELSE locks[d]
    BY DEF Claim, Drop
  <1>13. \A d \in Dir : locks'[d] # None => locks'[d] \in Root /\ d \in LockSet(locks'[d])
    BY <1>1, <1>11, <1>12 DEF Accounts
  <1>14. Accounts'
    <2>1. \A u \in Task : \A k \in tasks'[u].triggered : k.no < arrivals'
      BY <1>1, <1>4, <1>6 DEF Accounts
    <2> QED
      BY <1>8, <1>10, <1>13, <2>1 DEF Accounts
  <1>15. Returning(h.wf)'
    BY <1>4, <1>6 DEF Returning, Granting
  <1>16. \A x \in Root : Returning(x) => Returning(x)'
    BY <1>6 DEF Returning
  <1>17. ASSUME NEW x \in Root, NEW d \in Dir, locks'[d] = x, x # h.wf
         PROVE  locks[d] = x /\ ~(x = r /\ d \in ds)
    <2>1. x # None
      BY CoordinatorAssumption
    <2> QED
      BY <1>12, <1>17, <2>1
  <1>18. \A x \in Root : Due(x)' <= Due(x)
    <2>1. \A x \in Root : Due(x) \in Int
      BY DueType
    <2> QED
      BY <1>10, <2>1
  <1> QED
    BY <1>14, <1>15, <1>16, <1>17, <1>18 DEF Settles

\* Fewer entries in front of one that stays.
LEMMA PositionShrinks ==
  ASSUME NEW q \in SUBSET Hold, IsFiniteSet(q), NEW p \in SUBSET q, NEW h
  PROVE  Position(h, p) <= Position(h, q)
  <1> DEFINE A == {g \in p : g.no <= h.no}
             B == {g \in q : g.no <= h.no}
  <1>1. A \in SUBSET B /\ B \in SUBSET q
    OBVIOUS
  <1>2. IsFiniteSet(B)
    BY <1>1, FS_Subset
  <1> HIDE DEF A, B
  <1>3. Cardinality(A) <= Cardinality(B)
    BY <1>1, <1>2, FS_Subset
  <1> QED
    BY <1>3 DEF Position, A, B

\* The scan of t ends.
LEMMA EndAccounts ==
  ASSUME CoordinatorTypeOK, Accounts, NEW t \in Task, NEW f \in Frame,
         Orderly(f, hold_queue), f.triggered = tasks[t].triggered,
         ~Granting(tasks[t]) \/ tasks[t].sig = "ok",
         NEW r, NEW ds, Removable(f.triggered, hold_queue),
         locks' = Drop(locks, ds, r),
         hold_queue' = RemoveEach(f.triggered, hold_queue), arrivals' = arrivals,
         tasks' = [tasks EXCEPT ![t] = Idle]
  PROVE  Settles(r, ds)
  <1> USE Families
  <1> DEFINE T == f.triggered
  <1>0. hold_queue \in SUBSET Hold /\ IsFiniteSet(hold_queue) /\ arrivals \in Nat
        /\ T \in SUBSET Hold /\ IsFiniteSet(T)
    BY DEF CoordinatorTypeOK, Frame, Orderly
  <1>1. hold_queue' \in SUBSET hold_queue
    BY DEF RemoveEach
  <1>2. \A u \in Task : tasks'[u] = IF u = t THEN Idle ELSE tasks[u]
    BY DEF CoordinatorTypeOK
  <1>3. Orderly(Idle, hold_queue') /\ Idle.triggered = {} /\ ~Granting(Idle)
    BY FS_EmptySet DEF Idle, Orderly, Granting
  <1>4. ASSUME NEW u \in Task \ {t}
        PROVE  Orderly(tasks[u], hold_queue')
    <2>1. Orderly(tasks[u], hold_queue) /\ tasks[u] \in Frame
      BY DEF Accounts, CoordinatorTypeOK
    <2>2. ASSUME NEW k \in tasks[u].triggered, k \in hold_queue'
          PROVE  Position(k, hold_queue') <= tasks[u].at
      <3>1. k \in hold_queue /\ Position(k, hold_queue) <= tasks[u].at
        BY <1>1, <2>1, <2>2 DEF Orderly
      <3>2. hold_queue' \in SUBSET Hold /\ IsFiniteSet(hold_queue')
        BY <1>0, <1>1, FS_Subset
      <3>3. /\ Position(k, hold_queue) \in Nat /\ Position(k, hold_queue') \in Nat
            /\ tasks[u].at \in Nat
        BY <1>0, <2>1, <2>2, <3>1, <3>2, PositionType DEF Frame
      <3>4. Position(k, hold_queue') <= Position(k, hold_queue)
        BY <1>0, <1>1, PositionShrinks
      <3> QED
        BY <3>1, <3>3, <3>4
    <2> QED
      BY <2>1, <2>2 DEF Orderly
  <1>5. \A u \in Task : Orderly(tasks'[u], hold_queue')
    BY <1>2, <1>3, <1>4
  <1>6. \A x : ~Sent(tasks[t], x) /\ ~Sent(Idle, x)
    BY <1>3 DEF Sent, Granting
  <1>7. ASSUME NEW x \in Root
        PROVE  /\ IsFiniteSet(Flights(x)') /\ IsFiniteSet(Marks(x)')
               /\ Due(x)' <= Due(x)
    <2> DEFINE E == EntriesOf(x, T)
               P == {t} \X E
    <2>1. /\ IsFiniteSet(Flights(x)) /\ IsFiniteSet(Marks(x))
          /\ Cardinality(Flights(x)) \in Nat /\ Cardinality(Marks(x)) \in Nat
          /\ Cardinality(EntriesOf(x, hold_queue)) \in Nat
      BY DueType DEF Accounts
    <2>2. Flights(x)' = Flights(x)
      BY <1>2, <1>6 DEF Flights
    <2>3. Marks(x)' = Marks(x) \ P
      BY <1>2, <1>3 DEF Marks, EntriesOf
    <2>4. P \subseteq Marks(x)
      BY <1>0 DEF Marks, EntriesOf
    <2>5. IsFiniteSet(E)
      <3>1. E \in SUBSET T
        BY DEF EntriesOf
      <3> QED
        BY <1>0, <3>1, FS_Subset
    <2>6. Cardinality(E) \in Nat
      BY <2>5, FS_CardinalityType
    <2>7. Cardinality(EntriesOf(x, hold_queue')) + Cardinality(E) <= Cardinality(EntriesOf(x, hold_queue))
      <3>1. \A h \in T \cup hold_queue : Asked(h)
        BY DEF Accounts, Orderly
      <3> QED
        BY <1>0, <3>1, RemovedEntries
    <2>8. Cardinality(EntriesOf(x, hold_queue')) \in Nat
      <3>1. EntriesOf(x, hold_queue') \in SUBSET hold_queue
        BY <1>1 DEF EntriesOf
      <3>2. IsFiniteSet(EntriesOf(x, hold_queue'))
        BY <1>0, <3>1, FS_Subset
      <3> QED
        BY <3>2, FS_CardinalityType
    <2> HIDE DEF E
    <2>9. IsFiniteSet(P) /\ Cardinality(P) = 1 * Cardinality(E)
      <3>1. IsFiniteSet({t}) /\ Cardinality({t}) = 1
        BY FS_Singleton
      <3>2. IsFiniteSet({t} \X E) /\ Cardinality({t} \X E) = Cardinality({t}) * Cardinality(E)
        BY <2>5, <3>1, FS_Product
      <3> QED
        BY <3>1, <3>2
    <2> HIDE DEF P
    <2>10. IsFiniteSet(Marks(x) \ P)
           /\ Cardinality(Marks(x) \ P) = Cardinality(Marks(x)) - Cardinality(Marks(x) \cap P)
      BY <2>1, FS_Difference
    <2>11. Marks(x) \cap P = P
      BY <2>4
    <2>12. Cardinality(Marks(x)') = Cardinality(Marks(x)) - Cardinality(E)
      <3>1. Cardinality(P) = Cardinality(E)
        BY <2>6, <2>9
      <3> QED
        BY <2>3, <2>10, <2>11, <3>1
    <2>13. Due(x)' = Cardinality(EntriesOf(x, hold_queue')) + Cardinality(Flights(x)')
                       - Cardinality(Marks(x)')
      BY DEF Due, EntriesOf
    <2>14. Due(x)' <= Due(x)
      BY <2>1, <2>2, <2>6, <2>7, <2>8, <2>12, <2>13 DEF Due
    <2> QED
      BY <2>1, <2>2, <2>3, <2>10, <2>14
  <1>8. \A d \in Dir : locks'[d] = IF d \in ds /\ locks[d] = r THEN None ELSE locks[d]
    BY DEF Drop
  <1>9. \A d \in Dir : locks'[d] # None => locks'[d] \in Root /\ d \in LockSet(locks'[d])
    BY <1>8 DEF Accounts
  <1>10. Accounts'
    <2>1. \A h \in hold_queue' : Asked(h) /\ h.no < arrivals'
      BY <1>1 DEF Accounts
    <2>2. \A u \in Task : \A k \in tasks'[u].triggered : k.no < arrivals'
      BY <1>2, <1>3 DEF Accounts
    <2> QED
      BY <1>5, <1>7, <1>9, <2>1, <2>2 DEF Accounts
  <1>11. \A x \in Root : Returning(x) => Returning(x)'
    BY <1>2 DEF Returning
  <1>12. \A x \in Root : \A d \in Dir : locks'[d] = x => locks[d] = x /\ ~(x = r /\ d \in ds)
    BY <1>8, CoordinatorAssumption
  <1> QED
    BY <1>7, <1>10, <1>11, <1>12 DEF Settles

\* A step of a grant scan that does not get stuck.
LEMMA ScanSettles ==
  ASSUME CoordinatorTypeOK, Accounts, NEW t \in Task, NEW f \in Frame, f.pc = "scan",
         Orderly(f, hold_queue), f.triggered = tasks[t].triggered,
         ~Granting(tasks[t]) \/ tasks[t].sig = "ok", NEW r, NEW ds,
         GrantScan(t, f, Drop(locks, ds, r), hold_queue, tasks), status' # "stuck"
  PROVE  Settles(r, ds)
  <1>1. Seen(f, hold_queue) = hold_queue
    BY DEF Seen, Orderly
  <1>2. arrivals' = arrivals
    BY DEF GrantScan
  <1>3. ASSUME NEW h \in Ahead(hold_queue, f.at), AllFree(h, Drop(locks, ds, r)),
               locks' = Claim(Drop(locks, ds, r), h.dirs, h.wf), hold_queue' = hold_queue,
               tasks' = [tasks EXCEPT ![t] =
                           [f EXCEPT !.to = h.wf, !.sig = "sent", !.at = Position(h, hold_queue),
                                     !.triggered = @ \cup {h}]]
        PROVE  Settles(r, ds)
    BY <1>2, <1>3, MarkAccounts
  <1>4. ASSUME Removable(f.triggered, hold_queue), locks' = Drop(locks, ds, r),
               hold_queue' = RemoveEach(f.triggered, hold_queue),
               tasks' = [tasks EXCEPT ![t] = Idle]
        PROVE  Settles(r, ds)
    BY <1>2, <1>4, EndAccounts
  <1> QED
    BY <1>1, <1>3, <1>4 DEF GrantScan

LEMMA StaySettles ==
  ASSUME CoordinatorTypeOK, Accounts, UNCHANGED coordinator, NEW r
  PROVE  Settles(r, {})
  <1>1. UNCHANGED <<locks, hold_queue, arrivals, tasks>>
    BY DEF coordinator
  <1>2. \A x : Flights(x)' = Flights(x) /\ Marks(x)' = Marks(x)
    BY <1>1 DEF Flights, Marks
  <1>3. \A x \in Root : Due(x)' = Due(x) /\ Due(x) \in Int
    BY <1>1, <1>2, DueType DEF Due, EntriesOf
  <1>4. Accounts'
    BY <1>1, <1>2 DEF Accounts
  <1> QED
    BY <1>1, <1>3, <1>4 DEF Settles, Returning

LEMMA ReleaseSettles ==
  ASSUME CoordinatorTypeOK, Accounts, NEW r \in Wf, NEW ds, Release(r, ds), status' = "running"
  PROVE  Settles(r, IF ds = {} THEN Dir ELSE ds)
  <1> DEFINE dirs == IF ds = {} THEN Dir ELSE ds
  <1>1. PICK t \in Task : ReleaseLocks(t, r, ds)
    BY DEF Release, Ignored, coordinator
  <1>2. /\ GrantScan(t, NewScan, Drop(locks, dirs, r), hold_queue, tasks)
        /\ tasks[t].pc = "idle"
    BY <1>1 DEF ReleaseLocks, Slot
  <1>3. NewScan \in Frame /\ NewScan.pc = "scan" /\ NewScan.live /\ NewScan.triggered = {}
    BY NewScanType DEF NewScan, Idle
  <1>4. Orderly(NewScan, hold_queue)
    BY <1>3, FS_EmptySet DEF Orderly
  <1>5. tasks[t].triggered = {} /\ ~Granting(tasks[t])
    BY <1>2 DEF Accounts, Orderly, Granting
  <1> HIDE DEF dirs
  <1>6. Settles(r, dirs)
    BY <1>2, <1>3, <1>4, <1>5, ScanSettles
  <1> QED
    BY <1>6 DEF dirs

\* A handler whose signal has arrived goes on.
LEMMA ResumeSettles ==
  ASSUME CoordinatorTypeOK, Accounts, NEW t \in Task, Resume(t), status' = "running"
  PROVE  Settles(None, {})
  <1>1. tasks[t] \in Frame /\ Orderly(tasks[t], hold_queue)
    BY DEF CoordinatorTypeOK, Accounts
  <1>2. Drop(locks, {}, None) = locks
    BY DEF Drop, CoordinatorTypeOK
  <1>3. CASE ResumeScan(t)
    <2>1. GrantScan(t, tasks[t], Drop(locks, {}, None), hold_queue, tasks)
          /\ tasks[t].pc = "scan" /\ tasks[t].sig = "ok"
      BY <1>2, <1>3 DEF ResumeScan
    <2> QED
      BY <1>1, <2>1, ScanSettles
  <1>4. CASE ResumeAcquire(t)
    <2>1. tasks[t].triggered = {} /\ tasks[t].sig = "ok"
      BY <1>1, <1>4 DEF ResumeAcquire, Orderly
    <2>2. hold_queue \in SUBSET Hold /\ \A h : Copies(h, {}) = {}
      BY DEF CoordinatorTypeOK, Copies
    <2>3. Removable({}, hold_queue)
      BY DEF Removable
    <2>4. RemoveEach({}, hold_queue) = hold_queue
      <3>1. ASSUME NEW h \in hold_queue
            PROVE  Cardinality({g \in Copies(h, hold_queue) : g.no < h.no}) >= Cardinality(Copies(h, {}))
        <4> DEFINE B == {g \in Copies(h, hold_queue) : g.no < h.no}
        <4>1. B \in SUBSET hold_queue
          BY DEF Copies
        <4>2. IsFiniteSet(B)
          BY <4>1, FS_Subset DEF CoordinatorTypeOK
        <4> HIDE DEF B
        <4>3. Cardinality(B) \in Nat /\ Cardinality(Copies(h, {})) = 0
          BY <2>2, <4>2, FS_CardinalityType, FS_EmptySet
        <4>4. Cardinality(B) >= Cardinality(Copies(h, {}))
          BY <4>3
        <4> QED
          BY <4>4 DEF B
      <3> QED
        BY <3>1 DEF RemoveEach
    <2>5. /\ locks' = Drop(locks, {}, None) /\ hold_queue' = RemoveEach(tasks[t].triggered, hold_queue)
          /\ tasks' = [tasks EXCEPT ![t] = Idle] /\ arrivals' = arrivals
      BY <1>2, <1>4, <2>1, <2>4 DEF ResumeAcquire
    <2> QED
      BY <1>1, <2>1, <2>3, <2>5, EndAccounts
  <1>5. ~ResumeAbort(t) /\ ~FailRun(t)
    BY <1>1 DEF ResumeAbort, FailRun, Orderly
  <1> QED
    BY <1>3, <1>4, <1>5 DEF Resume

\* acquire_locks signals r in a free slot.
LEMMA SignalSettles ==
  ASSUME CoordinatorTypeOK, Accounts, NEW t \in Task, tasks[t].pc = "idle", NEW r \in Wf,
         tasks' = [tasks EXCEPT ![t] = [Idle EXCEPT !.pc = "acquire", !.to = r, !.sig = "sent"]],
         hold_queue' = hold_queue, arrivals' = arrivals,
         \A d \in Dir : locks'[d] = locks[d] \/ (r \in Root /\ locks'[d] = r /\ d \in LockSet(r))
  PROVE  /\ Accounts'
         /\ \A x \in Root : /\ Due(x)' = IF x = r THEN Due(x) + 1 ELSE Due(x)
                            /\ Returning(x) => Returning(x)'
  <1> DEFINE g == [Idle EXCEPT !.pc = "acquire", !.to = r, !.sig = "sent"]
  <1>1. g.pc = "acquire" /\ g.to = r /\ g.sig = "sent" /\ g.triggered = {}
    BY DEF Idle
  <1>2. tasks' = [tasks EXCEPT ![t] = g]
    OBVIOUS
  <1> HIDE DEF g
  <1>3. \A u \in Task : tasks'[u] = IF u = t THEN g ELSE tasks[u]
    BY <1>2 DEF CoordinatorTypeOK
  <1>4. Orderly(g, hold_queue)
    BY <1>1, FS_EmptySet DEF Orderly
  <1>5. tasks[t].triggered = {} /\ \A x : ~Sent(tasks[t], x)
    BY DEF Accounts, Orderly, Sent, Granting
  <1>6. \A x : Marks(x)' = Marks(x)
    <2>1. \A u \in Task : tasks'[u].triggered = tasks[u].triggered
      BY <1>1, <1>3, <1>5
    <2> QED
      BY <2>1 DEF Marks
  <1>7. \A x : Flights(x)' = IF x = r THEN Flights(x) \cup {t} ELSE Flights(x)
    BY <1>1, <1>3, <1>5 DEF Flights, Sent, Granting
  <1>8. \A x : t \notin Flights(x)
    BY <1>5 DEF Flights
  <1>9. ASSUME NEW x \in Root
        PROVE  /\ IsFiniteSet(Flights(x)') /\ IsFiniteSet(Marks(x)')
               /\ Due(x)' = IF x = r THEN Due(x) + 1 ELSE Due(x)
    <2>1. /\ IsFiniteSet(Flights(x)) /\ IsFiniteSet(Marks(x))
          /\ Cardinality(Flights(x)) \in Nat /\ Cardinality(Marks(x)) \in Nat
          /\ Cardinality(EntriesOf(x, hold_queue)) \in Nat
      BY DueType DEF Accounts
    <2>2. IsFiniteSet(Flights(x) \cup {t}) /\ Cardinality(Flights(x) \cup {t}) = Cardinality(Flights(x)) + 1
      BY <1>8, <2>1, FS_AddElement
    <2>3. Due(x)' = Cardinality(EntriesOf(x, hold_queue)) + Cardinality(Flights(x)')
                      - Cardinality(Marks(x))
      BY <1>6 DEF Due, EntriesOf
    <2>4. Cardinality(Flights(x)') = IF x = r THEN Cardinality(Flights(x)) + 1
                                            ELSE Cardinality(Flights(x))
      BY <1>7, <2>2
    <2>5. IsFiniteSet(Flights(x)') /\ IsFiniteSet(Marks(x)')
      BY <1>6, <1>7, <2>1, <2>2
    <2>6. Due(x)' = IF x = r THEN Due(x) + 1 ELSE Due(x)
      BY <2>1, <2>3, <2>4 DEF Due
    <2> QED
      BY <2>5, <2>6
  <1>10. Accounts'
    <2>1. \A u \in Task : \A k \in tasks'[u].triggered : k.no < arrivals'
      BY <1>1, <1>3 DEF Accounts
    <2> QED
      BY <1>3, <1>4, <1>9, <2>1 DEF Accounts
  <1>11. \A x \in Root : Returning(x) => Returning(x)'
    <2>1. ~Granting(tasks[t])
      BY DEF Granting
    <2> QED
      BY <1>3, <2>1 DEF Returning
  <1> QED
    BY <1>9, <1>10, <1>11

\* acquire_locks queues the request of r.
LEMMA QueueSettles ==
  ASSUME CoordinatorTypeOK, Accounts, NEW r \in Root, NEW h \in Hold, h.no = arrivals, h.wf = r,
         Asked(h), hold_queue' = hold_queue \cup {h}, arrivals' = arrivals + 1,
         UNCHANGED <<locks, tasks>>
  PROVE  /\ Accounts'
         /\ \A x \in Root : /\ Due(x)' = IF x = r THEN Due(x) + 1 ELSE Due(x)
                            /\ Returning(x) => Returning(x)'
  <1>0. hold_queue \in SUBSET Hold /\ IsFiniteSet(hold_queue) /\ arrivals \in Nat
    BY DEF CoordinatorTypeOK
  <1>1. \A k \in hold_queue : k.no < arrivals /\ k.no \in Nat
    BY <1>0 DEF Accounts, Hold
  <1>2. h \notin hold_queue
    BY <1>0, <1>1
  <1>3. ASSUME NEW k \in hold_queue
        PROVE  Position(k, hold_queue') = Position(k, hold_queue)
    <2>1. ~(h.no <= k.no)
      BY <1>0, <1>1
    <2> QED
      BY <2>1 DEF Position
  <1>4. ASSUME NEW u \in Task
        PROVE  Orderly(tasks'[u], hold_queue')
    <2>1. Orderly(tasks[u], hold_queue) /\ tasks' = tasks
      BY DEF Accounts
    <2>2. ASSUME NEW k \in tasks[u].triggered, k \in hold_queue'
          PROVE  Position(k, hold_queue') <= tasks[u].at
      <3>1. CASE k \in hold_queue
        BY <1>3, <2>1, <2>2, <3>1 DEF Orderly
      <3>2. k # h
        BY <1>0, <2>2 DEF Accounts
      <3> QED
        BY <2>2, <3>1, <3>2
    <2> QED
      BY <2>1, <2>2 DEF Orderly
  <1>5. \A x : Flights(x)' = Flights(x) /\ Marks(x)' = Marks(x)
    BY DEF Flights, Marks
  <1>6. ASSUME NEW x \in Root
        PROVE  Due(x)' = IF x = r THEN Due(x) + 1 ELSE Due(x)
    <2>1. /\ IsFiniteSet(EntriesOf(x, hold_queue))
          /\ Cardinality(Flights(x)) \in Nat /\ Cardinality(Marks(x)) \in Nat
          /\ Cardinality(EntriesOf(x, hold_queue)) \in Nat
      BY DueType
    <2>2. EntriesOf(x, hold_queue') = IF x = r THEN EntriesOf(x, hold_queue) \cup {h}
                                               ELSE EntriesOf(x, hold_queue)
      BY DEF EntriesOf
    <2>3. h \notin EntriesOf(x, hold_queue)
      BY <1>2 DEF EntriesOf
    <2>4. Cardinality(EntriesOf(x, hold_queue) \cup {h}) = Cardinality(EntriesOf(x, hold_queue)) + 1
      BY <2>1, <2>3, FS_AddElement
    <2>5. Due(x)' = Cardinality(EntriesOf(x, hold_queue')) + Cardinality(Flights(x))
                      - Cardinality(Marks(x))
      BY <1>5 DEF Due, EntriesOf
    <2>6. Cardinality(EntriesOf(x, hold_queue')) =
            IF x = r THEN Cardinality(EntriesOf(x, hold_queue)) + 1
                     ELSE Cardinality(EntriesOf(x, hold_queue))
      BY <2>2, <2>4
    <2> QED
      BY <2>1, <2>5, <2>6 DEF Due
  <1>7. Accounts'
    <2>1. \A k \in hold_queue' : Asked(k) /\ k.no < arrivals'
      BY <1>0, <1>1 DEF Accounts
    <2>2. \A u \in Task : \A k \in tasks'[u].triggered : k.no < arrivals'
      <3>1. \A u \in Task : \A k \in tasks[u].triggered : k.no < arrivals /\ k.no \in Nat
        BY DEF Accounts, CoordinatorTypeOK, Frame, Hold
      <3> QED
        BY <1>0, <3>1
    <2> QED
      BY <1>4, <1>5, <2>1, <2>2 DEF Accounts
  <1> QED
    BY <1>6, <1>7 DEF Returning

\* A root asks for what it needs.
LEMMA AskSettles ==
  ASSUME CoordinatorTypeOK, Accounts, NEW r \in Root, NEW ds \in SUBSET Dir,
         \/ ds = LockSet(r)
         \/ r \notin Stage /\ ds = ParkDirs(r),
         Acquire(r, ds, None), status' = "running"
  PROVE  /\ Accounts'
         /\ \A x \in Root : /\ Due(x)' = IF x = r THEN Due(x) + 1 ELSE Due(x)
                            /\ Returning(x) => Returning(x)'
         /\ \A d \in Dir : locks'[d] = locks[d] \/ locks'[d] = r
  <1> USE Families
  <1>1. PICK t \in Task : AcquireLocks(t, r, ds, None)
    BY DEF Acquire, Ignored, coordinator
  <1>2. tasks[t].pc = "idle" /\ r \in Wf /\ ds \subseteq LockSet(r)
    BY <1>1, Directories DEF AcquireLocks, Slot
  <1>3. CASE {d \in ds : locks[d] \notin {None, None}} = {}
    <2>1. /\ locks' = Claim(locks, {d \in ds : locks[d] = None}, r)
          /\ tasks' = [tasks EXCEPT ![t] = [Idle EXCEPT !.pc = "acquire", !.to = r, !.sig = "sent"]]
          /\ hold_queue' = hold_queue /\ arrivals' = arrivals
      BY <1>1, <1>3 DEF AcquireLocks
    <2>2. \A d \in Dir : locks'[d] = locks[d] \/ (r \in Root /\ locks'[d] = r /\ d \in LockSet(r))
      BY <1>2, <2>1 DEF Claim
    <2> QED
      BY <1>2, <2>1, <2>2, SignalSettles
  <1>4. CASE {d \in ds : locks[d] \notin {None, None}} # {}
    <2> DEFINE h == NewHold(r, ds, None)
    <2>1. hold_queue' = hold_queue \cup {h} /\ arrivals' = arrivals + 1 /\ UNCHANGED <<locks, tasks>>
      BY <1>1, <1>4 DEF AcquireLocks
    <2>2. h \in Hold /\ h.no = arrivals /\ h.wf = r /\ Asked(h)
      BY <1>2 DEF NewHold, Hold, Asked, CoordinatorTypeOK
    <2> HIDE DEF h
    <2> QED
      BY <2>1, <2>2, QueueSettles
  <1> QED
    BY <1>3, <1>4

\* A child passes through what its batch holds: no root's accounts change.
LEMMA PassageSettles ==
  ASSUME CoordinatorTypeOK, Accounts, NEW c \in Child, NEW ds \in SUBSET Dir, NEW p \in Wf,
         \A d \in ds : locks[d] = p, Acquire(c, ds, p), status' = "running"
  PROVE  Settles(None, {})
  <1> USE Families
  <1>1. PICK t \in Task : AcquireLocks(t, c, ds, p)
    BY DEF Acquire, Ignored, coordinator
  <1>2. tasks[t].pc = "idle" /\ c \in Wf /\ c \notin Root /\ p # None
    BY <1>1, CoordinatorAssumption DEF AcquireLocks, Slot, Root
  <1>3. {d \in ds : locks[d] \notin {None, p}} = {} /\ {d \in ds : locks[d] = None} = {}
    BY <1>2
  <1>4. /\ locks' = Claim(locks, {}, c)
        /\ tasks' = [tasks EXCEPT ![t] = [Idle EXCEPT !.pc = "acquire", !.to = c, !.sig = "sent"]]
        /\ hold_queue' = hold_queue /\ arrivals' = arrivals
    BY <1>1, <1>3 DEF AcquireLocks
  <1>5. \A d \in Dir : locks'[d] = locks[d]
    BY <1>4 DEF Claim
  <1>6. /\ Accounts'
        /\ \A x \in Root : Due(x)' = Due(x) /\ (Returning(x) => Returning(x)')
    <2>1. /\ Accounts'
          /\ \A x \in Root : /\ Due(x)' = IF x = c THEN Due(x) + 1 ELSE Due(x)
                             /\ Returning(x) => Returning(x)'
      BY <1>2, <1>4, <1>5, SignalSettles
    <2> QED
      BY <1>2, <2>1
  <1>7. \A x \in Root : Due(x)' <= Due(x)
    BY <1>6, DueType
  <1> QED
    BY <1>5, <1>6, <1>7 DEF Settles

\* A grant arrives, or finds its workflow closed.
LEMMA DeliverSettles ==
  ASSUME CoordinatorTypeOK, Accounts, NEW t \in Task, Granting(tasks[t]), NEW ok \in BOOLEAN,
         Deliver(t, ok)
  PROVE  /\ Accounts' /\ locks' = locks
         /\ \A x \in Root :
              /\ Due(x)' = IF x = tasks[t].to THEN Due(x) - 1 ELSE Due(x)
              /\ Returning(x) /\ (x = tasks[t].to => ~ok) => Returning(x)'
  <1>1. /\ UNCHANGED <<locks, hold_queue, arrivals>> /\ tasks[t].sig = "sent"
        /\ tasks' = [tasks EXCEPT ![t].sig = IF ok THEN "ok" ELSE "failed"]
    BY DEF Deliver
  <1>2. /\ \A u \in Task : tasks[u] \in Frame
        /\ \A u \in Task : u # t => tasks'[u] = tasks[u]
        /\ tasks'[t] = [tasks[t] EXCEPT !.sig = IF ok THEN "ok" ELSE "failed"]
    BY <1>1 DEF CoordinatorTypeOK
  <1>3. \A u \in Task : /\ tasks'[u].triggered = tasks[u].triggered /\ tasks'[u].pc = tasks[u].pc
                        /\ tasks'[u].live = tasks[u].live /\ tasks'[u].at = tasks[u].at
                        /\ tasks'[u].to = tasks[u].to
                        /\ u # t => tasks'[u].sig = tasks[u].sig
    BY <1>2 DEF Frame
  <1>4. tasks'[t].sig = IF ok THEN "ok" ELSE "failed"
    BY <1>2 DEF Frame
  <1>5. \A x : Marks(x)' = Marks(x)
    BY <1>3 DEF Marks
  <1>6. \A x : Flights(x)' = IF x = tasks[t].to THEN Flights(x) \ {t} ELSE Flights(x)
    BY <1>3, <1>4 DEF Flights, Sent, Granting
  <1>7. t \in Flights(tasks[t].to)
    BY <1>1 DEF Flights, Sent
  <1>8. ASSUME NEW x \in Root
        PROVE  /\ IsFiniteSet(Flights(x)') /\ IsFiniteSet(Marks(x)')
               /\ Due(x)' = IF x = tasks[t].to THEN Due(x) - 1 ELSE Due(x)
    <2>1. /\ IsFiniteSet(Flights(x)) /\ IsFiniteSet(Marks(x))
          /\ Cardinality(Flights(x)) \in Nat /\ Cardinality(Marks(x)) \in Nat
          /\ Cardinality(EntriesOf(x, hold_queue)) \in Nat
      BY DueType DEF Accounts
    <2>2. /\ IsFiniteSet(Flights(x) \ {t})
          /\ x = tasks[t].to => Cardinality(Flights(x) \ {t}) = Cardinality(Flights(x)) - 1
      BY <1>7, <2>1, FS_RemoveElement
    <2>3. Due(x)' = Cardinality(EntriesOf(x, hold_queue)) + Cardinality(Flights(x)')
                      - Cardinality(Marks(x))
      BY <1>1, <1>5 DEF Due, EntriesOf
    <2>4. Cardinality(Flights(x)') = IF x = tasks[t].to THEN Cardinality(Flights(x)) - 1
                                                      ELSE Cardinality(Flights(x))
      BY <1>6, <2>2
    <2>5. IsFiniteSet(Flights(x)') /\ IsFiniteSet(Marks(x)')
      BY <1>5, <1>6, <2>1, <2>2
    <2>6. Due(x)' = IF x = tasks[t].to THEN Due(x) - 1 ELSE Due(x)
      BY <2>1, <2>3, <2>4 DEF Due
    <2> QED
      BY <2>5, <2>6
  <1>9. Accounts'
    <2>1. \A u \in Task : Orderly(tasks'[u], hold_queue')
      BY <1>1, <1>3 DEF Accounts, Orderly
    <2>2. \A u \in Task : \A k \in tasks'[u].triggered : k.no < arrivals'
      BY <1>1, <1>3 DEF Accounts
    <2> QED
      BY <1>1, <1>8, <2>1, <2>2 DEF Accounts
  <1>10. \A x : Returning(x) /\ (x = tasks[t].to => ~ok) => Returning(x)'
    BY <1>3, <1>4 DEF Returning, Granting
  <1> QED
    BY <1>1, <1>8, <1>9, <1>10

-----------------------------------------------------------------------------
(* Nothing leaks as long as nothing has gone wrong.                        *)

\* r waits for a grant, for itself or for its child.
Asking(r) ==
    \/ pc[r] \in {"waiting", "resuming"} /\ ~granted[r]
    \/ r \in Orch /\ pending[r] # None

Allowed(r) == IF Asking(r) THEN 1 ELSE 0

\* A root is due at most the one grant it waits for, and what one that has ended
\* still holds was given to it by a signal that has not come back.
Calm ==
    /\ Accounts
    /\ \A r \in Root : Due(r) <= Allowed(r)
    /\ \A c \in Wf : ~aborted[c] /\ pc[c] # "withdrawing"
    /\ \A b \in Orch : pending[b] # None => pc[pending[b]] = "resuming"
    /\ \A r \in Root : Ended(r) /\ (\E d \in Dir : locks[d] = r) => Returning(r)

LEMMA DueNext ==
  ASSUME TypeOK', Accounts', NEW r \in Root
  PROVE  Due(r)' \in Int
  <1>1. EntriesOf(r, hold_queue') \in SUBSET hold_queue' /\ IsFiniteSet(hold_queue')
    BY DEF EntriesOf, TypeOK, CoordinatorTypeOK
  <1>2. /\ IsFiniteSet(EntriesOf(r, hold_queue')) /\ IsFiniteSet(Flights(r)')
        /\ IsFiniteSet(Marks(r)')
    BY <1>1, FS_Subset DEF Accounts
  <1>3. /\ Cardinality(EntriesOf(r, hold_queue')) \in Nat /\ Cardinality(Flights(r)') \in Nat
        /\ Cardinality(Marks(r)') \in Nat
    BY <1>2, FS_CardinalityType
  <1>4. Due(r)' = Cardinality(EntriesOf(r, hold_queue')) + Cardinality(Flights(r)')
                    - Cardinality(Marks(r)')
    BY DEF Due, EntriesOf
  <1> QED
    BY <1>3, <1>4

\* A step in which nobody asks and no grant arrives.
LEMMA SettlesCalm ==
  ASSUME TypeOK, TypeOK', Calm, NEW r, NEW ds, Settles(r, ds),
         aborted' = aborted, pending' = pending,
         \A c \in Wf : pc'[c] # "withdrawing",
         \A b \in Orch : pending[b] # None => pc'[pending[b]] = "resuming",
         \A x \in Root : Asking(x) => Asking(x)',
         \A x \in Root : Ended(x)' => Ended(x) \/ (x = r /\ LockSet(x) \subseteq ds)
  PROVE  Calm'
  <1> USE Families
  <1>1. ASSUME NEW x \in Root
        PROVE  Due(x)' <= Allowed(x)'
    <2>1. Due(x) \in Int /\ Due(x)' \in Int
      BY DueType, DueNext DEF TypeOK, Calm, Settles
    <2>2. Due(x)' <= Due(x) /\ Due(x) <= Allowed(x)
      BY DEF Calm, Settles
    <2>3. Allowed(x) \in {0, 1} /\ Allowed(x)' \in {0, 1} /\ (Allowed(x) = 1 => Allowed(x)' = 1)
      BY DEF Allowed
    <2> QED
      BY <2>1, <2>2, <2>3
  <1>2. ASSUME NEW x \in Root, Ended(x)', NEW d \in Dir, locks'[d] = x
        PROVE  Returning(x)'
    <2>1. SUFFICES ASSUME ~Returning(x)'
                   PROVE  FALSE
      OBVIOUS
    <2>2. PICK e \in Dir : locks[e] = x /\ ~(x = r /\ e \in ds)
      BY <1>2, <2>1 DEF Settles
    <2>3. e \in LockSet(x)
      BY <2>2, CoordinatorAssumption DEF Calm, Accounts
    <2>4. Ended(x)
      BY <1>2, <2>2, <2>3
    <2> QED
      BY <2>1, <2>2, <2>4 DEF Calm, Settles
  <1> QED
    BY <1>1, <1>2 DEF Calm, Settles

\* A step of a workflow that leaves the coordinator alone, or releases in the name
\* of a root, and waits for no grant afterwards.
LEMMA MovesOn ==
  ASSUME TypeOK, TypeOK', Held, Calm, NEW r, NEW ds, Settles(r, ds),
         NEW c \in Wf, NEW s \in PC, Goto(c, s), s # "withdrawing",
         UNCHANGED <<granted, aborted, pending>>,
         pc[c] \in {"waiting", "resuming"} => granted[c],
         c \in Root /\ s \in {"success", "failed"} => r = c /\ LockSet(c) \subseteq ds
  PROVE  Calm'
  <1> USE Families
  <1>1. \A x \in Wf : pc'[x] = IF x = c THEN s ELSE pc[x]
    BY DEF Goto, TypeOK
  <1>2. ASSUME NEW b \in Orch, pending[b] # None
        PROVE  pc'[pending[b]] = "resuming"
    <2>1. pending[b] \in Kids(b) /\ pending[b] \in Wf /\ pc[pending[b]] = "resuming"
      BY <1>2 DEF Held, BatchGrant, Calm
    <2>2. ~granted[pending[b]]
      BY <1>2, <2>1 DEF Held, BatchGrant
    <2> QED
      BY <1>1, <2>1, <2>2
  <1>3. \A x \in Root : Asking(x) => Asking(x)'
    BY <1>1 DEF Asking
  <1>4. \A x \in Wf : pc'[x] # "withdrawing"
    BY <1>1 DEF Calm
  <1>5. \A x \in Root : Ended(x)' => Ended(x) \/ (x = r /\ LockSet(x) \subseteq ds)
    BY <1>1 DEF Ended
  <1> QED
    BY <1>2, <1>3, <1>4, <1>5, SettlesCalm

LEMMA OwnReleaseSettles ==
  ASSUME TypeOK, Accounts, NEW c \in Wf, OwnRelease(c), status' = "running"
  PROVE  \E ds \in SUBSET Dir : Settles(c, ds) /\ (c \in Root => LockSet(c) \subseteq ds)
  <1> USE Families
  <1>1. CASE c \in Child
    <2>1. Settles(c, {})
      BY <1>1, StaySettles DEF OwnRelease, TypeOK
    <2> QED
      BY <1>1, <2>1 DEF Root
  <1>2. CASE c \notin Child
    <2> DEFINE ds == IF LockSet(c) = {} THEN Dir ELSE LockSet(c)
    <2>1. Settles(c, ds)
      BY <1>2, ReleaseSettles DEF OwnRelease, TypeOK
    <2>2. LockSet(c) \subseteq ds /\ ds \in SUBSET Dir
      BY Directories
    <2> QED
      BY <2>1, <2>2
  <1> QED
    BY <1>1, <1>2

\* The steps of a batch.
LEMMA BatchCalm ==
  ASSUME TypeOK, TypeOK', Held, Calm, NEW b \in Orch, Batch(b),
         status' = "running", mishaps' = {}
  PROVE  Calm'
  <1> USE Families
  <1>0. b \in Wf /\ CoordinatorTypeOK /\ Accounts
    BY DEF TypeOK, Calm
  <1>1. CASE OpenBatch(b)
    <2>1. Settles(None, {})
      BY <1>0, <1>1, StaySettles DEF OpenBatch
    <2> QED
      BY <1>0, <1>1, <2>1, MovesOn DEF OpenBatch, flow, PC
  <1>2. CASE EnterTry(b)
    <2>1. Settles(None, {})
      BY <1>0, <1>2, StaySettles DEF EnterTry
    <2> QED
      BY <1>0, <1>2, <2>1, MovesOn DEF EnterTry, flow, PC
  <1>3. ~StageUpdateFails(b)
    BY DEF StageUpdateFails, Mishap
  <1>4. CASE StartChild(b)
    <2>1. PICK i \in DOMAIN Children[b] :
            /\ Reached(b, i) /\ pc[Children[b][i]] = "idle"
            /\ Acquire(Children[b][i], LockSet(Children[b][i]), b)
            /\ Goto(Children[b][i], "waiting")
      BY <1>4 DEF StartChild
    <2>2. pc[b] = "running" /\ UNCHANGED <<granted, aborted, pending>>
      BY <1>4 DEF StartChild, flow
    <2>3. PICK c \in Kids(b) : c = Children[b][i]
      BY DEF Kids
    <2>4. c \in Child /\ c \in Wf /\ c \notin Root /\ LockSet(c) \in SUBSET Dir
      BY Directories DEF Root
    <2>5. \A d \in LockSet(c) : locks[d] = b
      BY <2>1, <2>2, <2>3, WholeBefore, Directories DEF Full
    <2>6. Settles(None, {})
      BY <1>0, <2>1, <2>3, <2>4, <2>5, PassageSettles
    <2> QED
      BY <2>1, <2>2, <2>3, <2>4, <2>6, MovesOn DEF PC
  <1>5. CASE LeaveTry(b)
    <2> DEFINE ds == IF LockSet(b) = {} THEN Dir ELSE LockSet(b)
               s == IF \A k \in Kids(b) : pc[k] = "success" THEN "success" ELSE "failed"
    <2>1. Settles(b, ds)
      BY <1>0, <1>5, ReleaseSettles DEF LeaveTry
    <2>2. LockSet(b) \subseteq ds
      BY <1>0, Directories
    <2>3. Goto(b, s) /\ pc[b] = "running" /\ UNCHANGED <<granted, aborted, pending>>
      BY <1>5 DEF LeaveTry, flow
    <2>4. s \in PC /\ s # "withdrawing"
      BY DEF PC
    <2> HIDE DEF s, ds
    <2> QED
      BY <1>0, <2>1, <2>2, <2>3, <2>4, MovesOn
  <1> QED
    BY <1>1, <1>2, <1>3, <1>4, <1>5 DEF Batch

\* The steps of a deployment that ask for nothing.
LEMMA DeploymentCalm ==
  ASSUME TypeOK, TypeOK', Held, Calm, NEW c \in Wf, Deployment(c), ~Start(c), ~Wake(c),
         status' = "running", mishaps' = {}
  PROVE  Calm'
  <1> USE Families
  <1>0. CoordinatorTypeOK /\ Accounts /\ ~aborted[c] /\ pc[c] # "withdrawing"
    BY DEF TypeOK, Calm
  <1>1. ~LockWaitTimeout(c) /\ ~AtlantisLockTimeout(c) /\ ~ResumeTimeout(c) /\ ~Die(c)
    BY DEF LockWaitTimeout, AtlantisLockTimeout, ResumeTimeout, Die, Mishap
  <1>2. ~Withdraw(c) /\ ~AbortedLockConflict(c) /\ ~CoordinatorGone(c)
    BY <1>0 DEF Withdraw, AbortedLockConflict, CoordinatorGone, coordinator
  <1>3. CASE Proceed(c) \/ Resumed(c)
    <2>1. Settles(None, {})
      BY <1>0, <1>3, StaySettles DEF Proceed, Resumed
    <2> QED
      BY <1>0, <1>3, <2>1, MovesOn DEF Proceed, Resumed, flow, PC
  <1>4. CASE Finish(c) \/ FailParked(c) \/ Adopt(c)
    <2>1. PICK s \in {"success", "failed"} : Goto(c, s)
      BY <1>4 DEF Finish, FailParked, Adopt
    <2>2. /\ OwnRelease(c) /\ pc[c] \notin {"waiting", "resuming"}
          /\ UNCHANGED <<granted, aborted, pending>>
      BY <1>4 DEF Finish, FailParked, Adopt, flow
    <2>3. PICK ds \in SUBSET Dir : Settles(c, ds) /\ (c \in Root => LockSet(c) \subseteq ds)
      BY <1>0, <2>2, OwnReleaseSettles
    <2>4. s \in PC /\ s # "withdrawing"
      BY DEF PC
    <2> QED
      BY <2>1, <2>2, <2>3, <2>4, MovesOn
  <1>5. CASE Park(c)
    <2>1. /\ Release(Holder(c), ParkDirs(c)) /\ pc[c] = "working" /\ Goto(c, "parked")
          /\ UNCHANGED <<granted, aborted, pending>>
      BY <1>5 DEF Park
    <2>2. Holder(c) \in Wf
      BY DEF Root
    <2>3. \E ds : Settles(Holder(c), ds)
      BY <1>0, <2>1, <2>2, ReleaseSettles
    <2> QED
      BY <2>1, <2>3, MovesOn DEF PC
  <1>6. CASE Forward(c)
    <2>1. Settles(None, {})
      BY <1>0, <1>6, StaySettles DEF Forward
    <2>2. c \in Child /\ c \notin Root
      BY <1>6 DEF Forward, Held, BatchGrant, Root
    <2>3. /\ pc' = pc /\ aborted' = aborted /\ pending' = pending
          /\ \A x \in Root : granted'[x] = granted[x]
      BY <1>6, <2>2 DEF Forward, TypeOK
    <2>4. \A x \in Root : Asking(x) => Asking(x)'
      BY <2>3 DEF Asking
    <2>5. \A x \in Root : Ended(x)' => Ended(x)
      BY <2>3 DEF Ended
    <2> QED
      BY <2>1, <2>3, <2>4, <2>5, SettlesCalm DEF Calm
  <1> QED
    BY <1>1, <1>2, <1>3, <1>4, <1>5, <1>6 DEF Deployment

\* c asks in the name of r, who waits for nothing else.
LEMMA AsksCalm ==
  ASSUME TypeOK, TypeOK', Held, Calm, status' = "running",
         NEW c \in Wf, NEW r \in Root, NEW s \in {"waiting", "resuming"}, Goto(c, s),
         c \in Root => r = c, pc[c] # "resuming",
         NEW ds \in SUBSET Dir, Acquire(r, ds, None),
         \/ ds = LockSet(r)
         \/ r \notin Stage /\ ds = ParkDirs(r),
         ~Asking(r), Asking(r)', ~Ended(r), aborted' = aborted,
         \A x \in Root \ {r} : granted'[x] = granted[x] /\ (x \in Orch => pending'[x] = pending[x]),
         \A b \in Orch : pending'[b] # None =>
           pending'[b] = pending[b] \/ (pending'[b] = c /\ s = "resuming")
  PROVE  Calm'
  <1> USE Families
  <1>1. \A x \in Wf : pc'[x] = IF x = c THEN s ELSE pc[x]
    BY DEF Goto, TypeOK
  <1>2. CoordinatorTypeOK /\ Accounts
    BY DEF TypeOK, Calm
  <1>3. /\ Accounts'
        /\ \A x \in Root : /\ Due(x)' = IF x = r THEN Due(x) + 1 ELSE Due(x)
                           /\ Returning(x) => Returning(x)'
        /\ \A d \in Dir : locks'[d] = locks[d] \/ locks'[d] = r
    BY <1>2, AskSettles
  <1>4. \A x \in Root \ {r} : (Asking(x) <=> Asking(x)') /\ pc'[x] = pc[x]
    <2>1. \A x \in Root \ {r} : pc'[x] = pc[x]
      BY <1>1
    <2> QED
      BY <2>1 DEF Asking
  <1>5. ASSUME NEW x \in Root
        PROVE  Due(x)' <= Allowed(x)'
    <2>1. Due(x) \in Int /\ Due(x) <= Allowed(x)
      BY <1>2, DueType DEF Calm
    <2>2. CASE x = r
      <3>1. Allowed(x) = 0 /\ Allowed(x)' = 1 /\ Due(x)' = Due(x) + 1
        BY <1>3, <2>2 DEF Allowed
      <3> QED
        BY <2>1, <3>1
    <2>3. CASE x # r
      <3>1. Allowed(x)' = Allowed(x) /\ Due(x)' = Due(x)
        BY <1>3, <1>4, <2>3 DEF Allowed
      <3> QED
        BY <2>1, <3>1
    <2> QED
      BY <2>2, <2>3
  <1>6. \A x \in Wf : ~aborted'[x] /\ pc'[x] # "withdrawing"
    BY <1>1 DEF Calm
  <1>7. ASSUME NEW b \in Orch, pending'[b] # None
        PROVE  pc'[pending'[b]] = "resuming"
    <2>1. CASE pending'[b] = c /\ s = "resuming"
      BY <1>1, <2>1
    <2>2. CASE pending'[b] = pending[b]
      <3>1. pending[b] \in Kids(b) /\ pending[b] \in Wf /\ pc[pending[b]] = "resuming"
        BY <1>7, <2>2 DEF Held, BatchGrant, Calm
      <3> QED
        BY <1>1, <2>2, <3>1
    <2> QED
      BY <1>7, <2>1, <2>2
  <1>8. ASSUME NEW x \in Root, Ended(x)', NEW d \in Dir, locks'[d] = x
        PROVE  Returning(x)'
    <2>1. x # r
      <3>1. pc'[r] \in {"waiting", "resuming"} \/ pc'[r] = pc[r]
        BY <1>1
      <3> QED
        BY <1>8, <3>1 DEF Ended
    <2>2. Ended(x) /\ locks[d] = x
      BY <1>3, <1>4, <1>8, <2>1 DEF Ended
    <2> QED
      BY <1>3, <2>2 DEF Calm
  <1> QED
    BY <1>3, <1>5, <1>6, <1>7, <1>8 DEF Calm

LEMMA StartCalm ==
  ASSUME TypeOK, TypeOK', Held, Calm, NEW c \in Wf, Start(c), status' = "running"
  PROVE  Calm'
  <1> USE Families
  <1>1. /\ c \in Root /\ pc[c] = "idle" /\ Acquire(c, LockSet(c), None) /\ Goto(c, "waiting")
        /\ UNCHANGED <<granted, aborted, pending>>
    BY DEF Start, Root, flow
  <1>2. ~granted[c] /\ LockSet(c) \in SUBSET Dir /\ ~Ended(c)
    BY <1>1, Directories DEF Held, IdleFresh, Ended
  <1>3. c \in Orch => pending[c] = None
    <2>1. SUFFICES ASSUME c \in Orch, pending[c] # None PROVE FALSE
      OBVIOUS
    <2>2. pending[c] \in Kids(c) /\ pc[pending[c]] = "resuming"
      BY <2>1 DEF Held, BatchGrant, Calm
    <2> QED
      BY <1>1, <2>1, <2>2 DEF Held, Places, Open, Ended
  <1>4. ~Asking(c)
    BY <1>1, <1>3 DEF Asking
  <1>5. Asking(c)'
    BY <1>1, <1>2 DEF Asking, Goto, TypeOK
  <1> QED
    BY <1>1, <1>2, <1>4, <1>5, AsksCalm

LEMMA WakeCalm ==
  ASSUME TypeOK, TypeOK', Held, Calm, NEW c \in Wf, Wake(c), status' = "running"
  PROVE  Calm'
  <1> USE Families
  <1>1. /\ pc[c] = "parked" /\ Acquire(Holder(c), ParkDirs(c), None) /\ Goto(c, "resuming")
        /\ granted' = [granted EXCEPT ![c] = FALSE, ![Holder(c)] = FALSE]
        /\ pending' = IF c \in Child THEN [pending EXCEPT ![Holder(c)] = c] ELSE pending
        /\ aborted' = aborted
    BY DEF Wake
  <1>2. c \in Prod /\ c \notin Orch /\ c \notin Stage
    BY <1>1 DEF Held, Places, Prod
  <1>3. PICK r \in Root : r = Holder(c)
    BY DEF Root
  <1>4. /\ c \in Root => r = c
        /\ c \in Child => r \in Orch /\ c \in Kids(r) /\ pc[r] = "running" /\ c \notin Root
        /\ c \in Root \cup Child
    <2>1. c \in Child => pc[Parent(c)] = "running"
      BY <1>1 DEF Held, Places, Open, Ended
    <2> QED
      BY <1>3, <2>1 DEF Root
  <1>5. r \notin Stage /\ ParkDirs(c) = ParkDirs(r) /\ ParkDirs(r) \in SUBSET Dir
    BY <1>2, <1>4, Directories
  <1>6. Acquire(r, ParkDirs(r), None)
    BY <1>1, <1>3, <1>5
  <1>7. c \in Child => pending[r] = None
    <2>1. SUFFICES ASSUME c \in Child, pending[r] # None PROVE FALSE
      OBVIOUS
    <2>2. pending[r] \in Kids(r) /\ pc[pending[r]] = "resuming"
      BY <1>4, <2>1 DEF Held, BatchGrant, Calm
    <2>3. pending[r] # c
      BY <1>1, <2>2
    <2> QED
      BY <1>1, <1>4, <2>1, <2>2, <2>3, Succession DEF Held
  <1>8. ~Asking(r) /\ ~Ended(r)
    BY <1>1, <1>2, <1>4, <1>7 DEF Asking, Ended
  <1>9. /\ \A x \in Root \ {r} : granted'[x] = granted[x] /\ (x \in Orch => pending'[x] = pending[x])
        /\ \A b \in Orch : pending'[b] # None => pending'[b] = pending[b] \/ pending'[b] = c
    BY <1>1, <1>3, <1>4 DEF TypeOK
  <1>10. Asking(r)'
    <2>1. CASE c \in Root
      <3>1. pc'[c] = "resuming" /\ ~granted'[c]
        BY <1>1, <1>3, <1>4, <2>1 DEF Goto, TypeOK
      <3> QED
        BY <1>4, <2>1, <3>1 DEF Asking
    <2>2. CASE c \in Child
      <3>1. pending'[r] = c /\ c # None
        BY <1>1, <1>3, <1>4, <2>2, CoordinatorAssumption DEF TypeOK
      <3> QED
        BY <1>4, <2>2, <3>1 DEF Asking
    <2> QED
      BY <1>4, <2>1, <2>2
  <1> QED
    BY <1>1, <1>4, <1>5, <1>6, <1>8, <1>9, <1>10, AsksCalm

\* The one grant a root waits for reaches it.
LEMMA GrantCalm ==
  ASSUME TypeOK, TypeOK', Held, Calm, NEW t \in Task, LocksGranted(t)
  PROVE  Calm'
  <1> USE Families
  <1>1. PICK x \in Wf : x = tasks[t].to
    BY DEF LocksGranted, Held, Frames
  <1>2. /\ Deliver(t, Open(x)) /\ Granting(tasks[t]) /\ Open(x) \in BOOLEAN
        /\ CoordinatorTypeOK /\ Accounts
    BY <1>1 DEF LocksGranted, Granting, Open, TypeOK, Calm
  <1>3. /\ Accounts' /\ locks' = locks
        /\ \A y \in Root :
             /\ Due(y)' = IF y = x THEN Due(y) - 1 ELSE Due(y)
             /\ Returning(y) /\ (y = x => ~Open(x)) => Returning(y)'
    BY <1>1, <1>2, DeliverSettles
  <1>4. pc' = pc /\ aborted' = aborted
    BY DEF LocksGranted
  <1>5. /\ \A y \in Wf : y # x => granted'[y] = granted[y]
        /\ \A b \in Orch : b # x => pending'[b] = pending[b]
        /\ \A b \in Orch : pending'[b] \in {pending[b], None}
    BY <1>1 DEF LocksGranted, TypeOK
  <1>6. ASSUME NEW y \in Root
        PROVE  Due(y)' <= Allowed(y)'
    <2>1. Due(y) \in Int /\ Due(y) <= Allowed(y) /\ Allowed(y) \in {0, 1} /\ Allowed(y)' \in {0, 1}
      BY <1>2, DueType DEF Calm, Allowed
    <2>2. CASE y = x
      <3>1. Due(y)' = Due(y) - 1
        BY <1>3, <2>2
      <3> QED
        BY <2>1, <3>1
    <2>3. CASE y # x
      <3>1. Asking(y)' <=> Asking(y)
        BY <1>4, <1>5, <2>3 DEF Asking
      <3>2. Due(y)' = Due(y) /\ Allowed(y)' = Allowed(y)
        BY <1>3, <2>3, <3>1 DEF Allowed
      <3> QED
        BY <2>1, <3>2
    <2> QED
      BY <2>2, <2>3
  <1>7. \A b \in Orch : pending'[b] # None => pc'[pending'[b]] = "resuming"
    BY <1>4, <1>5 DEF Calm
  <1>8. \A y \in Root : Ended(y)' /\ (\E d \in Dir : locks'[d] = y) => Returning(y)'
    BY <1>3, <1>4 DEF Calm, Ended, Open
  <1> QED
    BY <1>3, <1>4, <1>6, <1>7, <1>8 DEF Calm

LEMMA HandlerCalm ==
  ASSUME TypeOK, TypeOK', Held, Calm, NEW t \in Task, Handler(t), status' = "running"
  PROVE  Calm'
  <1>0. CoordinatorTypeOK /\ Accounts
    BY DEF TypeOK, Calm
  <1>1. ~AtlasLockAbort(t)
    BY <1>0 DEF AtlasLockAbort, Accounts, Orderly
  <1>2. CASE Resume(t) /\ UNCHANGED <<pc, flow>>
    <2>1. Settles(None, {})
      BY <1>0, <1>2, ResumeSettles
    <2>2. UNCHANGED <<pc, granted, aborted, pending>>
      BY <1>2 DEF flow
    <2>3. \A x \in Root : Asking(x) => Asking(x)'
      BY <2>2 DEF Asking
    <2>4. \A x \in Root : Ended(x)' => Ended(x)
      BY <2>2 DEF Ended
    <2> QED
      BY <2>1, <2>2, <2>3, <2>4, SettlesCalm DEF Calm
  <1> QED
    BY <1>1, <1>2, GrantCalm DEF Handler

LEMMA NextCalm ==
  ASSUME TypeOK, TypeOK', Held, Calm, [Next]_vars, status' = "running", mishaps' = {}
  PROVE  Calm'
  <1>1. CASE UNCHANGED vars
    <2>1. Settles(None, {})
      BY <1>1, StaySettles DEF vars, TypeOK, Calm
    <2>2. UNCHANGED <<pc, granted, aborted, pending>>
      BY <1>1 DEF vars, flow
    <2>3. \A x \in Root : Asking(x) => Asking(x)'
      BY <2>2 DEF Asking
    <2>4. \A x \in Root : Ended(x)' => Ended(x)
      BY <2>2 DEF Ended
    <2> QED
      BY <2>1, <2>2, <2>3, <2>4, SettlesCalm DEF Calm
  <1>2. ASSUME NEW o \in Orch, Batch(o)
        PROVE  Calm'
    BY <1>2, BatchCalm
  <1>3. ASSUME NEW c \in Wf, Deployment(c)
        PROVE  Calm'
    BY <1>3, StartCalm, WakeCalm, DeploymentCalm
  <1>4. ASSUME NEW t \in Task, Handler(t)
        PROVE  Calm'
    BY <1>4, HandlerCalm
  <1> QED
    BY <1>1, <1>2, <1>3, <1>4 DEF Next

\* A coordinator that is stuck, or whose run has failed, stays so.
LEMMA StatusStays ==
  ASSUME [Next]_vars, status' = "running"
  PROVE  status = "running"
  <1> USE DEF Ignored, coordinator
  <1>1. ASSUME NEW r, NEW ds, NEW p, Acquire(r, ds, p) \/ Release(r, ds) \/ Withdrawal(r)
        PROVE  status = "running"
    BY <1>1 DEF Acquire, Release, Withdrawal, AcquireLocks, ReleaseLocks, ReleaseHold
  <1>2. CASE UNCHANGED vars
    BY <1>2 DEF vars
  <1>3. ASSUME NEW o \in Orch, Batch(o)
        PROVE  status = "running"
    BY <1>1, <1>3 DEF Batch, OpenBatch, EnterTry, StageUpdateFails, StartChild, LeaveTry
  <1>4. ASSUME NEW c \in Wf, Deployment(c)
        PROVE  status = "running"
    <2>1. OwnRelease(c) => status = "running"
      BY <1>1 DEF OwnRelease
    <2>2. CASE Start(c) \/ Proceed(c) \/ LockWaitTimeout(c) \/ Withdraw(c) \/ AbortedLockConflict(c)
      BY <1>1, <2>1, <2>2 DEF Start, Proceed, LockWaitTimeout, Withdraw, AbortedLockConflict
    <2>3. CASE AtlantisLockTimeout(c)
      BY <2>3 DEF AtlantisLockTimeout, AbortQueuedForDirs
    <2>4. CASE Finish(c) \/ Park(c) \/ FailParked(c) \/ Adopt(c)
      BY <1>1, <2>1, <2>4 DEF Finish, Park, FailParked, Adopt
    <2>5. CASE Wake(c) \/ Resumed(c) \/ ResumeTimeout(c) \/ Die(c) \/ Forward(c) \/ CoordinatorGone(c)
      BY <1>1, <2>5 DEF Wake, Resumed, ResumeTimeout, Die, Forward, CoordinatorGone
    <2> QED
      BY <1>4, <2>2, <2>3, <2>4, <2>5 DEF Deployment
  <1>5. ASSUME NEW t \in Task, Handler(t)
        PROVE  status = "running"
    BY <1>5 DEF Handler, LocksGranted, AtlasLockAbort, Deliver, Resume, ResumeAcquire, ResumeScan,
       ResumeAbort, FailRun
  <1> QED
    BY <1>2, <1>3, <1>4, <1>5 DEF Next

LEMMA InitCalm == PInit => Calm
  <1> SUFFICES ASSUME PInit PROVE Calm
    OBVIOUS
  <1> USE Families
  <1>1. /\ Init /\ \A c \in Wf : pc[c] = "idle" /\ ~granted[c] /\ ~aborted[c]
        /\ \A b \in Orch : pending[b] = None
    BY DEF PInit
  <1>2. /\ hold_queue = {} /\ \A d \in Dir : locks[d] = None
        /\ \A t \in Task : tasks[t] = Idle
    BY <1>1 DEF Init
  <1>3. /\ Idle.triggered = {} /\ Idle.pc = "idle"
        /\ \A x : ~Sent(Idle, x)
    BY DEF Idle, Sent, Granting
  <1>4. \A x : Flights(x) = {} /\ Marks(x) = {} /\ EntriesOf(x, hold_queue) = {}
    BY <1>2, <1>3 DEF Flights, Marks, EntriesOf
  <1>5. IsFiniteSet({}) /\ Cardinality({}) = 0
    BY FS_EmptySet
  <1>6. Orderly(Idle, hold_queue)
    BY <1>3, <1>5 DEF Orderly
  <1>7. Accounts
    BY <1>2, <1>3, <1>4, <1>5, <1>6 DEF Accounts
  <1>8. \A x \in Root : Due(x) <= Allowed(x)
    <2>1. \A x : /\ Cardinality(EntriesOf(x, hold_queue)) = 0
                 /\ Cardinality(Flights(x)) = 0 /\ Cardinality(Marks(x)) = 0
      BY <1>4, <1>5, Zenon
    <2> HIDE Families
    <2>2. ASSUME NEW x
          PROVE  Due(x) = 0
      BY <2>1 DEF Due
    <2> QED
      BY <2>2 DEF Allowed
  <1> QED
    BY <1>1, <1>7, <1>8 DEF Calm, Ended

\* The invariant of Inv and, before anything has gone wrong, the accounts.
CalmInv == Inv /\ (status = "running" /\ mishaps = {} => Calm)

LEMMA SpecCalm == Spec => []CalmInv
  <1>1. PInit => CalmInv
    BY InitTypes, InitHolds, InitCalm DEF Inv, CalmInv
  <1>2. CalmInv /\ [Next]_vars => CalmInv'
    <2> SUFFICES ASSUME CalmInv, [Next]_vars PROVE CalmInv'
      OBVIOUS
    <2>1. Inv'
      BY NextType, NextHeld, MishapsStay DEF CalmInv, Inv, Unadopted
    <2>2. ASSUME status' = "running", mishaps' = {}
          PROVE  Calm'
      <3>1. status = "running" /\ mishaps = {}
        BY <2>2, StatusStays, MishapsStay
      <3>2. TypeOK /\ TypeOK' /\ Held /\ Calm
        BY <2>1, <3>1 DEF CalmInv, Inv, Unadopted
      <3> QED
        BY <2>2, <3>2, NextCalm
    <2> QED
      BY <2>1, <2>2 DEF CalmInv
  <1> QED
    BY <1>1, <1>2, PTL DEF Spec

\* A batch or deployment that has ended leaves no lock and no request behind: also
\* when handlers of the coordinator overlap, a request is marked by two scans at a
\* time and children park and resume in their batch's name.
THEOREM NothingIsLeft == Spec => []NothingLeaks
  <1> USE Families
  <1>1. ASSUME TypeOK, Held, Calm, AllHandlersFinished, NEW c \in Wf, Ended(c)
        PROVE  Clean(c)
    <2>1. \A t \in Task : tasks[t].pc = "idle" /\ tasks[t].triggered = {}
      BY <1>1 DEF AllHandlersFinished, Calm, Accounts, Orderly
    <2>2. CASE c \in Child
      <3>1. c \notin Root /\ c # None
        BY <2>2, CoordinatorAssumption DEF Root
      <3> QED
        BY <1>1, <3>1 DEF Clean, Calm, Accounts, Asked
    <2>3. CASE c \in Root
      <3>1. \A d \in Dir : locks[d] # c
        BY <1>1, <2>1, <2>3 DEF Calm, Returning, Granting
      <3>2. c \in Orch => pending[c] = None
        <4>1. SUFFICES ASSUME c \in Orch, pending[c] # None PROVE FALSE
          OBVIOUS
        <4>2. pending[c] \in Kids(c) /\ pc[pending[c]] = "resuming"
          BY <1>1, <4>1 DEF Held, BatchGrant, Calm
        <4> QED
          BY <1>1, <4>1, <4>2 DEF Held, Places, Open, Ended
      <3>3. ~Asking(c)
        BY <1>1, <3>2 DEF Asking, Ended
      <3>4. Flights(c) = {} /\ Marks(c) = {}
        BY <2>1 DEF Flights, Marks, Sent, Granting
      <3>5. Cardinality(Flights(c)) = 0 /\ Cardinality(Marks(c)) = 0
        BY <3>4, FS_EmptySet
      <3>6. /\ Cardinality(EntriesOf(c, hold_queue)) \in Nat
            /\ IsFiniteSet(EntriesOf(c, hold_queue))
        BY <1>1, <2>3, DueType DEF TypeOK, Calm
      <3>7. Due(c) <= 0
        BY <1>1, <2>3, <3>3 DEF Calm, Allowed
      <3>8. Cardinality(EntriesOf(c, hold_queue)) = 0
        BY <3>5, <3>6, <3>7 DEF Due
      <3>9. EntriesOf(c, hold_queue) = {}
        BY <3>6, <3>8, FS_EmptySet
      <3> QED
        BY <3>1, <3>9 DEF Clean, EntriesOf
    <2> QED
      BY <2>2, <2>3 DEF Root
  <1>2. CalmInv => NothingLeaks
    BY <1>1 DEF CalmInv, Inv, NothingLeaks, Unadopted
  <1> QED
    BY <1>2, SpecCalm, PTL
=============================================================================

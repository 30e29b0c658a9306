----------------------- MODULE DeploymentStagesProofs -----------------------
(***************************************************************************)
(* Proofs about the stages of a deployment, for any numbers of retries,    *)
(* commits and human commands: the types, what an ended deployment         *)
(* reports, and what it merges, applies and had approved.                  *)
(*                                                                         *)
(* The last three hold unless something named explains a wrong step.       *)
(* Four invariants carry them, each under the absence of its reasons:      *)
(* Calm, of the commands on their way, Settled, of the content that is     *)
(* planned, applied and live, and Read and Trusted, of the content that    *)
(* was verified, Trusted also when old answers are taken for new ones.     *)
(* Each is kept by every action; a reason once noted is never forgotten,   *)
(* so its absence after a step implies its absence before.                 *)
(***************************************************************************)
EXTENDS DeploymentStages, SequenceTheorems, TLAPS

-----------------------------------------------------------------------------
(* Types.                                                                  *)

FlagsSet == [plan_result : Answer, apply_result : Answer \ {"lock_conflict"},
          merged : BOOLEAN, closed : BOOLEAN, manual : BOOLEAN,
          conflict : BOOLEAN, approved : BOOLEAN]
PullSet == [state : {"none", "open", "merged", "closed"}, head : Nat, human : BOOLEAN,
            conflict : BOOLEAN, approved : BOOLEAN, stale : BOOLEAN]
PlanSet == [newest : Answer, fresh : BOOLEAN, good : BOOLEAN, answered : BOOLEAN,
                 of : Nat, file : Nat]
ApplySet == [newest : Answer \ {"lock_conflict"}, live : Nat]
CommandSeq == Seq({"plan", "apply"})

\* The sets of TypeOK under names, so that a proof opens only the one it needs.
LEMMA TypeIs ==
  TypeOK <=>
    /\ step \in Step /\ result \in Results
    /\ (result # "none") <=> Over
    /\ flags \in FlagsSet
    /\ attempt \in Nat
    /\ pr \in PullSet
    /\ plan \in PlanSet
    /\ apply \in ApplySet
    /\ asked \in CommandSeq /\ queued \in BOOLEAN /\ commands \in 0 .. MaxOthers
    /\ namesakes \in 0 .. MaxOthers
    /\ verified \subseteq Nat /\ blind \in BOOLEAN /\ unapplied \in BOOLEAN
    /\ mishaps \subseteq Mishap
  BY DEF TypeOK, FlagsSet, PullSet, PlanSet, ApplySet, CommandSeq

\* Setting a field to a value of its type keeps the record's type.
LEMMA FlagsFields ==
  ASSUME NEW f \in FlagsSet
  PROVE  /\ f.plan_result \in Answer /\ f.apply_result \in Answer \ {"lock_conflict"}
         /\ f.merged \in BOOLEAN /\ f.closed \in BOOLEAN /\ f.manual \in BOOLEAN
         /\ f.conflict \in BOOLEAN /\ f.approved \in BOOLEAN
         /\ \A v \in Answer : [f EXCEPT !.plan_result = v] \in FlagsSet
         /\ \A v \in Answer \ {"lock_conflict"} : [f EXCEPT !.apply_result = v] \in FlagsSet
         /\ \A v \in BOOLEAN :
              /\ [f EXCEPT !.merged = v] \in FlagsSet
              /\ [f EXCEPT !.closed = v] \in FlagsSet
              /\ [f EXCEPT !.manual = v] \in FlagsSet
              /\ [f EXCEPT !.conflict = v] \in FlagsSet
              /\ [f EXCEPT !.approved = v] \in FlagsSet
  BY DEF FlagsSet

\* What signals and polls set.
LEMMA FlagsType ==
  ASSUME TypeOK, Next
  PROVE  flags' \in FlagsSet
  <1>1. flags \in FlagsSet /\ plan.newest \in Answer /\ apply.newest \in Answer \ {"lock_conflict"}
    BY TypeIs DEF PlanSet, ApplySet
  <1>2. "none" \in Answer \ {"lock_conflict"} /\ "none" \in Answer
    BY DEF Answer
  <1>3. CASE PollPrState \/ ApprovePr \/ PollApproval \/ WaitMerge \/ AutomergeFails \/ MergePull
    BY <1>1, <1>3, FlagsFields DEF PollPrState, ApprovePr, PollApproval, WaitMerge, AutomergeFails, MergePull
  <1>4. CASE PollPlan \/ PlanLocked \/ RepostPlan \/ RetryPlan \/ ParkPlan \/ Destructive \/ Verified
    <2>1. \/ \E v \in Answer : flags' = [flags EXCEPT !.plan_result = v]
          \/ flags' = [flags EXCEPT !.approved = FALSE]
      BY <1>1, <1>2, <1>4 DEF PollPlan, PlanLocked, RepostPlan, RetryPlan, ParkPlan,
         Destructive, Verified, BackToPlan
    <2> QED BY <1>1, <2>1, FlagsFields
  <1>5. CASE Approved \/ PollApply \/ RetryApply \/ ApplyExhausted \/ Replan \/ BackFromMerge
    BY <1>1, <1>2, <1>5, FlagsFields DEF Approved, PollApply, RetryApply, ApplyExhausted, Replan, BackFromMerge, BackToPlan, PostApply
  <1>6. CASE AtlantisPlans
    <2>1. PICK a \in Answer \ {"none"} : Result("plan_result", a, {"planning", "locked"})
      BY <1>6 DEF AtlantisPlans
    <2> QED BY <1>1, <2>1, FlagsFields DEF Result
  <1>7. CASE AtlantisApplies \/ AtlantisApplyFails
    <2>1. "success" \in Answer \ {"lock_conflict"} /\ "failed" \in Answer \ {"lock_conflict"}
      BY DEF Answer
    <2> QED BY <1>1, <1>7, <2>1, FlagsFields DEF AtlantisApplies, AtlantisApplyFails, Result
  <1>8. CASE HumanPush \/ HumanApproves \/ HumanEnds
    BY <1>1, <1>8, FlagsFields DEF HumanPush, HumanApproves, HumanEnds, Signal
  <1>9. CASE CreatePr \/ SecondaryOnly \/ FailNoPr \/ FailPrClosed \/ FailManualCommit \/ DeployMerged \/ FailStuck
             \/ Unlocked \/ AtlantisLockTimeout \/ PlanExhausted \/ PlanSucceeded \/ ApplySucceeded
             \/ CheckFresh \/ MergeStale \/ MergeFailed \/ MergeConflict \/ PlanResolved
             \/ CoordinatorResolves \/ BaseMoves
    BY <1>1, <1>9 DEF CreatePr, SecondaryOnly, FailNoPr, FailPrClosed, FailManualCommit, DeployMerged, FailStuck,
             Unlocked, AtlantisLockTimeout, PlanExhausted, PlanSucceeded, ApplySucceeded,
             CheckFresh, MergeStale, MergeFailed, MergeConflict, PlanResolved, End, Fail,
             CoordinatorResolves, BaseMoves, deployment
  <1>10. CASE Namesake
    <2>1. /\ "success" \in Answer \ {"lock_conflict"} /\ "failed" \in Answer \ {"lock_conflict"}
          /\ \A a \in Answer \ {"none"} : a \in Answer
      BY DEF Answer
    <2>2. CASE \E a \in Answer \ {"none"} : flags' = [flags EXCEPT !.plan_result = a]
      BY <1>1, <2>1, <2>2, FlagsFields
    <2>3. CASE \E a \in {"success", "failed"} : flags' = [flags EXCEPT !.apply_result = a]
      BY <1>1, <2>1, <2>3, FlagsFields
    <2>4. CASE \/ flags' = [flags EXCEPT !.merged = TRUE]
               \/ flags' = [flags EXCEPT !.closed = TRUE]
               \/ flags' = [flags EXCEPT !.manual = TRUE]
               \/ flags' = [flags EXCEPT !.approved = TRUE]
               \/ flags' = [flags EXCEPT !.conflict = TRUE]
      BY <1>1, <2>4, FlagsFields
    <2> QED BY <1>10, <2>2, <2>3, <2>4 DEF Namesake
  <1> QED BY <1>3, <1>4, <1>5, <1>6, <1>7, <1>8, <1>9, <1>10 DEF Next, Deployment, Outside

\* As for the flags, for the updates of the pull request.
LEMMA PullFields ==
  ASSUME NEW p \in PullSet
  PROVE  /\ p.state \in {"none", "open", "merged", "closed"} /\ p.head \in Nat
         /\ p.human \in BOOLEAN /\ p.conflict \in BOOLEAN
         /\ p.approved \in BOOLEAN /\ p.stale \in BOOLEAN
         /\ \A s \in {"none", "open", "merged", "closed"} : [p EXCEPT !.state = s] \in PullSet
         /\ [p EXCEPT !.state = "open", !.head = 1] \in PullSet
         /\ \A v \in BOOLEAN : [p EXCEPT !.approved = v] \in PullSet
         /\ \A v \in BOOLEAN : [p EXCEPT !.conflict = v] \in PullSet
         /\ \A v, w \in BOOLEAN : [p EXCEPT !.approved = v, !.stale = w] \in PullSet
         /\ \A v, w \in BOOLEAN : [p EXCEPT !.head = @ + 1, !.human = v, !.stale = w] \in PullSet
         /\ [p EXCEPT !.head = @ + 1, !.human = FALSE, !.conflict = FALSE, !.stale = TRUE] \in PullSet
  <1>1. /\ p.state \in {"none", "open", "merged", "closed"} /\ p.head \in Nat
        /\ p.human \in BOOLEAN /\ p.conflict \in BOOLEAN
        /\ p.approved \in BOOLEAN /\ p.stale \in BOOLEAN
    BY DEF PullSet
  <1>2. /\ \A s \in {"none", "open", "merged", "closed"} : [p EXCEPT !.state = s] \in PullSet
        /\ [p EXCEPT !.state = "open", !.head = 1] \in PullSet
    BY DEF PullSet
  <1>3. /\ \A v \in BOOLEAN : [p EXCEPT !.approved = v] \in PullSet
        /\ \A v \in BOOLEAN : [p EXCEPT !.conflict = v] \in PullSet
    BY DEF PullSet
  <1>4. \A v, w \in BOOLEAN : [p EXCEPT !.approved = v, !.stale = w] \in PullSet
    BY DEF PullSet
  <1>5. p.head + 1 \in Nat
    BY <1>1
  <1>6. ASSUME NEW n \in Nat, NEW v \in BOOLEAN, NEW w \in BOOLEAN
        PROVE  /\ [p EXCEPT !.head = n, !.human = v, !.stale = w] \in PullSet
               /\ [p EXCEPT !.head = n, !.human = FALSE, !.conflict = FALSE, !.stale = TRUE] \in PullSet
    BY DEF PullSet
  <1> QED
    BY <1>1, <1>2, <1>3, <1>4, <1>5, <1>6

\* GitHub's pull request.
LEMMA PullType ==
  ASSUME TypeOK, Next
  PROVE  pr' \in PullSet
  <1>1. pr \in PullSet
    BY TypeIs
  <1>2. CASE CreatePr \/ MergePull \/ HumanApproves \/ HumanEnds \/ ApprovePr \/ BaseMoves
    BY <1>1, PullFields, <1>2 DEF CreatePr, PostPlan, Ask, MergePull, HumanApproves, Signal,
    HumanEnds, ApprovePr, BaseMoves
  <1>3. CASE MergeConflict \/ CoordinatorResolves
    BY <1>1, PullFields, <1>3 DEF MergeConflict, Resolved, CoordinatorResolves
  <1>4. CASE AtlantisLockTimeout
    <2> DEFINE s == IF pr.state = "open" THEN "closed" ELSE pr.state
    <2>1. pr' = [pr EXCEPT !.state = s]
      BY <1>4 DEF AtlantisLockTimeout
    <2>2. s \in {"none", "open", "merged", "closed"}
      BY <1>1, PullFields
    <2> HIDE DEF s
    <2>3. [pr EXCEPT !.state = s] \in PullSet
      BY <1>1, <2>2, PullFields
    <2> QED BY <2>1, <2>3
  <1>5. CASE AtlantisApplies
    <2> DEFINE s == IF pr.conflict THEN pr.state ELSE "merged"
    <2>1. pr' = pr \/ pr' = [pr EXCEPT !.state = s]
      BY <1>5 DEF AtlantisApplies
    <2>2. s \in {"none", "open", "merged", "closed"}
      BY <1>1, PullFields
    <2> HIDE DEF s
    <2>3. [pr EXCEPT !.state = s] \in PullSet
      BY <1>1, <2>2, PullFields
    <2> QED BY <1>1, <2>1, <2>3
  <1>6. CASE AtlantisPlans
    <2>1. PICK a \in Answer \ {"none"} :
            pr' = [pr EXCEPT !.approved = FALSE, !.stale = pr.stale /\ a # "success"]
      BY <1>6 DEF AtlantisPlans
    <2> DEFINE w == pr.stale /\ a # "success"
    <2>2. w \in BOOLEAN /\ pr' = [pr EXCEPT !.approved = FALSE, !.stale = w]
      BY <2>1
    <2> HIDE DEF w
    <2>3. [pr EXCEPT !.approved = FALSE, !.stale = w] \in PullSet
      BY <1>1, <2>2, PullFields
    <2> QED BY <2>2, <2>3
  <1>7. CASE HumanPush
    BY <1>1, PullFields, <1>7 DEF HumanPush, Signal
  <1>8. CASE SecondaryOnly \/ FailNoPr \/ FailPrClosed \/ FailManualCommit \/ DeployMerged \/
             FailStuck \/ PollPrState \/ PollPlan \/ PlanLocked \/ RepostPlan \/ Unlocked \/
             RetryPlan \/ PlanExhausted \/ ParkPlan \/ PlanSucceeded \/ Destructive \/
             Verified \/ PollApproval \/ Approved \/ PollApply \/ RetryApply \/ ApplyExhausted \/
             ApplySucceeded \/ CheckFresh \/ MergeStale \/ MergeFailed \/ PlanResolved \/
             Replan \/ WaitMerge \/ BackFromMerge \/ AtlantisApplyFails \/ AutomergeFails
    BY <1>1, <1>8 DEF SecondaryOnly, End, FailNoPr, Fail, FailPrClosed, FailManualCommit,
    DeployMerged, FailStuck, PollPrState, PollPlan, PlanLocked, RepostPlan, Unlocked, RetryPlan,
    PlanExhausted, ParkPlan, PlanSucceeded, Destructive, Verified, PollApproval, Approved,
    PollApply, RetryApply, ApplyExhausted, ApplySucceeded, CheckFresh, MergeStale, MergeFailed,
    PlanResolved, Replan, WaitMerge, BackFromMerge, AtlantisApplyFails, AutomergeFails,
    deployment, atlantis
  <1>9. CASE Namesake
    BY <1>1, <1>9 DEF Namesake
  <1> QED
    BY <1>2, <1>3, <1>4, <1>5, <1>6, <1>7, <1>8, <1>9 DEF Next, Deployment, Outside

\* As for the flags, for the updates of the plans.
LEMMA PlanFields ==
  ASSUME NEW p \in PlanSet
  PROVE  /\ p.newest \in Answer /\ p.fresh \in BOOLEAN /\ p.good \in BOOLEAN
         /\ p.answered \in BOOLEAN /\ p.of \in Nat /\ p.file \in Nat
         /\ [p EXCEPT !.answered = FALSE] \in PlanSet
         /\ [p EXCEPT !.fresh = FALSE, !.good = FALSE] \in PlanSet
         /\ [p EXCEPT !.file = 0] \in PlanSet
         /\ \A a \in Answer, g \in BOOLEAN, n, m \in Nat :
              [p EXCEPT !.newest = a, !.fresh = TRUE, !.answered = TRUE, !.good = g,
                        !.of = n, !.file = m] \in PlanSet
  BY DEF PlanSet

\* Atlantis's plans.
LEMMA PlanType ==
  ASSUME TypeOK, Next
  PROVE  plan' \in PlanSet
  <1>1. plan \in PlanSet /\ pr \in PullSet
    BY TypeIs
  <1>2. CASE CreatePr \/ RepostPlan \/ RetryPlan \/ MergeStale \/ PlanResolved
    BY <1>1, PlanFields, <1>2 DEF CreatePr, PostPlan, Ask, RepostPlan, RetryPlan, MergeStale,
    PlanResolved
  <1>3. CASE ParkPlan \/ Destructive \/ ApplyExhausted \/ Replan
    BY <1>1, PlanFields, <1>3 DEF ParkPlan, Cutoff, Destructive, BackToPlan, ApplyExhausted,
    Replan
  <1>4. CASE AtlantisApplies
    BY <1>1, PlanFields, <1>4 DEF AtlantisApplies, Command, Result
  <1>5. CASE AtlantisPlans
    <2>1. PICK a \in Answer \ {"none"} :
            plan' = [plan EXCEPT
              !.newest = a, !.fresh = TRUE, !.answered = TRUE,
              !.good = plan.good \/ a = "success",
              !.of = IF a = "success" THEN pr.head ELSE plan.of,
              !.file = IF a = "success" THEN pr.head ELSE plan.file]
      BY <1>5 DEF AtlantisPlans
    <2>2. /\ (plan.good \/ a = "success") \in BOOLEAN
          /\ (IF a = "success" THEN pr.head ELSE plan.of) \in Nat
          /\ (IF a = "success" THEN pr.head ELSE plan.file) \in Nat
      BY <1>1, PlanFields, PullFields
    <2> QED BY <1>1, <2>1, <2>2, PlanFields
  <1>6. CASE SecondaryOnly \/ FailNoPr \/ FailPrClosed \/ FailManualCommit \/ DeployMerged \/
             FailStuck \/ PollPrState \/ PollPlan \/ PlanLocked \/ Unlocked \/
             AtlantisLockTimeout \/ PlanExhausted \/ PlanSucceeded \/ Verified \/ ApprovePr \/
             PollApproval \/ Approved \/ PollApply \/ RetryApply \/ ApplySucceeded \/
             CheckFresh \/ MergePull \/ MergeFailed \/ MergeConflict \/ WaitMerge \/
             BackFromMerge \/ CoordinatorResolves \/ AtlantisApplyFails \/ AutomergeFails \/
             BaseMoves \/ HumanPush \/ HumanApproves \/ HumanEnds \/
             Namesake
    BY <1>1, <1>6 DEF SecondaryOnly, End, FailNoPr, Fail, FailPrClosed, FailManualCommit,
    DeployMerged, FailStuck, PollPrState, PollPlan, PlanLocked, Unlocked, AtlantisLockTimeout,
    PlanExhausted, PlanSucceeded, Verified, ApprovePr, PollApproval, Approved, PollApply,
    RetryApply, ApplySucceeded, CheckFresh, MergePull, MergeFailed, MergeConflict, WaitMerge,
    BackFromMerge, CoordinatorResolves, AtlantisApplyFails, AutomergeFails, BaseMoves, HumanPush,
    HumanApproves, HumanEnds, Namesake, deployment, atlantis
  <1> QED
    BY <1>2, <1>3, <1>4, <1>5, <1>6 DEF Next, Deployment, Outside

\* Atlantis's applies.
LEMMA ApplyType ==
  ASSUME TypeOK, Next
  PROVE  apply' \in ApplySet
  <1>1. apply \in ApplySet /\ plan \in PlanSet
    BY TypeIs
  <1>2. CASE AtlantisApplies \/ AtlantisApplyFails
    <2>1. \/ apply' = [newest |-> "success", live |-> plan.file]
          \/ apply' = [apply EXCEPT !.newest = "failed"]
      BY <1>2 DEF AtlantisApplies, AtlantisApplyFails
    <2>2. plan.file \in Nat
      BY <1>1, PlanFields
    <2> QED BY <1>1, <2>1, <2>2 DEF ApplySet, Answer
  <1>3. CASE CreatePr \/ SecondaryOnly \/ FailNoPr \/ FailPrClosed \/ FailManualCommit \/
             DeployMerged \/ FailStuck \/ PollPrState \/ PollPlan \/ PlanLocked \/ RepostPlan \/
             Unlocked \/ AtlantisLockTimeout \/ RetryPlan \/ PlanExhausted \/ ParkPlan \/
             PlanSucceeded \/ Destructive \/ Verified \/ ApprovePr \/ PollApproval \/ Approved \/
             PollApply \/ RetryApply \/ ApplyExhausted \/ ApplySucceeded \/ CheckFresh \/
             MergeStale \/ MergePull \/ MergeFailed \/ MergeConflict \/ PlanResolved \/ Replan \/
             WaitMerge \/ BackFromMerge \/ CoordinatorResolves \/ AtlantisPlans \/
             AutomergeFails \/ BaseMoves \/ HumanPush \/ HumanApproves \/ HumanEnds \/
             Namesake
    BY <1>1, <1>3 DEF CreatePr, SecondaryOnly, End, FailNoPr, Fail, FailPrClosed,
    FailManualCommit, DeployMerged, FailStuck, PollPrState, PollPlan, PlanLocked, RepostPlan,
    Unlocked, AtlantisLockTimeout, RetryPlan, PlanExhausted, ParkPlan, PlanSucceeded,
    Destructive, Verified, ApprovePr, PollApproval, Approved, PollApply, RetryApply,
    ApplyExhausted, ApplySucceeded, CheckFresh, MergeStale, MergePull, MergeFailed,
    MergeConflict, PlanResolved, Replan, WaitMerge, BackFromMerge, CoordinatorResolves,
    AtlantisPlans, AutomergeFails, BaseMoves, HumanPush, HumanApproves, HumanEnds, Namesake,
    deployment,
    atlantis
  <1> QED
    BY <1>2, <1>3 DEF Next, Deployment, Outside

\* What posting and taking a command do to those on their way.
LEMMA CommandSeqs ==
  ASSUME NEW s \in CommandSeq
  PROVE  /\ <<>> \in CommandSeq
         /\ \A c \in {"plan", "apply"} : Append(s, c) \in CommandSeq
         /\ s # <<>> => Tail(s) \in CommandSeq
  BY DEF CommandSeq

\* The commands on their way.
LEMMA AskedType ==
  ASSUME TypeOK, Next
  PROVE  asked' \in CommandSeq
  <1>1. asked \in CommandSeq
    BY TypeIs
  <1>2. CASE CreatePr \/ RepostPlan \/ RetryPlan \/ MergeStale \/ PlanResolved \/ Approved \/
             RetryApply
    BY <1>1, CommandSeqs, <1>2 DEF CreatePr, PostPlan, Ask, RepostPlan, RetryPlan, MergeStale,
    PlanResolved, Approved, PostApply, RetryApply
  <1>3. CASE AtlantisApplies \/ AtlantisApplyFails \/ AtlantisPlans
    BY <1>1, CommandSeqs, <1>3 DEF AtlantisApplies, Command, Result, AtlantisApplyFails,
    AtlantisPlans
  <1>4. CASE SecondaryOnly \/ FailNoPr \/ FailPrClosed \/ FailManualCommit \/ DeployMerged \/
             FailStuck \/ PollPrState \/ PollPlan \/ PlanLocked \/ Unlocked \/
             AtlantisLockTimeout \/ PlanExhausted \/ ParkPlan \/ PlanSucceeded \/ Destructive \/
             Verified \/ ApprovePr \/ PollApproval \/ PollApply \/ ApplyExhausted \/
             ApplySucceeded \/ CheckFresh \/ MergePull \/ MergeFailed \/ MergeConflict \/
             Replan \/ WaitMerge \/ BackFromMerge \/ CoordinatorResolves \/ AutomergeFails \/
             BaseMoves \/ HumanPush \/ HumanApproves \/ HumanEnds \/
             Namesake
    BY <1>1, <1>4 DEF SecondaryOnly, End, FailNoPr, Fail, FailPrClosed, FailManualCommit,
    DeployMerged, FailStuck, PollPrState, PollPlan, PlanLocked, Unlocked, AtlantisLockTimeout,
    PlanExhausted, ParkPlan, PlanSucceeded, Destructive, Verified, ApprovePr, PollApproval,
    PollApply, ApplyExhausted, ApplySucceeded, CheckFresh, MergePull, MergeFailed, MergeConflict,
    Replan, WaitMerge, BackFromMerge, CoordinatorResolves, AutomergeFails, BaseMoves, HumanPush,
    HumanApproves, HumanEnds, Namesake, deployment, atlantis
  <1> QED
    BY <1>2, <1>3, <1>4 DEF Next, Deployment, Outside

\* The attempts.
LEMMA AttemptType ==
  ASSUME TypeOK, Next
  PROVE  attempt' \in Nat
  <1>1. attempt \in Nat
    BY TypeIs
  <1>2. CASE RetryPlan \/ PlanExhausted \/ Destructive \/ Approved \/ RetryApply \/
             ApplyExhausted \/ ApplySucceeded \/ MergePull \/ MergeFailed \/ Replan \/
             BackFromMerge
    BY <1>1, StagesAssumption, <1>2 DEF RetryPlan, PostPlan, Ask, PlanExhausted, Destructive,
    BackToPlan, Cutoff, Approved, PostApply, RetryApply, ApplyExhausted, ApplySucceeded,
    MergePull, MergeFailed, Replan, BackFromMerge
  <1>3. CASE CreatePr \/ SecondaryOnly \/ FailNoPr \/ FailPrClosed \/ FailManualCommit \/
             DeployMerged \/ FailStuck \/ PollPrState \/ PollPlan \/ PlanLocked \/ RepostPlan \/
             Unlocked \/ AtlantisLockTimeout \/ ParkPlan \/ PlanSucceeded \/ Verified \/
             ApprovePr \/ PollApproval \/ PollApply \/ CheckFresh \/ MergeStale \/
             MergeConflict \/ PlanResolved \/ WaitMerge \/ CoordinatorResolves \/
             AtlantisPlans \/ AtlantisApplies \/ AtlantisApplyFails \/ AutomergeFails \/
             BaseMoves \/ HumanPush \/ HumanApproves \/ HumanEnds \/
             Namesake
    BY <1>1, <1>3 DEF CreatePr, SecondaryOnly, End, FailNoPr, Fail, FailPrClosed,
    FailManualCommit, DeployMerged, FailStuck, PollPrState, PollPlan, PlanLocked, RepostPlan,
    Unlocked, AtlantisLockTimeout, ParkPlan, PlanSucceeded, Verified, ApprovePr, PollApproval,
    PollApply, CheckFresh, MergeStale, MergeConflict, PlanResolved, WaitMerge,
    CoordinatorResolves, AtlantisPlans, AtlantisApplies, AtlantisApplyFails, AutomergeFails,
    BaseMoves, HumanPush, HumanApproves, HumanEnds, Namesake, deployment, atlantis
  <1> QED
    BY <1>2, <1>3 DEF Next, Deployment, Outside

\* Where the deployment is, and that it has a result exactly when it has ended.
LEMMA StepType ==
  ASSUME TypeOK, Next
  PROVE  step' \in Step /\ result' \in Results /\ ((result' # "none") <=> Over')
  <1>1. step \in Step /\ result \in Results /\ ((result # "none") <=> step \in {"deployed", "failed"})
    BY TypeIs DEF Over
  <1>2. CASE Outside
    BY <1>1, <1>2 DEF Outside, CoordinatorResolves, AtlantisPlans, AtlantisApplies,
    AtlantisApplyFails, AutomergeFails, BaseMoves, HumanPush, HumanApproves, HumanEnds, Namesake,
    deployment, Over
  <1>3. CASE SecondaryOnly \/ FailNoPr \/ FailPrClosed \/ FailManualCommit \/ DeployMerged
             \/ FailStuck \/ AtlantisLockTimeout
    BY <1>3 DEF SecondaryOnly, FailNoPr, FailPrClosed, FailManualCommit, DeployMerged, FailStuck,
    AtlantisLockTimeout, End, Fail, Over, Step, Results
  <1>4. CASE CreatePr \/ PlanLocked \/ Unlocked \/ PlanExhausted \/ ParkPlan \/ PlanSucceeded
             \/ Destructive \/ Verified \/ Approved \/ ApplyExhausted \/ ApplySucceeded
             \/ CheckFresh \/ MergeStale \/ MergePull \/ MergeFailed \/ MergeConflict
             \/ PlanResolved \/ Replan \/ WaitMerge \/ BackFromMerge \/ RetryApply
    BY <1>1, <1>4 DEF CreatePr, PlanLocked, Unlocked, PlanExhausted, ParkPlan, PlanSucceeded,
    Destructive, Verified, Approved, ApplyExhausted, ApplySucceeded, CheckFresh, MergeStale,
    MergePull, MergeFailed, MergeConflict, PlanResolved, Replan, WaitMerge, BackFromMerge,
    RetryApply, PostApply, BackToPlan, Over, Step
  <1>5. CASE PollPrState \/ PollPlan \/ RepostPlan \/ RetryPlan \/ ApprovePr \/ PollApproval
             \/ PollApply
    BY <1>1, <1>5 DEF PollPrState, PollPlan, RepostPlan, RetryPlan, ApprovePr, PollApproval,
    PollApply, Over
  <1> QED
    BY <1>2, <1>3, <1>4, <1>5 DEF Next, Deployment

\* What is counted and remembered.
LEMMA HistoryType ==
  ASSUME TypeOK, Next
  PROVE  /\ queued' \in BOOLEAN /\ commands' \in 0 .. MaxOthers
         /\ namesakes' \in 0 .. MaxOthers
         /\ verified' \subseteq Nat /\ blind' \in BOOLEAN /\ unapplied' \in BOOLEAN
         /\ mishaps' \subseteq Mishap
  <1>1. /\ queued \in BOOLEAN /\ commands \in 0 .. MaxOthers
        /\ namesakes \in 0 .. MaxOthers
        /\ verified \subseteq Nat /\ blind \in BOOLEAN /\ unapplied \in BOOLEAN
        /\ mishaps \subseteq Mishap /\ plan.of \in Nat
    BY TypeIs, PlanFields
  <1>2. CASE Verified
    BY <1>1, <1>2 DEF Verified, Mishap
  <1>3. CASE PollPlan \/ PollApply
    BY <1>1, <1>3 DEF PollPlan, PollApply, Unanswered, Mishap
  <1>4. CASE CoordinatorResolves \/ AutomergeFails \/ HumanPush
    <2>1. /\ mishaps' \in {mishaps, mishaps \cup {"moved"}}
          /\ UNCHANGED <<commands, namesakes, verified, blind, unapplied>>
      BY <1>4 DEF CoordinatorResolves, AutomergeFails, HumanPush, history
    <2>2. queued' \in {queued, TRUE, FALSE}
      BY <1>4 DEF CoordinatorResolves, AutomergeFails, HumanPush
    <2> QED BY <1>1, <2>1, <2>2 DEF Mishap
  <1>5. CASE AtlantisPlans \/ AtlantisApplies \/ AtlantisApplyFails
    <2>1. commands' \in 0 .. MaxOthers
      <3>1. Command("plan") \/ Command("apply")
        BY <1>5 DEF AtlantisPlans, AtlantisApplies, AtlantisApplyFails
      <3>2. commands' = commands \/ (Others < MaxOthers /\ commands' = commands + 1)
        BY <3>1 DEF Command
      <3>3. commands \in 0 .. MaxOthers /\ namesakes \in 0 .. MaxOthers
        BY <1>1
      <3>4. MaxOthers \in Nat
        BY StagesAssumption
      <3>5. Others < MaxOthers => commands + namesakes < MaxOthers
        BY <3>3, <3>4 DEF Others
      <3> QED BY <3>2, <3>3, <3>4, <3>5
    <2>2. UNCHANGED <<queued, namesakes, verified, unapplied, mishaps>>
      BY <1>5 DEF AtlantisPlans, AtlantisApplies, AtlantisApplyFails, history
    <2>3. blind' \in BOOLEAN
      BY <1>1, <1>5 DEF AtlantisPlans, AtlantisApplies, AtlantisApplyFails, history
    <2> QED BY <1>1, <2>1, <2>2, <2>3
  <1>6. CASE MergePull
    BY <1>1, <1>6 DEF MergePull
  <1>7. CASE UNCHANGED <<queued, commands, history>>
    BY <1>1, <1>7 DEF history
  <1>8. CASE HumanApproves \/ HumanEnds \/ BaseMoves
    BY <1>7, <1>8 DEF HumanApproves, HumanEnds, BaseMoves
  <1>9. ASSUME Deployment, ~Verified, ~PollPlan, ~PollApply, ~MergePull
        PROVE  UNCHANGED <<queued, commands, history>>
    BY <1>9 DEF Deployment, CreatePr, SecondaryOnly, FailNoPr, FailPrClosed, FailManualCommit,
    DeployMerged, FailStuck, AtlantisLockTimeout, End, Fail, PollPrState, PlanLocked, RepostPlan,
    Unlocked, RetryPlan, PlanExhausted, ParkPlan, PlanSucceeded, Destructive, ApprovePr,
    PollApproval, Approved, RetryApply, ApplyExhausted, ApplySucceeded, CheckFresh, MergeStale,
    MergeFailed, MergeConflict, PlanResolved, Replan, WaitMerge, BackFromMerge
  <1>10. CASE Namesake
    <2>1. /\ namesakes' = namesakes + 1 /\ Others < MaxOthers
          /\ UNCHANGED <<queued, commands, verified, blind, unapplied>>
      BY <1>10 DEF Namesake
    <2>2. \/ mishaps' = mishaps
          \/ \E m \in {"their merge", "their close", "their approval", "their result"} :
               mishaps' = mishaps \cup {m}
      BY <1>10 DEF Namesake
    <2>3. commands \in Nat /\ namesakes \in Nat /\ MaxOthers \in Nat
      BY <1>1, StagesAssumption
    <2>4. namesakes' \in 0 .. MaxOthers
      BY <2>1, <2>3 DEF Others
    <2> QED BY <1>1, <2>1, <2>2, <2>4 DEF Mishap
  <1> QED
    BY <1>2, <1>3, <1>4, <1>5, <1>6, <1>7, <1>8, <1>9, <1>10 DEF Next, Outside

\* The deployment's fields keep their types, and it has a result exactly when it has ended,
\* for any numbers of retries, commits and commands (run, _result).
THEOREM TypeCorrect == Spec => []TypeOK
  <1>1. SInit => TypeOK
    <2>1. <<>> \in CommandSeq
      BY DEF CommandSeq
    <2> SUFFICES ASSUME SInit PROVE TypeOK
      OBVIOUS
    <2>2. flags \in FlagsSet /\ plan \in PlanSet /\ apply \in ApplySet
      BY DEF SInit, FlagsSet, PlanSet, ApplySet, Answer
    <2>3. pr \in PullSet
      BY DEF SInit, PullSet
    <2>4. /\ step \in Step /\ result \in Results /\ ((result # "none") <=> Over)
          /\ queued \in BOOLEAN /\ verified \subseteq Nat /\ blind \in BOOLEAN
          /\ unapplied \in BOOLEAN /\ mishaps \subseteq Mishap
      BY DEF SInit, Step, Results, Over
    <2>5. /\ attempt \in Nat /\ commands \in 0 .. MaxOthers /\ namesakes \in 0 .. MaxOthers
          /\ asked \in CommandSeq
      BY <2>1, StagesAssumption DEF SInit
    <2> QED BY <2>2, <2>3, <2>4, <2>5, TypeIs
  <1>2. TypeOK /\ [Next]_vars => TypeOK'
    <2>1. CASE UNCHANGED vars
      <3>1. /\ step' = step /\ result' = result /\ flags' = flags /\ attempt' = attempt
            /\ pr' = pr /\ plan' = plan /\ apply' = apply /\ asked' = asked
            /\ queued' = queued /\ commands' = commands /\ namesakes' = namesakes
            /\ verified' = verified
            /\ blind' = blind /\ unapplied' = unapplied /\ mishaps' = mishaps
        BY <2>1 DEF vars, deployment, atlantis, history
      <3> SUFFICES ASSUME TypeOK PROVE TypeOK'
        OBVIOUS
      <3>2. Over' = Over
        BY <3>1 DEF Over
      <3>3. flags' \in FlagsSet /\ pr' \in PullSet /\ plan' \in PlanSet /\ apply' \in ApplySet
            /\ asked' \in CommandSeq
        BY <3>1, TypeIs
      <3>4. /\ step' \in Step /\ result' \in Results /\ ((result' # "none") <=> Over')
            /\ attempt' \in Nat /\ queued' \in BOOLEAN /\ commands' \in 0 .. MaxOthers
            /\ namesakes' \in 0 .. MaxOthers
            /\ verified' \subseteq Nat /\ blind' \in BOOLEAN /\ unapplied' \in BOOLEAN
            /\ mishaps' \subseteq Mishap
        BY <3>1, <3>2, TypeIs
      <3> QED BY <3>3, <3>4 DEF TypeOK, FlagsSet, PullSet, PlanSet, ApplySet, CommandSeq
    <2>2. ASSUME TypeOK, Next PROVE TypeOK'
      BY <2>2, FlagsType, PullType, PlanType, ApplyType, AskedType, AttemptType, StepType, HistoryType
         DEF TypeOK, FlagsSet, PullSet, PlanSet, ApplySet, CommandSeq
    <2> QED BY <2>1, <2>2
  <1> QED BY <1>1, <1>2, PTL DEF Spec

-----------------------------------------------------------------------------
(* Mishaps and namesakes.                                                  *)

\* What explains a wrong step is not forgotten.
LEMMA NotForgotten ==
  ASSUME [Next]_vars
  PROVE  mishaps \subseteq mishaps'
  <1>1. CASE UNCHANGED vars
    BY <1>1 DEF vars, history
  <1>2. CASE Outside
    BY <1>2 DEF Outside, CoordinatorResolves, AtlantisPlans, AtlantisApplies, AtlantisApplyFails,
    AutomergeFails, BaseMoves, HumanPush, HumanApproves, HumanEnds, Namesake, history
  <1>3. CASE Verified \/ PollPlan \/ PollApply \/ MergePull
    BY <1>3 DEF Verified, PollPlan, PollApply, Unanswered, MergePull
  <1>4. ASSUME Deployment, ~Verified, ~PollPlan, ~PollApply, ~MergePull
        PROVE  UNCHANGED mishaps
    BY <1>4 DEF Deployment, CreatePr, SecondaryOnly, FailNoPr, FailPrClosed, FailManualCommit,
    DeployMerged, FailStuck, AtlantisLockTimeout, End, Fail, PollPrState, PlanLocked, RepostPlan,
    Unlocked, RetryPlan, PlanExhausted, ParkPlan, PlanSucceeded, Destructive, ApprovePr,
    PollApproval, Approved, RetryApply, ApplyExhausted, ApplySucceeded, CheckFresh, MergeStale,
    MergeFailed, MergeConflict, PlanResolved, Replan, WaitMerge, BackFromMerge, history
  <1> QED BY <1>1, <1>2, <1>3, <1>4 DEF Next

\* An event of a namesake touches the flags only, and what it is taken for is noted.
LEMMA OfNamesake ==
  ASSUME TypeOK, Namesake
  PROVE  /\ UNCHANGED <<step, result, attempt, pr, plan, apply, asked, verified, blind, unapplied>>
         /\ "their result" \notin mishaps' =>
              flags'.plan_result = flags.plan_result /\ flags'.apply_result = flags.apply_result
         /\ flags'.merged = flags.merged \/ "their merge" \in mishaps'
         /\ flags'.closed = flags.closed \/ "their close" \in mishaps'
         /\ flags'.approved = flags.approved \/ "their approval" \in mishaps'
  <1>1. flags \in FlagsSet
    BY TypeIs
  <1>2. UNCHANGED <<step, result, attempt, pr, plan, apply, asked, verified, blind, unapplied>>
    BY DEF Namesake, atlantis
  <1>3. \/ /\ \/ flags' = [flags EXCEPT !.merged = TRUE] /\ "their merge" \in mishaps'
              \/ flags' = [flags EXCEPT !.closed = TRUE] /\ "their close" \in mishaps'
              \/ flags' = [flags EXCEPT !.approved = TRUE] /\ "their approval" \in mishaps'
              \/ flags' = [flags EXCEPT !.manual = TRUE]
              \/ flags' = [flags EXCEPT !.conflict = TRUE]
        \/ /\ \/ \E a \in Answer : flags' = [flags EXCEPT !.plan_result = a]
              \/ \E a \in Answer : flags' = [flags EXCEPT !.apply_result = a]
           /\ "their result" \in mishaps'
    BY DEF Namesake, Answer
  <1> QED BY <1>1, <1>2, <1>3 DEF FlagsSet

-----------------------------------------------------------------------------
(* What is reported.                                                       *)

\* What signals and polls said of the pull request is so, and so is what was reported,
\* unless it was said of a namesake.
Reported ==
    /\ flags.merged => pr.state = "merged" \/ "their merge" \in mishaps
    /\ flags.closed => pr.state = "closed" \/ "their close" \in mishaps
    /\ step = "creating" => pr.state = "none"
    /\ result = "success" => pr.state \in {"none", "merged"} \/ "their merge" \in mishaps
    /\ result = "pr_closed" => pr.state = "closed" \/ "their close" \in mishaps

\* Kept by every step: an ended pull request stays as it is, and an end reads the flags.
LEMMA ReportedStep ==
  ASSUME TypeOK, Reported, Next
  PROVE  Reported'
  <1>1. /\ flags \in FlagsSet /\ pr \in PullSet /\ ((result # "none") <=> Over)
        /\ mishaps \subseteq mishaps'
    BY TypeIs, NotForgotten
  <1>2. CASE CreatePr
    BY <1>1, <1>2 DEF CreatePr, PostPlan, Ask, Reported, FlagsSet, PullSet, Over, deployment
  <1>3. CASE SecondaryOnly
    BY <1>1, <1>3 DEF SecondaryOnly, End, Reported, FlagsSet, PullSet, Over, deployment
  <1>4. CASE FailNoPr
    BY <1>1, <1>4 DEF FailNoPr, Fail, End, Reported, FlagsSet, PullSet, Over, deployment
  <1>5. CASE FailPrClosed
    BY <1>1, <1>5 DEF FailPrClosed, Fail, End, Reported, FlagsSet, PullSet, Over, deployment
  <1>6. CASE FailManualCommit
    BY <1>1, <1>6 DEF FailManualCommit, Fail, End, Reported, FlagsSet, PullSet, Over, deployment
  <1>7. CASE DeployMerged
    BY <1>1, <1>7 DEF DeployMerged, End, Reported, FlagsSet, PullSet, Over, deployment
  <1>8. CASE FailStuck
    BY <1>1, <1>8 DEF FailStuck, Fail, End, Reported, FlagsSet, PullSet, Over, deployment
  <1>9. CASE PollPrState
    BY <1>1, <1>9 DEF PollPrState, Reported, FlagsSet, PullSet, Over, deployment
  <1>10. CASE PollPlan
    BY <1>1, <1>10 DEF PollPlan, Unanswered, Reported, FlagsSet, PullSet, Over, deployment
  <1>11. CASE PlanLocked
    BY <1>1, <1>11 DEF PlanLocked, Reported, FlagsSet, PullSet, Over, deployment
  <1>12. CASE RepostPlan
    BY <1>1, <1>12 DEF RepostPlan, PostPlan, Ask, Reported, FlagsSet, PullSet, Over, deployment
  <1>13. CASE Unlocked
    BY <1>1, <1>13 DEF Unlocked, Reported, FlagsSet, PullSet, Over, deployment
  <1>14. CASE AtlantisLockTimeout
    BY <1>1, <1>14 DEF AtlantisLockTimeout, End, Reported, FlagsSet, PullSet, Over, deployment
  <1>15. CASE RetryPlan
    BY <1>1, <1>15 DEF RetryPlan, PostPlan, Ask, Reported, FlagsSet, PullSet, Over, deployment
  <1>16. CASE PlanExhausted
    BY <1>1, <1>16 DEF PlanExhausted, Reported, FlagsSet, PullSet, Over, deployment
  <1>17. CASE ParkPlan
    BY <1>1, <1>17 DEF ParkPlan, Cutoff, Reported, FlagsSet, PullSet, Over, deployment
  <1>18. CASE PlanSucceeded
    BY <1>1, <1>18 DEF PlanSucceeded, Reported, FlagsSet, PullSet, Over, deployment
  <1>19. CASE Destructive
    BY <1>1, <1>19 DEF Destructive, BackToPlan, Cutoff, Reported, FlagsSet, PullSet, Over,
    deployment
  <1>20. CASE Verified
    BY <1>1, <1>20 DEF Verified, Reported, FlagsSet, PullSet, Over, deployment
  <1>21. CASE ApprovePr
    BY <1>1, <1>21 DEF ApprovePr, Reported, FlagsSet, PullSet, Over, deployment
  <1>22. CASE PollApproval
    BY <1>1, <1>22 DEF PollApproval, Reported, FlagsSet, PullSet, Over, deployment
  <1>23. CASE Approved
    BY <1>1, <1>23 DEF Approved, PostApply, Ask, Reported, FlagsSet, PullSet, Over, deployment
  <1>24. CASE PollApply
    BY <1>1, <1>24 DEF PollApply, Unanswered, Reported, FlagsSet, PullSet, Over, deployment
  <1>25. CASE RetryApply
    BY <1>1, <1>25 DEF RetryApply, PostApply, Ask, Reported, FlagsSet, PullSet, Over, deployment
  <1>26. CASE ApplyExhausted
    BY <1>1, <1>26 DEF ApplyExhausted, BackToPlan, Cutoff, Reported, FlagsSet, PullSet, Over,
    deployment
  <1>27. CASE ApplySucceeded
    BY <1>1, <1>27 DEF ApplySucceeded, Reported, FlagsSet, PullSet, Over, deployment
  <1>28. CASE CheckFresh
    BY <1>1, <1>28 DEF CheckFresh, Reported, FlagsSet, PullSet, Over, deployment
  <1>29. CASE MergeStale
    BY <1>1, <1>29 DEF MergeStale, PostPlan, Ask, Reported, FlagsSet, PullSet, Over, deployment
  <1>30. CASE MergePull
    BY <1>1, <1>30 DEF MergePull, Reported, FlagsSet, PullSet, Over, deployment
  <1>31. CASE MergeFailed
    BY <1>1, <1>31 DEF MergeFailed, Reported, FlagsSet, PullSet, Over, deployment
  <1>32. CASE MergeConflict
    BY <1>1, <1>32 DEF MergeConflict, Resolved, Reported, FlagsSet, PullSet, Over, deployment
  <1>33. CASE PlanResolved
    BY <1>1, <1>33 DEF PlanResolved, PostPlan, Ask, Reported, FlagsSet, PullSet, Over, deployment
  <1>34. CASE Replan
    BY <1>1, <1>34 DEF Replan, BackToPlan, Cutoff, Reported, FlagsSet, PullSet, Over, deployment
  <1>35. CASE WaitMerge
    BY <1>1, <1>35 DEF WaitMerge, Reported, FlagsSet, PullSet, Over, deployment
  <1>36. CASE BackFromMerge
    BY <1>1, <1>36 DEF BackFromMerge, BackToPlan, Reported, FlagsSet, PullSet, Over, deployment
  <1>37. CASE CoordinatorResolves
    BY <1>1, <1>37 DEF CoordinatorResolves, Resolved, Reported, FlagsSet, PullSet, Over,
    deployment
  <1>38. CASE AtlantisPlans
    BY <1>1, <1>38 DEF AtlantisPlans, Command, Result, Reported, FlagsSet, PullSet, Over,
    deployment
  <1>39. CASE AtlantisApplies
    BY <1>1, <1>39 DEF AtlantisApplies, Command, Result, Reported, FlagsSet, PullSet, Over,
    deployment
  <1>40. CASE AtlantisApplyFails
    BY <1>1, <1>40 DEF AtlantisApplyFails, Command, Result, Reported, FlagsSet, PullSet, Over,
    deployment
  <1>41. CASE AutomergeFails
    BY <1>1, <1>41 DEF AutomergeFails, Reported, FlagsSet, PullSet, Over, deployment
  <1>42. CASE BaseMoves
    BY <1>1, <1>42 DEF BaseMoves, Reported, FlagsSet, PullSet, Over, deployment
  <1>43. CASE HumanPush
    BY <1>1, <1>43 DEF HumanPush, Signal, Reported, FlagsSet, PullSet, Over, deployment
  <1>44. CASE HumanApproves
    BY <1>1, <1>44 DEF HumanApproves, Signal, Reported, FlagsSet, PullSet, Over, deployment
  <1>45. CASE HumanEnds
    BY <1>1, <1>45 DEF HumanEnds, Signal, Reported, FlagsSet, PullSet, Over, deployment
  <1>46. CASE Namesake
    BY <1>1, <1>46, OfNamesake DEF Reported
  <1> QED
    BY <1>2, <1>3, <1>4, <1>5, <1>6, <1>7, <1>8, <1>9, <1>10, <1>11, <1>12, <1>13, <1>14, <1>15,
    <1>16, <1>17, <1>18, <1>19, <1>20, <1>21, <1>22, <1>23, <1>24, <1>25, <1>26, <1>27, <1>28,
    <1>29, <1>30, <1>31, <1>32, <1>33, <1>34, <1>35, <1>36, <1>37, <1>38, <1>39, <1>40, <1>41,
    <1>42, <1>43, <1>44, <1>45, <1>46 DEF Next, Deployment, Outside


\* A deployment reported as a success is merged, or had no pull request, and one that reports
\* its pull request closed did not deploy it (the ends of run, poll_pr_state and the signals of
\* _signal_temporal_by_pr): unless the merge or the close it was told of is a namesake's.
THEOREM EndsProved == Spec => []EndsTruthfully
  <1>1. SInit => Reported
    BY DEF SInit, Reported
  <1>2. TypeOK /\ Reported /\ [Next]_vars => Reported'
    <2>1. CASE UNCHANGED vars
      BY <2>1 DEF vars, deployment, history, Reported
    <2> QED BY <2>1, ReportedStep
  <1>3. Reported => EndsTruthfully
    BY DEF Reported, EndsTruthfully
  <1> QED BY <1>1, <1>2, <1>3, TypeCorrect, PTL DEF Spec

-----------------------------------------------------------------------------
(* Commands and their answers.                                             *)

\* The commands of humans are counted from zero.
LEMMA CommandsCounted ==
  ASSUME TypeOK
  PROVE  commands \in Nat
  <1>1. commands \in 0 .. MaxOthers
    BY TypeIs
  <1> QED BY <1>1, StagesAssumption

\* Commands are counted, and what explains a wrong step is not forgotten.
LEMMA WithoutBefore ==
  ASSUME TypeOK, [Next]_vars, NEW ms, Without(ms)'
  PROVE  Without(ms)
  <1>1. commands \in Nat
    BY CommandsCounted
  <1>2. mishaps \subseteq mishaps'
    BY NotForgotten
  <1>3. CASE UNCHANGED commands
    BY <1>2, <1>3 DEF Without
  <1>4. CASE UNCHANGED vars
    BY <1>3, <1>4 DEF vars
  <1>5. CASE AtlantisPlans \/ AtlantisApplies \/ AtlantisApplyFails
    <2>1. Command("plan") \/ Command("apply")
      BY <1>5 DEF AtlantisPlans, AtlantisApplies, AtlantisApplyFails
    <2>2. commands' = commands \/ commands' = commands + 1
      BY <2>1 DEF Command
    <2>3. commands' = 0
      BY DEF Without
    <2> QED BY <1>1, <1>3, <2>2, <2>3
  <1>6. CASE \/ CoordinatorResolves \/ AutomergeFails \/ BaseMoves
             \/ HumanPush \/ HumanApproves \/ HumanEnds \/ Namesake
    BY <1>3, <1>6 DEF CoordinatorResolves, AutomergeFails, BaseMoves, HumanPush, HumanApproves,
    HumanEnds, Namesake
  <1>7. ASSUME Deployment
        PROVE  UNCHANGED commands
    BY <1>7 DEF Deployment, CreatePr, SecondaryOnly, FailNoPr, FailPrClosed, FailManualCommit,
    DeployMerged, FailStuck, AtlantisLockTimeout, End, Fail, PollPrState, PlanLocked, RepostPlan,
    Unlocked, RetryPlan, PlanExhausted, ParkPlan, PlanSucceeded, Destructive, ApprovePr,
    PollApproval, Approved, RetryApply, ApplyExhausted, ApplySucceeded, CheckFresh, MergeStale,
    MergeFailed, MergeConflict, PlanResolved, Replan, WaitMerge, BackFromMerge, Verified,
    PollPlan, PollApply, MergePull
  <1> QED
    BY <1>3, <1>4, <1>5, <1>6, <1>7 DEF Next, Outside

\* A command posted when no other is on its way is the only one.
LEMMA OneAsked ==
  /\ asked \in {<<>>, <<"plan">>} /\ Ask("plan") => asked' = <<"plan">>
  /\ asked \in {<<>>, <<"apply">>} /\ Ask("apply") => asked' = <<"apply">>
  <1>1. ASSUME NEW c, asked \in {<<>>, <<c>>}, Ask(c)
        PROVE  asked' = <<c>>
    <2>1. <<c>> # <<>> /\ Last(<<c>>) = c /\ Append(<<>>, c) = <<c>>
      BY DEF Last
    <2>2. CASE asked = <<>>
      BY <1>1, <2>1, <2>2 DEF Ask
    <2>3. CASE asked = <<c>>
      BY <1>1, <2>1, <2>3 DEF Ask
    <2> QED BY <1>1, <2>2, <2>3
  <1> QED BY <1>1

\* The sequences of one command, for provers that do not take sequences apart.
LEMMA OneCommand ==
  /\ <<"plan">> # <<"apply">> /\ <<"plan">> # <<>> /\ <<"apply">> # <<>>
  /\ Contains(<<"apply">>, "apply") /\ ~Contains(<<>>, "apply")
  <1>1. /\ <<"plan">>[1] = "plan" /\ <<"apply">>[1] = "apply"
        /\ Len(<<"plan">>) = 1 /\ Len(<<"apply">>) = 1 /\ Len(<<>>) = 0
    OBVIOUS
  <1> QED BY <1>1 DEF Contains

\* Without commands of humans, Atlantis takes the one that is on its way.
LEMMA Taken ==
  ASSUME asked \in {<<>>, <<"plan">>, <<"apply">>}, commands \in Nat, NEW c, Command(c), commands' = 0
  PROVE  asked = <<c>> /\ asked' = <<>>
  <1>1. asked # <<>> /\ Head(asked) = c /\ asked' = Tail(asked)
    BY DEF Command
  <1> QED BY <1>1


\* While no answer was taken for another's and no human gave commands: at most one
\* command is on its way, a plan in a step that waits for it or an apply in the one that
\* does, and an approval the deployment knows of is one GitHub has, or a namesake's.
Calm ==
    /\ asked \in {<<>>, <<"plan">>, <<"apply">>}
    /\ step = "creating" => asked = <<>> /\ flags.plan_result = "none"
    /\ asked = <<"plan">> =>
         /\ ~plan.answered
         /\ \/ step \in {"planning", "locked"} /\ flags.plan_result = "none"
            \/ step \in {"replanning", "deployed", "failed"}
    /\ asked = <<"apply">> =>
         \/ step = "applying" /\ flags.apply_result = "none"
         \/ step \in {"deployed", "failed"}
    /\ step = "approving" /\ flags.approved => pr.approved \/ "their approval" \in mishaps

\* A plan is posted only where no apply is on its way, and the other way round; Verified
\* forgets the approval the plan before it discarded.
LEMMA CalmStep ==
  ASSUME TypeOK, Calm, Next, Without({"old result"})'
  PROVE  Calm'
  <1>1. /\ flags \in FlagsSet /\ pr \in PullSet /\ plan \in PlanSet
        /\ asked \in {<<>>, <<"plan">>, <<"apply">>} /\ commands' = 0
        /\ "old result" \notin mishaps' /\ "their result" \notin mishaps'
        /\ mishaps \subseteq mishaps'
    BY TypeIs, NotForgotten DEF Calm, Without
  <1>2. commands \in Nat
    BY CommandsCounted
  <1>3. CASE CreatePr
    BY <1>1, OneCommand, OneAsked, <1>3 DEF CreatePr, PostPlan, Calm, FlagsSet, PullSet, PlanSet,
    Over, deployment, atlantis
  <1>4. CASE SecondaryOnly
    BY <1>1, OneCommand, <1>4 DEF SecondaryOnly, End, Calm, FlagsSet, PullSet, PlanSet, Over,
    deployment, atlantis
  <1>5. CASE FailNoPr
    BY <1>1, OneCommand, <1>5 DEF FailNoPr, Fail, End, Calm, FlagsSet, PullSet, PlanSet, Over,
    deployment, atlantis
  <1>6. CASE FailPrClosed
    BY <1>1, OneCommand, <1>6 DEF FailPrClosed, Fail, End, Calm, FlagsSet, PullSet, PlanSet, Over,
    deployment, atlantis
  <1>7. CASE FailManualCommit
    BY <1>1, OneCommand, <1>7 DEF FailManualCommit, Fail, End, Calm, FlagsSet, PullSet, PlanSet,
    Over, deployment, atlantis
  <1>8. CASE DeployMerged
    BY <1>1, OneCommand, <1>8 DEF DeployMerged, End, Calm, FlagsSet, PullSet, PlanSet, Over,
    deployment, atlantis
  <1>9. CASE FailStuck
    BY <1>1, OneCommand, <1>9 DEF FailStuck, Fail, End, Calm, FlagsSet, PullSet, PlanSet, Over,
    deployment, atlantis
  <1>10. CASE PollPrState
    BY <1>1, OneCommand, <1>10 DEF PollPrState, Calm, FlagsSet, PullSet, PlanSet, Over,
    deployment, atlantis
  <1>11. CASE PollPlan
    BY <1>1, OneCommand, <1>11 DEF PollPlan, Unanswered, Calm, FlagsSet, PullSet, PlanSet, Over,
    deployment, atlantis
  <1>12. CASE PlanLocked
    BY <1>1, OneCommand, <1>12 DEF PlanLocked, Calm, FlagsSet, PullSet, PlanSet, Over, deployment,
    atlantis
  <1>13. CASE RepostPlan
    BY <1>1, OneCommand, OneAsked, <1>13 DEF RepostPlan, PostPlan, Calm, FlagsSet, PullSet,
    PlanSet, Over, deployment, atlantis
  <1>14. CASE Unlocked
    BY <1>1, OneCommand, <1>14 DEF Unlocked, Calm, FlagsSet, PullSet, PlanSet, Over, deployment,
    atlantis
  <1>15. CASE AtlantisLockTimeout
    BY <1>1, OneCommand, <1>15 DEF AtlantisLockTimeout, End, Calm, FlagsSet, PullSet, PlanSet,
    Over, deployment, atlantis
  <1>16. CASE RetryPlan
    BY <1>1, OneCommand, OneAsked, <1>16 DEF RetryPlan, PostPlan, Calm, FlagsSet, PullSet,
    PlanSet, Over, deployment, atlantis
  <1>17. CASE PlanExhausted
    BY <1>1, OneCommand, <1>17 DEF PlanExhausted, Calm, FlagsSet, PullSet, PlanSet, Over,
    deployment, atlantis
  <1>18. CASE ParkPlan
    BY <1>1, OneCommand, <1>18 DEF ParkPlan, Cutoff, Calm, FlagsSet, PullSet, PlanSet, Over,
    deployment, atlantis
  <1>19. CASE PlanSucceeded
    BY <1>1, OneCommand, <1>19 DEF PlanSucceeded, Calm, FlagsSet, PullSet, PlanSet, Over,
    deployment, atlantis
  <1>20. CASE Destructive
    BY <1>1, OneCommand, <1>20 DEF Destructive, BackToPlan, Cutoff, Calm, FlagsSet, PullSet,
    PlanSet, Over, deployment, atlantis
  <1>21. CASE Verified
    BY <1>1, OneCommand, <1>21 DEF Verified, Calm, FlagsSet, PullSet, PlanSet, Over, deployment,
    atlantis
  <1>22. CASE ApprovePr
    BY <1>1, OneCommand, <1>22 DEF ApprovePr, Calm, FlagsSet, PullSet, PlanSet, Over, deployment,
    atlantis
  <1>23. CASE PollApproval
    BY <1>1, OneCommand, <1>23 DEF PollApproval, Calm, FlagsSet, PullSet, PlanSet, Over,
    deployment, atlantis
  <1>24. CASE Approved
    BY <1>1, OneCommand, OneAsked, <1>24 DEF Approved, PostApply, Calm, FlagsSet, PullSet,
    PlanSet, Over, deployment, atlantis
  <1>25. CASE PollApply
    BY <1>1, OneCommand, <1>25 DEF PollApply, Unanswered, Calm, FlagsSet, PullSet, PlanSet, Over,
    deployment, atlantis
  <1>26. CASE RetryApply
    BY <1>1, OneCommand, OneAsked, <1>26 DEF RetryApply, PostApply, Calm, FlagsSet, PullSet,
    PlanSet, Over, deployment, atlantis
  <1>27. CASE ApplyExhausted
    BY <1>1, OneCommand, <1>27 DEF ApplyExhausted, BackToPlan, Cutoff, Calm, FlagsSet, PullSet,
    PlanSet, Over, deployment, atlantis
  <1>28. CASE ApplySucceeded
    BY <1>1, OneCommand, <1>28 DEF ApplySucceeded, Calm, FlagsSet, PullSet, PlanSet, Over,
    deployment, atlantis
  <1>29. CASE CheckFresh
    BY <1>1, OneCommand, <1>29 DEF CheckFresh, Calm, FlagsSet, PullSet, PlanSet, Over, deployment,
    atlantis
  <1>30. CASE MergeStale
    BY <1>1, OneCommand, OneAsked, <1>30 DEF MergeStale, PostPlan, Calm, FlagsSet, PullSet,
    PlanSet, Over, deployment, atlantis
  <1>31. CASE MergePull
    BY <1>1, OneCommand, <1>31 DEF MergePull, Calm, FlagsSet, PullSet, PlanSet, Over, deployment,
    atlantis
  <1>32. CASE MergeFailed
    BY <1>1, OneCommand, <1>32 DEF MergeFailed, Calm, FlagsSet, PullSet, PlanSet, Over,
    deployment, atlantis
  <1>33. CASE MergeConflict
    BY <1>1, OneCommand, <1>33 DEF MergeConflict, Resolved, Calm, FlagsSet, PullSet, PlanSet,
    Over, deployment, atlantis
  <1>34. CASE PlanResolved
    BY <1>1, OneCommand, OneAsked, <1>34 DEF PlanResolved, PostPlan, Calm, FlagsSet, PullSet,
    PlanSet, Over, deployment, atlantis
  <1>35. CASE Replan
    BY <1>1, OneCommand, <1>35 DEF Replan, BackToPlan, Cutoff, Calm, FlagsSet, PullSet, PlanSet,
    Over, deployment, atlantis
  <1>36. CASE WaitMerge
    BY <1>1, OneCommand, <1>36 DEF WaitMerge, Calm, FlagsSet, PullSet, PlanSet, Over, deployment,
    atlantis
  <1>37. CASE BackFromMerge
    BY <1>1, OneCommand, <1>37 DEF BackFromMerge, BackToPlan, Calm, FlagsSet, PullSet, PlanSet,
    Over, deployment, atlantis
  <1>38. CASE CoordinatorResolves
    BY <1>1, OneCommand, <1>38 DEF CoordinatorResolves, Resolved, Calm, FlagsSet, PullSet,
    PlanSet, Over, deployment, atlantis
  <1>39. CASE AtlantisPlans
    BY <1>1, OneCommand, <1>2, Taken, <1>39 DEF AtlantisPlans, Result, Calm, FlagsSet, PullSet,
    PlanSet, Over, deployment, atlantis
  <1>40. CASE AtlantisApplies
    BY <1>1, OneCommand, <1>2, Taken, <1>40 DEF AtlantisApplies, Result, Calm, FlagsSet, PullSet,
    PlanSet, Over, deployment, atlantis
  <1>41. CASE AtlantisApplyFails
    BY <1>1, OneCommand, <1>2, Taken, <1>41 DEF AtlantisApplyFails, Result, Calm, FlagsSet,
    PullSet, PlanSet, Over, deployment, atlantis
  <1>42. CASE AutomergeFails
    BY <1>1, OneCommand, <1>42 DEF AutomergeFails, Calm, FlagsSet, PullSet, PlanSet, Over,
    deployment, atlantis
  <1>43. CASE BaseMoves
    BY <1>1, OneCommand, <1>43 DEF BaseMoves, Calm, FlagsSet, PullSet, PlanSet, Over, deployment,
    atlantis
  <1>44. CASE HumanPush
    <2>1. /\ flags' = flags \/ flags' = [flags EXCEPT !.manual = TRUE]
          /\ pr'.approved = pr.approved /\ UNCHANGED <<step, plan, asked>>
      BY <1>1, <1>44 DEF HumanPush, Signal, PullSet, atlantis
    <2> QED BY <1>1, <2>1 DEF Calm, FlagsSet
  <1>45. CASE HumanApproves
    BY <1>1, OneCommand, <1>45 DEF HumanApproves, Signal, Calm, FlagsSet, PullSet, PlanSet, Over,
    deployment, atlantis
  <1>46. CASE HumanEnds
    <2>1. /\ \/ flags' = flags
             \/ flags' = [flags EXCEPT !.merged = TRUE]
             \/ flags' = [flags EXCEPT !.closed = TRUE]
          /\ pr'.approved = pr.approved /\ UNCHANGED <<step, plan, asked>>
      BY <1>1, <1>46 DEF HumanEnds, Signal, PullSet, atlantis
    <2> QED BY <1>1, <2>1 DEF Calm, FlagsSet
  <1>47. CASE Namesake
    BY <1>1, OfNamesake, <1>47 DEF Calm
  <1> QED
    BY <1>3, <1>4, <1>5, <1>6, <1>7, <1>8, <1>9, <1>10, <1>11, <1>12, <1>13, <1>14, <1>15, <1>16,
    <1>17, <1>18, <1>19, <1>20, <1>21, <1>22, <1>23, <1>24, <1>25, <1>26, <1>27, <1>28, <1>29,
    <1>30, <1>31, <1>32, <1>33, <1>34, <1>35, <1>36, <1>37, <1>38, <1>39, <1>40, <1>41, <1>42,
    <1>43, <1>44, <1>45, <1>46, <1>47 DEF Next, Deployment, Outside


-----------------------------------------------------------------------------
(* What is merged.                                                         *)

\* While the branch does not move unseen, too: a branch that is not stale has the content of
\* the plan file, and after the apply that of the infrastructure.
Level == ~pr.stale => apply.live = pr.head

Settled ==
    /\ step = "creating" => plan.file = 0
    /\ ~pr.stale => plan.file \in {0, pr.head}
    /\ step = "applying" /\ asked = <<>> /\ apply.newest = "success" => Level
    /\ step = "applying" /\ flags.apply_result = "success" => apply.newest = "success"
    /\ step \in {"merging", "checked"} => Level
    /\ step = "checked" => ~pr.stale
    /\ ~unapplied

\* A plan that succeeds makes the branch fresh and is the plan file; an apply takes it.
LEMMA SettledStep ==
  ASSUME TypeOK, Calm, Settled, Next, Without({"old result", "moved"})'
  PROVE  Settled'
  <1>1. /\ flags \in FlagsSet /\ pr \in PullSet /\ plan \in PlanSet /\ apply \in ApplySet
        /\ asked \in {<<>>, <<"plan">>, <<"apply">>} /\ commands' = 0
        /\ mishaps' \cap {"old result", "moved", "their result"} = {}
    BY TypeIs DEF Calm, Without
  <1>2. commands \in Nat
    BY CommandsCounted
  <1>3. CASE CreatePr
    BY <1>1, OneCommand, OneAsked, <1>3 DEF CreatePr, PostPlan, Calm, Settled, Level, history,
    FlagsSet, PullSet, PlanSet, ApplySet, Over, deployment, atlantis
  <1>4. CASE SecondaryOnly
    BY <1>1, OneCommand, <1>4 DEF SecondaryOnly, End, Calm, Settled, Level, history, FlagsSet,
    PullSet, PlanSet, ApplySet, Over, deployment, atlantis
  <1>5. CASE FailNoPr
    BY <1>1, OneCommand, <1>5 DEF FailNoPr, Fail, End, Calm, Settled, Level, history, FlagsSet,
    PullSet, PlanSet, ApplySet, Over, deployment, atlantis
  <1>6. CASE FailPrClosed
    BY <1>1, OneCommand, <1>6 DEF FailPrClosed, Fail, End, Calm, Settled, Level, history,
    FlagsSet, PullSet, PlanSet, ApplySet, Over, deployment, atlantis
  <1>7. CASE FailManualCommit
    BY <1>1, OneCommand, <1>7 DEF FailManualCommit, Fail, End, Calm, Settled, Level, history,
    FlagsSet, PullSet, PlanSet, ApplySet, Over, deployment, atlantis
  <1>8. CASE DeployMerged
    BY <1>1, OneCommand, <1>8 DEF DeployMerged, End, Calm, Settled, Level, history, FlagsSet,
    PullSet, PlanSet, ApplySet, Over, deployment, atlantis
  <1>9. CASE FailStuck
    BY <1>1, OneCommand, <1>9 DEF FailStuck, Fail, End, Calm, Settled, Level, history, FlagsSet,
    PullSet, PlanSet, ApplySet, Over, deployment, atlantis
  <1>10. CASE PollPrState
    BY <1>1, OneCommand, <1>10 DEF PollPrState, Calm, Settled, Level, history, FlagsSet, PullSet,
    PlanSet, ApplySet, Over, deployment, atlantis
  <1>11. CASE PollPlan
    BY <1>1, OneCommand, <1>11 DEF PollPlan, Unanswered, Calm, Settled, Level, history, FlagsSet,
    PullSet, PlanSet, ApplySet, Over, deployment, atlantis
  <1>12. CASE PlanLocked
    BY <1>1, OneCommand, <1>12 DEF PlanLocked, Calm, Settled, Level, history, FlagsSet, PullSet,
    PlanSet, ApplySet, Over, deployment, atlantis
  <1>13. CASE RepostPlan
    BY <1>1, OneCommand, OneAsked, <1>13 DEF RepostPlan, PostPlan, Calm, Settled, Level, history,
    FlagsSet, PullSet, PlanSet, ApplySet, Over, deployment, atlantis
  <1>14. CASE Unlocked
    BY <1>1, OneCommand, <1>14 DEF Unlocked, Calm, Settled, Level, history, FlagsSet, PullSet,
    PlanSet, ApplySet, Over, deployment, atlantis
  <1>15. CASE AtlantisLockTimeout
    BY <1>1, OneCommand, <1>15 DEF AtlantisLockTimeout, End, Calm, Settled, Level, history,
    FlagsSet, PullSet, PlanSet, ApplySet, Over, deployment, atlantis
  <1>16. CASE RetryPlan
    BY <1>1, OneCommand, OneAsked, <1>16 DEF RetryPlan, PostPlan, Calm, Settled, Level, history,
    FlagsSet, PullSet, PlanSet, ApplySet, Over, deployment, atlantis
  <1>17. CASE PlanExhausted
    BY <1>1, OneCommand, <1>17 DEF PlanExhausted, Calm, Settled, Level, history, FlagsSet,
    PullSet, PlanSet, ApplySet, Over, deployment, atlantis
  <1>18. CASE ParkPlan
    BY <1>1, OneCommand, <1>18 DEF ParkPlan, Cutoff, Calm, Settled, Level, history, FlagsSet,
    PullSet, PlanSet, ApplySet, Over, deployment, atlantis
  <1>19. CASE PlanSucceeded
    BY <1>1, OneCommand, <1>19 DEF PlanSucceeded, Calm, Settled, Level, history, FlagsSet,
    PullSet, PlanSet, ApplySet, Over, deployment, atlantis
  <1>20. CASE Destructive
    BY <1>1, OneCommand, <1>20 DEF Destructive, BackToPlan, Cutoff, Calm, Settled, Level, history,
    FlagsSet, PullSet, PlanSet, ApplySet, Over, deployment, atlantis
  <1>21. CASE Verified
    BY <1>1, OneCommand, <1>21 DEF Verified, Calm, Settled, Level, history, FlagsSet, PullSet,
    PlanSet, ApplySet, Over, deployment, atlantis
  <1>22. CASE ApprovePr
    BY <1>1, OneCommand, <1>22 DEF ApprovePr, Calm, Settled, Level, history, FlagsSet, PullSet,
    PlanSet, ApplySet, Over, deployment, atlantis
  <1>23. CASE PollApproval
    BY <1>1, OneCommand, <1>23 DEF PollApproval, Calm, Settled, Level, history, FlagsSet, PullSet,
    PlanSet, ApplySet, Over, deployment, atlantis
  <1>24. CASE Approved
    BY <1>1, OneCommand, OneAsked, <1>24 DEF Approved, PostApply, Calm, Settled, Level, history,
    FlagsSet, PullSet, PlanSet, ApplySet, Over, deployment, atlantis
  <1>25. CASE PollApply
    BY <1>1, OneCommand, <1>25 DEF PollApply, Unanswered, Calm, Settled, Level, history, FlagsSet,
    PullSet, PlanSet, ApplySet, Over, deployment, atlantis
  <1>26. CASE RetryApply
    BY <1>1, OneCommand, OneAsked, <1>26 DEF RetryApply, PostApply, Calm, Settled, Level, history,
    FlagsSet, PullSet, PlanSet, ApplySet, Over, deployment, atlantis
  <1>27. CASE ApplyExhausted
    BY <1>1, OneCommand, <1>27 DEF ApplyExhausted, BackToPlan, Cutoff, Calm, Settled, Level,
    history, FlagsSet, PullSet, PlanSet, ApplySet, Over, deployment, atlantis
  <1>28. CASE ApplySucceeded
    BY <1>1, OneCommand, <1>28 DEF ApplySucceeded, Calm, Settled, Level, history, FlagsSet,
    PullSet, PlanSet, ApplySet, Over, deployment, atlantis
  <1>29. CASE CheckFresh
    BY <1>1, OneCommand, <1>29 DEF CheckFresh, Calm, Settled, Level, history, FlagsSet, PullSet,
    PlanSet, ApplySet, Over, deployment, atlantis
  <1>30. CASE MergeStale
    BY <1>1, OneCommand, OneAsked, <1>30 DEF MergeStale, PostPlan, Calm, Settled, Level, history,
    FlagsSet, PullSet, PlanSet, ApplySet, Over, deployment, atlantis
  <1>31. CASE MergePull
    BY <1>1, OneCommand, <1>31 DEF MergePull, Calm, Settled, Level, history, FlagsSet, PullSet,
    PlanSet, ApplySet, Over, deployment, atlantis
  <1>32. CASE MergeFailed
    BY <1>1, OneCommand, <1>32 DEF MergeFailed, Calm, Settled, Level, history, FlagsSet, PullSet,
    PlanSet, ApplySet, Over, deployment, atlantis
  <1>33. CASE MergeConflict
    BY <1>1, OneCommand, <1>33 DEF MergeConflict, Resolved, Calm, Settled, Level, history,
    FlagsSet, PullSet, PlanSet, ApplySet, Over, deployment, atlantis
  <1>34. CASE PlanResolved
    BY <1>1, OneCommand, OneAsked, <1>34 DEF PlanResolved, PostPlan, Calm, Settled, Level,
    history, FlagsSet, PullSet, PlanSet, ApplySet, Over, deployment, atlantis
  <1>35. CASE Replan
    BY <1>1, OneCommand, <1>35 DEF Replan, BackToPlan, Cutoff, Calm, Settled, Level, history,
    FlagsSet, PullSet, PlanSet, ApplySet, Over, deployment, atlantis
  <1>36. CASE WaitMerge
    BY <1>1, OneCommand, <1>36 DEF WaitMerge, Calm, Settled, Level, history, FlagsSet, PullSet,
    PlanSet, ApplySet, Over, deployment, atlantis
  <1>37. CASE BackFromMerge
    BY <1>1, OneCommand, <1>37 DEF BackFromMerge, BackToPlan, Calm, Settled, Level, history,
    FlagsSet, PullSet, PlanSet, ApplySet, Over, deployment, atlantis
  <1>38. CASE CoordinatorResolves
    BY <1>1, OneCommand, <1>38 DEF CoordinatorResolves, Resolved, Calm, Settled, Level, history,
    FlagsSet, PullSet, PlanSet, ApplySet, Over, deployment, atlantis
  <1>39. CASE AtlantisPlans
    <2>1. asked = <<"plan">> /\ step \notin {"creating", "applying", "merging", "checked"}
      BY <1>1, <1>2, <1>39, Taken, OneCommand DEF AtlantisPlans, Calm, Command, Over
    <2>2. PICK a \in Answer \ {"none"} :
            /\ plan' = [plan EXCEPT
                 !.newest = a, !.fresh = TRUE, !.answered = TRUE,
                 !.good = plan.good \/ a = "success",
                 !.of = IF a = "success" THEN pr.head ELSE plan.of,
                 !.file = IF a = "success" THEN pr.head ELSE plan.file]
            /\ pr' = [pr EXCEPT !.approved = FALSE, !.stale = pr.stale /\ a # "success"]
      BY <1>39 DEF AtlantisPlans
    <2>3. /\ plan'.file = (IF a = "success" THEN pr.head ELSE plan.file)
          /\ pr'.head = pr.head /\ pr'.stale = (pr.stale /\ a # "success")
      BY <1>1, <2>2 DEF PlanSet, PullSet
    <2>4. step' = step /\ unapplied' = unapplied
      BY <1>39 DEF AtlantisPlans
    <2> QED BY <2>1, <2>3, <2>4 DEF Settled
  <1>40. CASE AtlantisApplies
    BY <1>1, OneCommand, <1>2, Taken, <1>40 DEF AtlantisApplies, Result, Calm, Settled, Level,
    history, FlagsSet, PullSet, PlanSet, ApplySet, Over, deployment, atlantis
  <1>41. CASE AtlantisApplyFails
    BY <1>1, OneCommand, <1>2, Taken, <1>41 DEF AtlantisApplyFails, Result, Calm, Settled, Level,
    history, FlagsSet, PullSet, PlanSet, ApplySet, Over, deployment, atlantis
  <1>42. CASE AutomergeFails
    BY <1>1, OneCommand, <1>42 DEF AutomergeFails, Calm, Settled, Level, history, FlagsSet,
    PullSet, PlanSet, ApplySet, Over, deployment, atlantis
  <1>43. CASE BaseMoves
    BY <1>1, OneCommand, <1>43 DEF BaseMoves, Calm, Settled, Level, history, FlagsSet, PullSet,
    PlanSet, ApplySet, Over, deployment, atlantis
  <1>44. CASE HumanPush
    <2>1. /\ flags' = flags \/ flags' = [flags EXCEPT !.manual = TRUE]
          /\ UNCHANGED <<step, plan, apply, asked, unapplied>>
      BY <1>44 DEF HumanPush, Signal, atlantis
    <2>2. step # "checked" /\ pr'.stale
      BY <1>1, <1>44 DEF HumanPush, PullSet
    <2>3. flags'.apply_result = flags.apply_result
      BY <1>1, <2>1 DEF FlagsSet
    <2>4. Level' /\ ~unapplied
      BY <2>2 DEF Settled, Level
    <2> QED BY <1>1, <2>1, <2>2, <2>3, <2>4 DEF Settled, Level
  <1>45. CASE HumanApproves
    BY <1>1, OneCommand, <1>45 DEF HumanApproves, Signal, Calm, Settled, Level, history, FlagsSet,
    PullSet, PlanSet, ApplySet, Over, deployment, atlantis
  <1>46. CASE HumanEnds
    <2>1. /\ \/ flags' = flags
             \/ flags' = [flags EXCEPT !.merged = TRUE]
             \/ flags' = [flags EXCEPT !.closed = TRUE]
          /\ \/ pr' = [pr EXCEPT !.state = "merged"]
             \/ pr' = [pr EXCEPT !.state = "closed"]
          /\ UNCHANGED <<step, plan, apply, asked, unapplied>>
      BY <1>46 DEF HumanEnds, Signal, history, atlantis
    <2>2. flags'.apply_result = flags.apply_result
      BY <1>1, <2>1 DEF FlagsSet
    <2>3. pr'.stale = pr.stale /\ pr'.head = pr.head
      BY <1>1, <2>1 DEF PullSet
    <2> QED
      BY <1>1, <2>1, <2>2, <2>3 DEF Settled, Level
  <1>47. CASE Namesake
    <2>1. /\ UNCHANGED <<step, attempt, pr, plan, apply, asked, verified, blind, unapplied>>
          /\ flags'.plan_result = flags.plan_result /\ flags'.apply_result = flags.apply_result
      BY <1>1, <1>47, OfNamesake
    <2> QED BY <2>1 DEF Settled, Level
  <1> QED
    BY <1>3, <1>4, <1>5, <1>6, <1>7, <1>8, <1>9, <1>10, <1>11, <1>12, <1>13, <1>14, <1>15, <1>16,
    <1>17, <1>18, <1>19, <1>20, <1>21, <1>22, <1>23, <1>24, <1>25, <1>26, <1>27, <1>28, <1>29,
    <1>30, <1>31, <1>32, <1>33, <1>34, <1>35, <1>36, <1>37, <1>38, <1>39, <1>40, <1>41, <1>42,
    <1>43, <1>44, <1>45, <1>46, <1>47 DEF Next, Deployment, Outside


\* The more reasons are absent, the stronger the premise.
LEMMA WithoutFewer ==
  ASSUME NEW ms, NEW ns, ns \subseteq ms
  PROVE  /\ Without(ms) => Without(ns)
         /\ Without(ms)' => Without(ns)'
  BY DEF Without

\* Initially no command is on its way.
LEMMA CalmInit == SInit => Calm
  <1>1. <<>> # <<"plan">> /\ <<>> # <<"apply">>
    BY OneCommand
  <1> QED BY <1>1 DEF SInit, Calm

\* The premises of the invariants.
CalmInv == Without({"old result"}) => Calm

\* Commands and answers alternate (post_plan_comment, post_apply_comment and the polls of
\* their results) unless an old answer or a namesake's was taken for a new one or a human
\* gave commands.
THEOREM CalmAlways == Spec => []CalmInv
  <1>1. SInit => CalmInv
    BY CalmInit DEF CalmInv
  <1>2. TypeOK /\ CalmInv /\ [Next]_vars => CalmInv'
    <2> SUFFICES ASSUME TypeOK, CalmInv, [Next]_vars, Without({"old result"})'
                 PROVE  Calm'
      BY DEF CalmInv
    <2>1. Calm
      BY WithoutBefore DEF CalmInv
    <2>2. CASE Next
      BY <2>1, <2>2, CalmStep
    <2>3. CASE UNCHANGED vars
      BY <2>1, <2>3 DEF vars, deployment, atlantis, history, Calm
    <2> QED BY <2>2, <2>3
  <1> QED BY <1>1, <1>2, TypeCorrect, PTL DEF Spec

SettledInv == Without({"old result", "moved"}) => Settled

\* What check_and_merge_pr merges was applied, for any number of commits, retries and
\* commands: unless an answer was taken for another command's or pull request's, the branch
\* moved unseen or a human gave commands.
THEOREM MergesProved == Spec => []MergesApplied
  <1>1. SInit => SettledInv
    <2>1. SInit => step = "creating" /\ plan.file = 0 /\ ~unapplied
      BY DEF SInit
    <2>2. step = "creating" /\ plan.file = 0 /\ ~unapplied => Settled
      BY DEF Settled
    <2> QED BY <2>1, <2>2 DEF SettledInv
  <1>2. TypeOK /\ CalmInv /\ SettledInv /\ [Next]_vars => SettledInv'
    <2> SUFFICES ASSUME TypeOK, CalmInv, SettledInv, [Next]_vars, Without({"old result", "moved"})'
                 PROVE  Settled'
      BY DEF SettledInv
    <2>1. Settled /\ Calm
      BY WithoutBefore, WithoutFewer DEF SettledInv, CalmInv
    <2>2. CASE Next
      BY <2>1, <2>2, SettledStep
    <2>3. CASE UNCHANGED vars
      BY <2>1, <2>3 DEF vars, deployment, atlantis, history, Settled, Level
    <2> QED BY <2>2, <2>3
  <1>3. SettledInv => MergesApplied
    BY DEF SettledInv, Settled, MergesApplied
  <1> QED BY <1>1, <1>2, <1>3, TypeCorrect, CalmAlways, PTL DEF Spec

\* The apply command is posted under an approval GitHub still has, for any constants
\* (the end of the wait for the approval, before post_apply_comment).
THEOREM ApprovedProved == Spec => AppliesApproved
  <1>1. TypeOK /\ CalmInv /\ [Next]_vars
          => [step = "approving" /\ step' = "applying"
                => pr.approved \/ ~Without({"old result", "their approval"})]_vars
    <2> SUFFICES ASSUME TypeOK, CalmInv, Next, step = "approving", step' = "applying",
                        Without({"old result", "their approval"})
                 PROVE  pr.approved
      OBVIOUS
    <2>1. Calm /\ "their approval" \notin mishaps
      BY WithoutFewer DEF CalmInv, Without
    <2>2. CASE Outside
      BY <2>2 DEF Outside, CoordinatorResolves, AtlantisPlans, AtlantisApplies,
      AtlantisApplyFails, AutomergeFails, BaseMoves, HumanPush, HumanApproves, HumanEnds,
      Namesake, deployment
    <2>3. ASSUME Deployment
          PROVE  Approved
      BY <2>3 DEF Deployment, CreatePr, SecondaryOnly, FailNoPr, FailPrClosed, FailManualCommit,
      DeployMerged, FailStuck, PollPrState, PollPlan, PlanLocked, RepostPlan, Unlocked,
      AtlantisLockTimeout, RetryPlan, PlanExhausted, ParkPlan, PlanSucceeded, Destructive,
      Verified, ApprovePr, PollApproval, PollApply, RetryApply, ApplyExhausted, ApplySucceeded,
      CheckFresh, MergeStale, MergePull, MergeFailed, MergeConflict, PlanResolved, Replan,
      WaitMerge, BackFromMerge, End, Fail
    <2> QED BY <2>1, <2>2, <2>3 DEF Next, Approved, Calm
  <1> QED BY <1>1, TypeCorrect, CalmAlways, PTL DEF Spec, AppliesApproved


-----------------------------------------------------------------------------
(* What is applied.                                                        *)

\* While every plan the deployment went on with was read, too: from the approval on, the plan
\* file is one that was read.
Read ==
    /\ plan.file \in {0, plan.of}
    /\ step \in {"approving", "applying"} => plan.file \in {0} \cup verified
    /\ ~blind

\* No plan replaces the plan file while an apply is waited for.
LEMMA ReadStep ==
  ASSUME TypeOK, Calm, Read, Next, Without({"old result", "unread plan"})'
  PROVE  Read'
  <1>1. /\ flags \in FlagsSet /\ pr \in PullSet /\ plan \in PlanSet /\ apply \in ApplySet
        /\ asked \in {<<>>, <<"plan">>, <<"apply">>} /\ commands' = 0
        /\ mishaps' \cap {"old result", "unread plan", "their result"} = {}
    BY TypeIs DEF Calm, Without
  <1>2. commands \in Nat
    BY CommandsCounted
  <1>3. CASE CreatePr
    BY <1>1, OneCommand, OneAsked, <1>3 DEF CreatePr, PostPlan, Calm, Read, history, FlagsSet,
    PullSet, PlanSet, ApplySet, Over, deployment, atlantis
  <1>4. CASE SecondaryOnly
    BY <1>1, OneCommand, <1>4 DEF SecondaryOnly, End, Calm, Read, history, FlagsSet, PullSet,
    PlanSet, ApplySet, Over, deployment, atlantis
  <1>5. CASE FailNoPr
    BY <1>1, OneCommand, <1>5 DEF FailNoPr, Fail, End, Calm, Read, history, FlagsSet, PullSet,
    PlanSet, ApplySet, Over, deployment, atlantis
  <1>6. CASE FailPrClosed
    BY <1>1, OneCommand, <1>6 DEF FailPrClosed, Fail, End, Calm, Read, history, FlagsSet, PullSet,
    PlanSet, ApplySet, Over, deployment, atlantis
  <1>7. CASE FailManualCommit
    BY <1>1, OneCommand, <1>7 DEF FailManualCommit, Fail, End, Calm, Read, history, FlagsSet,
    PullSet, PlanSet, ApplySet, Over, deployment, atlantis
  <1>8. CASE DeployMerged
    BY <1>1, OneCommand, <1>8 DEF DeployMerged, End, Calm, Read, history, FlagsSet, PullSet,
    PlanSet, ApplySet, Over, deployment, atlantis
  <1>9. CASE FailStuck
    BY <1>1, OneCommand, <1>9 DEF FailStuck, Fail, End, Calm, Read, history, FlagsSet, PullSet,
    PlanSet, ApplySet, Over, deployment, atlantis
  <1>10. CASE PollPrState
    BY <1>1, OneCommand, <1>10 DEF PollPrState, Calm, Read, history, FlagsSet, PullSet, PlanSet,
    ApplySet, Over, deployment, atlantis
  <1>11. CASE PollPlan
    BY <1>1, OneCommand, <1>11 DEF PollPlan, Unanswered, Calm, Read, history, FlagsSet, PullSet,
    PlanSet, ApplySet, Over, deployment, atlantis
  <1>12. CASE PlanLocked
    BY <1>1, OneCommand, <1>12 DEF PlanLocked, Calm, Read, history, FlagsSet, PullSet, PlanSet,
    ApplySet, Over, deployment, atlantis
  <1>13. CASE RepostPlan
    BY <1>1, OneCommand, OneAsked, <1>13 DEF RepostPlan, PostPlan, Calm, Read, history, FlagsSet,
    PullSet, PlanSet, ApplySet, Over, deployment, atlantis
  <1>14. CASE Unlocked
    BY <1>1, OneCommand, <1>14 DEF Unlocked, Calm, Read, history, FlagsSet, PullSet, PlanSet,
    ApplySet, Over, deployment, atlantis
  <1>15. CASE AtlantisLockTimeout
    BY <1>1, OneCommand, <1>15 DEF AtlantisLockTimeout, End, Calm, Read, history, FlagsSet,
    PullSet, PlanSet, ApplySet, Over, deployment, atlantis
  <1>16. CASE RetryPlan
    BY <1>1, OneCommand, OneAsked, <1>16 DEF RetryPlan, PostPlan, Calm, Read, history, FlagsSet,
    PullSet, PlanSet, ApplySet, Over, deployment, atlantis
  <1>17. CASE PlanExhausted
    BY <1>1, OneCommand, <1>17 DEF PlanExhausted, Calm, Read, history, FlagsSet, PullSet, PlanSet,
    ApplySet, Over, deployment, atlantis
  <1>18. CASE ParkPlan
    BY <1>1, OneCommand, <1>18 DEF ParkPlan, Cutoff, Calm, Read, history, FlagsSet, PullSet,
    PlanSet, ApplySet, Over, deployment, atlantis
  <1>19. CASE PlanSucceeded
    BY <1>1, OneCommand, <1>19 DEF PlanSucceeded, Calm, Read, history, FlagsSet, PullSet, PlanSet,
    ApplySet, Over, deployment, atlantis
  <1>20. CASE Destructive
    BY <1>1, OneCommand, <1>20 DEF Destructive, BackToPlan, Cutoff, Calm, Read, history, FlagsSet,
    PullSet, PlanSet, ApplySet, Over, deployment, atlantis
  <1>21. CASE Verified
    BY <1>1, OneCommand, <1>21 DEF Verified, Calm, Read, history, FlagsSet, PullSet, PlanSet,
    ApplySet, Over, deployment, atlantis
  <1>22. CASE ApprovePr
    BY <1>1, OneCommand, <1>22 DEF ApprovePr, Calm, Read, history, FlagsSet, PullSet, PlanSet,
    ApplySet, Over, deployment, atlantis
  <1>23. CASE PollApproval
    BY <1>1, OneCommand, <1>23 DEF PollApproval, Calm, Read, history, FlagsSet, PullSet, PlanSet,
    ApplySet, Over, deployment, atlantis
  <1>24. CASE Approved
    BY <1>1, OneCommand, OneAsked, <1>24 DEF Approved, PostApply, Calm, Read, history, FlagsSet,
    PullSet, PlanSet, ApplySet, Over, deployment, atlantis
  <1>25. CASE PollApply
    BY <1>1, OneCommand, <1>25 DEF PollApply, Unanswered, Calm, Read, history, FlagsSet, PullSet,
    PlanSet, ApplySet, Over, deployment, atlantis
  <1>26. CASE RetryApply
    BY <1>1, OneCommand, OneAsked, <1>26 DEF RetryApply, PostApply, Calm, Read, history, FlagsSet,
    PullSet, PlanSet, ApplySet, Over, deployment, atlantis
  <1>27. CASE ApplyExhausted
    BY <1>1, OneCommand, <1>27 DEF ApplyExhausted, BackToPlan, Cutoff, Calm, Read, history,
    FlagsSet, PullSet, PlanSet, ApplySet, Over, deployment, atlantis
  <1>28. CASE ApplySucceeded
    BY <1>1, OneCommand, <1>28 DEF ApplySucceeded, Calm, Read, history, FlagsSet, PullSet,
    PlanSet, ApplySet, Over, deployment, atlantis
  <1>29. CASE CheckFresh
    BY <1>1, OneCommand, <1>29 DEF CheckFresh, Calm, Read, history, FlagsSet, PullSet, PlanSet,
    ApplySet, Over, deployment, atlantis
  <1>30. CASE MergeStale
    BY <1>1, OneCommand, OneAsked, <1>30 DEF MergeStale, PostPlan, Calm, Read, history, FlagsSet,
    PullSet, PlanSet, ApplySet, Over, deployment, atlantis
  <1>31. CASE MergePull
    BY <1>1, OneCommand, <1>31 DEF MergePull, Calm, Read, history, FlagsSet, PullSet, PlanSet,
    ApplySet, Over, deployment, atlantis
  <1>32. CASE MergeFailed
    BY <1>1, OneCommand, <1>32 DEF MergeFailed, Calm, Read, history, FlagsSet, PullSet, PlanSet,
    ApplySet, Over, deployment, atlantis
  <1>33. CASE MergeConflict
    BY <1>1, OneCommand, <1>33 DEF MergeConflict, Resolved, Calm, Read, history, FlagsSet,
    PullSet, PlanSet, ApplySet, Over, deployment, atlantis
  <1>34. CASE PlanResolved
    BY <1>1, OneCommand, OneAsked, <1>34 DEF PlanResolved, PostPlan, Calm, Read, history,
    FlagsSet, PullSet, PlanSet, ApplySet, Over, deployment, atlantis
  <1>35. CASE Replan
    BY <1>1, OneCommand, <1>35 DEF Replan, BackToPlan, Cutoff, Calm, Read, history, FlagsSet,
    PullSet, PlanSet, ApplySet, Over, deployment, atlantis
  <1>36. CASE WaitMerge
    BY <1>1, OneCommand, <1>36 DEF WaitMerge, Calm, Read, history, FlagsSet, PullSet, PlanSet,
    ApplySet, Over, deployment, atlantis
  <1>37. CASE BackFromMerge
    BY <1>1, OneCommand, <1>37 DEF BackFromMerge, BackToPlan, Calm, Read, history, FlagsSet,
    PullSet, PlanSet, ApplySet, Over, deployment, atlantis
  <1>38. CASE CoordinatorResolves
    BY <1>1, OneCommand, <1>38 DEF CoordinatorResolves, Resolved, Calm, Read, history, FlagsSet,
    PullSet, PlanSet, ApplySet, Over, deployment, atlantis
  <1>39. CASE AtlantisPlans
    <2>1. asked = <<"plan">> /\ step \notin {"approving", "applying"}
      BY <1>1, <1>2, <1>39, Taken, OneCommand DEF AtlantisPlans, Calm, Command, Over
    <2>2. PICK a \in Answer \ {"none"} :
            plan' = [plan EXCEPT
                 !.newest = a, !.fresh = TRUE, !.answered = TRUE,
                 !.good = plan.good \/ a = "success",
                 !.of = IF a = "success" THEN pr.head ELSE plan.of,
                 !.file = IF a = "success" THEN pr.head ELSE plan.file]
      BY <1>39 DEF AtlantisPlans
    <2>3. /\ plan'.file = (IF a = "success" THEN pr.head ELSE plan.file)
          /\ plan'.of = (IF a = "success" THEN pr.head ELSE plan.of)
      BY <1>1, <2>2 DEF PlanSet
    <2>4. step' = step /\ blind' = blind
      BY <1>39 DEF AtlantisPlans
    <2> QED BY <2>1, <2>3, <2>4 DEF Read
  <1>40. CASE AtlantisApplies
    <2>1. asked = <<"apply">> /\ step = "applying"
      BY <1>1, <1>2, <1>40, Taken, OneCommand DEF AtlantisApplies, Calm, Command, Over
    <2>2. plan.file \in verified /\ plan.file # 0
      BY <2>1, <1>40 DEF AtlantisApplies, Read
    <2>3. plan'.file = 0
      BY <1>1, <1>40 DEF AtlantisApplies, PlanSet
    <2>4. ~blind'
      BY <2>2, <1>40 DEF AtlantisApplies, Read
    <2> QED BY <2>3, <2>4 DEF Read
  <1>41. CASE AtlantisApplyFails
    BY <1>1, OneCommand, <1>2, Taken, <1>41 DEF AtlantisApplyFails, Result, Calm, Read, history,
    FlagsSet, PullSet, PlanSet, ApplySet, Over, deployment, atlantis
  <1>42. CASE AutomergeFails
    BY <1>1, OneCommand, <1>42 DEF AutomergeFails, Calm, Read, history, FlagsSet, PullSet,
    PlanSet, ApplySet, Over, deployment, atlantis
  <1>43. CASE BaseMoves
    BY <1>1, OneCommand, <1>43 DEF BaseMoves, Calm, Read, history, FlagsSet, PullSet, PlanSet,
    ApplySet, Over, deployment, atlantis
  <1>44. CASE HumanPush
    BY <1>1, OneCommand, <1>44 DEF HumanPush, Signal, Calm, Read, history, FlagsSet, PullSet,
    PlanSet, ApplySet, Over, deployment, atlantis
  <1>45. CASE HumanApproves
    BY <1>1, OneCommand, <1>45 DEF HumanApproves, Signal, Calm, Read, history, FlagsSet, PullSet,
    PlanSet, ApplySet, Over, deployment, atlantis
  <1>46. CASE HumanEnds
    BY <1>1, OneCommand, <1>46 DEF HumanEnds, Signal, Calm, Read, history, FlagsSet, PullSet,
    PlanSet, ApplySet, Over, deployment, atlantis
  <1>47. CASE Namesake
    <2>1. /\ UNCHANGED <<step, attempt, pr, plan, apply, asked, verified, blind, unapplied>>
          /\ flags'.plan_result = flags.plan_result /\ flags'.apply_result = flags.apply_result
      BY <1>1, <1>47, OfNamesake
    <2> QED BY <2>1 DEF Read
  <1> QED
    BY <1>3, <1>4, <1>5, <1>6, <1>7, <1>8, <1>9, <1>10, <1>11, <1>12, <1>13, <1>14, <1>15, <1>16,
    <1>17, <1>18, <1>19, <1>20, <1>21, <1>22, <1>23, <1>24, <1>25, <1>26, <1>27, <1>28, <1>29,
    <1>30, <1>31, <1>32, <1>33, <1>34, <1>35, <1>36, <1>37, <1>38, <1>39, <1>40, <1>41, <1>42,
    <1>43, <1>44, <1>45, <1>46, <1>47 DEF Next, Deployment, Outside

ReadInv == Without({"old result", "unread plan"}) => Read

\* AppliesVerified for any constants.  With PLAN_MAX_RETRIES above two, the answer to one retry
\* may be taken for that of the next, whose plan replaces the plan file after the verification;
\* with two the cutoff of plan_not_before that follows excludes it.
AppliesRead == Without({"old result", "unread plan"}) => ~blind

\* What our apply command applies was read by verify_plan_with_ai, for any numbers of retries,
\* commits and commands, unless an answer was taken for another command's or pull request's,
\* the verification failed open or a human gave commands.
THEOREM ReadProved == Spec => []AppliesRead
  <1>1. SInit => ReadInv
    <2>1. SInit => step = "creating" /\ plan.file = 0 /\ ~blind
      BY DEF SInit
    <2>2. step = "creating" /\ plan.file = 0 /\ ~blind => Read
      BY DEF Read
    <2> QED BY <2>1, <2>2 DEF ReadInv
  <1>2. TypeOK /\ CalmInv /\ ReadInv /\ [Next]_vars => ReadInv'
    <2> SUFFICES ASSUME TypeOK, CalmInv, ReadInv, [Next]_vars,
                        Without({"old result", "unread plan"})'
                 PROVE  Read'
      BY DEF ReadInv
    <2>1. Read /\ Calm
      BY WithoutBefore, WithoutFewer DEF ReadInv, CalmInv
    <2>2. CASE Next
      BY <2>1, <2>2, ReadStep
    <2>3. CASE UNCHANGED vars
      BY <2>1, <2>3 DEF vars, deployment, atlantis, history, Read
    <2> QED BY <2>2, <2>3
  <1>3. ReadInv => AppliesRead
    BY DEF ReadInv, Read, AppliesRead
  <1> QED BY <1>1, <1>2, <1>3, TypeCorrect, CalmAlways, PTL DEF Spec

-----------------------------------------------------------------------------
(* What is applied when old answers may be taken for new ones.            *)

\* Two commands can be on their way when an old answer may be taken for a new one.
LEMMA Commands ==
  /\ <<"plan">> # <<"apply">> /\ <<"plan">> # <<>> /\ <<"apply">> # <<>>
  /\ \A c \in {"plan", "apply"} : <<"apply", "plan">> \notin {<<>>, <<c>>}
  <1>1. Len(<<"apply", "plan">>) = 2 /\ \A c \in {"plan", "apply"} : Len(<<c>>) = 1
    OBVIOUS
  <1>2. Len(<<>>) = 0
    OBVIOUS
  <1> QED BY <1>1, <1>2, OneCommand

\* A sequence of one and what is appended.
LEMMA AppendOne ==
  ASSUME NEW S, NEW a \in S, NEW b \in S
  PROVE  Append(<<a>>, b) = <<a, b>>
  <1>1. ASSUME NEW one \in Seq(S), Len(one) = 1, NEW two \in Seq(S), Len(two) = 2,
               one[1] = two[1], two[2] = b
        PROVE  Append(one, b) = two
    <2>1. /\ Append(one, b) \in Seq(S) /\ Len(Append(one, b)) = Len(one) + 1
          /\ \A i \in 1 .. Len(one) : Append(one, b)[i] = one[i]
          /\ Append(one, b)[Len(one) + 1] = b
      OBVIOUS
    <2>2. PICK added \in Seq(S) : added = Append(one, b)
      BY <2>1
    <2>3. Len(added) = Len(one) + 1 /\ added[Len(one) + 1] = b
      BY <2>1, <2>2
    <2>4. Len(added) = 2 /\ added[2] = two[2]
      BY <1>1, <2>3
    <2>5. added[1] = two[1]
      <3>1. 1 \in 1 .. Len(one)
        BY <1>1
      <3> QED BY <1>1, <2>1, <2>2, <3>1
    <2>6. \A i \in 1 .. Len(added) : added[i] = two[i]
      BY <2>4, <2>5
    <2> QED
      BY <1>1, <2>2, <2>4, <2>6, SeqEqual
  <1>2. /\ <<a>> \in Seq(S) /\ Len(<<a>>) = 1 /\ <<a>>[1] = a
        /\ <<a, b>> \in Seq(S) /\ Len(<<a, b>>) = 2 /\ <<a, b>>[1] = a /\ <<a, b>>[2] = b
    OBVIOUS
  <1> QED
    BY <1>1, <1>2

\* A retry that is left when there are two is the second attempt.
LEMMA OneRetry ==
  ASSUME NEW n \in Nat, NEW m \in Nat, m <= 2, n + 1 < m
  PROVE  n = 0 /\ n + 1 # 0
  OBVIOUS

\* What a command that is posted makes of those on their way.
LEMMA NextAsked ==
  /\ asked \in {<<>>, <<"plan">>, <<"apply">>, <<"apply", "plan">>} /\ Ask("plan")
       => asked' \in {<<"plan">>, <<"apply", "plan">>}
  /\ asked \in {<<>>, <<"apply">>} /\ Ask("apply") => asked' = <<"apply">>
  <1> DEFINE one == <<"apply">>
  <1>1. Len(one) = 1 /\ one[1] = "apply"
    OBVIOUS
  <1>2. Append(<<"apply">>, "plan") = <<"apply", "plan">>
    <2>1. "apply" \in {"plan", "apply"} /\ "plan" \in {"plan", "apply"}
      OBVIOUS
    <2> QED BY <2>1, AppendOne
  <1>6. Last(one) = "apply"
    <2> HIDE DEF one
    <2> QED BY <1>1 DEF Last
  <1> DEFINE both == <<"apply", "plan">>
  <1>4. Len(both) = 2 /\ both[2] = "plan"
    OBVIOUS
  <1>5. Last(both) = "plan"
    <2> HIDE DEF both
    <2> QED BY <1>4 DEF Last
  <1>3. ASSUME asked = <<"apply">>, Ask("plan")
        PROVE  asked' = <<"apply", "plan">>
    BY <1>2, <1>3, <1>6, Commands DEF Ask
  <1>7. ASSUME asked = <<"apply", "plan">>, Ask("plan")
        PROVE  asked' = asked
    BY <1>5, <1>7, Commands DEF Ask
  <1> QED BY <1>3, <1>7, OneAsked

\* Without commands of humans, Atlantis takes the first of those on their way.
LEMMA TakenFirst ==
  ASSUME asked \in {<<>>, <<"plan">>, <<"apply">>, <<"apply", "plan">>}, commands \in Nat,
         NEW c, Command(c), commands' = 0
  PROVE  \/ asked = <<c>> /\ asked' = <<>>
         \/ asked = <<"apply", "plan">> /\ c = "apply" /\ asked' = <<"plan">>
  <1>1. asked # <<>> /\ Head(asked) = c /\ asked' = Tail(asked)
    BY DEF Command
  <1>2. CASE asked = <<"plan">> \/ asked = <<"apply">>
    BY <1>1, <1>2
  <1>3. CASE asked = <<"apply", "plan">>
    <2>1. Head(<<"apply", "plan">>) = "apply" /\ Tail(<<"apply", "plan">>) = <<"plan">>
      OBVIOUS
    <2> QED BY <1>1, <1>3, <2>1
  <1> QED BY <1>1, <1>2, <1>3

\* A command of ours of either kind is on its way.
PlanAsked == asked \in {<<"plan">>, <<"apply", "plan">>}
ApplyAsked == asked \in {<<"apply">>, <<"apply", "plan">>}

\* The commands on their way, for provers that do not take sequences apart.
LEMMA Queues ==
  ASSUME asked \in {<<>>, <<"plan">>, <<"apply">>, <<"apply", "plan">>}
  PROVE  /\ asked = <<>> => ~PlanAsked /\ ~ApplyAsked
         /\ asked = <<"plan">> => PlanAsked /\ ~ApplyAsked
         /\ asked = <<"apply">> => ApplyAsked /\ ~PlanAsked
         /\ asked = <<"apply", "plan">> => PlanAsked /\ ApplyAsked
  BY Commands DEF PlanAsked, ApplyAsked

\* What posting a plan does to them.
LEMMA PlanPosted ==
  ASSUME asked \in {<<>>, <<"plan">>, <<"apply">>, <<"apply", "plan">>}, PostPlan, plan \in PlanSet
  PROVE  /\ asked' \in {<<>>, <<"plan">>, <<"apply">>, <<"apply", "plan">>}
         /\ PlanAsked' /\ (ApplyAsked' => ApplyAsked)
         /\ ~plan'.answered
         /\ plan'.fresh = plan.fresh /\ plan'.newest = plan.newest
         /\ plan'.of = plan.of /\ plan'.file = plan.file
  <1>1. Ask("plan") /\ plan' = [plan EXCEPT !.answered = FALSE]
    BY DEF PostPlan
  <1>2. /\ ~plan'.answered
        /\ plan'.fresh = plan.fresh /\ plan'.newest = plan.newest
        /\ plan'.of = plan.of /\ plan'.file = plan.file
    BY <1>1 DEF PlanSet
  <1>3. asked' = <<"plan">> \/ asked' = <<"apply", "plan">>
    BY <1>1, NextAsked
  <1>4. CASE asked \in {<<>>, <<"plan">>}
    BY <1>1, <1>2, <1>4, OneAsked, Commands DEF PlanAsked, ApplyAsked
  <1>5. CASE asked = <<"apply">> \/ asked = <<"apply", "plan">>
    BY <1>2, <1>3, <1>5 DEF PlanAsked, ApplyAsked
  <1> QED BY <1>4, <1>5

\* What posting an apply does when no plan is on its way.
LEMMA ApplyPosted ==
  ASSUME asked \in {<<>>, <<"plan">>, <<"apply">>, <<"apply", "plan">>}, ~PlanAsked, Ask("apply")
  PROVE  asked' = <<"apply">> /\ ApplyAsked' /\ ~PlanAsked'
  BY NextAsked, Commands DEF PlanAsked, ApplyAsked

\* A plan is on its way only where the deployment waits for it: it takes nothing for its
\* answer yet, or, after a retry, the failure the retry is for.
AwaitsPlan ==
    /\ ~plan.answered
    /\ step \in {"planning", "locked", "alerting", "replanning", "deployed", "failed"}
    /\ step = "locked" => flags.plan_result = "none"
    /\ step = "planning" =>
         \/ flags.plan_result = "none" /\ ~plan.fresh
         \/ attempt # 0 /\ plan.newest = "failed" /\ flags.plan_result \in {"none", "failed"}

\* While every plan the deployment went on with was read: two commands of ours may be on
\* their way, but never a plan before an apply, so the plan file an apply finds is one that
\* was read when the apply was posted, and the first result of a round is the newest.
Trusted ==
    /\ asked \in {<<>>, <<"plan">>, <<"apply">>, <<"apply", "plan">>}
    /\ step = "creating" =>
         asked = <<>> /\ flags.plan_result = "none" /\ attempt = 0 /\ ~plan.fresh
    /\ PlanAsked => AwaitsPlan
    /\ step \in {"planning", "locked"} /\ attempt = 0 =>
         flags.plan_result \in {"none", plan.newest}
    /\ plan.file \in {0, plan.of}
    /\ ApplyAsked \/ step \in {"approving", "applying"} => plan.file \in {0} \cup verified
    /\ ~blind

\* It says nothing of what people do with the pull request.
LEMMA TrustedStays ==
  ASSUME Trusted, UNCHANGED <<step, attempt, atlantis, verified, blind>>,
         flags'.plan_result = flags.plan_result
  PROVE  Trusted'
  BY DEF Trusted, AwaitsPlan, PlanAsked, ApplyAsked, atlantis

\* With PLAN_MAX_RETRIES = 2 no second plan is posted before the first one is answered, except
\* after a cutoff of plan_not_before.
LEMMA TrustedStep ==
  ASSUME TypeOK, Trusted, Next, Without({"unread plan"})', PlanRetries <= 2
  PROVE  Trusted'
  <1>1. /\ flags \in FlagsSet /\ pr \in PullSet /\ plan \in PlanSet /\ apply \in ApplySet
        /\ attempt \in Nat /\ commands' = 0 /\ "unread plan" \notin mishaps'
        /\ "their result" \notin mishaps'
    BY TypeIs DEF Without
  <1>2. commands \in Nat
    BY CommandsCounted
  <1>3. CASE CreatePr
    BY <1>1, PlanPosted, Queues, StagesAssumption, <1>3 DEF CreatePr, Trusted, AwaitsPlan,
    history, FlagsSet, PullSet, PlanSet, ApplySet, Over, deployment, atlantis
  <1>4. CASE SecondaryOnly
    BY <1>1, <1>4 DEF SecondaryOnly, End, Trusted, AwaitsPlan, PlanAsked, ApplyAsked, history,
    FlagsSet, PullSet, PlanSet, ApplySet, Over, deployment, atlantis
  <1>5. CASE FailNoPr
    BY <1>1, <1>5 DEF FailNoPr, Fail, End, Trusted, AwaitsPlan, PlanAsked, ApplyAsked, history,
    FlagsSet, PullSet, PlanSet, ApplySet, Over, deployment, atlantis
  <1>6. CASE FailPrClosed
    BY <1>1, <1>6 DEF FailPrClosed, Fail, End, Trusted, AwaitsPlan, PlanAsked, ApplyAsked,
    history, FlagsSet, PullSet, PlanSet, ApplySet, Over, deployment, atlantis
  <1>7. CASE FailManualCommit
    BY <1>1, <1>7 DEF FailManualCommit, Fail, End, Trusted, AwaitsPlan, PlanAsked, ApplyAsked,
    history, FlagsSet, PullSet, PlanSet, ApplySet, Over, deployment, atlantis
  <1>8. CASE DeployMerged
    BY <1>1, <1>8 DEF DeployMerged, End, Trusted, AwaitsPlan, PlanAsked, ApplyAsked, history,
    FlagsSet, PullSet, PlanSet, ApplySet, Over, deployment, atlantis
  <1>9. CASE FailStuck
    BY <1>1, <1>9 DEF FailStuck, Fail, End, Trusted, AwaitsPlan, PlanAsked, ApplyAsked, history,
    FlagsSet, PullSet, PlanSet, ApplySet, Over, deployment, atlantis
  <1>10. CASE PollPrState
    BY <1>1, <1>10 DEF PollPrState, Trusted, AwaitsPlan, PlanAsked, ApplyAsked, history,
    FlagsSet, PullSet, PlanSet, ApplySet, Over, deployment, atlantis
  <1>11. CASE PollPlan
    BY <1>1, <1>11 DEF PollPlan, Unanswered, Trusted, AwaitsPlan, PlanAsked, ApplyAsked,
    history, FlagsSet, PullSet, PlanSet, ApplySet, Over, deployment, atlantis
  <1>12. CASE PlanLocked
    BY <1>1, <1>12 DEF PlanLocked, Trusted, AwaitsPlan, PlanAsked, ApplyAsked, history,
    FlagsSet, PullSet, PlanSet, ApplySet, Over, deployment, atlantis
  <1>13. CASE RepostPlan
    BY <1>1, PlanPosted, Queues, StagesAssumption, <1>13 DEF RepostPlan, Trusted, AwaitsPlan,
    history, FlagsSet, PullSet, PlanSet, ApplySet, Over, deployment, atlantis
  <1>14. CASE Unlocked
    BY <1>1, <1>14 DEF Unlocked, Trusted, AwaitsPlan, PlanAsked, ApplyAsked, history, FlagsSet,
    PullSet, PlanSet, ApplySet, Over, deployment, atlantis
  <1>15. CASE AtlantisLockTimeout
    BY <1>1, <1>15 DEF AtlantisLockTimeout, End, Trusted, AwaitsPlan, PlanAsked, ApplyAsked,
    history, FlagsSet, PullSet, PlanSet, ApplySet, Over, deployment, atlantis
  <1>16. CASE RetryPlan
    <2>1. attempt = 0 /\ attempt' # 0
      <3>1. attempt + 1 < PlanRetries /\ attempt' = attempt + 1
        BY <1>16 DEF RetryPlan
      <3>2. attempt \in Nat /\ PlanRetries \in Nat
        BY <1>1, StagesAssumption
      <3> QED BY <3>1, <3>2, OneRetry
    <2>2. plan.newest = "failed" /\ step = "planning" /\ flags.plan_result = "failed"
      BY <1>16, <2>1 DEF RetryPlan, Trusted
    <2>3. flags'.plan_result = "none"
      BY <1>1, <1>16 DEF RetryPlan, FlagsSet
    <2> QED
      BY <1>1, <1>16, <2>1, <2>2, <2>3, PlanPosted DEF RetryPlan, Trusted, AwaitsPlan, history
  <1>17. CASE PlanExhausted
    BY <1>1, <1>17 DEF PlanExhausted, Trusted, AwaitsPlan, PlanAsked, ApplyAsked, history,
    FlagsSet, PullSet, PlanSet, ApplySet, Over, deployment, atlantis
  <1>18. CASE ParkPlan
    BY <1>1, <1>18 DEF ParkPlan, Cutoff, Trusted, AwaitsPlan, PlanAsked, ApplyAsked, history,
    FlagsSet, PullSet, PlanSet, ApplySet, Over, deployment, atlantis
  <1>19. CASE PlanSucceeded
    BY <1>1, <1>19 DEF PlanSucceeded, Trusted, AwaitsPlan, PlanAsked, ApplyAsked, history,
    FlagsSet, PullSet, PlanSet, ApplySet, Over, deployment, atlantis
  <1>20. CASE Destructive
    BY <1>1, <1>20 DEF Destructive, BackToPlan, Cutoff, Trusted, AwaitsPlan, PlanAsked,
    ApplyAsked, history, FlagsSet, PullSet, PlanSet, ApplySet, Over, deployment, atlantis
  <1>21. CASE Verified
    BY <1>1, <1>21 DEF Verified, Trusted, AwaitsPlan, PlanAsked, ApplyAsked, history, FlagsSet,
    PullSet, PlanSet, ApplySet, Over, deployment, atlantis
  <1>22. CASE ApprovePr
    BY <1>1, <1>22 DEF ApprovePr, Trusted, AwaitsPlan, PlanAsked, ApplyAsked, history, FlagsSet,
    PullSet, PlanSet, ApplySet, Over, deployment, atlantis
  <1>23. CASE PollApproval
    BY <1>1, <1>23 DEF PollApproval, Trusted, AwaitsPlan, PlanAsked, ApplyAsked, history,
    FlagsSet, PullSet, PlanSet, ApplySet, Over, deployment, atlantis
  <1>24. CASE Approved
    BY <1>1, ApplyPosted, Queues, <1>24 DEF Approved, PostApply, Trusted, AwaitsPlan, history,
    FlagsSet, PullSet, PlanSet, ApplySet, Over, deployment, atlantis
  <1>25. CASE PollApply
    BY <1>1, <1>25 DEF PollApply, Unanswered, Trusted, AwaitsPlan, PlanAsked, ApplyAsked,
    history, FlagsSet, PullSet, PlanSet, ApplySet, Over, deployment, atlantis
  <1>26. CASE RetryApply
    BY <1>1, ApplyPosted, Queues, <1>26 DEF RetryApply, PostApply, Trusted, AwaitsPlan, history,
    FlagsSet, PullSet, PlanSet, ApplySet, Over, deployment, atlantis
  <1>27. CASE ApplyExhausted
    BY <1>1, <1>27 DEF ApplyExhausted, BackToPlan, Cutoff, Trusted, AwaitsPlan, PlanAsked,
    ApplyAsked, history, FlagsSet, PullSet, PlanSet, ApplySet, Over, deployment, atlantis
  <1>28. CASE ApplySucceeded
    BY <1>1, <1>28 DEF ApplySucceeded, Trusted, AwaitsPlan, PlanAsked, ApplyAsked, history,
    FlagsSet, PullSet, PlanSet, ApplySet, Over, deployment, atlantis
  <1>29. CASE CheckFresh
    BY <1>1, <1>29 DEF CheckFresh, Trusted, AwaitsPlan, PlanAsked, ApplyAsked, history,
    FlagsSet, PullSet, PlanSet, ApplySet, Over, deployment, atlantis
  <1>30. CASE MergeStale
    BY <1>1, PlanPosted, Queues, StagesAssumption, <1>30 DEF MergeStale, Trusted, AwaitsPlan,
    history, FlagsSet, PullSet, PlanSet, ApplySet, Over, deployment, atlantis
  <1>31. CASE MergePull
    BY <1>1, <1>31 DEF MergePull, Trusted, AwaitsPlan, PlanAsked, ApplyAsked, history, FlagsSet,
    PullSet, PlanSet, ApplySet, Over, deployment, atlantis
  <1>32. CASE MergeFailed
    BY <1>1, <1>32 DEF MergeFailed, Trusted, AwaitsPlan, PlanAsked, ApplyAsked, history,
    FlagsSet, PullSet, PlanSet, ApplySet, Over, deployment, atlantis
  <1>33. CASE MergeConflict
    BY <1>1, <1>33 DEF MergeConflict, Resolved, Trusted, AwaitsPlan, PlanAsked, ApplyAsked,
    history, FlagsSet, PullSet, PlanSet, ApplySet, Over, deployment, atlantis
  <1>34. CASE PlanResolved
    BY <1>1, PlanPosted, Queues, StagesAssumption, <1>34 DEF PlanResolved, Trusted, AwaitsPlan,
    history, FlagsSet, PullSet, PlanSet, ApplySet, Over, deployment, atlantis
  <1>35. CASE Replan
    BY <1>1, <1>35 DEF Replan, BackToPlan, Cutoff, Trusted, AwaitsPlan, PlanAsked, ApplyAsked,
    history, FlagsSet, PullSet, PlanSet, ApplySet, Over, deployment, atlantis
  <1>36. CASE WaitMerge
    BY <1>1, <1>36 DEF WaitMerge, Trusted, AwaitsPlan, PlanAsked, ApplyAsked, history, FlagsSet,
    PullSet, PlanSet, ApplySet, Over, deployment, atlantis
  <1>37. CASE BackFromMerge
    BY <1>1, <1>37 DEF BackFromMerge, BackToPlan, Trusted, AwaitsPlan, PlanAsked, ApplyAsked,
    history, FlagsSet, PullSet, PlanSet, ApplySet, Over, deployment, atlantis
  <1>38. CASE CoordinatorResolves
    BY <1>1, <1>38 DEF CoordinatorResolves, Resolved, Trusted, AwaitsPlan, PlanAsked,
    ApplyAsked, history, FlagsSet, PullSet, PlanSet, ApplySet, Over, deployment, atlantis
  <1>39. CASE AtlantisPlans
    <2>0. asked = <<"plan">> /\ asked' = <<>>
      <3>1. Command("plan") /\ "plan" # "apply"
        BY <1>39 DEF AtlantisPlans
      <3> QED BY <1>1, <1>2, <3>1, TakenFirst DEF Trusted
    <2>1. /\ PlanAsked /\ asked' = <<>> /\ ~PlanAsked' /\ ~ApplyAsked'
          /\ step \notin {"creating", "approving", "applying"}
      BY <2>0, Queues, Commands DEF Trusted, AwaitsPlan, PlanAsked, ApplyAsked
    <2>2. PICK a \in Answer \ {"none"} :
            /\ plan' = [plan EXCEPT
                 !.newest = a, !.fresh = TRUE, !.answered = TRUE,
                 !.good = plan.good \/ a = "success",
                 !.of = IF a = "success" THEN pr.head ELSE plan.of,
                 !.file = IF a = "success" THEN pr.head ELSE plan.file]
            /\ Result("plan_result", a, {"planning", "locked"})
      BY <1>39 DEF AtlantisPlans
    <2>3. /\ plan'.file = (IF a = "success" THEN pr.head ELSE plan.file)
          /\ plan'.of = (IF a = "success" THEN pr.head ELSE plan.of)
          /\ plan'.newest = a
      BY <1>1, <2>2 DEF PlanSet
    <2>4. flags'.plan_result = a \/ flags'.plan_result = flags.plan_result
      BY <1>1, <2>2 DEF Result, FlagsSet
    <2>5. UNCHANGED <<step, attempt, blind, verified>>
      BY <1>39 DEF AtlantisPlans
    <2>6. step \in {"planning", "locked"} /\ attempt = 0 => flags.plan_result = "none"
      <3>1. AwaitsPlan
        BY <2>1 DEF Trusted
      <3> QED BY <3>1 DEF AwaitsPlan
    <2> QED BY <2>1, <2>3, <2>4, <2>5, <2>6 DEF Trusted
  <1>40. CASE AtlantisApplies
    <2>1. /\ \/ asked = <<"apply">> /\ asked' = <<>>
             \/ asked = <<"apply", "plan">> /\ asked' = <<"plan">>
          /\ step # "creating"
      BY <1>1, <1>2, <1>40, TakenFirst, Commands DEF AtlantisApplies, Trusted, Command
    <2>2. plan.file \in verified /\ plan.file # 0
      BY <2>1, <1>40, Commands DEF AtlantisApplies, Trusted, ApplyAsked
    <2>3. plan' = [plan EXCEPT !.file = 0]
      BY <1>40 DEF AtlantisApplies
    <2>4. ~blind' /\ UNCHANGED <<step, attempt, verified>>
      BY <2>2, <1>40 DEF AtlantisApplies, Trusted
    <2>5. flags'.plan_result = flags.plan_result
      BY <1>1, <1>40 DEF AtlantisApplies, Result, FlagsSet
    <2>6. /\ plan'.file = 0
          /\ plan'.fresh = plan.fresh /\ plan'.newest = plan.newest
          /\ plan'.answered = plan.answered
      BY <1>1, <2>3 DEF PlanSet
    <2> QED BY <2>1, <2>4, <2>5, <2>6, Commands DEF Trusted, AwaitsPlan, PlanAsked, ApplyAsked
  <1>41. CASE AtlantisApplyFails
    <2>1. /\ \/ asked = <<"apply">> /\ asked' = <<>>
             \/ asked = <<"apply", "plan">> /\ asked' = <<"plan">>
          /\ step # "creating"
      BY <1>1, <1>2, <1>41, TakenFirst, Commands DEF AtlantisApplyFails, Trusted, Command
    <2>2. UNCHANGED <<step, attempt, verified, plan, blind>>
      BY <1>41 DEF AtlantisApplyFails, history
    <2>3. flags'.plan_result = flags.plan_result
      BY <1>1, <1>41 DEF AtlantisApplyFails, Result, FlagsSet
    <2> QED BY <2>1, <2>2, <2>3, Commands DEF Trusted, AwaitsPlan, PlanAsked, ApplyAsked
  <1>42. CASE AutomergeFails
    BY <1>1, <1>42 DEF AutomergeFails, Trusted, AwaitsPlan, PlanAsked, ApplyAsked, history,
    FlagsSet, PullSet, PlanSet, ApplySet, Over, deployment, atlantis
  <1>43. CASE BaseMoves
    BY <1>1, <1>43 DEF BaseMoves, Trusted, AwaitsPlan, PlanAsked, ApplyAsked, history, FlagsSet,
    PullSet, PlanSet, ApplySet, Over, deployment, atlantis
  <1>44. CASE HumanPush
    <2>1. /\ flags' = flags \/ flags' = [flags EXCEPT !.manual = TRUE]
          /\ UNCHANGED <<step, attempt, atlantis, verified, blind>>
      BY <1>44 DEF HumanPush, Signal
    <2> QED BY <1>1, <2>1, TrustedStays DEF FlagsSet
  <1>45. CASE HumanApproves
    <2>1. /\ flags' = flags \/ flags' = [flags EXCEPT !.approved = TRUE]
          /\ UNCHANGED <<step, attempt, atlantis, verified, blind>>
      BY <1>45 DEF HumanApproves, Signal, history
    <2> QED BY <1>1, <2>1, TrustedStays DEF FlagsSet
  <1>46. CASE HumanEnds
    <2>1. /\ \/ flags' = flags
             \/ flags' = [flags EXCEPT !.merged = TRUE]
             \/ flags' = [flags EXCEPT !.closed = TRUE]
          /\ UNCHANGED <<step, attempt, atlantis, verified, blind>>
      BY <1>46 DEF HumanEnds, Signal, history
    <2> QED BY <1>1, <2>1, TrustedStays DEF FlagsSet
  <1>47. CASE Namesake
    <2>1. /\ UNCHANGED <<step, attempt, pr, plan, apply, asked, verified, blind, unapplied>>
          /\ flags'.plan_result = flags.plan_result /\ flags'.apply_result = flags.apply_result
      BY <1>1, <1>47, OfNamesake
    <2> QED BY <2>1 DEF Trusted, AwaitsPlan, PlanAsked, ApplyAsked
  <1> QED
    BY <1>3, <1>4, <1>5, <1>6, <1>7, <1>8, <1>9, <1>10, <1>11, <1>12, <1>13, <1>14, <1>15,
    <1>16,
    <1>17, <1>18, <1>19, <1>20, <1>21, <1>22, <1>23, <1>24, <1>25, <1>26, <1>27, <1>28, <1>29,
    <1>30, <1>31, <1>32, <1>33, <1>34, <1>35, <1>36, <1>37, <1>38, <1>39, <1>40, <1>41, <1>42,
    <1>43, <1>44, <1>45, <1>46, <1>47 DEF Next, Deployment, Outside


TrustedInv == PlanRetries <= 2 /\ Without({"unread plan"}) => Trusted

\* What our apply command applies was read by verify_plan_with_ai, also when old answers were
\* taken for new ones, for PLAN_MAX_RETRIES as it is in the code or lower and any numbers of
\* other retries and commits: unless the verification failed open, a namesake's result was
\* taken for ours or a human gave commands.
THEOREM VerifiedProved == Spec => [](PlanRetries <= 2 => AppliesVerified)
  <1>1. SInit => TrustedInv
    <2>1. SInit => /\ step = "creating" /\ plan.file = 0 /\ ~blind /\ asked = <<>>
                   /\ flags.plan_result = "none" /\ attempt = 0 /\ ~plan.fresh
      BY DEF SInit
    <2>2. SInit => ~PlanAsked /\ ~ApplyAsked
      BY <2>1, Commands DEF PlanAsked, ApplyAsked
    <2> QED BY <2>1, <2>2 DEF TrustedInv, Trusted
  <1>2. TypeOK /\ TrustedInv /\ [Next]_vars => TrustedInv'
    <2> SUFFICES ASSUME PlanRetries <= 2, TypeOK, TrustedInv, [Next]_vars,
                        Without({"unread plan"})'
                 PROVE  Trusted'
      BY DEF TrustedInv
    <2>1. Trusted
      BY WithoutBefore DEF TrustedInv
    <2>2. CASE Next
      BY <2>1, <2>2, TrustedStep
    <2>3. CASE UNCHANGED vars
      BY <2>1, <2>3 DEF vars, deployment, atlantis, history, Trusted, AwaitsPlan, PlanAsked,
      ApplyAsked
    <2> QED BY <2>2, <2>3
  <1>3. TrustedInv => (PlanRetries <= 2 => AppliesVerified)
    BY DEF TrustedInv, Trusted, AppliesVerified
  <1> QED BY <1>1, <1>2, <1>3, TypeCorrect, PTL DEF Spec
=============================================================================

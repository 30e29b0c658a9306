-------------------------- MODULE DeploymentStages --------------------------
(***************************************************************************)
(* What a stage deployment does between the grant of its locks and its     *)
(* end: create the pull request, plan, verify, approve, apply, merge, with *)
(* the ways back to the plan (src/app/temporal/workflows/                  *)
(* deployment_workflow.py), next to GitHub, Atlantis, the webhook that     *)
(* turns their events into signals (src/app/api/v1/endpoints/              *)
(* github_app_webhook.py), the coordinator that resolves conflicts, and    *)
(* the humans who plan, apply, approve, push, merge and close.             *)
(*                                                                         *)
(* An event is signalled at once or the webhook does not reach us; polls   *)
(* of the comments and of the pull request make up for it.  The webhook    *)
(* finds a deployment by the number of the pull request, whatever the      *)
(* repository: events of a namesake, a pull request of another repository  *)
(* with our number, are signalled to us too.  Of the comments only the     *)
(* newest results matter, and whether they are newer than plan_not_before. *)
(* The content of the branch is the number of its commits.  Automatic      *)
(* approval is enabled (github_approval_enabled).                          *)
(***************************************************************************)
EXTENDS Naturals, Sequences, SequencesExt

CONSTANTS
    PlanRetries,  \* PLAN_MAX_RETRIES
    ApplyRetries, \* APPLY_MAX_RETRIES
    MergeRetries, \* MERGE_MAX_RETRIES
    MaxHead,      \* bound on the commits that humans and moves of the base cause, where an
                  \* event of a namesake counts as one
    MaxOthers     \* bound on the commands and pushes of humans and the events of namesakes

ASSUME StagesAssumption ==
    /\ PlanRetries \in Nat \ {0} /\ ApplyRetries \in Nat \ {0} /\ MergeRetries \in Nat \ {0}
    /\ MaxHead \in Nat /\ MaxOthers \in Nat

VARIABLES
    step,         \* where run() is
    result,       \* self._result
    flags,        \* the fields signals and polls set
    attempt,      \* plan_attempt, apply_attempt or merge_attempt
    pr,           \* the pull request on GitHub
    plan,         \* Atlantis's answers to plans, and plan_not_before against them
    apply,        \* Atlantis's answers to applies
    asked,        \* our commands Atlantis has not answered
    queued,       \* the coordinator is to resolve the conflict
    commands,     \* commands of humans so far
    namesakes,    \* events of namesakes that reached us so far
    verified,     \* history: contents whose plan was verified
    blind,        \* history: our command applied content that was not verified
    unapplied,    \* history: we merged content that was not applied
    mishaps       \* history: what explains a wrong step

deployment == <<step, result, flags, attempt>>
atlantis == <<plan, apply, asked>>
history == <<namesakes, verified, blind, unapplied, mishaps>>
vars == <<deployment, pr, atlantis, queued, commands, history>>

Answer == {"none", "success", "failed", "lock_conflict"}

\* planned is 0 when Atlantis has no plan file, live is the content applied last.
SInit ==
    /\ step = "creating" /\ result = "none"
    /\ flags = [plan_result |-> "none", apply_result |-> "none", merged |-> FALSE,
                closed |-> FALSE, manual |-> FALSE, conflict |-> FALSE, approved |-> FALSE]
    /\ attempt = 0
    /\ pr = [state |-> "none", head |-> 0, human |-> FALSE, conflict |-> FALSE,
             approved |-> FALSE, stale |-> FALSE]
    /\ plan = [newest |-> "none", fresh |-> FALSE, good |-> FALSE, answered |-> FALSE,
               of |-> 0, file |-> 0]
    /\ apply = [newest |-> "none", live |-> 0]
    /\ asked = <<>> /\ queued = FALSE /\ commands = 0 /\ namesakes = 0
    /\ verified = {} /\ blind = FALSE /\ unapplied = FALSE /\ mishaps = {}

Over == step \in {"deployed", "failed"}

-----------------------------------------------------------------------------
(* Ends and what leads to them.                                            *)

Interrupted == flags.merged \/ flags.closed \/ flags.manual

\* _manual_commit_detected, or check_for_manual_commit: a human's commit is the head.
ManualSeen == flags.manual \/ (pr.human /\ pr.state # "closed")

End(s, r) ==
    /\ step' = s /\ result' = r
    /\ UNCHANGED <<flags, attempt, queued, commands, history>>

Fail(r) == End("failed", r) /\ UNCHANGED <<pr, atlantis>>

FailPrClosed ==
    /\ step \in {"planning", "locked", "approving", "applying", "waiting"}
    /\ flags.closed
    /\ Fail("pr_closed")

\* At every tick of the waits and after each of them; in the lock loop and in
\* the wait for the merge only a signal ends the wait.
FailManualCommit ==
    /\ step \in {"planning", "locked", "approving", "applying"}
    /\ ~flags.closed /\ ManualSeen
    /\ step = "locked" => flags.manual \/ flags.merged
    /\ Fail("manual_commit_detected")

\* Mutant: a closed pull request is taken for a merged one.
DeployEnded ==
    /\ step \in {"planning", "locked", "approving", "applying", "waiting"}
    /\ flags.merged \/ flags.closed
    /\ step # "waiting" => ~ManualSeen
    /\ End("deployed", "success")
    /\ UNCHANGED <<pr, atlantis>>

DeployMerged ==
    /\ step \in {"planning", "locked", "approving", "applying", "waiting"}
    /\ flags.merged /\ ~flags.closed
    /\ step # "waiting" => ~ManualSeen
    /\ End("deployed", "success")
    /\ UNCHANGED <<pr, atlantis>>

\* Mutant: no limit to the wait for a plan.
FailStuckApply ==
    /\ ~Interrupted /\ ~ManualSeen
    /\ \/ /\ step = "applying" /\ flags.apply_result = "none"
          /\ pr.state = "open" => apply.newest = "none"
       \/ step = "approving" /\ ~flags.approved
    /\ Fail("stuck")

\* The poll of a tick: also when it has just seen the pull request end, 24
\* hours without a result are a failure.
FailStuck ==
    /\ ~Interrupted /\ ~ManualSeen
    /\ \/ /\ step = "planning" /\ flags.plan_result = "none"
          /\ pr.state = "open" => ~plan.fresh
       \/ /\ step = "applying" /\ flags.apply_result = "none"
          /\ pr.state = "open" => apply.newest = "none"
       \/ step = "approving" /\ ~flags.approved
    /\ Fail("stuck")

\* poll_pr_state, at every tick.
PollPrState ==
    /\ step \in {"planning", "locked", "approving", "applying", "waiting"}
    /\ ~Interrupted /\ pr.state \in {"merged", "closed"}
    /\ flags' = IF pr.state = "merged" THEN [flags EXCEPT !.merged = TRUE]
                                       ELSE [flags EXCEPT !.closed = TRUE]
    /\ UNCHANGED <<step, result, attempt, pr, atlantis, queued, commands, history>>

-----------------------------------------------------------------------------
(* Commands.                                                               *)

\* A command Atlantis has not got to yet is not repeated in the model.
Ask(c) ==
    asked' = IF asked # <<>> /\ Last(asked) = c THEN asked ELSE Append(asked, c)

PostPlan == Ask("plan") /\ plan' = [plan EXCEPT !.answered = FALSE]

\* plan_not_before: comments up to now do not count any more.
Cutoff == plan' = [plan EXCEPT !.fresh = FALSE, !.good = FALSE]

\* run_script_pr_workflow, and the first plan comment.
CreatePr ==
    /\ step = "creating"
    /\ pr' = [pr EXCEPT !.state = "open", !.head = 1]
    /\ step' = "planning"
    /\ PostPlan
    /\ UNCHANGED <<result, flags, attempt, apply, queued, commands, history>>

\* No infrastructure difference: the secondary pull requests are merged.
SecondaryOnly ==
    /\ step = "creating"
    /\ End("deployed", "success")
    /\ UNCHANGED <<pr, atlantis>>

FailNoPr == step = "creating" /\ Fail("no_pr_created")

-----------------------------------------------------------------------------
(* WAIT_PLAN.                                                              *)

\* The head of the outer loop.
BackToPlan ==
    /\ step' = "planning"
    /\ flags' = [flags EXCEPT !.plan_result = "none"]
    /\ attempt' = 0

\* An answer that is older than the command it is taken for.
Unanswered(old) == mishaps' = IF old THEN mishaps \cup {"old result"} ELSE mishaps

\* poll_for_plan_status with plan_not_before; in the lock loop with the time of
\* the last repost.
PollPlan ==
    /\ step \in {"planning", "locked"}
    /\ flags.plan_result = "none" /\ ~Interrupted /\ pr.state = "open"
    /\ IF step = "locked" THEN plan.answered ELSE plan.fresh /\ ~pr.human
    /\ flags' = [flags EXCEPT !.plan_result = plan.newest]
    /\ Unanswered(~plan.answered)
    /\ UNCHANGED <<step, result, attempt, pr, atlantis, queued, commands,
                   namesakes, verified, blind, unapplied>>

PlanLocked ==
    /\ step = "planning" /\ flags.plan_result = "lock_conflict" /\ ~Interrupted
    /\ step' = "locked"
    /\ flags' = [flags EXCEPT !.plan_result = "none"]
    /\ UNCHANGED <<result, attempt, pr, atlantis, queued, commands, history>>

\* Every five minutes; a locked answer keeps the loop going.
RepostPlan ==
    /\ step = "locked" /\ flags.plan_result \in {"none", "lock_conflict"} /\ ~Interrupted
    /\ flags' = [flags EXCEPT !.plan_result = "none"]
    /\ PostPlan
    /\ UNCHANGED <<step, result, attempt, pr, apply, queued, commands, history>>

Unlocked ==
    /\ step = "locked" /\ flags.plan_result \in {"success", "failed"} /\ ~Interrupted
    /\ step' = "planning"
    /\ UNCHANGED <<result, flags, attempt, pr, atlantis, queued, commands, history>>

\* Mutant: _result is not set.
AtlantisLockTimeoutUnset ==
    /\ step = "locked" /\ flags.plan_result \in {"none", "lock_conflict"} /\ ~Interrupted
    /\ pr' = [pr EXCEPT !.state = IF @ = "open" THEN "closed" ELSE @]
    /\ End("failed", result)
    /\ UNCHANGED atlantis

\* 25 hours of lock conflict: the pull request is closed.
AtlantisLockTimeout ==
    /\ step = "locked" /\ flags.plan_result \in {"none", "lock_conflict"} /\ ~Interrupted
    /\ pr' = [pr EXCEPT !.state = IF @ = "open" THEN "closed" ELSE @]
    /\ End("failed", "atlantis_lock_timeout")
    /\ UNCHANGED atlantis

RetryPlan ==
    /\ step = "planning" /\ flags.plan_result = "failed" /\ ~Interrupted
    /\ attempt + 1 < PlanRetries
    /\ attempt' = attempt + 1
    /\ flags' = [flags EXCEPT !.plan_result = "none"]
    /\ PostPlan
    /\ UNCHANGED <<step, result, pr, apply, queued, commands, history>>

\* The records and the alert, before the wait for a manual plan begins.
PlanExhausted ==
    /\ step = "planning" /\ flags.plan_result = "failed" /\ ~Interrupted
    /\ attempt + 1 >= PlanRetries
    /\ attempt' = PlanRetries
    /\ step' = "alerting"
    /\ UNCHANGED <<result, flags, pr, atlantis, queued, commands, history>>

ParkPlan ==
    /\ step = "alerting"
    /\ step' = "planning"
    /\ flags' = [flags EXCEPT !.plan_result = "none"]
    /\ Cutoff
    /\ UNCHANGED <<result, attempt, pr, apply, asked, queued, commands, history>>

PlanSucceeded ==
    /\ step = "planning" /\ flags.plan_result = "success"
    /\ ~Interrupted /\ ~ManualSeen
    /\ step' = "verifying"
    /\ UNCHANGED <<result, flags, attempt, pr, atlantis, queued, commands, history>>

-----------------------------------------------------------------------------
(* Verification and approval.                                              *)

\* verify_plan_with_ai read a plan that destroys or replaces: wait for a fix.
Destructive ==
    /\ step = "verifying" /\ plan.good
    /\ BackToPlan
    /\ Cutoff
    /\ UNCHANGED <<result, pr, apply, asked, queued, commands, history>>

\* Mutant: the approval of the last cycle still counts.
VerifiedStillApproved ==
    /\ step = "verifying"
    /\ \/ plan.good /\ verified' = verified \cup {plan.of} /\ UNCHANGED mishaps
       \/ mishaps' = mishaps \cup {"unread plan"} /\ UNCHANGED verified
    /\ step' = "approving"
    /\ UNCHANGED <<result, flags, attempt, pr, atlantis, queued, commands, namesakes,
                   blind, unapplied>>

\* Clean; or no plan was found, or the model did not answer: fail open.
Verified ==
    /\ step = "verifying"
    /\ \/ plan.good /\ verified' = verified \cup {plan.of} /\ UNCHANGED mishaps
       \/ mishaps' = mishaps \cup {"unread plan"} /\ UNCHANGED verified
    /\ step' = "approving"
    /\ flags' = [flags EXCEPT !.approved = FALSE]
    /\ UNCHANGED <<result, attempt, pr, atlantis, queued, commands, namesakes,
                   blind, unapplied>>

\* approve_pr; a failure is tried again at the next tick.
ApprovePr ==
    /\ step = "approving" /\ ~flags.approved /\ ~Interrupted
    /\ pr.state = "open"
    /\ pr' = [pr EXCEPT !.approved = TRUE]
    /\ flags' = [flags EXCEPT !.approved = TRUE]
    /\ UNCHANGED <<step, result, attempt, atlantis, queued, commands, history>>

\* poll_pr_approval_status.
PollApproval ==
    /\ step = "approving" /\ ~flags.approved /\ ~Interrupted /\ ~ManualSeen
    /\ pr.state = "open" /\ pr.approved
    /\ flags' = [flags EXCEPT !.approved = TRUE]
    /\ UNCHANGED <<step, result, attempt, pr, atlantis, queued, commands, history>>

-----------------------------------------------------------------------------
(* APPLY.                                                                  *)

PostApply ==
    /\ flags' = [flags EXCEPT !.apply_result = "none"]
    /\ Ask("apply")
    /\ step' = "applying"

Approved ==
    /\ step = "approving" /\ flags.approved /\ ~Interrupted /\ ~ManualSeen
    /\ PostApply
    /\ attempt' = 0
    /\ UNCHANGED <<result, pr, plan, apply, queued, commands, history>>

\* poll_for_apply_status: the newest answer, without a cutoff.
PollApply ==
    /\ step = "applying" /\ flags.apply_result = "none"
    /\ ~Interrupted /\ ~ManualSeen /\ pr.state = "open"
    /\ apply.newest # "none"
    /\ flags' = [flags EXCEPT !.apply_result = apply.newest]
    /\ Unanswered(Contains(asked, "apply"))
    /\ UNCHANGED <<step, result, attempt, pr, atlantis, queued, commands,
                   namesakes, verified, blind, unapplied>>

RetryApply ==
    /\ step = "applying" /\ flags.apply_result = "failed" /\ ~Interrupted /\ ~ManualSeen
    /\ attempt + 1 < ApplyRetries
    /\ attempt' = attempt + 1
    /\ PostApply
    /\ UNCHANGED <<result, pr, plan, apply, queued, commands, history>>

\* Wait for a fix, or a manual plan.
ApplyExhausted ==
    /\ step = "applying" /\ flags.apply_result = "failed" /\ ~Interrupted /\ ~ManualSeen
    /\ attempt + 1 >= ApplyRetries
    /\ BackToPlan
    /\ Cutoff
    /\ UNCHANGED <<result, pr, apply, asked, queued, commands, history>>

ApplySucceeded ==
    /\ step = "applying" /\ flags.apply_result = "success" /\ ~Interrupted /\ ~ManualSeen
    /\ step' = "merging"
    /\ attempt' = 0
    /\ UNCHANGED <<result, flags, pr, atlantis, queued, commands, history>>

-----------------------------------------------------------------------------
(* Merge.                                                                  *)

\* Mutant: the freshness of the branch is not looked at.
MergeUnchecked ==
    /\ step = "merging" /\ ~flags.merged /\ ~flags.closed /\ attempt < MergeRetries
    /\ pr.state = "open"
    /\ step' = "checked"
    /\ UNCHANGED <<result, flags, attempt, pr, atlantis, queued, commands, history>>

\* check_and_merge_pr compares the last commit with the last plan that succeeded ...
CheckFresh ==
    /\ step = "merging" /\ ~flags.merged /\ ~flags.closed /\ attempt < MergeRetries
    /\ pr.state = "open" /\ ~pr.stale
    /\ step' = "checked"
    /\ UNCHANGED <<result, flags, attempt, pr, atlantis, queued, commands, history>>

\* "stale": post a plan and go back.
MergeStale ==
    /\ step = "merging" /\ ~flags.merged /\ ~flags.closed /\ attempt < MergeRetries
    /\ pr.state = "open" /\ pr.stale
    /\ PostPlan
    /\ step' = "replanning"
    /\ UNCHANGED <<result, flags, attempt, pr, apply, queued, commands, history>>

\* ... and merges whatever the head is by then.
MergePull ==
    /\ step = "checked"
    /\ pr.state = "open" /\ ~pr.conflict
    /\ pr' = [pr EXCEPT !.state = "merged"]
    /\ unapplied' = (unapplied \/ apply.live # pr.head)
    /\ \/ flags' = [flags EXCEPT !.merged = TRUE] /\ UNCHANGED attempt
       \/ attempt' = attempt + 1 /\ UNCHANGED flags
    /\ step' = "merging"
    /\ UNCHANGED <<result, atlantis, queued, commands, namesakes, verified, blind, mishaps>>

\* GitHub refuses, or the activity fails: one attempt less.
MergeFailed ==
    /\ step \in {"merging", "checked"} /\ attempt < MergeRetries
    /\ step = "merging" => ~flags.merged /\ ~flags.closed
    /\ attempt' = attempt + 1
    /\ step' = "merging"
    /\ UNCHANGED <<result, flags, pr, atlantis, queued, commands, history>>

\* A commit by DevLift on top of the base.
Resolved == [pr EXCEPT !.head = @ + 1, !.human = FALSE, !.conflict = FALSE, !.stale = TRUE]

\* "conflict": resolve_conflict_and_merge regenerates the branch ...
MergeConflict ==
    /\ step = "checked"
    /\ pr.state = "open" /\ pr.conflict
    /\ pr' = Resolved
    /\ step' = "resolved"
    /\ UNCHANGED <<result, flags, attempt, atlantis, queued, commands, history>>

\* ... and a plan is posted.
PlanResolved ==
    /\ step = "resolved"
    /\ PostPlan
    /\ step' = "replanning"
    /\ UNCHANGED <<result, flags, attempt, pr, apply, queued, commands, history>>

\* Mutant: plan_not_before is left as it is.
ReplanOld ==
    /\ step = "replanning"
    /\ BackToPlan
    /\ UNCHANGED <<result, pr, atlantis, queued, commands, history>>

\* plan_not_before is taken after the command was posted.
Replan ==
    /\ step = "replanning"
    /\ BackToPlan
    /\ Cutoff
    /\ UNCHANGED <<result, pr, apply, asked, queued, commands, history>>

\* Merged, ended, or no attempt left: WAIT_MERGE.
WaitMerge ==
    /\ step = "merging"
    /\ flags.merged \/ flags.closed \/ attempt = MergeRetries
    /\ step' = "waiting"
    /\ flags' = [flags EXCEPT !.conflict = FALSE]
    /\ UNCHANGED <<result, attempt, pr, atlantis, queued, commands, history>>

\* Automerge met a conflict the coordinator resolves, or a push was signalled.
BackFromMerge ==
    /\ step = "waiting" /\ ~flags.closed /\ ~flags.merged
    /\ flags.conflict \/ flags.manual
    /\ BackToPlan
    /\ UNCHANGED <<result, pr, atlantis, queued, commands, history>>

-----------------------------------------------------------------------------
(* The coordinator, Atlantis and the humans, until run() returns.          *)

\* The coordinator's merge loop.
CoordinatorResolves ==
    /\ queued /\ ~Over
    /\ queued' = FALSE
    /\ IF pr.state = "open"
       THEN /\ pr' = Resolved
            /\ mishaps' = IF step = "checked" THEN mishaps \cup {"moved"} ELSE mishaps
       ELSE UNCHANGED <<pr, mishaps>>
    /\ UNCHANGED <<deployment, atlantis, commands, namesakes, verified, blind, unapplied>>

\* What others did of what the instance bounds.
Others == commands + namesakes + IF pr.human THEN 1 ELSE 0

\* A command of ours, in the order they were posted, or of a human.
Command(c) ==
    /\ pr.state = "open" /\ ~Over
    /\ \/ /\ asked # <<>> /\ Head(asked) = c
          /\ asked' = Tail(asked)
          /\ UNCHANGED commands
       \/ /\ Others < MaxOthers
          /\ commands' = commands + 1
          /\ UNCHANGED asked

\* The webhook reaches the workflow, or does not; a result that comes outside the
\* steps that wait for it is reset before it is read.
Result(field, value, steps) ==
    flags' \in IF step \in steps THEN {flags, [flags EXCEPT ![field] = value]} ELSE {flags}

Signal(field, value) == flags' \in {flags, [flags EXCEPT ![field] = value]}

\* Atlantis discards the approval, plans the head and comments.
AtlantisPlans ==
    /\ Command("plan")
    /\ \E a \in Answer \ {"none"} :
         /\ plan' = [plan EXCEPT
              !.newest = a, !.fresh = TRUE, !.answered = TRUE,
              !.good = @ \/ a = "success",
              !.of = IF a = "success" THEN pr.head ELSE @,
              !.file = IF a = "success" THEN pr.head ELSE @]
         /\ pr' = [pr EXCEPT !.approved = FALSE, !.stale = @ /\ a # "success"]
         /\ Result("plan_result", a, {"planning", "locked"})
    /\ UNCHANGED <<step, result, attempt, apply, queued, namesakes,
                   verified, blind, unapplied, mishaps>>

\* Applies the plan file and consumes it; then merges, or meets a conflict, if it
\* is told to automerge.
AtlantisApplies ==
    /\ plan.file # 0 /\ pr.approved
    /\ Command("apply")
    /\ apply' = [newest |-> "success", live |-> plan.file]
    /\ plan' = [plan EXCEPT !.file = 0]
    /\ blind' = (blind \/ (asked' # asked /\ plan.file \notin verified))
    /\ Result("apply_result", "success", {"applying"})
    /\ pr' \in {pr, [pr EXCEPT !.state = IF pr.conflict THEN @ ELSE "merged"]}
    /\ UNCHANGED <<step, result, attempt, queued, namesakes, verified, unapplied, mishaps>>

AtlantisApplyFails ==
    /\ Command("apply")
    /\ apply' = [apply EXCEPT !.newest = "failed"]
    /\ Result("apply_result", "failed", {"applying"})
    /\ UNCHANGED <<step, result, attempt, plan, pr, queued, history>>

\* merge_conflict_detected: noted, and passed on to the coordinator.
AutomergeFails ==
    /\ pr.state = "open" /\ pr.conflict /\ apply.newest = "success" /\ ~queued /\ ~Over
    /\ flags' = [flags EXCEPT !.conflict = TRUE]
    /\ queued' = TRUE
    /\ UNCHANGED <<step, result, attempt, pr, atlantis, commands, history>>

\* Another deployment of the repository was merged.
BaseMoves ==
    /\ pr.state = "open" /\ ~pr.conflict /\ pr.head + namesakes < MaxHead /\ ~Over
    /\ pr' = [pr EXCEPT !.conflict = TRUE]
    /\ UNCHANGED <<deployment, atlantis, queued, commands, history>>

\* The date of a commit is not the date of its push.
HumanPush ==
    /\ pr.state = "open" /\ pr.head + namesakes < MaxHead /\ Others < MaxOthers /\ ~Over
    /\ \E dated \in {"now", "before"} :
         /\ pr' = [pr EXCEPT !.head = @ + 1, !.human = TRUE, !.stale = @ \/ dated = "now"]
         /\ mishaps' = IF step = "checked" \/ dated = "before"
                       THEN mishaps \cup {"moved"} ELSE mishaps
    /\ Signal("manual", TRUE)
    /\ UNCHANGED <<step, result, attempt, atlantis, queued, commands,
                   namesakes, verified, blind, unapplied>>

HumanApproves ==
    /\ pr.state = "open" /\ ~pr.approved /\ ~Over
    /\ pr' = [pr EXCEPT !.approved = TRUE]
    /\ Signal("approved", TRUE)
    /\ UNCHANGED <<step, result, attempt, atlantis, queued, commands, history>>

HumanEnds ==
    /\ pr.state = "open" /\ ~Over
    /\ \/ pr' = [pr EXCEPT !.state = "merged"] /\ Signal("merged", TRUE)
       \/ pr' = [pr EXCEPT !.state = "closed"] /\ Signal("closed", TRUE)
    /\ UNCHANGED <<step, result, attempt, atlantis, queued, commands, history>>

\* A namesake is merged, closed, pushed to, approved, planned, applied or in conflict,
\* and the webhook takes it for us: what comes outside the steps that wait for it is
\* reset before it is read.  The conflict the coordinator is to resolve is the namesake's.
Namesake ==
    /\ pr.state # "none" /\ ~Over
    /\ pr.head + namesakes < MaxHead /\ Others < MaxOthers
    /\ namesakes' = namesakes + 1
    /\ \/ /\ flags' = [flags EXCEPT !.merged = TRUE]
          /\ mishaps' = mishaps \cup {"their merge"}
       \/ /\ flags' = [flags EXCEPT !.closed = TRUE]
          /\ mishaps' = mishaps \cup {"their close"}
       \/ /\ flags' = [flags EXCEPT !.manual = TRUE]
          /\ UNCHANGED mishaps
       \/ /\ step = "approving"
          /\ flags' = [flags EXCEPT !.approved = TRUE]
          /\ mishaps' = mishaps \cup {"their approval"}
       \/ /\ step \in {"planning", "locked"}
          /\ \E a \in Answer \ {"none"} : flags' = [flags EXCEPT !.plan_result = a]
          /\ mishaps' = mishaps \cup {"their result"}
       \/ /\ step = "applying"
          /\ \E a \in {"success", "failed"} : flags' = [flags EXCEPT !.apply_result = a]
          /\ mishaps' = mishaps \cup {"their result"}
       \/ /\ step = "waiting"
          /\ flags' = [flags EXCEPT !.conflict = TRUE]
          /\ UNCHANGED mishaps
    /\ UNCHANGED <<step, result, attempt, pr, atlantis, queued, commands,
                   verified, blind, unapplied>>

-----------------------------------------------------------------------------
Deployment ==
    \/ CreatePr \/ SecondaryOnly \/ FailNoPr
    \/ FailPrClosed \/ FailManualCommit \/ DeployMerged \/ FailStuck \/ PollPrState
    \/ PollPlan \/ PlanLocked \/ RepostPlan \/ Unlocked \/ AtlantisLockTimeout
    \/ RetryPlan \/ PlanExhausted \/ ParkPlan \/ PlanSucceeded
    \/ Destructive \/ Verified \/ ApprovePr \/ PollApproval
    \/ Approved \/ PollApply \/ RetryApply \/ ApplyExhausted \/ ApplySucceeded
    \/ CheckFresh \/ MergeStale \/ MergePull \/ MergeFailed
    \/ MergeConflict \/ PlanResolved \/ Replan \/ WaitMerge \/ BackFromMerge

Outside ==
    \/ CoordinatorResolves \/ AtlantisPlans \/ AtlantisApplies \/ AtlantisApplyFails
    \/ AutomergeFails \/ BaseMoves
    \/ HumanPush \/ HumanApproves \/ HumanEnds \/ Namesake

Next == Deployment \/ Outside

Spec == SInit /\ [][Next]_vars

\* The deployment runs, and activities that fail are tried again or counted; the
\* lock loop and the waits end by the clock.
FairSpec == Spec /\ WF_vars(Deployment) /\ WF_vars(AtlantisLockTimeout)

-----------------------------------------------------------------------------
(* Properties.                                                             *)

Step == {"creating", "planning", "locked", "alerting", "verifying", "approving", "applying",
         "merging", "checked", "resolved", "replanning", "waiting", "deployed", "failed"}

Results == {"none", "success", "no_pr_created", "pr_closed", "manual_commit_detected", "stuck",
           "atlantis_lock_timeout"}

\* An answer older than our command, a plan nobody read, a branch that moved, and what
\* namesakes did.
Mishap == {"old result", "unread plan", "moved",
           "their merge", "their close", "their approval", "their result"}

\* Type correctness: the fields of the workflow and what GitHub and Atlantis know;
\* an ended deployment, and no other, has a result.
TypeOK ==
    /\ step \in Step /\ result \in Results
    /\ (result # "none") <=> Over
    /\ flags \in [plan_result : Answer, apply_result : Answer \ {"lock_conflict"},
                  merged : BOOLEAN, closed : BOOLEAN, manual : BOOLEAN,
                  conflict : BOOLEAN, approved : BOOLEAN]
    /\ attempt \in Nat
    /\ pr \in [state : {"none", "open", "merged", "closed"}, head : Nat, human : BOOLEAN,
               conflict : BOOLEAN, approved : BOOLEAN, stale : BOOLEAN]
    /\ plan \in [newest : Answer, fresh : BOOLEAN, good : BOOLEAN, answered : BOOLEAN,
                 of : Nat, file : Nat]
    /\ apply \in [newest : Answer \ {"lock_conflict"}, live : Nat]
    /\ asked \in Seq({"plan", "apply"}) /\ queued \in BOOLEAN /\ commands \in 0 .. MaxOthers
    /\ namesakes \in 0 .. MaxOthers
    /\ verified \subseteq Nat /\ blind \in BOOLEAN /\ unapplied \in BOOLEAN
    /\ mishaps \subseteq Mishap

\* No human gave commands, no result of a namesake was taken for ours, and none of these
\* explains a wrong step.
Without(ms) == commands = 0 /\ mishaps \cap (ms \cup {"their result"}) = {}

\* check_and_merge_pr merges what was applied: between the pull request, the answers
\* of Atlantis and the retries, the content of the branch that we merge is the content
\* of the infrastructure.  The exceptions are named: an answer older than our command, or
\* a namesake's, was taken for its answer, the branch moved after the look at its freshness
\* or with an older date, a human gave commands.
MergesApplied == Without({"old result", "moved"}) => ~unapplied

\* VERIFY PLAN: what our command applies was read by the model, in this cycle or an
\* earlier one, unless the verification failed open, a namesake's result was taken for ours
\* or a human gave commands.  It rests on PLAN_MAX_RETRIES = 2: see AppliesRead in
\* DeploymentStagesProofs for any number.
AppliesVerified == Without({"unread plan"}) => ~blind

\* The apply command follows an approval that the plan before it did not discard, unless the
\* approval or a result was a namesake's, a plan result was an old one or a human gave commands.
AppliesApproved ==
    [][step = "approving" /\ step' = "applying"
         => pr.approved \/ ~Without({"old result", "their approval"})]_vars

\* Once there is a pull request, a deployment reported as a success is merged, and one
\* that reports its pull request closed did not deploy it.  The exceptions are named: the
\* merge or the close that reached it is a namesake's, which the webhook cannot tell from
\* ours.
EndsTruthfully ==
    /\ result = "success" /\ pr.state # "none" => pr.state = "merged" \/ "their merge" \in mishaps
    /\ result = "pr_closed" => pr.state = "closed" \/ "their close" \in mishaps

\* The stages end without help from Atlantis, GitHub, the webhook or a human, except
\* the wait for a manual merge, which has no cap.
Ends == <>[](Over \/ step = "waiting")

=============================================================================

----------------------------- MODULE MergeGate -----------------------------
(***************************************************************************)
(* The promotion of production content: the one stage -> main pull request *)
(* all production deployments of a repository share, their rows in         *)
(* production_deployment_track, Atlantis, the humans who also plan, apply, *)
(* push, merge and close, and the gate that merges the pull request when   *)
(* everything in it is applied (src/app/temporal/workflows/                *)
(* production_deployment_workflow.py and                                   *)
(* src/app/temporal/activities/production_deploy_activities.py).           *)
(*                                                                         *)
(* The locks are abstract here: what a deployment holds follows from where *)
(* it is (Holds), and it starts or resumes when what it needs is free;     *)
(* ProductionLocks shows that the coordinator gives that much.             *)
(*                                                                         *)
(* The content of a directory is its version; the head of stage is the     *)
(* vector of versions.  Atlantis may run a command of any project at any   *)
(* time: deployments and humans comment on the same pull request.          *)
(***************************************************************************)
EXTENDS Naturals

CONSTANTS
    Wf,           \* production deployments of one repository
    Dir,          \* directories that can change production
    Own,          \* directories of a deployment that stay held while it is parked
    Shared,       \* directories it gives back while it is parked
    Edited,       \* directories humans push to
    MaxVersion,   \* bound on the versions they push
    MaxPulls,     \* bound on promotion pull requests
    MaxParks,     \* bound on the parks of one deployment
    None

Dirs(w) == Own[w] \cup Shared[w]

\* The Atlantis project of a deployment, told by its directories.
Project == {Dirs(w) : w \in Wf}

ASSUME GateAssumption ==
    /\ Own \in [Wf -> SUBSET Dir] /\ Shared \in [Wf -> SUBSET Dir]
    /\ \A q, r \in Project : q # r => q \cap r = {}
    /\ Edited \subseteq Dir
    /\ MaxVersion \in Nat /\ MaxPulls \in Nat /\ MaxParks \in Nat
    /\ None \notin Wf

VARIABLES
    pc,           \* where each deployment is
    parks,        \* parks of each deployment so far
    mine,         \* self._promotion_pr_number
    since,        \* what happened since the baseline or the last command of each
    gate,         \* locals of _merge_gate_and_closeout: one deployment has the key
    rows,         \* production_deployment_track
    stage,        \* version of each directory on stage
    main,         \* version on main
    pull,         \* number of the latest promotion pull request
    ends,         \* how each pull request ended, "open" while it has not
    live,         \* version that was applied last
    plans,        \* Atlantis's plan file of each project
    latest,       \* latest apply result of each project on each pull request
    mishaps,      \* history: evidence that was not about one's own content
    unapplied     \* history: what DevLift merged and nobody had applied

flow == <<parks, mine>>
github == <<stage, main, pull, ends>>
atlantis == <<live, plans, latest>>
history == <<mishaps, unapplied>>
vars == <<pc, flow, since, gate, rows, github, atlantis, history>>

NoRow == [wf |-> None, status |-> "none"]
NoPlan == [d \in {} |-> 0]
NoGate == [head |-> [d \in Dir |-> 0], dirs |-> {}]

Pending == {d \in Dir : stage[d] # main[d]}
PullOpen == pull > 0 /\ ends[pull] = "open"

Ended(w) == pc[w] \in {"deployed", "failed"}
Active(w) == pc[w] \in {"planning", "applying"}

GInit ==
    /\ pc = [w \in Wf |-> "idle"] /\ parks = [w \in Wf |-> 0]
    /\ mine = [w \in Wf |-> 0] /\ since = [w \in Wf |-> {}]
    /\ gate = NoGate
    /\ rows = [d \in Dir |-> NoRow]
    /\ stage = [d \in Dir |-> 0] /\ main = stage /\ live = stage
    /\ pull = 0 /\ ends = [n \in 1..MaxPulls |-> "none"]
    /\ plans = [q \in Project |-> NoPlan]
    /\ latest = [n \in 1..MaxPulls |-> [q \in Project |-> "none"]]
    /\ mishaps = {} /\ unapplied = {}

Goto(w, s) == pc' = [pc EXCEPT ![w] = s]

-----------------------------------------------------------------------------
(* Locks.                                                                  *)

\* Past the wait for the locks and not parked: the promotion key is held.
HasKey(w) ==
    pc[w] \in {"claimed", "onstage", "planning", "applying", "gate", "evaluating",
               "merging", "merged"}

\* The directories w is the registered holder of.
Holds(w) ==
    IF HasKey(w) THEN Dirs(w) ELSE IF pc[w] \in {"parked", "resuming"} THEN Own[w] ELSE {}

\* The key and ds can be granted to w.
Grantable(w, ds) == \A v \in Wf \ {w} : ~HasKey(v) /\ Holds(v) \cap ds = {}

-----------------------------------------------------------------------------
(* production_deployment_track.                                            *)

\* production_track_upsert: insert or take over.
Claimed(w) ==
    [d \in Dir |-> IF d \in Dirs(w) THEN [wf |-> w, status |-> "IN_PROGRESS"] ELSE rows[d]]

\* Mutant: the write is not scoped to the workflow.
MarkedAnyones(w, s) ==
    [d \in Dir |-> IF d \in Dirs(w) THEN [rows[d] EXCEPT !.status = s] ELSE rows[d]]

\* production_track_set_status: only rows that are still w's.
Marked(w, s) ==
    [d \in Dir |-> IF d \in Dirs(w) /\ rows[d].wf = w
                   THEN [rows[d] EXCEPT !.status = s] ELSE rows[d]]

\* production_track_delete_dirs: whoever's they are.
Deleted(ds) == [d \in Dir |-> IF d \in ds THEN NoRow ELSE rows[d]]

-----------------------------------------------------------------------------
(* Phases 0 and 1: onto stage.                                             *)

\* A commit to the directories ds of stage, as the open comparisons see it.
Pushed(ds, author) ==
    [w \in Wf |-> since[w] \cup author \cup IF Dirs(w) \cap ds = {} THEN {} ELSE {"touched"}]

\* Mutant: no row is written before the content is on stage.
ClaimNothing(w) ==
    /\ pc[w] = "idle" /\ Grantable(w, Dirs(w))
    /\ Goto(w, "claimed")
    /\ UNCHANGED <<flow, since, gate, rows, github, atlantis, history>>

\* The locks are granted, the feature pull request is there: claim the rows.
Claim(w) ==
    /\ pc[w] = "idle" /\ Grantable(w, Dirs(w))
    /\ rows' = Claimed(w)
    /\ Goto(w, "claimed")
    /\ UNCHANGED <<flow, since, gate, github, atlantis, history>>

\* The feature pull request is merged into stage.
MergeToStage(w) ==
    /\ pc[w] = "claimed"
    /\ stage' = [d \in Dir |-> IF d \in Dirs(w) THEN stage[d] + 1 ELSE stage[d]]
    /\ since' = Pushed(Dirs(w), {})
    /\ Goto(w, "onstage")
    /\ UNCHANGED <<flow, gate, rows, main, pull, ends, atlantis, history>>

\* _fail_deployment, from any step.
Fail(w) ==
    /\ rows' = Marked(w, "FAILED")
    /\ Goto(w, "failed")
    /\ UNCHANGED <<flow, since, gate, github, atlantis, history>>

\* The merge to stage was not approved, or did not succeed.
FailEarly(w) == pc[w] = "claimed" /\ Fail(w)

-----------------------------------------------------------------------------
(* Phase 2: plan and apply on the promotion pull request.                  *)

\* A command is posted, its result is not there yet.
Asked(w) == since[w] \ {"answered"}

\* Mutant: the number of a pull request that is reused is not taken over.
EnsurePullUnset(w) ==
    /\ pc[w] = "onstage"
    /\ \/ /\ PullOpen
          /\ UNCHANGED <<pull, ends, mine>>
       \/ /\ ~PullOpen /\ Pending # {} /\ pull < MaxPulls
          /\ pull' = pull + 1
          /\ ends' = [ends EXCEPT ![pull + 1] = "open"]
          /\ mine' = [mine EXCEPT ![w] = pull']
    /\ since' = [since EXCEPT ![w] = {}]
    /\ Goto(w, "planning")
    /\ UNCHANGED <<parks, gate, rows, stage, main, atlantis, history>>

\* ensure_promotion_pr, the baseline, the wiped signal slate, `atlantis plan`.
EnsurePull(w) ==
    /\ pc[w] = "onstage"
    /\ \/ /\ PullOpen
          /\ UNCHANGED <<pull, ends>>
       \/ /\ ~PullOpen /\ Pending # {} /\ pull < MaxPulls
          /\ pull' = pull + 1
          /\ ends' = [ends EXCEPT ![pull + 1] = "open"]
    /\ mine' = [mine EXCEPT ![w] = pull']
    /\ since' = [since EXCEPT ![w] = {}]
    /\ Goto(w, "planning")
    /\ UNCHANGED <<parks, gate, rows, stage, main, atlantis, history>>

\* GitHub refuses a pull request without a difference and the activity's error
\* ends the run; like any error that escapes run(), or a termination, between
\* the merge to stage and the end it leaves the rows as they are.  The locks
\* are cleaned up by an administrator.
Die(w) ==
    /\ HasKey(w) \/ pc[w] \in {"parked", "resuming"}
    /\ Goto(w, "failed")
    /\ UNCHANGED <<flow, since, gate, rows, github, atlantis, history>>

\* check_manual_commit_on_dirs: our directories changed, and not by bots alone.
Touched(w) == {"touched", "human"} \subseteq since[w]

\* At every tick of a wait, and before the apply.
FailManualCommit(w) == Active(w) /\ Touched(w) /\ Fail(w)

\* 24 hours without a result, without a fix or without the locks.
FailStuck(w) == (Active(w) \/ pc[w] \in {"parked", "resuming"}) /\ Fail(w)

\* Mutant: any plan result is taken for the answer.
PlannedUnanswered(w) ==
    /\ pc[w] = "planning" /\ ~Touched(w)
    /\ since' = [since EXCEPT ![w] = Asked(w) \ {"hint"}]
    /\ Goto(w, "applying")
    /\ UNCHANGED <<flow, gate, rows, github, atlantis, history>>

\* The plan after our command succeeded, was verified and approved: apply.
Planned(w) ==
    /\ pc[w] = "planning" /\ "answered" \in since[w] /\ ~Touched(w)
    /\ since' = [since EXCEPT ![w] = Asked(w) \ {"hint"}]
    /\ Goto(w, "applying")
    /\ UNCHANGED <<flow, gate, rows, github, atlantis, history>>

\* poll_for_apply_status: the latest result on the pull request, however old.
Result(w) == latest[mine[w]][Dirs(w)]

\* The apply succeeded: mark our rows, go to the gate.
Applied(w) ==
    /\ pc[w] = "applying" /\ Result(w) \in {"success", "applied, then planned"}
    /\ mishaps' = IF "answered" \in since[w] THEN mishaps ELSE mishaps \cup {"old result"}
    /\ rows' = Marked(w, "APPLIED")
    /\ Goto(w, "gate")
    /\ UNCHANGED <<flow, since, gate, github, atlantis, unapplied>>

ApplyAgain(w) ==
    /\ pc[w] = "applying" /\ Result(w) = "failed"
    /\ since' = [since EXCEPT ![w] = Asked(w) \ {"hint"}]
    /\ UNCHANGED <<pc, flow, gate, rows, github, atlantis, history>>

\* Plan, apply or approval failed.
Park(w) ==
    /\ Active(w) /\ parks[w] < MaxParks
    /\ parks' = [parks EXCEPT ![w] = @ + 1]
    /\ Goto(w, "parked")
    /\ UNCHANGED <<mine, since, gate, rows, github, atlantis, history>>

\* A fix was seen.
Wake(w) ==
    /\ pc[w] = "parked"
    /\ rows' = Marked(w, "RESUMING")
    /\ Goto(w, "resuming")
    /\ UNCHANGED <<flow, since, gate, github, atlantis, history>>

\* The locks are granted again; re-plan, on the same pull request.
ResumePlan(w) ==
    /\ pc[w] = "resuming" /\ Grantable(w, Shared[w])
    /\ rows' = Marked(w, "IN_PROGRESS")
    /\ since' = [since EXCEPT ![w] = Asked(w)]
    /\ Goto(w, "planning")
    /\ UNCHANGED <<flow, gate, github, atlantis, history>>

-----------------------------------------------------------------------------
(* The pull request ended under the deployment.                            *)

PullSeen(w, how) == (Active(w) \/ pc[w] = "parked") /\ ends[mine[w]] = how

FailPullClosed(w) == PullSeen(w, "closed") /\ Fail(w)

\* _apply_result is "success", be it a hint: nothing is checked, no row deleted.
\* (A parked one that polled the merge posts one more plan before it closes.)
MergedAfterHint(w) ==
    /\ PullSeen(w, "merged") /\ "hint" \in since[w]
    /\ Goto(w, "deployed")
    /\ UNCHANGED <<flow, since, gate, rows, github, atlantis, history>>

\* Apply success, no manual commit, no later plan.
Evidence(w) == Result(w) = "success" /\ ~Touched(w)

Adopt(w) ==
    /\ PullSeen(w, "merged") /\ "hint" \notin since[w] /\ Evidence(w)
    /\ rows' = Deleted(Dirs(w))
    /\ mishaps' = mishaps \cup {"adopted"}
    /\ Goto(w, "deployed")
    /\ UNCHANGED <<flow, since, gate, github, atlantis, unapplied>>

FailMergedBeforeApply(w) ==
    /\ PullSeen(w, "merged") /\ "hint" \notin since[w] /\ ~Evidence(w)
    /\ Fail(w)

-----------------------------------------------------------------------------
(* _merge_gate_and_closeout.                                               *)

\* evaluate_merge_gate reads the head first ...
ReadHead(w) ==
    /\ pc[w] = "gate"
    /\ gate' = [NoGate EXCEPT !.head = stage]
    /\ Goto(w, "evaluating")
    /\ UNCHANGED <<flow, since, rows, github, atlantis, history>>

\* Rows of workflows that no longer run.
Healed(w) ==
    [d \in Dir |->
       IF /\ rows[d].status \in {"IN_PROGRESS", "RESUMING"} /\ d \notin Dirs(w)
          /\ \A v \in Wf : rows[d].wf = v => Ended(v)
       THEN [rows[d] EXCEPT !.status = "FAILED"] ELSE rows[d]]

Mergeable(w, d) == d \in Dirs(w) \/ rows[d].status = "APPLIED"

\* ... then the files, then the rows.
Evaluate(w) ==
    /\ pc[w] = "evaluating"
    /\ rows' = Healed(w)
    /\ \/ /\ \A d \in Pending : Mergeable(w, d)
          /\ gate' = [gate EXCEPT !.dirs =
                        Dirs(w) \cup {d \in Pending : rows[d].status = "APPLIED"}]
          /\ Goto(w, "merging")
       \/ /\ \E d \in Pending : ~Mergeable(w, d)
          /\ Goto(w, "deployed")
          /\ UNCHANGED gate
    /\ UNCHANGED <<flow, since, github, atlantis, history>>

\* GitHub merges: all of stage is on main; Atlantis forgets the plans.
MergePull ==
    /\ main' = stage
    /\ ends' = [ends EXCEPT ![pull] = "merged"]
    /\ plans' = [q \in Project |-> NoPlan]
    /\ UNCHANGED <<stage, pull, live, latest>>

\* What a merge would put on main without an apply.
Unapplied == {d \in Pending : live[d] # stage[d]}

\* Mutant: the head is not compared.
MergeAnyHead(w) ==
    /\ pc[w] = "merging" /\ PullOpen /\ mine[w] = pull
    /\ MergePull
    /\ unapplied' = unapplied \cup Unapplied
    /\ Goto(w, "merged")
    /\ UNCHANGED <<flow, since, gate, rows, mishaps>>

\* merge_promotion_pr at the head that was evaluated.
Merge(w) ==
    /\ pc[w] = "merging" /\ PullOpen /\ mine[w] = pull /\ gate.head = stage
    /\ MergePull
    /\ unapplied' = unapplied \cup Unapplied
    /\ Goto(w, "merged")
    /\ UNCHANGED <<flow, since, gate, rows, mishaps>>

\* "head_moved": evaluate again; "failed", or the fifth time: leave it open.
MergeRefused(w) ==
    /\ pc[w] = "merging"
    /\ \/ gate.head # stage /\ Goto(w, "gate")
       \/ Goto(w, "deployed")
    /\ UNCHANGED <<flow, since, gate, rows, github, atlantis, history>>

DeleteMerged(w) ==
    /\ pc[w] = "merged"
    /\ rows' = Deleted(gate.dirs)
    /\ Goto(w, "deployed")
    /\ UNCHANGED <<flow, since, gate, github, atlantis, history>>

-----------------------------------------------------------------------------
(* Atlantis and the humans.                                                *)

\* The deployments that follow the project q on the open pull request.
Following(q) == {w \in Wf : Active(w) /\ Dirs(w) = q /\ mine[w] = pull}

Told(ws, what) == [w \in Wf |-> IF w \in ws THEN since[w] \cup what ELSE since[w]]

AtlantisPlan(q) ==
    /\ PullOpen
    /\ plans' = [plans EXCEPT ![q] = [d \in q |-> stage[d]]]
    /\ latest' = [latest EXCEPT ![pull][q] =
                    IF @ = "success" THEN "applied, then planned" ELSE @]
    /\ since' = Told({w \in Following(q) : pc[w] = "planning"}, {"answered"})
    /\ UNCHANGED <<pc, flow, gate, rows, github, live, history>>

\* Applies the plan file and consumes it; apply_completed is routed to the follower.
AtlantisApply(q) ==
    /\ PullOpen /\ plans[q] # NoPlan
    /\ live' = [d \in Dir |-> IF d \in q THEN plans[q][d] ELSE live[d]]
    /\ plans' = [plans EXCEPT ![q] = NoPlan]
    /\ latest' = [latest EXCEPT ![pull][q] = "success"]
    /\ since' = [w \in Wf |-> since[w] \cup (IF w \in Following(q) THEN {"hint"} ELSE {})
                                       \cup IF w \in Following(q) /\ pc[w] = "applying"
                                            THEN {"answered"} ELSE {}]
    /\ UNCHANGED <<pc, flow, gate, rows, github, history>>

\* Without a plan file, or because Terraform says so, the command fails.
AtlantisApplyFails(q) ==
    /\ PullOpen
    /\ latest' = [latest EXCEPT ![pull][q] = "failed"]
    /\ since' = Told({w \in Following(q) : pc[w] = "applying"}, {"answered"})
    /\ UNCHANGED <<pc, flow, gate, rows, github, live, plans, history>>

HumanPush(d) ==
    /\ d \in Edited /\ stage[d] < MaxVersion
    /\ stage' = [stage EXCEPT ![d] = @ + 1]
    /\ since' = Pushed({d}, {"human"})
    /\ UNCHANGED <<pc, flow, gate, rows, main, pull, ends, atlantis, history>>

HumanMerge ==
    /\ PullOpen
    /\ MergePull
    /\ UNCHANGED <<pc, flow, since, gate, rows, history>>

HumanClose ==
    /\ PullOpen
    /\ ends' = [ends EXCEPT ![pull] = "closed"]
    /\ plans' = [q \in Project |-> NoPlan]
    /\ UNCHANGED <<pc, flow, since, gate, rows, stage, main, pull, live, latest, history>>

-----------------------------------------------------------------------------
Deployment(w) ==
    \/ Claim(w) \/ MergeToStage(w) \/ FailEarly(w) \/ EnsurePull(w) \/ Die(w)
    \/ Planned(w) \/ Applied(w) \/ ApplyAgain(w)
    \/ FailManualCommit(w) \/ FailStuck(w)
    \/ Park(w) \/ Wake(w) \/ ResumePlan(w)
    \/ FailPullClosed(w) \/ MergedAfterHint(w) \/ Adopt(w) \/ FailMergedBeforeApply(w)
    \/ ReadHead(w) \/ Evaluate(w) \/ Merge(w) \/ MergeRefused(w) \/ DeleteMerged(w)

Outside ==
    \/ \E q \in Project : AtlantisPlan(q) \/ AtlantisApply(q) \/ AtlantisApplyFails(q)
    \/ \E d \in Dir : HumanPush(d)
    \/ HumanMerge \/ HumanClose

Next == (\E w \in Wf : Deployment(w)) \/ Outside

Spec == GInit /\ [][Next]_vars

-----------------------------------------------------------------------------
PC == {"idle", "claimed", "onstage", "planning", "applying", "parked", "resuming",
       "gate", "evaluating", "merging", "merged", "deployed", "failed"}
Status == {"none", "IN_PROGRESS", "RESUMING", "APPLIED", "FAILED"}
Version == [Dir -> Nat]

\* Type invariant of the deployments, the rows, GitHub and Atlantis.
TypeOK ==
    /\ pc \in [Wf -> PC] /\ parks \in [Wf -> 0..MaxParks]
    /\ mine \in [Wf -> 0..MaxPulls]
    /\ \A w \in Wf : Active(w) \/ pc[w] \in {"parked", "resuming"} => mine[w] > 0
    /\ since \in [Wf -> SUBSET {"touched", "human", "hint", "answered"}]
    /\ gate \in [head : Version, dirs : SUBSET Dir] /\ unapplied \subseteq Dir
    /\ mishaps \subseteq {"old result", "adopted"}
    /\ rows \in [Dir -> [wf : Wf \cup {None}, status : Status]]
    /\ stage \in Version /\ main \in Version /\ live \in Version
    /\ pull \in 0..MaxPulls
    /\ ends \in [1..MaxPulls -> {"none", "open", "merged", "closed"}]
    /\ DOMAIN plans = Project
    /\ \A q \in Project : plans[q] = NoPlan \/ plans[q] \in [q -> Nat]
    /\ latest \in [1..MaxPulls ->
                     [Project -> {"none", "success", "applied, then planned", "failed"}]]

\* What DevLift itself merges to main was applied, of every deployment whose
\* content rides along, and is not the content of a human; unless the result of an
\* earlier apply was taken for one's own, or a human pushed to a directory that is
\* being deployed.
MergesApplied ==
    "old result" \notin mishaps => unapplied \subseteq Edited \cap UNION Project

\* The same, whatever result was taken: the promotion pull request says that DevLift
\* merges it only when every changed production directory is applied.
AutoMergesApplied == unapplied \subseteq Edited \cap UNION Project

\* A row that says APPLIED over content that is not on main tells the truth.
AppliedRowsTrue ==
    "old result" \notin mishaps =>
      \A d \in Pending \ Edited : rows[d].status = "APPLIED" => live[d] = stage[d]

\* Content of a deployment that waits for its promotion has a row, so that the
\* gate does not take it for a human's (as long as no deployment was adopted).
RowBeforeContent ==
    "adopted" \notin mishaps => \A d \in Pending \ Edited : rows[d] # NoRow

\* A deployment that closed with its pull request left open rides the next merge:
\* nobody but a later deployment of the directory makes its row a blocker.
LeftOpenRides ==
    \A w \in Wf, d \in Dir :
      pc[w] = "deployed" /\ d \in Pending /\ rows[d].wf = w /\ PullOpen /\ mine[w] = pull =>
        rows[d].status = "APPLIED"
=============================================================================

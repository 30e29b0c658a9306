-------------------------- MODULE MergeGateProofs --------------------------
(* Theorems about MergeGate: the rows and the gate tell what was applied.  *)
EXTENDS MergeGate, TLAPS

-----------------------------------------------------------------------------
(* The inductive invariant.                                                *)

Trusted == "old result" \notin mishaps

\* Whatever plan of d Atlantis still has is of what is on stage.
Fresh(d) ==
    \A q \in Project : d \in q /\ plans[q] # NoPlan => plans[q][d] = stage[d]

\* What is on stage is applied, and no apply can change that.
Settled(d) == live[d] = stage[d] /\ Fresh(d)

\* One deployment has the key; what deployments hold is disjoint.
Exclusion ==
    \A v, w \in Wf : v # w =>
      /\ ~(HasKey(v) /\ HasKey(w))
      /\ Holds(v) \cap Holds(w) = {}

\* From the answer to its plan on, the plan file of a deployment is of its content.
PlansFresh ==
    \A w \in Wf : (pc[w] = "planning" /\ "answered" \in since[w]) \/ pc[w] = "applying" =>
      \A d \in Dirs(w) \ Edited : Fresh(d)

\* An answer to its apply that says success says that its content is applied.
AnswersTrue ==
    \A w \in Wf : /\ pc[w] = "applying" /\ "answered" \in since[w]
                  /\ Result(w) \in {"success", "applied, then planned"}
      => \A d \in Dirs(w) \ Edited : live[d] = stage[d]

\* At the gate it still is.
GateSettled ==
    \A w \in Wf : pc[w] \in {"gate", "evaluating", "merging"} =>
      \A d \in Dirs(w) \ Edited : Settled(d)

RowsSettled ==
    \A d \in Dir \ Edited : rows[d].status = "APPLIED" => Settled(d)

\* A deployment has its rows before its content comes.
ClaimedFirst ==
    \A w \in Wf : pc[w] = "claimed" => \A d \in Dirs(w) : rows[d].status # "APPLIED"

RowsOfProjects == \A d \in Dir : rows[d].status = "APPLIED" => d \in UNION Project

\* The head that was evaluated is an ancestor of stage.
HeadBehind ==
    \A w \in Wf : pc[w] \in {"evaluating", "merging"} =>
      \A d \in Dir : gate.head[d] <= stage[d]

\* While the head is the one that was evaluated, a merge is right.
Evaluated ==
    \A w \in Wf : pc[w] = "merging" /\ gate.head = stage =>
      \A d \in Pending : Settled(d) \/ d \in Edited \cap UNION Project

IInv ==
    /\ TypeOK
    /\ Exclusion /\ PlansFresh /\ ClaimedFirst /\ RowsOfProjects /\ HeadBehind
    /\ Trusted => AnswersTrue /\ GateSettled /\ RowsSettled /\ Evaluated /\ MergesApplied

-----------------------------------------------------------------------------
(* Types.                                                                  *)

RowType == [wf : Wf \cup {None}, status : Status]
Events == [Wf -> SUBSET {"touched", "human", "hint", "answered"}]

LEMMA DirsType == ASSUME NEW w \in Wf PROVE Dirs(w) \subseteq Dir /\ Dirs(w) \in Project
  BY GateAssumption DEF Dirs, Project

LEMMA ProjectType == ASSUME NEW q \in Project PROVE q \subseteq Dir
  BY DirsType DEF Project

\* The writes to production_deployment_track keep its type.
LEMMA ClaimTyped ==
  ASSUME NEW w \in Wf, rows \in [Dir -> RowType] PROVE Claimed(w) \in [Dir -> RowType]
  BY DEF Claimed, RowType, Status

LEMMA MarkTyped ==
  ASSUME NEW w \in Wf, NEW s \in Status, rows \in [Dir -> RowType]
  PROVE  Marked(w, s) \in [Dir -> RowType]
  BY DEF Marked, RowType, Status

LEMMA DeleteTyped ==
  ASSUME NEW ds, rows \in [Dir -> RowType] PROVE Deleted(ds) \in [Dir -> RowType]
  BY DEF Deleted, RowType, Status, NoRow

LEMMA HealTyped ==
  ASSUME NEW w \in Wf, rows \in [Dir -> RowType] PROVE Healed(w) \in [Dir -> RowType]
  BY DEF Healed, RowType, Status

LEMMA InitTyped == GInit => TypeOK
  BY GateAssumption DEF GInit, TypeOK, NoGate, NoRow, Version, PC, Status, Active

\* A step of a deployment that writes at most its rows, its events and the history.
LEMMA FlowTyped ==
  ASSUME TypeOK, NEW w \in Wf, NEW s \in PC,
         pc' = [pc EXCEPT ![w] = s],
         s \in {"planning", "applying", "parked", "resuming"} =>
           pc[w] \in {"planning", "applying", "parked", "resuming"},
         rows' \in [Dir -> RowType], since' \in Events,
         parks' \in [Wf -> 0..MaxParks], gate' \in [head : Version, dirs : SUBSET Dir],
         mishaps' \subseteq {"old result", "adopted"},
         UNCHANGED <<mine, github, atlantis, unapplied>>
  PROVE  TypeOK'
  BY DEF TypeOK, github, atlantis, Active, RowType, Events

LEMMA PushTyped ==
  ASSUME NEW ds, NEW author \in SUBSET {"human"}, since \in Events
  PROVE  Pushed(ds, author) \in Events
  BY DEF Pushed, Events

LEMMA TellTyped ==
  ASSUME NEW ws, NEW what \in SUBSET {"hint", "answered"}, since \in Events
  PROVE  Told(ws, what) \in Events
  BY DEF Told, Events

LEMMA AskTyped ==
  ASSUME NEW w \in Wf, since \in Events
  PROVE  /\ [since EXCEPT ![w] = Asked(w)] \in Events
         /\ [since EXCEPT ![w] = Asked(w) \ {"hint"}] \in Events
  BY DEF Asked, Events

LEMMA DeploymentTyped == ASSUME TypeOK, NEW w \in Wf, Deployment(w) PROVE TypeOK'
  <1> USE DEF RowType
  <1>0. /\ rows \in [Dir -> RowType] /\ since \in Events
        /\ parks \in [Wf -> 0..MaxParks] /\ gate \in [head : Version, dirs : SUBSET Dir]
        /\ mishaps \subseteq {"old result", "adopted"}
        /\ Dirs(w) \subseteq Dir
    BY DirsType DEF TypeOK, Events
  <1>f. ASSUME Fail(w) PROVE TypeOK'
    BY <1>0, <1>f, FlowTyped, MarkTyped DEF Fail, Goto, PC, Status, flow, github, atlantis, history
  <1>1. CASE Claim(w)
    BY <1>0, <1>1, FlowTyped, ClaimTyped
    DEF Claim, Goto, PC, flow, github, atlantis, history, Status
  <1>2. CASE MergeToStage(w)
    <2>0. stage' \in Version
      <3>1. stage \in [Dir -> Nat]
        BY DEF TypeOK, Version
      <3>2. QED BY <1>2, <3>1 DEF MergeToStage, Version
    <2>1. since' \in Events
      BY <1>0, <1>2, PushTyped DEF MergeToStage
    <2>2. pc' \in [Wf -> PC] /\ \A v \in Wf : Active(v)' \/ pc'[v] \in {"parked", "resuming"} =>
                                      Active(v) \/ pc[v] \in {"parked", "resuming"}
      BY <1>2 DEF MergeToStage, Goto, PC, TypeOK, Active
    <2>3. QED
      BY <1>0, <1>2, <2>0, <2>1, <2>2 DEF MergeToStage, TypeOK, Events, flow, atlantis, history
  <1>3. CASE EnsurePull(w)
    <2>1. /\ pull' \in 0..MaxPulls /\ pull' > 0
          /\ ends' \in [1..MaxPulls -> {"none", "open", "merged", "closed"}]
      <3>1. CASE PullOpen
        BY <1>3, <3>1 DEF EnsurePull, TypeOK, PullOpen
      <3>2. CASE ~PullOpen
        <4>1. pull \in 0..MaxPulls /\ MaxPulls \in Nat /\ pull < MaxPulls /\ pull' = pull + 1
          BY <1>3, <3>2, GateAssumption DEF EnsurePull, TypeOK
        <4>2. pull + 1 \in 1..MaxPulls
          BY <4>1
        <4>3. ends' = [ends EXCEPT ![pull + 1] = "open"]
          BY <1>3, <3>2 DEF EnsurePull
        <4>4. ends' \in [1..MaxPulls -> {"none", "open", "merged", "closed"}]
          BY <4>2, <4>3 DEF TypeOK
        <4>5. QED BY <4>1, <4>4
      <3>3. QED BY <3>1, <3>2
    <2>2. mine' \in [Wf -> 0..MaxPulls] /\ since' \in Events
      BY <1>0, <1>3, <2>1 DEF EnsurePull, TypeOK, Events
    <2>3. pc' \in [Wf -> PC] /\ \A v \in Wf : Active(v)' \/ pc'[v] \in {"parked", "resuming"} =>
                                                mine'[v] > 0
      BY <1>3, <2>1 DEF EnsurePull, Goto, PC, TypeOK, Active
    <2>4. QED
      BY <1>0, <1>3, <2>1, <2>2, <2>3 DEF EnsurePull, TypeOK, Events, atlantis, history
  <1>4. CASE Die(w)
    BY <1>0, <1>4, FlowTyped
    DEF Die, Goto, PC, flow, github, atlantis, history, HasKey
  <1>5. CASE Planned(w)
    BY <1>0, <1>5, FlowTyped, AskTyped
    DEF Planned, Goto, PC, flow, github, atlantis, history
  <1>6. CASE Applied(w)
    BY <1>0, <1>6, FlowTyped, MarkTyped
    DEF Applied, Goto, PC, flow, github, atlantis, history, Status
  <1>7. CASE ApplyAgain(w)
    BY <1>0, <1>7, AskTyped
    DEF ApplyAgain, TypeOK, Events, Active, flow, github, atlantis, history
  <1>8. CASE Park(w)
    <2>1. parks' \in [Wf -> 0..MaxParks]
      <3>1. parks[w] \in 0..MaxParks /\ parks[w] < MaxParks /\ MaxParks \in Nat
        BY <1>0, <1>8, GateAssumption DEF Park
      <3>2. parks[w] + 1 \in 0..MaxParks
        BY <3>1
      <3>3. QED BY <1>0, <1>8, <3>2 DEF Park
    <2>2. QED
      BY <1>0, <1>8, <2>1, FlowTyped DEF Park, Goto, PC, flow, github, atlantis, history, Active
  <1>9. CASE Wake(w)
    BY <1>0, <1>9, FlowTyped, MarkTyped
    DEF Wake, Goto, PC, flow, github, atlantis, history, Status
  <1>10. CASE ResumePlan(w)
    BY <1>0, <1>10, FlowTyped, MarkTyped, AskTyped
    DEF ResumePlan, Goto, PC, flow, github, atlantis, history, Status
  <1>11. CASE MergedAfterHint(w)
    BY <1>0, <1>11, FlowTyped
    DEF MergedAfterHint, Goto, PC, flow, github, atlantis, history
  <1>12. CASE Adopt(w)
    BY <1>0, <1>12, FlowTyped, DeleteTyped
    DEF Adopt, Goto, PC, flow, github, atlantis, history
  <1>13. CASE ReadHead(w)
    BY <1>0, <1>13, FlowTyped
    DEF ReadHead, Goto, PC, flow, github, atlantis, history, NoGate, TypeOK
  <1>14. CASE Evaluate(w)
    <2>1. gate' \in [head : Version, dirs : SUBSET Dir]
      BY <1>0, <1>14 DEF Evaluate, Pending
    <2>2. \E s \in {"merging", "deployed"} : pc' = [pc EXCEPT ![w] = s]
      BY <1>14 DEF Evaluate, Goto
    <2>3. rows' \in [Dir -> [wf : Wf \cup {None}, status : Status]]
      BY <1>0, <1>14, HealTyped DEF Evaluate
    <2>4. QED
      BY <1>0, <1>14, <2>1, <2>2, <2>3, FlowTyped
      DEF Evaluate, PC, flow, github, atlantis, history
  <1>15. CASE Merge(w)
    BY <1>0, <1>15 DEF Merge, MergePull, Unapplied, Pending, PullOpen, Goto, PC, TypeOK, flow, Active
  <1>16. CASE MergeRefused(w)
    BY <1>0, <1>16, FlowTyped
    DEF MergeRefused, Goto, PC, flow, github, atlantis, history
  <1>17. CASE DeleteMerged(w)
    BY <1>0, <1>17, FlowTyped, DeleteTyped
    DEF DeleteMerged, Goto, PC, flow, github, atlantis, history
  <1>q. QED
    BY <1>f, <1>1, <1>2, <1>3, <1>4, <1>5, <1>6, <1>7, <1>8, <1>9, <1>10, <1>11, <1>12, <1>13, <1>14, <1>15, <1>16, <1>17
    DEF Deployment, FailEarly, FailManualCommit, FailStuck, FailPullClosed, FailMergedBeforeApply

LEMMA OutsideTyped == ASSUME TypeOK, Outside PROVE TypeOK'
  <1> USE DEF flow, github, atlantis, history
  <1>0. since \in Events
    BY DEF Events, TypeOK
  <1>p. PullOpen => pull \in 1..MaxPulls
    <2>1. pull \in 0..MaxPulls /\ MaxPulls \in Nat
      BY GateAssumption DEF TypeOK
    <2>2. QED BY <2>1 DEF PullOpen
  <1>1. ASSUME NEW q \in Project, AtlantisPlan(q) PROVE TypeOK'
    <2>1. since' \in Events
      BY <1>0, <1>1, TellTyped DEF AtlantisPlan
    <2>2. [d \in q |-> stage[d]] \in [q -> Nat]
      BY ProjectType DEF Version, TypeOK
    <2>3. latest' \in [1..MaxPulls ->
                     [Project -> {"none", "success", "applied, then planned", "failed"}]]
      <3> DEFINE L == {"none", "success", "applied, then planned", "failed"}
                 r == latest[pull][q]
                 new == IF r = "success" THEN "applied, then planned" ELSE r
      <3>1. latest \in [1..MaxPulls -> [Project -> L]] /\ pull \in 1..MaxPulls
        BY <1>1, <1>p DEF AtlantisPlan, TypeOK
      <3>2. new \in L
        BY <3>1
      <3>3. latest' = [latest EXCEPT ![pull][q] = new]
        BY <1>1, <3>1 DEF AtlantisPlan
      <3> HIDE DEF new, L
      <3> QED BY <1>1, <3>1, <3>2, <3>3 DEF L
    <2>4. QED BY <1>1, <2>1, <2>2, <2>3 DEF AtlantisPlan, Events, TypeOK, Active
  <1>2. ASSUME NEW q \in Project, AtlantisApply(q) PROVE TypeOK'
    <2>1. since' \in Events
      BY <1>0, <1>2 DEF AtlantisApply, Events, TypeOK
    <2>2. live' \in Version
      BY <1>2, ProjectType DEF AtlantisApply, Version, TypeOK, NoPlan
    <2>3. latest' \in [1..MaxPulls ->
                     [Project -> {"none", "success", "applied, then planned", "failed"}]]
      BY <1>2, <1>p DEF AtlantisApply, TypeOK
    <2>4. QED BY <1>2, <2>1, <2>2, <2>3 DEF AtlantisApply, Events, TypeOK, Active
  <1>3. ASSUME NEW q \in Project, AtlantisApplyFails(q) PROVE TypeOK'
    <2>1. since' \in Events
      BY <1>0, <1>3, TellTyped DEF AtlantisApplyFails
    <2>2. QED BY <1>3, <1>p, <2>1 DEF AtlantisApplyFails, Events, TypeOK, Active
  <1>4. ASSUME NEW d \in Dir, HumanPush(d) PROVE TypeOK'
    <2>1. since' \in Events
      BY <1>0, <1>4, PushTyped DEF HumanPush
    <2>2. stage' \in Version
      <3>1. stage \in [Dir -> Nat] /\ stage' = [stage EXCEPT ![d] = stage[d] + 1]
        BY <1>4 DEF HumanPush, Version, TypeOK
      <3>2. QED BY <3>1 DEF Version
    <2>3. QED BY <1>4, <2>1, <2>2 DEF HumanPush, Events, TypeOK, Active
  <1>5. CASE HumanMerge
    BY <1>5 DEF HumanMerge, MergePull, PullOpen, TypeOK, Active
  <1>6. CASE HumanClose
    BY <1>6 DEF HumanClose, PullOpen, TypeOK, Active
  <1>q. QED BY <1>1, <1>2, <1>3, <1>4, <1>5, <1>6 DEF Outside

LEMMA StepTyped == TypeOK /\ [Next]_vars => TypeOK'
  <1>1. TypeOK /\ UNCHANGED vars => TypeOK'
    BY DEF TypeOK, vars, flow, github, atlantis, history, Active
  <1>2. QED BY <1>1, DeploymentTyped, OutsideTyped DEF Next

\* Deployments, rows, GitHub and Atlantis keep their types; who has planned follows
\* a pull request.
THEOREM TypeCorrect == Spec => []TypeOK
  BY InitTyped, StepTyped, PTL DEF Spec

-----------------------------------------------------------------------------
(* Which step changes what.                                                *)

LEMMA DeploymentMovesOne ==
  ASSUME NEW v \in Wf, Deployment(v)
  PROVE  pc' = pc \/ \E s \in PC : pc' = [pc EXCEPT ![v] = s]
  BY DEF Goto, PC, Deployment, Claim, MergeToStage, FailEarly, Fail, EnsurePull, Die, Planned,
     Applied, ApplyAgain, FailManualCommit, FailStuck, Park, Wake, ResumePlan, FailPullClosed,
     MergedAfterHint, Adopt, FailMergedBeforeApply, ReadHead, Evaluate, Merge, MergeRefused,
     DeleteMerged

\* main takes what is on stage, when the pull request is merged, and nothing else.
LEMMA MainMoves ==
  ASSUME Next
  PROVE  main' = main \/ (main' = stage /\ stage' = stage)
  <1>1. ASSUME NEW v \in Wf,
               \/ Claim(v) \/ MergeToStage(v) \/ FailEarly(v) \/ EnsurePull(v) \/ Die(v)
               \/ Planned(v) \/ Applied(v) \/ ApplyAgain(v) \/ FailManualCommit(v) \/ FailStuck(v)
        PROVE  main' = main
    BY <1>1 DEF Claim, MergeToStage, FailEarly, Fail, EnsurePull, Die, Planned, Applied,
       ApplyAgain, FailManualCommit, FailStuck, github
  <1>2. ASSUME NEW v \in Wf,
               \/ Park(v) \/ Wake(v) \/ ResumePlan(v) \/ FailPullClosed(v) \/ MergedAfterHint(v)
               \/ Adopt(v) \/ FailMergedBeforeApply(v)
               \/ ReadHead(v) \/ Evaluate(v) \/ MergeRefused(v) \/ DeleteMerged(v)
        PROVE  main' = main
    BY <1>2 DEF Park, Wake, ResumePlan, FailPullClosed, Fail, MergedAfterHint, Adopt,
       FailMergedBeforeApply, ReadHead, Evaluate, MergeRefused, DeleteMerged, github
  <1>3. ASSUME NEW v \in Wf, Merge(v)
        PROVE  main' = stage /\ stage' = stage
    BY <1>3 DEF Merge, MergePull
  <1>4. Outside => main' = main \/ (main' = stage /\ stage' = stage)
    BY DEF Outside, AtlantisPlan, AtlantisApply, AtlantisApplyFails, HumanPush, HumanMerge,
       HumanClose, MergePull, github
  <1> QED BY <1>1, <1>2, <1>3, <1>4 DEF Next, Deployment

LEMMA Effects ==
  ASSUME Next
  PROVE  /\ stage' = stage \/ (\E v \in Wf : MergeToStage(v)) \/ \E d \in Dir : HumanPush(d)
         /\ live' = live \/ \E q \in Project : AtlantisApply(q)
         /\ \/ plans' = plans \/ plans' = [q \in Project |-> NoPlan]
            \/ \E q \in Project : AtlantisPlan(q) \/ AtlantisApply(q)
         /\ main' = main \/ (main' = stage /\ stage' = stage)
         /\ gate' = gate \/ \E v \in Wf : ReadHead(v) \/ Evaluate(v)
         /\ unapplied' = unapplied \/ \E v \in Wf : Merge(v)
         /\ mishaps \subseteq mishaps'
         /\ \/ rows' = rows
            \/ \E v \in Wf : Claim(v) \/ Applied(v) \/ rows' = Healed(v)
            \/ \E v \in Wf, s \in {"FAILED", "RESUMING", "IN_PROGRESS"} : rows' = Marked(v, s)
            \/ \E ds \in {Dirs(v) : v \in Wf} \cup {gate.dirs} : rows' = Deleted(ds)
         /\ pc' = pc \/ \E v \in Wf, s \in PC : Deployment(v) /\ pc' = [pc EXCEPT ![v] = s]
  <1> USE DEF Next, Deployment, Outside, Claim, MergeToStage, FailEarly, Fail, EnsurePull, Die,
    Planned, Applied, ApplyAgain, FailManualCommit, FailStuck, Park, Wake, ResumePlan,
    FailPullClosed, MergedAfterHint, Adopt, FailMergedBeforeApply, ReadHead, Evaluate, Merge,
    MergeRefused, DeleteMerged, AtlantisPlan, AtlantisApply, AtlantisApplyFails, HumanPush,
    HumanMerge, HumanClose, MergePull, flow, github, atlantis, history
  <1>1. stage' = stage \/ (\E v \in Wf : MergeToStage(v)) \/ \E d \in Dir : HumanPush(d)
    OBVIOUS
  <1>2. live' = live \/ \E q \in Project : AtlantisApply(q)
    OBVIOUS
  <1>3. \/ plans' = plans \/ plans' = [q \in Project |-> NoPlan]
        \/ \E q \in Project : AtlantisPlan(q) \/ AtlantisApply(q)
    OBVIOUS
  <1>4. main' = main \/ (main' = stage /\ stage' = stage)
    <2> HIDE DEF Deployment, Outside
    <2>1. QED BY MainMoves
  <1>5. gate' = gate \/ \E v \in Wf : ReadHead(v) \/ Evaluate(v)
    OBVIOUS
  <1>6. unapplied' = unapplied \/ \E v \in Wf : Merge(v)
    OBVIOUS
  <1>7. mishaps \subseteq mishaps'
    OBVIOUS
  <1>8. \/ rows' = rows
        \/ \E v \in Wf : Claim(v) \/ Applied(v) \/ rows' = Healed(v)
        \/ \E v \in Wf, s \in {"FAILED", "RESUMING", "IN_PROGRESS"} : rows' = Marked(v, s)
        \/ \E ds \in {Dirs(v) : v \in Wf} \cup {gate.dirs} : rows' = Deleted(ds)
    OBVIOUS
  <1>9. pc' = pc \/ \E v \in Wf, s \in PC : Deployment(v) /\ pc' = [pc EXCEPT ![v] = s]
    <2>1. Outside => pc' = pc
      OBVIOUS
    <2>2. Next => (\E v \in Wf : Deployment(v)) \/ Outside
      BY DEF Next
    <2> HIDE DEF Deployment, Outside
    <2>3. QED BY <2>1, <2>2, DeploymentMovesOne
  <1>10. QED BY <1>1, <1>2, <1>3, <1>4, <1>5, <1>6, <1>7, <1>8, <1>9

-----------------------------------------------------------------------------
(* What stays while the content of a directory stays.                      *)

LEMMA FreshStays ==
  ASSUME TypeOK, Next, NEW d \in Dir, stage'[d] = stage[d], Fresh(d)
  PROVE  Fresh(d)'
  <1>1. CASE plans' = plans \/ plans' = [q \in Project |-> NoPlan]
    BY <1>1 DEF Fresh
  <1>2. ASSUME NEW q \in Project, AtlantisPlan(q) PROVE Fresh(d)'
    BY <1>2 DEF AtlantisPlan, Fresh, TypeOK
  <1>3. ASSUME NEW q \in Project, AtlantisApply(q) PROVE Fresh(d)'
    BY <1>3 DEF AtlantisApply, Fresh, TypeOK
  <1>4. QED BY <1>1, <1>2, <1>3, Effects

LEMMA SettledStays ==
  ASSUME TypeOK, Next, NEW d \in Dir, stage'[d] = stage[d], Settled(d)
  PROVE  Settled(d)'
  <1>1. Fresh(d)'
    BY FreshStays DEF Settled
  <1>2. live'[d] = live[d] \/ \E q \in Project : AtlantisApply(q)
    BY Effects
  <1>3. ASSUME NEW q \in Project, AtlantisApply(q) PROVE live'[d] = stage[d]
    BY <1>3 DEF AtlantisApply, Settled, Fresh
  <1>4. QED BY <1>1, <1>2, <1>3 DEF Settled

\* Who has the key after the merge to stage sees no deployment touch its directories.
LEMMA StageStays ==
  ASSUME TypeOK, Exclusion, Next, NEW w \in Wf, HasKey(w), pc[w] # "claimed",
         NEW d \in Dirs(w) \ Edited
  PROVE  d \in Dir /\ stage'[d] = stage[d]
  <1>1. d \in Dir /\ stage \in [Dir -> Nat]
    BY DirsType DEF TypeOK, Version
  <1>2. ASSUME NEW v \in Wf, MergeToStage(v) PROVE FALSE
    BY <1>2 DEF Exclusion, HasKey, MergeToStage
  <1>3. ASSUME NEW e \in Dir, HumanPush(e) PROVE stage'[d] = stage[d]
    BY <1>1, <1>3 DEF HumanPush
  <1>4. QED BY <1>1, <1>2, <1>3, Effects

-----------------------------------------------------------------------------
(* The steps of a deployment, as the locks see them.                       *)

LEMMA KeyEffect ==
  ASSUME TypeOK, NEW w \in Wf, Deployment(w)
  PROVE  \/ Claim(w) \/ ResumePlan(w)
         \/ (HasKey(w)' => HasKey(w)) /\ Holds(w)' \subseteq Holds(w)
  <1>1. w \in DOMAIN pc /\ Own[w] \subseteq Dirs(w)
    BY DEF TypeOK, Dirs
  <1>2. QED
    BY <1>1 DEF HasKey, Holds, Goto, Active, PullSeen, Deployment, MergeToStage, FailEarly,
       Fail, EnsurePull, Die, Planned, Applied, ApplyAgain, FailManualCommit, FailStuck, Park,
       Wake, FailPullClosed, MergedAfterHint, Adopt, FailMergedBeforeApply, ReadHead, Evaluate,
       Merge, MergeRefused, DeleteMerged

LEMMA ExclusionStep == ASSUME TypeOK, Exclusion, Next PROVE Exclusion'
  <1>1. CASE pc' = pc
    BY <1>1 DEF Exclusion, HasKey, Holds
  <1>2. ASSUME NEW u \in Wf, NEW s \in PC, Deployment(u), pc' = [pc EXCEPT ![u] = s]
        PROVE  Exclusion'
    <2>1. ASSUME NEW v \in Wf, v # u
          PROVE  (HasKey(v)' <=> HasKey(v)) /\ Holds(v)' = Holds(v)
      BY <1>2, <2>1 DEF TypeOK, HasKey, Holds
    <2>2. ASSUME NEW v \in Wf, v # u
          PROVE  ~(HasKey(v)' /\ HasKey(u)') /\ Holds(v)' \cap Holds(u)' = {}
      <3>1. CASE Claim(u)
        <4>1. ~HasKey(v) /\ Holds(v) \cap Dirs(u) = {}
          BY <2>2, <3>1 DEF Claim, Grantable
        <4>2. Holds(u)' = Dirs(u)
          BY <3>1 DEF Claim, Goto, TypeOK, Holds, HasKey
        <4>3. QED BY <2>1, <2>2, <4>1, <4>2
      <3>2. CASE ResumePlan(u)
        <4>1. ~HasKey(v) /\ Holds(v) \cap Shared[u] = {}
          BY <2>2, <3>2 DEF ResumePlan, Grantable
        <4>2. Holds(v) \cap Own[u] = {}
          BY <2>2, <3>2 DEF Exclusion, ResumePlan, Holds, HasKey
        <4>3. Holds(u)' = Own[u] \cup Shared[u]
          BY <3>2 DEF ResumePlan, Goto, TypeOK, Holds, HasKey, Dirs
        <4>4. QED BY <2>1, <2>2, <4>1, <4>2, <4>3
      <3>3. CASE (HasKey(u)' => HasKey(u)) /\ Holds(u)' \subseteq Holds(u)
        BY <2>1, <2>2, <3>3 DEF Exclusion
      <3>4. QED BY <1>2, <3>1, <3>2, <3>3, KeyEffect
    <2>3. QED BY <2>1, <2>2 DEF Exclusion
  <1>3. QED BY <1>1, <1>2, Effects

-----------------------------------------------------------------------------
(* Plans and answers.                                                      *)

\* The plan of w is there, answered or about to be applied.
HasPlan(w) == (pc[w] = "planning" /\ "answered" \in since[w]) \/ pc[w] = "applying"

\* The apply of w is answered with success.
HasSuccess(w) ==
    /\ pc[w] = "applying" /\ "answered" \in since[w]
    /\ Result(w) \in {"success", "applied, then planned"}

LEMMA DeploymentPlan ==
  ASSUME TypeOK, NEW v \in Wf, Deployment(v), NEW w \in Wf, HasPlan(w)'
  PROVE  HasPlan(w)
  <1>1. pc \in [Wf -> PC] /\ since \in Events
    BY DEF TypeOK, Events
  <1>2. CASE MergeToStage(v)
    BY <1>1, <1>2 DEF HasPlan, MergeToStage, Goto, Pushed
  <1>3. CASE EnsurePull(v)
    BY <1>1, <1>3 DEF HasPlan, EnsurePull, Goto, Events
  <1>4. CASE Planned(v) \/ ApplyAgain(v) \/ ResumePlan(v)
    BY <1>1, <1>4 DEF HasPlan, Planned, ApplyAgain, ResumePlan, Goto, Asked, Events
  <1>5. CASE ~(MergeToStage(v) \/ EnsurePull(v) \/ Planned(v) \/ ApplyAgain(v) \/ ResumePlan(v))
    BY <1>1, <1>5
    DEF HasPlan, Goto, Deployment, Claim, FailEarly,
       Fail, Die, Applied, FailManualCommit, FailStuck, Park,
       Wake, FailPullClosed, MergedAfterHint, Adopt, FailMergedBeforeApply, ReadHead, Evaluate,
       Merge, MergeRefused, DeleteMerged
  <1>6. QED BY <1>2, <1>3, <1>4, <1>5

LEMMA OutsidePlan ==
  ASSUME TypeOK, Outside, NEW w \in Wf, HasPlan(w)'
  PROVE  HasPlan(w) \/ AtlantisPlan(Dirs(w))
  <1>1. ASSUME NEW q \in Project, AtlantisPlan(q) PROVE HasPlan(w) \/ AtlantisPlan(Dirs(w))
    <2>1. CASE q = Dirs(w)
      BY <1>1, <2>1
    <2>2. CASE q # Dirs(w)
      BY <1>1, <2>2 DEF HasPlan, AtlantisPlan, Told, Following
    <2>3. QED BY <2>1, <2>2
  <1>2. ASSUME NEW q \in Project, AtlantisApply(q) PROVE HasPlan(w)
    BY <1>2 DEF HasPlan, AtlantisApply
  <1>3. ASSUME NEW q \in Project, AtlantisApplyFails(q) PROVE HasPlan(w)
    BY <1>3 DEF HasPlan, AtlantisApplyFails, Told
  <1>4. ASSUME NEW d \in Dir, HumanPush(d) PROVE HasPlan(w)
    BY <1>4 DEF HasPlan, HumanPush, Pushed
  <1>5. CASE HumanMerge \/ HumanClose
    BY <1>5 DEF HasPlan, HumanMerge, HumanClose
  <1>6. QED BY <1>1, <1>2, <1>3, <1>4, <1>5 DEF Outside

LEMMA PlansFreshStep == ASSUME TypeOK, Exclusion, PlansFresh, Next PROVE PlansFresh'
  <1>1. SUFFICES ASSUME NEW w \in Wf, HasPlan(w)', NEW d \in Dirs(w) \ Edited
                 PROVE  Fresh(d)'
    BY DEF PlansFresh, HasPlan, Dirs
  <1>2. CASE HasPlan(w)
    <2>1. d \in Dir /\ stage'[d] = stage[d]
      BY <1>2, StageStays DEF HasPlan, HasKey
    <2>2. Fresh(d)
      BY <1>2 DEF PlansFresh, HasPlan
    <2>3. QED BY <2>1, <2>2, FreshStays
  <1>3. CASE AtlantisPlan(Dirs(w))
    <2>1. \A q \in Project : d \in q => q = Dirs(w)
      BY DirsType, GateAssumption
    <2>2. plans'[Dirs(w)] = [e \in Dirs(w) |-> stage[e]] /\ stage' = stage
      BY <1>3, DirsType DEF AtlantisPlan, TypeOK, github
    <2>3. QED BY <2>1, <2>2 DEF Fresh
  <1>4. QED BY <1>1, <1>2, <1>3, DeploymentPlan, OutsidePlan DEF Next

LEMMA DeploymentSuccess ==
  ASSUME TypeOK, NEW v \in Wf, Deployment(v), NEW w \in Wf, HasSuccess(w)'
  PROVE  HasSuccess(w)
  <1>1. pc \in [Wf -> PC] /\ since \in Events /\ latest' = latest
    BY DEF TypeOK, Events, Deployment, Claim, MergeToStage, FailEarly, Fail, EnsurePull, Die,
       Planned, Applied, ApplyAgain, FailManualCommit, FailStuck, Park, Wake, ResumePlan,
       FailPullClosed, MergedAfterHint, Adopt, FailMergedBeforeApply, ReadHead, Evaluate, Merge,
       MergePull, MergeRefused, DeleteMerged, atlantis
  <1>2. CASE MergeToStage(v)
    BY <1>1, <1>2 DEF HasSuccess, Result, MergeToStage, Goto, Pushed, flow
  <1>3. CASE EnsurePull(v)
    BY <1>1, <1>3 DEF HasSuccess, Result, EnsurePull, Goto, TypeOK
  <1>4. CASE Planned(v) \/ ApplyAgain(v) \/ ResumePlan(v)
    BY <1>1, <1>4 DEF HasSuccess, Result, Planned, ApplyAgain, ResumePlan, Goto, Asked, Events, flow
  <1>5. CASE ~(MergeToStage(v) \/ EnsurePull(v) \/ Planned(v) \/ ApplyAgain(v) \/ ResumePlan(v))
    BY <1>1, <1>5
    DEF HasSuccess, Result, Goto, Deployment, Claim, FailEarly,
       Fail, Die, Applied, FailManualCommit, FailStuck, Park,
       Wake, FailPullClosed, MergedAfterHint, Adopt, FailMergedBeforeApply, ReadHead, Evaluate,
       Merge, MergeRefused, DeleteMerged, flow
  <1>6. QED BY <1>2, <1>3, <1>4, <1>5

LEMMA OutsideSuccess ==
  ASSUME TypeOK, Outside, NEW w \in Wf, HasSuccess(w)'
  PROVE  HasSuccess(w) \/ (pc[w] = "applying" /\ AtlantisApply(Dirs(w)))
  <1>1. /\ latest \in [1..MaxPulls -> [Project -> {"none", "success", "applied, then planned", "failed"}]]
        /\ pc[w] = "applying" => mine[w] \in 1..MaxPulls
        /\ Dirs(w) \in Project
    <2>1. mine[w] \in 0..MaxPulls /\ MaxPulls \in Nat /\ (pc[w] = "applying" => mine[w] > 0)
      BY GateAssumption DEF TypeOK, Active
    <2>2. pc[w] = "applying" => mine[w] \in 1..MaxPulls
      BY <2>1
    <2>3. QED BY <2>2, DirsType DEF TypeOK
  <1>p. PullOpen => pull \in 1..MaxPulls
    <2>1. pull \in 0..MaxPulls /\ MaxPulls \in Nat
      BY GateAssumption DEF TypeOK
    <2>2. QED BY <2>1 DEF PullOpen
  <1>2. ASSUME NEW q \in Project, AtlantisPlan(q) PROVE HasSuccess(w)
    BY <1>1, <1>2, <1>p DEF HasSuccess, Result, AtlantisPlan, Told, flow
  <1>3. ASSUME NEW q \in Project, AtlantisApply(q)
        PROVE  HasSuccess(w) \/ (pc[w] = "applying" /\ AtlantisApply(Dirs(w)))
    <2>1. CASE q = Dirs(w)
      BY <1>3, <2>1 DEF HasSuccess, AtlantisApply
    <2>2. CASE q # Dirs(w)
      BY <1>1, <1>3, <1>p, <2>2 DEF HasSuccess, Result, AtlantisApply, Following, flow
    <2>3. QED BY <2>1, <2>2
  <1>4. ASSUME NEW q \in Project, AtlantisApplyFails(q) PROVE HasSuccess(w)
    <2>1. CASE q = Dirs(w) /\ mine[w] = pull
      BY <1>1, <1>4, <1>p, <2>1 DEF HasSuccess, Result, AtlantisApplyFails, flow
    <2>2. CASE ~(q = Dirs(w) /\ mine[w] = pull)
      BY <1>1, <1>4, <1>p, <2>2 DEF HasSuccess, Result, AtlantisApplyFails, Told, Following, flow
    <2>3. QED BY <2>1, <2>2
  <1>5. ASSUME NEW d \in Dir, HumanPush(d) PROVE HasSuccess(w)
    BY <1>5 DEF HasSuccess, Result, HumanPush, Pushed, flow, atlantis
  <1>6. CASE HumanMerge \/ HumanClose
    BY <1>6 DEF HasSuccess, Result, HumanMerge, HumanClose, MergePull, flow
  <1>7. QED BY <1>2, <1>3, <1>4, <1>5, <1>6 DEF Outside

LEMMA AnswersTrueStep ==
  ASSUME TypeOK, Exclusion, PlansFresh, AnswersTrue, Next
  PROVE  AnswersTrue'
  <1>1. SUFFICES ASSUME NEW w \in Wf, HasSuccess(w)', NEW d \in Dirs(w) \ Edited
                 PROVE  live'[d] = stage'[d]
    BY DEF AnswersTrue, HasSuccess, Dirs
  <1>2. /\ pc[w] = "applying" => d \in Dir /\ stage'[d] = stage[d] /\ Fresh(d)
    BY StageStays DEF HasKey, PlansFresh
  <1>3. CASE HasSuccess(w)
    <2>1. Settled(d) /\ d \in Dir /\ stage'[d] = stage[d]
      BY <1>2, <1>3 DEF HasSuccess, AnswersTrue, Settled
    <2>2. QED BY <2>1, SettledStays DEF Settled
  <1>4. CASE pc[w] = "applying" /\ AtlantisApply(Dirs(w))
    BY <1>2, <1>4, DirsType DEF AtlantisApply, Fresh
  <1>5. QED BY <1>1, <1>3, <1>4, DeploymentSuccess, OutsideSuccess DEF Next

-----------------------------------------------------------------------------
(* Rows.                                                                   *)

\* Only an apply makes a row say APPLIED, and only a row of a directory of one's own.
LEMMA AppliedRow ==
  ASSUME TypeOK, Next, NEW d \in Dir, rows'[d].status = "APPLIED"
  PROVE  rows[d].status = "APPLIED" \/ \E w \in Wf : Applied(w) /\ d \in Dirs(w)
  <1>1. rows \in [Dir -> RowType]
    BY DEF TypeOK, RowType
  <1>2. CASE \E v \in Wf : Claim(v)
    BY <1>1, <1>2 DEF Claim, Claimed, RowType
  <1>3. CASE \E v \in Wf : Applied(v)
    BY <1>1, <1>3 DEF Applied, Marked, RowType
  <1>4. CASE \E v \in Wf : rows' = Healed(v)
    BY <1>1, <1>4 DEF Healed, RowType
  <1>5. CASE \E v \in Wf, s \in {"FAILED", "RESUMING", "IN_PROGRESS"} : rows' = Marked(v, s)
    BY <1>1, <1>5 DEF Marked, RowType
  <1>6. CASE \E ds \in {Dirs(v) : v \in Wf} \cup {gate.dirs} : rows' = Deleted(ds)
    BY <1>1, <1>6 DEF Deleted, NoRow, RowType
  <1>7. QED BY <1>2, <1>3, <1>4, <1>5, <1>6, Effects

LEMMA RowsOfProjectsStep ==
  ASSUME TypeOK, RowsOfProjects, Next PROVE RowsOfProjects'
  <1>1. SUFFICES ASSUME NEW d \in Dir, rows'[d].status = "APPLIED" PROVE d \in UNION Project
    BY DEF RowsOfProjects
  <1>2. QED BY <1>1, AppliedRow, DirsType DEF RowsOfProjects

LEMMA ClaimedFirstStep ==
  ASSUME TypeOK, Exclusion, ClaimedFirst, Next PROVE ClaimedFirst'
  <1>1. SUFFICES ASSUME NEW w \in Wf, pc'[w] = "claimed", NEW d \in Dirs(w)
                 PROVE  rows'[d].status # "APPLIED"
    BY DEF ClaimedFirst, Dirs
  <1>2. d \in Dir
    BY DirsType
  <1>3. pc[w] = "claimed" \/ Claim(w)
    <2>1. ASSUME NEW v \in Wf, Deployment(v) PROVE pc[w] = "claimed" \/ Claim(w)
      BY <1>1, <2>1 DEF TypeOK, Goto, Deployment, Claim, MergeToStage, FailEarly, Fail, EnsurePull, Die, Planned,
       Applied, ApplyAgain, FailManualCommit, FailStuck, Park, Wake, ResumePlan, FailPullClosed,
       MergedAfterHint, Adopt, FailMergedBeforeApply, ReadHead, Evaluate, Merge, MergeRefused,
       DeleteMerged
    <2>2. Outside => pc' = pc
      BY DEF Outside, AtlantisPlan, AtlantisApply, AtlantisApplyFails, HumanPush, HumanMerge, HumanClose
    <2>3. QED BY <1>1, <2>1, <2>2 DEF Next
  <1>4. CASE Claim(w)
    BY <1>2, <1>4 DEF Claim, Claimed
  <1>5. CASE pc[w] = "claimed"
    <2>1. ASSUME NEW v \in Wf, Applied(v) PROVE FALSE
      <3>1. v # w /\ HasKey(v) /\ HasKey(w)
        BY <1>5, <2>1 DEF Applied, HasKey
      <3>2. QED BY <3>1 DEF Exclusion
    <2>2. QED BY <1>2, <1>5, <2>1, AppliedRow DEF ClaimedFirst
  <1>6. QED BY <1>3, <1>4, <1>5

-----------------------------------------------------------------------------
(* From the apply to the merge.                                            *)

\* A result that is trusted and says success is the answer to one's own apply.
LEMMA AppliedSettled ==
  ASSUME TypeOK, PlansFresh, AnswersTrue, NEW w \in Wf, Applied(w), Trusted',
         NEW d \in Dirs(w) \ Edited
  PROVE  Settled(d)
  BY DEF Applied, Trusted, PlansFresh, AnswersTrue, Settled

AtGate(w) == pc[w] \in {"gate", "evaluating", "merging"}

LEMMA GateSettledStep ==
  ASSUME TypeOK, Exclusion, PlansFresh, AnswersTrue, GateSettled, Next, Trusted'
  PROVE  GateSettled'
  <1>1. SUFFICES ASSUME NEW w \in Wf, AtGate(w)', NEW d \in Dirs(w) \ Edited
                 PROVE  Settled(d)'
    BY DEF GateSettled, AtGate, Dirs
  <1>2. AtGate(w) \/ Applied(w)
    <2>1. ASSUME NEW v \in Wf, Deployment(v) PROVE AtGate(w) \/ Applied(w)
      <3>1. CASE Claim(v) \/ MergeToStage(v) \/ FailEarly(v) \/ EnsurePull(v) \/ Die(v)
                   \/ Planned(v) \/ Applied(v) \/ ApplyAgain(v) \/ FailManualCommit(v)
                   \/ FailStuck(v)
        BY <1>1, <3>1 DEF AtGate, TypeOK, Goto, Claim, MergeToStage, FailEarly, Fail, EnsurePull,
           Die, Planned, Applied, ApplyAgain, FailManualCommit, FailStuck
      <3>2. CASE Park(v) \/ Wake(v) \/ ResumePlan(v) \/ FailPullClosed(v) \/ MergedAfterHint(v)
                   \/ Adopt(v) \/ FailMergedBeforeApply(v)
        BY <1>1, <3>2 DEF AtGate, TypeOK, Goto, Fail, Park, Wake, ResumePlan, FailPullClosed,
           MergedAfterHint, Adopt, FailMergedBeforeApply
      <3>3. CASE ReadHead(v) \/ Evaluate(v) \/ Merge(v) \/ MergeRefused(v) \/ DeleteMerged(v)
        BY <1>1, <3>3 DEF AtGate, TypeOK, Goto, ReadHead, Evaluate, Merge, MergeRefused,
           DeleteMerged
      <3> QED BY <2>1, <3>1, <3>2, <3>3 DEF Deployment
    <2>2. Outside => pc' = pc
      BY DEF Outside, AtlantisPlan, AtlantisApply, AtlantisApplyFails, HumanPush, HumanMerge, HumanClose
    <2>3. QED BY <1>1, <2>1, <2>2 DEF Next, AtGate
  <1>3. Settled(d)
    BY <1>2, AppliedSettled DEF GateSettled, AtGate
  <1>4. d \in Dir /\ stage'[d] = stage[d]
    <2>1. HasKey(w) /\ pc[w] # "claimed"
      BY <1>2 DEF AtGate, Applied, HasKey
    <2>2. QED BY <2>1, StageStays
  <1>5. QED BY <1>3, <1>4, SettledStays

LEMMA RowsSettledStep ==
  ASSUME TypeOK, Exclusion, ClaimedFirst, PlansFresh, AnswersTrue, RowsSettled, Next, Trusted'
  PROVE  RowsSettled'
  <1>1. SUFFICES ASSUME NEW d \in Dir \ Edited, rows'[d].status = "APPLIED"
                 PROVE  Settled(d)'
    BY DEF RowsSettled
  <1>2. CASE rows[d].status = "APPLIED"
    <2>1. Settled(d)
      BY <1>2 DEF RowsSettled
    <2>2. stage'[d] = stage[d]
      <3>1. stage \in [Dir -> Nat]
        BY DEF TypeOK, Version
      <3>2. ASSUME NEW v \in Wf, MergeToStage(v) PROVE stage'[d] = stage[d]
        BY <1>2, <3>1, <3>2 DEF MergeToStage, ClaimedFirst
      <3>3. ASSUME NEW e \in Dir, HumanPush(e) PROVE stage'[d] = stage[d]
        BY <3>1, <3>3 DEF HumanPush
      <3>4. QED BY <3>2, <3>3, Effects
    <2>3. QED BY <2>1, <2>2, SettledStays
  <1>3. ASSUME NEW w \in Wf, Applied(w), d \in Dirs(w) PROVE Settled(d)'
    <2>1. Settled(d)
      BY <1>3, AppliedSettled
    <2>2. stage' = stage
      BY <1>3 DEF Applied, github
    <2>3. QED BY <2>1, <2>2, SettledStays
  <1>4. QED BY <1>1, <1>2, <1>3, AppliedRow

LEMMA StageGrows == ASSUME TypeOK, Next, NEW d \in Dir PROVE stage[d] <= stage'[d]
  <1>1. stage \in [Dir -> Nat] /\ stage[d] \in Nat
    BY DEF TypeOK, Version
  <1>2. ASSUME NEW v \in Wf, MergeToStage(v) PROVE stage[d] <= stage'[d]
    BY <1>1, <1>2 DEF MergeToStage
  <1>3. ASSUME NEW e \in Dir, HumanPush(e) PROVE stage[d] <= stage'[d]
    BY <1>1, <1>3 DEF HumanPush
  <1>4. QED BY <1>1, <1>2, <1>3, Effects

\* Who evaluates or merges is the only one who writes the locals of the gate.
LEMMA GateOfOne ==
  ASSUME TypeOK, Exclusion, Next, NEW w \in Wf, pc'[w] \in {"evaluating", "merging"}
  PROVE  \/ ReadHead(w)
         \/ pc[w] = "evaluating" /\ Evaluate(w) /\ gate'.head = gate.head
         \/ pc[w] = pc'[w] /\ gate' = gate /\ ~\E v \in Wf : MergeToStage(v)
  <1>1. CASE ReadHead(w) \/ Evaluate(w)
    BY <1>1 DEF Evaluate, TypeOK
  <1>2. CASE ~(ReadHead(w) \/ Evaluate(w))
    <2>1. pc[w] = pc'[w]
      <3>1. ASSUME NEW v \in Wf, Deployment(v) PROVE pc[w] = pc'[w]
        <4>1. CASE v = w
          BY <1>2, <3>1, <4>1 DEF TypeOK, Goto, Deployment, Claim, MergeToStage, FailEarly, Fail,
             EnsurePull, Die, Planned, Applied, ApplyAgain, FailManualCommit, FailStuck, Park,
             Wake, ResumePlan, FailPullClosed, MergedAfterHint, Adopt, FailMergedBeforeApply,
             Merge, MergeRefused, DeleteMerged
        <4>2. CASE v # w
          <5>1. pc' = pc \/ \E s \in PC : pc' = [pc EXCEPT ![v] = s]
            BY <3>1, DeploymentMovesOne
          <5>2. QED BY <4>2, <5>1 DEF TypeOK
        <4>3. QED BY <4>1, <4>2
      <3>2. Outside => pc' = pc
        BY DEF Outside, AtlantisPlan, AtlantisApply, AtlantisApplyFails, HumanPush, HumanMerge, HumanClose
      <3>3. QED BY <3>1, <3>2 DEF Next
    <2>2. HasKey(w) /\ \A v \in Wf : HasKey(v) => v = w
      BY <2>1 DEF HasKey, Exclusion
    <2>3. gate' = gate
      BY <1>2, <2>2, Effects DEF ReadHead, Evaluate, HasKey
    <2>4. ~\E v \in Wf : MergeToStage(v)
      BY <2>1, <2>2 DEF MergeToStage, HasKey
    <2>5. QED BY <2>1, <2>3, <2>4
  <1>3. QED BY <1>1, <1>2

LEMMA HeadBehindStep == ASSUME TypeOK, Exclusion, HeadBehind, Next PROVE HeadBehind'
  <1>1. SUFFICES ASSUME NEW w \in Wf, pc'[w] \in {"evaluating", "merging"}, NEW d \in Dir
                 PROVE  gate'.head[d] <= stage'[d]
    BY DEF HeadBehind
  <1>2. stage \in [Dir -> Nat] /\ stage' \in [Dir -> Nat] /\ gate.head \in [Dir -> Nat]
    BY StepTyped DEF TypeOK, Version
  <1>3. CASE ReadHead(w)
    BY <1>2, <1>3 DEF ReadHead, NoGate, github
  <1>4. CASE pc[w] \in {"evaluating", "merging"} /\ gate'.head = gate.head
    <2>1. gate.head[d] <= stage[d] /\ stage[d] <= stage'[d]
      BY <1>4, StageGrows DEF HeadBehind
    <2>2. QED BY <1>2, <1>4, <2>1
  <1>5. QED BY <1>1, <1>3, <1>4, GateOfOne

LEMMA EvaluatedStep ==
  ASSUME TypeOK, Exclusion, HeadBehind, GateSettled, RowsSettled, RowsOfProjects, Evaluated, Next
  PROVE  Evaluated'
  <1>1. SUFFICES ASSUME NEW w \in Wf, pc'[w] = "merging", gate'.head = stage',
                        NEW d \in Dir, stage'[d] # main'[d], d \notin Edited \cap UNION Project
                 PROVE  Settled(d)'
    BY DEF Evaluated, Pending
  <1>2. stage \in [Dir -> Nat] /\ gate.head \in [Dir -> Nat]
    BY DEF TypeOK, Version
  <1>3. CASE Evaluate(w)
    <2>1. stage' = stage /\ main' = main
      BY <1>3 DEF Evaluate, github
    <2>2. Mergeable(w, d)
      BY <1>1, <1>3, <2>1 DEF Evaluate, Goto, TypeOK, Pending
    <2>3. d \in Dirs(w) \/ rows[d].status = "APPLIED" => d \notin Edited
      BY <1>1, DirsType DEF RowsOfProjects
    <2>4. Settled(d)
      BY <1>3, <2>2, <2>3 DEF Mergeable, Evaluate, GateSettled, RowsSettled
    <2>5. QED BY <2>1, <2>4, SettledStays
  <1>4. CASE pc[w] = "merging" /\ gate' = gate /\ ~\E v \in Wf : MergeToStage(v)
    <2>1. ASSUME NEW e \in Dir, HumanPush(e) PROVE FALSE
      <3>1. stage'[e] = stage[e] + 1 /\ stage[e] \in Nat
        BY <1>2, <2>1 DEF HumanPush
      <3>2. gate.head[e] <= stage[e] /\ gate.head[e] = stage'[e] /\ gate.head[e] \in Nat
        BY <1>1, <1>2, <1>4 DEF HeadBehind
      <3>3. QED BY <3>1, <3>2
    <2>2. stage' = stage
      BY <1>4, <2>1, Effects
    <2>3. main' = main
      BY <1>1, <2>2, Effects
    <2>4. Settled(d)
      BY <1>1, <1>4, <2>2, <2>3 DEF Evaluated, Pending
    <2>5. QED BY <2>2, <2>4, SettledStays
  <1>5. QED BY <1>1, <1>3, <1>4, GateOfOne DEF ReadHead, Goto, TypeOK

LEMMA MergesAppliedStep ==
  ASSUME Evaluated, MergesApplied, Trusted, Next PROVE MergesApplied'
  <1>1. unapplied \subseteq Edited \cap UNION Project
    BY DEF MergesApplied, Trusted
  <1>2. ASSUME NEW v \in Wf, Merge(v) PROVE unapplied' \subseteq Edited \cap UNION Project
    BY <1>1, <1>2 DEF Merge, Unapplied, Evaluated, Settled
  <1>3. QED BY <1>1, <1>2, Effects DEF MergesApplied

-----------------------------------------------------------------------------
(* The theorems.                                                           *)

LEMMA InitInductive == GInit => IInv
  <1> SUFFICES ASSUME GInit PROVE IInv
    OBVIOUS
  <1>1. TypeOK
    BY InitTyped
  <1>2. Exclusion /\ PlansFresh /\ ClaimedFirst /\ HeadBehind
    BY DEF GInit, Exclusion, HasKey, Holds, PlansFresh, ClaimedFirst, HeadBehind
  <1>3. RowsOfProjects /\ RowsSettled
    BY DEF GInit, RowsOfProjects, RowsSettled, NoRow
  <1>4. AnswersTrue /\ GateSettled /\ Evaluated /\ MergesApplied
    BY DEF GInit, AnswersTrue, GateSettled, Evaluated, MergesApplied
  <1>5. QED BY <1>1, <1>2, <1>3, <1>4 DEF IInv

LEMMA StepInductive == IInv /\ [Next]_vars => IInv'
  <1>1. ASSUME IInv, Next PROVE IInv'
    <2>1. TypeOK /\ TypeOK'
      BY <1>1, StepTyped DEF IInv
    <2>2. Exclusion' /\ PlansFresh' /\ ClaimedFirst' /\ RowsOfProjects' /\ HeadBehind'
      BY <1>1, ExclusionStep, PlansFreshStep, ClaimedFirstStep, RowsOfProjectsStep, HeadBehindStep
      DEF IInv
    <2>3. ASSUME Trusted'
          PROVE  AnswersTrue' /\ GateSettled' /\ RowsSettled' /\ Evaluated' /\ MergesApplied'
      <3>1. Trusted
        BY <1>1, <2>3, Effects DEF Trusted
      <3>2. QED
        BY <1>1, <2>3, <3>1, AnswersTrueStep, GateSettledStep, RowsSettledStep, EvaluatedStep,
           MergesAppliedStep DEF IInv
    <2>4. QED BY <2>1, <2>2, <2>3 DEF IInv
  <1>2. ASSUME IInv, UNCHANGED vars PROVE IInv'
    <2> USE <1>2 DEF vars, flow, github, atlantis, history
    <2>1. TypeOK' /\ Exclusion' /\ ClaimedFirst' /\ RowsOfProjects' /\ HeadBehind'
      BY StepTyped DEF IInv, Exclusion, HasKey, Holds, ClaimedFirst, RowsOfProjects, HeadBehind
    <2>2. \A d \in Dir : (Fresh(d)' <=> Fresh(d)) /\ (Settled(d)' <=> Settled(d))
      BY DEF Settled, Fresh
    <2>3. PlansFresh'
      BY <2>2, DirsType DEF IInv, PlansFresh
    <2>4. ASSUME Trusted' PROVE AnswersTrue' /\ MergesApplied'
      BY <2>4 DEF IInv, Trusted, AnswersTrue, Result, MergesApplied
    <2>5. ASSUME Trusted' PROVE GateSettled' /\ RowsSettled' /\ Evaluated'
      BY <2>2, <2>5, DirsType DEF IInv, Trusted, GateSettled, RowsSettled, Evaluated, Pending
    <2>6. QED BY <2>1, <2>3, <2>4, <2>5 DEF IInv
  <1>3. QED BY <1>1, <1>2

\* The invariant the two theorems below rest on: the locks keep deployments apart, and
\* from an answered plan on, Atlantis's plan file and what is applied are of stage.
THEOREM Inductive == Spec => []IInv
  BY InitInductive, StepInductive, PTL DEF Spec

LEMMA InvariantTells == IInv => MergesApplied /\ AppliedRowsTrue
  BY DEF IInv, Trusted, MergesApplied, RowsSettled, Settled, AppliedRowsTrue, Pending

\* What merge_promotion_pr puts on main was applied, of every deployment whose
\* content rides along, unless an old apply result was taken for one's own or a
\* human pushed to a deployed directory: whoever deploys, plans, applies and pushes.
THEOREM GateMergesApplied == Spec => []MergesApplied
  BY Inductive, InvariantTells, PTL

\* A row that production_track_set_status made APPLIED tells the truth for as long
\* as its content waits for the promotion.
THEOREM RowsTellTheTruth == Spec => []AppliedRowsTrue
  BY Inductive, InvariantTells, PTL

-----------------------------------------------------------------------------
(* Rows: content of a deployment has one before it is pending, and whoever *)
(* leaves the pull request open left APPLIED ones behind.                  *)

\* No deployment was closed by a merge it did not do itself.
Closed == "adopted" \notin mishaps

ClaimedRows == \A w \in Wf : pc[w] = "claimed" => \A d \in Dirs(w) : rows[d] # NoRow

\* After the merge of the gate only a human makes a directory pending again.
MergedDone == \A w \in Wf : pc[w] = "merged" => \A d \in Dir \ Edited : stage[d] = main[d]

RowsInv ==
    /\ TypeOK /\ Exclusion
    /\ Closed => ClaimedRows /\ MergedDone /\ RowBeforeContent

\* Rows are written in six ways, each at its place.
LEMMA RowEffects ==
  ASSUME TypeOK, Next
  PROVE  \/ rows' = rows
         \/ \E v \in Wf : Claim(v) \/ Applied(v) \/ Adopt(v) \/ DeleteMerged(v) \/ Evaluate(v)
         \/ \E v \in Wf, s \in {"FAILED", "RESUMING", "IN_PROGRESS"} :
              /\ rows' = Marked(v, s)
              /\ \E p \in {"failed", "resuming", "planning"} : pc' = [pc EXCEPT ![v] = p]
  <1> DEFINE Marks(v) == \E s \in {"FAILED", "RESUMING", "IN_PROGRESS"} :
                /\ rows' = Marked(v, s)
                /\ \E p \in {"failed", "resuming", "planning"} : pc' = [pc EXCEPT ![v] = p]
  <1>1. ASSUME NEW v \in Wf, FailEarly(v) \/ Fail(v) \/ FailManualCommit(v) \/ FailStuck(v)
                              \/ FailPullClosed(v) \/ FailMergedBeforeApply(v)
        PROVE  Marks(v)
    BY <1>1 DEF FailEarly, Fail, FailManualCommit, FailStuck, FailPullClosed,
      FailMergedBeforeApply, Goto
  <1>2. ASSUME NEW v \in Wf, Wake(v) \/ ResumePlan(v)
        PROVE  Marks(v)
    BY <1>2 DEF Wake, ResumePlan, Goto
  <1>3. ASSUME NEW v \in Wf,
               \/ MergeToStage(v) \/ EnsurePull(v) \/ Die(v) \/ Planned(v) \/ ApplyAgain(v)
               \/ Park(v) \/ MergedAfterHint(v) \/ ReadHead(v) \/ Merge(v) \/ MergeRefused(v)
        PROVE  rows' = rows \/ Marks(v)
    BY <1>3 DEF MergeToStage, EnsurePull, Die, Planned, ApplyAgain, Park, MergedAfterHint,
      ReadHead, Merge, MergeRefused, FailEarly, Fail, Goto, flow, github, atlantis, history
  <1>4. Outside => rows' = rows
    BY DEF Outside, AtlantisPlan, AtlantisApply, AtlantisApplyFails, HumanPush, HumanMerge,
      HumanClose
  <1> QED
    BY <1>1, <1>2, <1>3, <1>4 DEF Next, Deployment

\* A row is only deleted by an adoption or after the gate's merge.
LEMMA RowStays ==
  ASSUME TypeOK, Next, Closed', NEW d \in Dir, rows[d] # NoRow
  PROVE  rows'[d] # NoRow \/ \E v \in Wf : DeleteMerged(v) /\ d \in gate.dirs
  <1>1. rows[d].wf \in Wf \cup {None} /\ rows \in [Dir -> RowType] /\ None \notin Wf
    BY GateAssumption DEF TypeOK, RowType
  <1>2. \A v \in Wf, s \in {"FAILED", "RESUMING", "IN_PROGRESS", "APPLIED"} :
          Marked(v, s)[d] # NoRow
    BY <1>1 DEF Marked, NoRow, RowType
  <1>3. ASSUME NEW v \in Wf, Claim(v) PROVE rows'[d] # NoRow
    BY <1>1, <1>3 DEF Claim, Claimed, NoRow
  <1>4. ASSUME NEW v \in Wf, Evaluate(v) PROVE rows'[d] # NoRow
    BY <1>1, <1>4 DEF Evaluate, Healed, NoRow, RowType
  <1>5. ASSUME NEW v \in Wf, Adopt(v) PROVE FALSE
    BY <1>5 DEF Adopt, Closed
  <1>6. ASSUME NEW v \in Wf, DeleteMerged(v)
        PROVE  rows'[d] # NoRow \/ d \in gate.dirs
    BY <1>6 DEF DeleteMerged, Deleted
  <1>7. ASSUME NEW v \in Wf, Applied(v) PROVE rows'[d] # NoRow
    BY <1>2, <1>7 DEF Applied
  <1>8. QED BY <1>2, <1>3, <1>4, <1>5, <1>6, <1>7, RowEffects

\* Who is at a place was there, or has just come there.
LEMMA ClaimedStays ==
  ASSUME TypeOK, Next, NEW w \in Wf, pc'[w] \in {"claimed", "merged"}
  PROVE  \/ pc[w] = pc'[w]
         \/ pc'[w] = "claimed" /\ Claim(w)
         \/ pc'[w] = "merged" /\ Merge(w)
  <1>1. ASSUME NEW v \in Wf, NEW s \in PC, Deployment(v), pc' = [pc EXCEPT ![v] = s], v = w
        PROVE  pc[w] = pc'[w] \/ (pc'[w] = "claimed" /\ Claim(w)) \/ (pc'[w] = "merged" /\ Merge(w))
    BY <1>1 DEF TypeOK, Goto, Deployment, MergeToStage, FailEarly, Fail,
       EnsurePull, Die, Planned, Applied, ApplyAgain, FailManualCommit, FailStuck, Park, Wake,
       ResumePlan, FailPullClosed, MergedAfterHint, Adopt, FailMergedBeforeApply, ReadHead,
       Evaluate, Claim, Merge, MergeRefused, DeleteMerged
  <1>2. QED BY <1>1, Effects DEF TypeOK

LEMMA RowsInvStep == RowsInv /\ [Next]_vars => RowsInv'
  <1>1. ASSUME RowsInv, Next PROVE RowsInv'
    <2>1. TypeOK /\ TypeOK' /\ Exclusion /\ Exclusion'
      BY <1>1, StepTyped, ExclusionStep DEF RowsInv
    <2>2. SUFFICES ASSUME Closed' PROVE ClaimedRows' /\ MergedDone' /\ RowBeforeContent'
      BY <2>1 DEF RowsInv
    <2>3. ClaimedRows /\ MergedDone /\ RowBeforeContent
      BY <1>1, <2>2, Effects DEF RowsInv, Closed
    <2>4. \A d \in Dir \ Edited :
            stage'[d] = stage[d] \/ \E v \in Wf : MergeToStage(v) /\ d \in Dirs(v)
      <3>1. ASSUME NEW d \in Dir \ Edited, NEW v \in Wf, MergeToStage(v)
            PROVE  stage'[d] = stage[d] \/ d \in Dirs(v)
        BY <3>1 DEF MergeToStage
      <3>2. ASSUME NEW d \in Dir \ Edited, NEW e \in Dir, HumanPush(e) PROVE stage'[d] = stage[d]
        BY <2>1, <3>2 DEF HumanPush, TypeOK, Version
      <3>3. QED BY <1>1, <3>1, <3>2, Effects
    <2>5. ClaimedRows'
      <3>1. ASSUME NEW w \in Wf, pc'[w] = "claimed", NEW d \in Dirs(w) PROVE rows'[d] # NoRow
        <4>1. d \in Dir
          BY DirsType
        <4>2. CASE Claim(w)
          BY <4>1, <4>2, GateAssumption DEF Claim, Claimed, NoRow
        <4>3. CASE pc[w] = "claimed"
          <5>1. rows[d] # NoRow
            BY <2>3, <3>1, <4>3 DEF ClaimedRows
          <5>2. ASSUME NEW v \in Wf, DeleteMerged(v) PROVE FALSE
            <6>1. pc[v] = "merged" /\ v # w
              BY <4>3, <5>2 DEF DeleteMerged
            <6>2. QED BY <2>1, <4>3, <6>1 DEF Exclusion, HasKey
          <5>3. QED BY <1>1, <2>1, <2>2, <4>1, <5>1, <5>2, RowStays
        <4>4. QED BY <1>1, <2>1, <3>1, <4>2, <4>3, ClaimedStays
      <3>2. QED BY <3>1 DEF ClaimedRows
    <2>6. MergedDone'
      <3>1. ASSUME NEW w \in Wf, pc'[w] = "merged", NEW d \in Dir \ Edited
            PROVE  stage'[d] = main'[d]
        <4>1. CASE Merge(w)
          BY <4>1 DEF Merge, MergePull
        <4>2. CASE pc[w] = "merged"
          <5>1. stage[d] = main[d]
            BY <2>3, <4>2 DEF MergedDone
          <5>2. ASSUME NEW v \in Wf, MergeToStage(v) PROVE FALSE
            <6>1. pc[v] = "claimed" /\ v # w
              BY <4>2, <5>2 DEF MergeToStage
            <6>2. QED BY <2>1, <4>2, <6>1 DEF Exclusion, HasKey
          <5>3. QED BY <1>1, <2>4, <5>1, <5>2, Effects
        <4>3. QED BY <1>1, <2>1, <3>1, <4>1, <4>2, ClaimedStays
      <3>2. QED BY <3>1 DEF MergedDone
    <2>7. RowBeforeContent'
      <3>1. ASSUME NEW d \in Dir \ Edited, stage'[d] # main'[d] PROVE rows'[d] # NoRow
        <4>1. ASSUME NEW v \in Wf, MergeToStage(v), d \in Dirs(v) PROVE rows'[d] # NoRow
          <5>1. rows[d] # NoRow /\ rows' = rows
            BY <2>3, <4>1 DEF MergeToStage, ClaimedRows
          <5>2. QED BY <5>1
        <4>2. CASE stage'[d] = stage[d]
          <5>1. stage[d] # main[d]
            BY <1>1, <3>1, <4>2, Effects
          <5>2. rows[d] # NoRow
            BY <1>1, <2>2, <2>3, <5>1, Effects DEF RowBeforeContent, Pending, Closed
          <5>3. ASSUME NEW v \in Wf, DeleteMerged(v) PROVE FALSE
            BY <2>3, <5>1, <5>3 DEF MergedDone, DeleteMerged
          <5>4. QED BY <1>1, <2>1, <2>2, <5>2, <5>3, RowStays
        <4>3. QED BY <2>4, <4>1, <4>2
      <3>2. QED BY <3>1 DEF RowBeforeContent, Pending
    <2>8. QED BY <2>5, <2>6, <2>7
  <1>2. ASSUME RowsInv, UNCHANGED vars PROVE RowsInv'
    <2> USE <1>2 DEF vars, flow, github, atlantis, history
    <2>1. TypeOK' /\ Exclusion'
      BY StepTyped DEF RowsInv, Exclusion, HasKey, Holds
    <2>2. Closed' => ClaimedRows' /\ MergedDone' /\ RowBeforeContent'
      BY DEF RowsInv, Closed, ClaimedRows, MergedDone, RowBeforeContent, Pending
    <2>3. QED BY <2>1, <2>2 DEF RowsInv
  <1>3. QED BY <1>1, <1>2

\* Content that a deployment brought to stage has a row for as long as it waits for
\* the promotion, so that no merge gate takes it for a human's: deletion comes after
\* the merge, and under the key.
THEOREM ContentHasRows == Spec => []RowBeforeContent
  <1>1. GInit => RowsInv
    BY InitTyped DEF GInit, RowsInv, Exclusion, HasKey, Holds, ClaimedRows, MergedDone,
       RowBeforeContent, Pending
  <1>2. RowsInv => RowBeforeContent
    BY DEF RowsInv, RowBeforeContent, Closed
  <1>3. QED BY <1>1, <1>2, RowsInvStep, PTL DEF Spec


-----------------------------------------------------------------------------
(* Who leaves the pull request open leaves no row behind that blocks it.   *)

\* What production_track_get shows of w says APPLIED.
AllApplied(w) == \A d \in Dir : rows[d].wf = w => rows[d].status = "APPLIED"

GatePlaces == {"gate", "evaluating", "merging", "merged"}

RowsOwn == \A d \in Dir, w \in Wf : rows[d].wf = w => d \in Dirs(w)

GateRows == \A w \in Wf : pc[w] \in GatePlaces => AllApplied(w)

\* A deployment follows a pull request that exists.
MineBehind == \A w \in Wf : mine[w] <= pull

\* It closes from the gate, by an adoption, or because its pull request was merged.
ClosedBy ==
    \A w \in Wf : pc[w] = "deployed" =>
      AllApplied(w) \/ (mine[w] > 0 /\ ends[mine[w]] = "merged")

OpenInv == TypeOK /\ RowsOwn /\ GateRows /\ MineBehind /\ ClosedBy

LEMMA RowsOwnStep == ASSUME TypeOK, RowsOwn, Next PROVE RowsOwn'
  <1> SUFFICES ASSUME NEW d \in Dir, NEW w \in Wf, rows'[d].wf = w PROVE d \in Dirs(w)
    BY DEF RowsOwn
  <1>0. rows \in [Dir -> RowType] /\ None \notin Wf
    BY GateAssumption DEF TypeOK, RowType
  <1>1. rows[d].wf = w => d \in Dirs(w)
    BY DEF RowsOwn
  <1>2. ASSUME NEW v \in Wf, Claim(v) PROVE d \in Dirs(w)
    BY <1>1, <1>2 DEF Claim, Claimed
  <1>3. ASSUME NEW v \in Wf, NEW s, rows' = Marked(v, s) PROVE d \in Dirs(w)
    BY <1>0, <1>1, <1>3 DEF Marked, RowType
  <1>4. ASSUME NEW v \in Wf, Evaluate(v) PROVE d \in Dirs(w)
    BY <1>0, <1>1, <1>4 DEF Evaluate, Healed, RowType
  <1>5. ASSUME NEW ds, rows' = Deleted(ds) PROVE d \in Dirs(w)
    BY <1>0, <1>1, <1>5 DEF Deleted, NoRow
  <1>6. QED BY <1>1, <1>2, <1>3, <1>4, <1>5, RowEffects DEF Applied, Adopt, DeleteMerged

\* APPLIED rows of a deployment that neither claims nor marks stay so.
LEMMA AppliedStays ==
  ASSUME TypeOK, Next, NEW w \in Wf, AllApplied(w),
         pc'[w] \notin {"claimed", "failed", "resuming", "planning"}
  PROVE  AllApplied(w)'
  <1> SUFFICES ASSUME NEW d \in Dir, rows'[d].wf = w PROVE rows'[d].status = "APPLIED"
    BY DEF AllApplied
  <1>0. rows \in [Dir -> RowType] /\ None \notin Wf /\ pc \in [Wf -> PC]
    BY GateAssumption DEF TypeOK, RowType
  <1>1. rows[d].wf = w => rows[d].status = "APPLIED"
    BY DEF AllApplied
  <1>2. ASSUME NEW v \in Wf, Claim(v) PROVE rows'[d].status = "APPLIED"
    <2>1. v # w
      BY <1>0, <1>2 DEF Claim, Goto
    <2>2. QED BY <1>1, <1>2, <2>1 DEF Claim, Claimed
  <1>3. ASSUME NEW v \in Wf, NEW s \in {"FAILED", "RESUMING", "IN_PROGRESS"}, rows' = Marked(v, s),
               NEW p \in {"failed", "resuming", "planning"}, pc' = [pc EXCEPT ![v] = p]
        PROVE  rows'[d].status = "APPLIED"
    <2>1. v # w
      BY <1>0, <1>3
    <2>2. QED BY <1>0, <1>1, <1>3, <2>1 DEF Marked, RowType
  <1>4. ASSUME NEW v \in Wf, Evaluate(v) PROVE rows'[d].status = "APPLIED"
    BY <1>0, <1>1, <1>4 DEF Evaluate, Healed, RowType
  <1>5. ASSUME NEW ds, rows' = Deleted(ds) PROVE rows'[d].status = "APPLIED"
    BY <1>0, <1>1, <1>5 DEF Deleted, NoRow
  <1>6. ASSUME NEW v \in Wf, Applied(v) PROVE rows'[d].status = "APPLIED"
    BY <1>0, <1>1, <1>6 DEF Applied, Marked, RowType
  <1>7. QED BY <1>1, <1>2, <1>3, <1>4, <1>5, <1>6, RowEffects DEF Adopt, DeleteMerged

\* The gate is reached by marking, and left by closing.
LEMMA GateStays ==
  ASSUME TypeOK, Next, NEW w \in Wf, pc'[w] \in GatePlaces \cup {"deployed"}
  PROVE  \/ pc[w] \in GatePlaces
         \/ pc[w] = "deployed" /\ pc'[w] = "deployed"
         \/ pc'[w] \in GatePlaces /\ Applied(w)
         \/ pc'[w] = "deployed" /\ (MergedAfterHint(w) \/ Adopt(w))
  <1>1. ASSUME NEW v \in Wf, NEW s \in PC, Deployment(v), pc' = [pc EXCEPT ![v] = s], v = w
        PROVE  \/ pc[w] \in GatePlaces
               \/ pc[w] = "deployed" /\ pc'[w] = "deployed"
               \/ pc'[w] \in GatePlaces /\ Applied(w)
               \/ pc'[w] = "deployed" /\ (MergedAfterHint(w) \/ Adopt(w))
    <2>1. pc' = [pc EXCEPT ![w] = s] /\ pc'[w] = s /\ Deployment(w)
      BY <1>1 DEF TypeOK
    <2>2. CASE Claim(w) \/ MergeToStage(w) \/ FailEarly(w) \/ EnsurePull(w) \/ Die(w)
                 \/ Planned(w) \/ ApplyAgain(w) \/ FailManualCommit(w) \/ FailStuck(w)
      BY <2>1, <2>2 DEF TypeOK, Goto, GatePlaces, Claim, MergeToStage, FailEarly, Fail,
         EnsurePull, Die, Planned, ApplyAgain, FailManualCommit, FailStuck
    <2>3. CASE Park(w) \/ Wake(w) \/ ResumePlan(w) \/ FailPullClosed(w)
                 \/ FailMergedBeforeApply(w)
      BY <2>1, <2>3 DEF TypeOK, Goto, GatePlaces, Fail, Park, Wake, ResumePlan, FailPullClosed,
         FailMergedBeforeApply
    <2>4. CASE ReadHead(w) \/ Evaluate(w) \/ Merge(w) \/ MergeRefused(w) \/ DeleteMerged(w)
      BY <2>4 DEF GatePlaces, ReadHead, Evaluate, Merge, MergeRefused, DeleteMerged
    <2>5. CASE Applied(w) \/ MergedAfterHint(w) \/ Adopt(w)
      BY <2>1, <2>5 DEF TypeOK, Goto, GatePlaces, Applied, MergedAfterHint, Adopt
    <2> QED
      BY <2>1, <2>2, <2>3, <2>4, <2>5 DEF Deployment
  <1>2. QED BY <1>1, Effects DEF TypeOK, GatePlaces

LEMMA GateRowsStep == ASSUME TypeOK, RowsOwn, GateRows, Next PROVE GateRows'
  <1>1. SUFFICES ASSUME NEW w \in Wf, pc'[w] \in GatePlaces PROVE AllApplied(w)'
    BY DEF GateRows
  <1>2. CASE pc[w] \in GatePlaces
    BY <1>1, <1>2, AppliedStays DEF GateRows, GatePlaces
  <1>3. CASE Applied(w)
    <2>1. rows \in [Dir -> RowType]
      BY DEF TypeOK, RowType
    <2>2. QED BY <1>3, <2>1 DEF Applied, Marked, RowsOwn, AllApplied, RowType
  <1>4. QED BY <1>1, <1>2, <1>3, GateStays DEF GatePlaces

\* The number of a pull request is taken over when it is the latest, and how one
\* ended is final.
LEMMA PullEffects ==
  ASSUME TypeOK, Next
  PROVE  /\ pull <= pull'
         /\ \A w \in Wf : mine'[w] = mine[w] \/ (mine'[w] = pull' /\ pc'[w] = "planning")
         /\ \A n \in 1..MaxPulls : n <= pull /\ ends[n] = "merged" => ends'[n] = "merged"
  <1>0. pull \in 0..MaxPulls /\ MaxPulls \in Nat /\ mine \in [Wf -> 0..MaxPulls] /\ pc \in [Wf -> PC]
        /\ ends \in [1..MaxPulls -> {"none", "open", "merged", "closed"}]
    BY GateAssumption DEF TypeOK
  <1>1. ASSUME NEW v \in Wf, EnsurePull(v)
        PROVE  /\ pull <= pull'
               /\ \A w \in Wf : mine'[w] = mine[w] \/ (mine'[w] = pull' /\ pc'[w] = "planning")
               /\ \A n \in 1..MaxPulls : n <= pull /\ ends[n] = "merged" => ends'[n] = "merged"
    <2>1. pull <= pull'
      BY <1>0, <1>1 DEF EnsurePull
    <2>2. \A w \in Wf : mine'[w] = mine[w] \/ (mine'[w] = pull' /\ pc'[w] = "planning")
      BY <1>0, <1>1 DEF EnsurePull, Goto
    <2>3. \A n \in 1..MaxPulls : n <= pull /\ ends[n] = "merged" => ends'[n] = "merged"
      BY <1>0, <1>1 DEF EnsurePull
    <2>4. QED BY <2>1, <2>2, <2>3
  <1>2. ASSUME pull' = pull, mine' = mine,
               ends' = ends \/ (PullOpen /\ \E how \in {"merged", "closed"} :
                                              ends' = [ends EXCEPT ![pull] = how])
        PROVE  /\ pull <= pull'
               /\ \A w \in Wf : mine'[w] = mine[w] \/ (mine'[w] = pull' /\ pc'[w] = "planning")
               /\ \A n \in 1..MaxPulls : n <= pull /\ ends[n] = "merged" => ends'[n] = "merged"
    <2>1. pull <= pull'
      BY <1>0, <1>2
    <2>2. \A n \in 1..MaxPulls : n <= pull /\ ends[n] = "merged" => ends'[n] = "merged"
      <3>1. CASE ends' = ends
        BY <3>1
      <3>2. ASSUME PullOpen, NEW how, ends' = [ends EXCEPT ![pull] = how]
            PROVE  \A n \in 1..MaxPulls : ends[n] = "merged" => ends'[n] = "merged"
        BY <1>0, <3>2 DEF PullOpen
      <3>3. QED BY <1>2, <3>1, <3>2
    <2>3. QED BY <1>2, <2>1, <2>2
  <1>3. \/ \E v \in Wf : EnsurePull(v)
        \/ /\ pull' = pull /\ mine' = mine
           /\ \/ ends' = ends
              \/ PullOpen /\ \E how \in {"merged", "closed"} : ends' = [ends EXCEPT ![pull] = how]
    <2> DEFINE Stays == /\ pull' = pull /\ mine' = mine
                        /\ \/ ends' = ends
                           \/ PullOpen /\ \E how \in {"merged", "closed"} :
                                            ends' = [ends EXCEPT ![pull] = how]
    <2>1. ASSUME NEW v \in Wf, Deployment(v)
          PROVE  EnsurePull(v) \/ Stays
      BY <2>1 DEF Deployment, Claim, MergeToStage, FailEarly, Fail, Die,
        Planned, Applied, ApplyAgain, FailManualCommit, FailStuck, Park, Wake, ResumePlan,
        FailPullClosed, MergedAfterHint, Adopt, FailMergedBeforeApply, ReadHead, Evaluate, Merge,
        MergeRefused, DeleteMerged, MergePull, flow, github, history
    <2>2. ASSUME Outside
          PROVE  Stays
      BY <2>2 DEF Outside, AtlantisPlan, AtlantisApply, AtlantisApplyFails, HumanPush,
        HumanMerge, HumanClose, MergePull, flow, github
    <2> HIDE DEF Stays
    <2>3. (\E v \in Wf : EnsurePull(v)) \/ Stays
      BY <2>1, <2>2 DEF Next
    <2> QED
      BY <2>3 DEF Stays
  <1>4. QED BY <1>1, <1>2, <1>3

LEMMA MineBehindStep == ASSUME TypeOK, MineBehind, Next PROVE MineBehind'
  <1>1. pull \in Nat /\ pull' \in Nat /\ pull <= pull' /\ mine \in [Wf -> Nat]
    <2>1. TypeOK' /\ MaxPulls \in Nat
      BY StepTyped, GateAssumption
    <2>2. pull \in 0..MaxPulls /\ pull' \in 0..MaxPulls /\ mine \in [Wf -> 0..MaxPulls]
      BY <2>1 DEF TypeOK
    <2>3. QED BY <2>1, <2>2, PullEffects
  <1>2. QED BY <1>1, PullEffects DEF MineBehind

LEMMA ClosedByStep ==
  ASSUME TypeOK, RowsOwn, GateRows, MineBehind, ClosedBy, Next PROVE ClosedBy'
  <1>1. SUFFICES ASSUME NEW w \in Wf, pc'[w] = "deployed"
                 PROVE  AllApplied(w)' \/ (mine'[w] > 0 /\ ends'[mine'[w]] = "merged")
    BY DEF ClosedBy
  <1>2. mine'[w] = mine[w] /\ mine[w] \in 0..MaxPulls /\ mine[w] <= pull /\ MaxPulls \in Nat
    BY <1>1, PullEffects, GateAssumption DEF TypeOK, MineBehind
  <1>3. ASSUME mine[w] > 0, ends[mine[w]] = "merged"
        PROVE  mine'[w] > 0 /\ ends'[mine'[w]] = "merged"
    BY <1>2, <1>3, PullEffects
  <1>4. CASE pc[w] \in GatePlaces
    BY <1>1, <1>4, AppliedStays DEF GateRows
  <1>5. CASE pc[w] = "deployed"
    BY <1>1, <1>3, <1>5, AppliedStays DEF ClosedBy
  <1>6. CASE MergedAfterHint(w)
    BY <1>3, <1>6 DEF MergedAfterHint, PullSeen, TypeOK
  <1>7. CASE Adopt(w)
    <2>1. None \notin Wf
      BY GateAssumption
    <2>2. QED BY <1>7, <2>1 DEF Adopt, Deleted, NoRow, AllApplied, RowsOwn
  <1>8. QED BY <1>1, <1>4, <1>5, <1>6, <1>7, GateStays DEF GatePlaces

LEMMA OpenInvStep == OpenInv /\ [Next]_vars => OpenInv'
  <1>1. ASSUME OpenInv, Next PROVE OpenInv'
    BY <1>1, StepTyped, RowsOwnStep, GateRowsStep, MineBehindStep, ClosedByStep DEF OpenInv
  <1>2. ASSUME OpenInv, UNCHANGED vars PROVE OpenInv'
    <2>1. TypeOK'
      BY <1>2, StepTyped DEF OpenInv
    <2>2. RowsOwn' /\ GateRows' /\ MineBehind' /\ ClosedBy'
      BY <1>2 DEF OpenInv, vars, flow, github, RowsOwn, GateRows, MineBehind, ClosedBy, AllApplied
    <2>3. QED BY <2>1, <2>2 DEF OpenInv
  <1>3. QED BY <1>1, <1>2

\* A deployment that closed while the pull request stays open -- somebody else's row
\* blocked it, or the head kept moving -- left only APPLIED rows: it rides the next
\* merge, and the healing of rows of ended runs does not touch it.
THEOREM ClosedRidesAlong == Spec => []LeftOpenRides
  <1>1. GInit => OpenInv
    BY InitTyped, GateAssumption
    DEF GInit, OpenInv, RowsOwn, NoRow, GateRows, GatePlaces, MineBehind, ClosedBy
  <1>2. OpenInv => LeftOpenRides
    BY DEF OpenInv, ClosedBy, AllApplied, LeftOpenRides, PullOpen
  <1>3. QED BY <1>1, <1>2, OpenInvStep, PTL DEF Spec

-----------------------------------------------------------------------------
(* The locks: PromotionLocks, which ProductionLocks implements.            *)

LockPlace ==
    [w \in Wf |-> CASE pc[w] = "idle" -> "out"
                  [] HasKey(w) -> "inside"
                  [] pc[w] \in {"parked", "resuming"} -> "aside"
                  [] OTHER -> "over"]

Promotion == INSTANCE PromotionLocks WITH at <- LockPlace

\* The guard of this module is the one of PromotionLocks: nothing is kept out here
\* that may come in there.
LEMMA GuardIsFree ==
  ASSUME NEW w \in Wf, NEW ds
  PROVE  Grantable(w, ds) <=> Promotion!Free(w, ds)
  <1>1. ASSUME NEW v \in Wf
        PROVE  /\ HasKey(v) <=> LockPlace[v] = "inside"
               /\ Holds(v) = Promotion!Holds(v)
    <2>1. pc[v] = "idle" => ~HasKey(v)
      BY DEF HasKey
    <2>2. LockPlace[v] = CASE pc[v] = "idle" -> "out"
                           [] HasKey(v) -> "inside"
                           [] pc[v] \in {"parked", "resuming"} -> "aside"
                           [] OTHER -> "over"
      BY DEF LockPlace
    <2>3. pc[v] \in {"parked", "resuming"} => ~HasKey(v)
      BY DEF HasKey
    <2>4. CASE HasKey(v)
      BY <2>1, <2>2, <2>3, <2>4 DEF Holds, Promotion!Holds, Dirs
    <2>5. CASE pc[v] \in {"parked", "resuming"}
      BY <2>2, <2>3, <2>5 DEF Holds, Promotion!Holds
    <2>6. CASE ~HasKey(v) /\ pc[v] \notin {"parked", "resuming"}
      <3>1. LockPlace[v] \in {"out", "over"}
        BY <2>2, <2>6
      <3> QED
        BY <2>6, <3>1 DEF Holds, Promotion!Holds
    <2> QED
      BY <2>4, <2>5, <2>6
  <1> QED
    BY <1>1 DEF Grantable, Promotion!Free

\* Where a step of a deployment takes it.
LEMMA KeyMoves ==
  ASSUME TypeOK, NEW w \in Wf, NEW s \in PC, Deployment(w), pc' = [pc EXCEPT ![w] = s]
  PROVE  \/ Claim(w) /\ pc[w] = "idle" /\ s = "claimed"
         \/ ResumePlan(w) /\ pc[w] = "resuming" /\ s = "planning"
         \/ HasKey(w) /\ s \in PC \ {"idle", "resuming"}
         \/ pc[w] = "parked" /\ s = "resuming"
         \/ pc[w] \in {"parked", "resuming"} /\ s \in {"deployed", "failed"}
  <1>1. pc'[w] = s
    BY DEF TypeOK
  <1> QED
    <2>1. CASE Claim(w) \/ MergeToStage(w) \/ FailEarly(w) \/ EnsurePull(w) \/ Die(w)
                 \/ Planned(w) \/ Applied(w) \/ ApplyAgain(w)
      BY <1>1, <2>1 DEF TypeOK, PC, HasKey, Goto, Active, PullSeen, Claim, MergeToStage,
         FailEarly, Fail, EnsurePull, Die, Planned, Applied, ApplyAgain
    <2>2. CASE FailManualCommit(w) \/ FailStuck(w) \/ Park(w) \/ Wake(w) \/ ResumePlan(w)
      BY <1>1, <2>2 DEF TypeOK, PC, HasKey, Goto, Active, PullSeen, Fail, FailManualCommit,
         FailStuck, Park, Wake, ResumePlan
    <2>3. CASE FailPullClosed(w) \/ MergedAfterHint(w) \/ Adopt(w) \/ FailMergedBeforeApply(w)
      BY <1>1, <2>3 DEF TypeOK, PC, HasKey, Goto, Active, PullSeen, Fail, FailPullClosed,
         MergedAfterHint, Adopt, FailMergedBeforeApply
    <2>4. CASE ReadHead(w) \/ Evaluate(w) \/ Merge(w) \/ MergeRefused(w) \/ DeleteMerged(w)
      BY <1>1, <2>4 DEF TypeOK, PC, HasKey, Goto, ReadHead, Evaluate, Merge, MergeRefused,
         DeleteMerged
    <2> QED
      BY <2>1, <2>2, <2>3, <2>4 DEF Deployment

LEMMA PromotionStep ==
  ASSUME TypeOK, [Next]_vars
  PROVE  [Promotion!Next]_LockPlace
  <1>1. CASE UNCHANGED pc
    BY <1>1 DEF LockPlace, HasKey
  <1>2. ASSUME NEW w \in Wf, NEW s \in PC, Deployment(w), pc' = [pc EXCEPT ![w] = s]
        PROVE  [Promotion!Next]_LockPlace
    <2> DEFINE to == CASE s = "idle" -> "out"
                       [] s \in {"claimed", "onstage", "planning", "applying", "gate",
                                 "evaluating", "merging", "merged"} -> "inside"
                       [] s \in {"parked", "resuming"} -> "aside"
                       [] OTHER -> "over"
    <2>1. LockPlace' = [LockPlace EXCEPT ![w] = to]
      BY <1>2 DEF LockPlace, HasKey, TypeOK
    <2>2. HasKey(w) => LockPlace[w] = "inside"
      BY DEF LockPlace, HasKey
    <2>3. pc[w] \in {"parked", "resuming"} => LockPlace[w] = "aside"
      BY DEF LockPlace, HasKey
    <2>4. CASE Claim(w) /\ pc[w] = "idle" /\ s = "claimed"
      <3>1. LockPlace[w] = "out" /\ to = "inside"
        BY <2>4 DEF LockPlace, HasKey
      <3>2. Promotion!Free(w, Own[w] \cup Shared[w])
        BY <2>4, GuardIsFree DEF Claim, Dirs
      <3>3. Promotion!Enter(w)
        BY <2>1, <3>1, <3>2 DEF Promotion!Enter, Promotion!Move
      <3> QED
        BY <3>3 DEF Promotion!Next
    <2>5. CASE ResumePlan(w) /\ pc[w] = "resuming" /\ s = "planning"
      <3>1. LockPlace[w] = "aside" /\ to = "inside"
        BY <2>3, <2>5
      <3>2. Promotion!Free(w, Shared[w])
        BY <2>5, GuardIsFree DEF ResumePlan
      <3>3. Promotion!Return(w)
        BY <2>1, <3>1, <3>2 DEF Promotion!Return, Promotion!Move
      <3> QED
        BY <3>3 DEF Promotion!Next
    <2>6. CASE LockPlace[w] = to
      <3>1. LockPlace = [v \in Wf |-> LockPlace[v]]
        BY DEF LockPlace
      <3>2. LockPlace' = LockPlace
        BY <2>1, <2>6, <3>1
      <3> QED
        BY <3>2
    <2>7. CASE LockPlace[w] = "inside" /\ to = "aside"
      <3>1. Promotion!StepAside(w)
        BY <2>1, <2>7 DEF Promotion!StepAside, Promotion!Move
      <3> QED
        BY <3>1 DEF Promotion!Next
    <2>8. CASE LockPlace[w] \in {"inside", "aside"} /\ to = "over"
      <3>1. Promotion!Leave(w)
        BY <2>1, <2>8 DEF Promotion!Leave, Promotion!Move
      <3> QED
        BY <3>1 DEF Promotion!Next
    <2>9. CASE HasKey(w) /\ s \in PC \ {"idle", "resuming"}
      <3>1. LockPlace[w] = "inside" /\ to \in {"inside", "aside", "over"}
        BY <2>2, <2>9 DEF PC
      <3> QED
        BY <2>6, <2>7, <2>8, <3>1
    <2>10. CASE pc[w] = "parked" /\ s = "resuming"
      BY <2>3, <2>6, <2>10
    <2>11. CASE pc[w] \in {"parked", "resuming"} /\ s \in {"deployed", "failed"}
      BY <2>3, <2>8, <2>11
    <2> QED
      BY <1>2, <2>4, <2>5, <2>9, <2>10, <2>11, KeyMoves
  <1> QED
    BY <1>1, <1>2, Effects DEF vars

\* The deployments of this module come in, step aside, return and leave as
\* PromotionLocks allows.
THEOREM PromotionIsUsed == Spec => Promotion!Spec
  <1>1. GInit => Promotion!Init
    BY DEF GInit, Promotion!Init, LockPlace, HasKey
  <1> QED
    BY <1>1, TypeCorrect, PromotionStep, PTL DEF Spec, Promotion!Spec
=============================================================================

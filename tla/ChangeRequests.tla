--------------------------- MODULE ChangeRequests ---------------------------
(***************************************************************************)
(* The change requests of one service: rows of transaction_queue from      *)
(* draft through review to deployment (ApprovalService and its repository, *)
(* src/app/services/approval_service.py; the gateway rows of               *)
(* TransactionQueueRepository; the deploy routes and the activities that   *)
(* read and write the rows).                                               *)
(*                                                                         *)
(* A verb is one database transaction.  It locks the named row, asks       *)
(* OpenFGA, locks the rest of the author's change set, writes and commits; *)
(* so it is two actions here, Open and Decide, with other people's         *)
(* requests in between.  A save takes no lock: it reads (BeginSave) and    *)
(* writes back what it decided on, after waiting for the lock of whoever   *)
(* holds the row (WriteSave); so does a deployment that fails (ReadFailed, *)
(* WriteFailed).  The rest runs to its commit without a call to another    *)
(* service in between, or writes what it has not read, and is one action.  *)
(***************************************************************************)
EXTENDS Naturals

CONSTANTS
    Author,      \* users who propose changes to the service
    Client,      \* requests being served at one time
    Deployment,  \* multiple-deploy runs at one time
    Content,     \* what a snapshot can say
    MaxRows,     \* bound on the rows that are created
    None

Kind == {"settings", "gateway", "variables"}
Row == 1..MaxRows

ASSUME RequestsAssumption ==
    /\ MaxRows \in Nat
    /\ None \notin Content \cup Client

VARIABLES
    rows,     \* transaction_queue; ids are given in the order of creation
    locks,    \* which request holds the row FOR UPDATE
    tx,       \* the request each client is being served
    dep,      \* the multiple-deploy runs
    agreed    \* history: the content a standing approval of the row is about

vars == <<rows, locks, tx, dep, agreed>>

\* One status, "starting", stands for all of DEPLOY_IN_FLIGHT_STATUSES.
Status == {"unused", "draft", "submit", "approved", "rejected", "starting", "deployed"}

\* The status a verb asks of the row it names.
Asks == [submit |-> "draft", approve |-> "submit", reject |-> "submit",
         return |-> "submit", revoke |-> "approved", gate |-> "approved"]
Verb == DOMAIN Asks

Unused == [by |-> None, kind |-> None, status |-> "unused", content |-> None,
           seal |-> None, gone |-> FALSE, mark |-> FALSE]
Draft(a, k, v) == [Unused EXCEPT !.by = a, !.kind = k, !.status = "draft", !.content = v]
Idle == [verb |-> "none", set |-> {}, who |-> None, kind |-> None, seen |-> None]

\* gated: the settings rows that bore the gate's mark when the run was accepted; was, marked: what
\* the activity that is about to write FAILED has read of its rows.
NoDeploy == [stage |-> "none", items |-> {}, gateway |-> FALSE, gated |-> {},
             was |-> [i \in Row |-> None], marked |-> {}]

Init ==
    /\ rows = [i \in Row |-> Unused]
    /\ locks = [i \in Row |-> None]
    /\ tx = [c \in Client |-> Idle]
    /\ dep = [d \in Deployment |-> NoDeploy]
    /\ agreed = [i \in Row |-> None]

-----------------------------------------------------------------------------
(* Queries.                                                                *)

In(i, s) == rows[i].status = s /\ ~rows[i].gone
Live(i) == In(i, "submit") \/ In(i, "approved")
Owned(a, k, S) == {i \in Row : rows[i].by = a /\ rows[i].kind = k /\ \E s \in S : In(i, s)}
NextId == {i \in Row : rows[i].status = "unused" /\ \A j \in 1..i - 1 : rows[j].status # "unused"}
Newest(S) == {i \in S : \A j \in S : j <= i}

\* lock_change_set with the named row appended.
ChangeSet(i, s) == {j \in Row : In(j, s) /\ rows[j].by = rows[i].by} \cup {i}

\* find_live_for_resource finds nothing: gateway rows police themselves.
LaneFree == \A i \in Row : (Live(i) \/ In(i, "starting")) => rows[i].kind = "gateway"

Unlocked(S) == \A i \in S : locks[i] = None
Release(c) == locks' = [i \in Row |-> IF locks[i] = c THEN None ELSE locks[i]]

-----------------------------------------------------------------------------
(* The verbs.                                                              *)

\* _get_locked, the check of the status and, for submit, of the other authors.
Open(c, v, i) ==
    /\ tx[c] = Idle
    /\ In(i, Asks[v]) /\ locks[i] = None
    /\ v = "submit" => \A j \in Row : Live(j) => rows[j].by = rows[i].by
    /\ locks' = [locks EXCEPT ![i] = c]
    /\ tx' = [tx EXCEPT ![c] = [Idle EXCEPT !.verb = v, !.set = {i}]]
    /\ UNCHANGED <<rows, dep, agreed>>

Named(c) == CHOOSE i \in tx[c].set : TRUE

\* Mutant: only the named row moves.
MembersNamed(c) == tx[c].set

Members(c) == ChangeSet(Named(c), Asks[tx[c].verb])

\* What each verb writes.  A mark is what the deploy gate leaves for revoke to see.
Submitted(r) == [r EXCEPT !.status = "submit", !.seal = None]
Approved(r) == [r EXCEPT !.status = "approved", !.seal = r.content, !.mark = FALSE]
Rejected(r) == [r EXCEPT !.status = "rejected"]
Returned(r) == [r EXCEPT !.status = "draft", !.seal = None]
Revoked(r) == [r EXCEPT !.status = "submit", !.seal = None]
Gated(r) == [r EXCEPT !.mark = TRUE]

Decided(v, r) ==
    [submit |-> Submitted(r), approve |-> Approved(r), reject |-> Rejected(r),
     return |-> Returned(r), revoke |-> Revoked(r), gate |-> Gated(r)][v]

\* verify_seal
Sealed(r) == r.seal = r.content

\* Mutant: revoke looks at the status alone.
MayRevokeByStatus(c) == TRUE

\* deploy_in_flight, on every member: the gate marks them all.
MayRevoke(c) == \A i \in Members(c) : ~rows[i].mark

\* The gate looks at the seal of the named row.
MayDecide(c) ==
    /\ tx[c].verb = "revoke" => MayRevoke(c)
    /\ tx[c].verb = "gate" => Sealed(rows[Named(c)])

\* The change set is locked, written and committed.
Decide(c) ==
    LET v == tx[c].verb S == Members(c) IN
    /\ v \in Verb
    /\ \A i \in S : locks[i] \in {None, c}
    /\ MayDecide(c)
    /\ rows' = [i \in Row |-> IF i \in S THEN Decided(v, rows[i]) ELSE rows[i]]
    /\ agreed' = [i \in Row |->
          IF i \in S /\ v = "approve" THEN rows[i].content
          ELSE IF i \in S /\ v = "revoke" THEN None ELSE agreed[i]]
    /\ Release(c)
    /\ tx' = [tx EXCEPT ![c] = Idle]
    /\ UNCHANGED dep

RollBack(c) ==
    /\ Release(c)
    /\ tx' = [tx EXCEPT ![c] = Idle]
    /\ UNCHANGED <<rows, dep, agreed>>

\* OpenFGA, a field check, an empty diff, the mark or the seal says no.
Refuse(c) == tx[c].verb \in Verb /\ RollBack(c)

-----------------------------------------------------------------------------
(* Waiting for each other.                                                 *)

WaitsFor(c, e) == tx[c].verb \in Verb /\ \E i \in Members(c) : locks[i] = e

\* Requests that wait for each other; the database breaks the cycle.
Deadlocked(c) ==
    \E S \in SUBSET Client : c \in S /\ \A x \in S : \E y \in S \ {x} : WaitsFor(x, y)

BreakDeadlock(c) == Deadlocked(c) /\ RollBack(c)

-----------------------------------------------------------------------------
(* Discard.  The variables row is devlift-secret's to delete, so its lock  *)
(* is left alone while the other rows are held.                            *)

VariablesOf(a) == Owned(a, "variables", {"draft"})

OpenDiscard(c, i) ==
    LET a == rows[i].by
        own == Owned(a, "settings", {"draft"}) \cup Owned(a, "gateway", {"draft"})
    IN
    /\ tx[c] = Idle
    /\ In(i, "draft") /\ Unlocked(own)
    /\ locks' = [j \in Row |-> IF j \in own THEN c ELSE locks[j]]
    /\ tx' = [tx EXCEPT ![c] = [Idle EXCEPT
                 !.verb = IF VariablesOf(a) = {} THEN "bin" ELSE "call",
                 !.set = own, !.who = a]]
    /\ UNCHANGED <<rows, dep, agreed>>

Gone(S) == [i \in Row |-> IF i \in S THEN [rows[i] EXCEPT !.gone = TRUE] ELSE rows[i]]

\* devlift-secret deletes the row; its answer may be lost.
SecretDiscards(c) ==
    LET S == VariablesOf(tx[c].who) IN
    /\ tx[c].verb = "call" /\ Unlocked(S)
    /\ rows' = Gone(S)
    /\ \E v \in {"bin", "lost"} : tx' = [tx EXCEPT ![c].verb = v]
    /\ UNCHANGED <<locks, dep, agreed>>

\* An error or the 15 seconds of the client's time-out: 502, nothing of ours has changed.
SecretFails(c) == tx[c].verb \in {"call", "lost"} /\ RollBack(c)

Bin(c) ==
    /\ tx[c].verb = "bin"
    /\ rows' = Gone(tx[c].set)
    /\ Release(c)
    /\ tx' = [tx EXCEPT ![c] = Idle]
    /\ UNCHANGED <<dep, agreed>>

-----------------------------------------------------------------------------
(* Saves.                                                                  *)

\* Mutant: a rejected row is taken up again.
ReusableRejected == [settings |-> {"draft", "rejected"}, gateway |-> {"draft", "approved", "rejected"}]

\* The row a save writes into: the author's draft, for routes an approved row too.
Reusable == [settings |-> {"draft"}, gateway |-> {"draft", "approved"}]

\* save_draft and, for routes, find_submitted_for_scope and the read of the upsert.
BeginSave(c, a, k) ==
    LET S == Newest(Owned(a, k, Reusable[k])) IN
    /\ tx[c] = Idle /\ LaneFree
    /\ k = "gateway" => Owned(a, k, {"submit"}) = {}
    /\ S = {} => NextId # {}
    /\ tx' = [tx EXCEPT ![c] =
                 IF S = {} THEN [Idle EXCEPT !.verb = "save", !.who = a, !.kind = k]
                 ELSE [Idle EXCEPT !.verb = "save", !.set = S,
                                   !.seen = rows[CHOOSE i \in S : TRUE].status]]
    /\ UNCHANGED <<rows, locks, dep, agreed>>

\* upsert_pending_for_scope demotes what it has read as approved; a draft keeps its status.
Saved(r, seen, v) ==
    IF seen = "approved" THEN [r EXCEPT !.content = v, !.status = "draft", !.seal = None]
    ELSE [r EXCEPT !.content = v]

WriteSave(c) ==
    LET S == tx[c].set IN
    /\ tx[c].verb = "save" /\ Unlocked(S)
    /\ \E v \in Content :
         \/ /\ S # {}
            /\ rows' = [i \in Row |-> IF i \in S THEN Saved(rows[i], tx[c].seen, v) ELSE rows[i]]
            /\ agreed' = [i \in Row |-> IF i \in S /\ tx[c].seen = "approved" THEN None ELSE agreed[i]]
         \/ /\ S = {} /\ UNCHANGED agreed
            /\ \E i \in NextId : rows' = [rows EXCEPT ![i] = Draft(tx[c].who, tx[c].kind, v)]
    /\ tx' = [tx EXCEPT ![c] = Idle]
    /\ UNCHANGED <<locks, dep>>

\* A save that undoes the change: clear_pending_for_scope, or the emptied settings draft.
BeginClear(c, a, k) ==
    LET S == Owned(a, k, Reusable[k] \cup IF k = "gateway" THEN {"submit"} ELSE {}) IN
    /\ tx[c] = Idle /\ LaneFree /\ S # {}
    /\ tx' = [tx EXCEPT ![c] = [Idle EXCEPT !.verb = "clear", !.set = S]]
    /\ UNCHANGED <<rows, locks, dep, agreed>>

WriteClear(c) ==
    /\ tx[c].verb = "clear" /\ Unlocked(tx[c].set)
    /\ rows' = Gone(tx[c].set)
    /\ tx' = [tx EXCEPT ![c] = Idle]
    /\ UNCHANGED <<locks, dep, agreed>>

\* devlift-secret stages variables for an author and ships them when they are approved.
StageVariables(a, v) ==
    /\ \/ /\ Owned(a, "variables", {"draft", "submit", "approved"}) = {}
          /\ \E i \in NextId : rows' = [rows EXCEPT ![i] = Draft(a, "variables", v)]
       \/ /\ VariablesOf(a) # {} /\ Unlocked(VariablesOf(a))
          /\ rows' = [i \in Row |-> IF i \in VariablesOf(a) THEN Saved(rows[i], "draft", v) ELSE rows[i]]
    /\ UNCHANGED <<locks, tx, dep, agreed>>

ShipVariables(i) ==
    /\ rows[i].kind = "variables" /\ In(i, "approved") /\ rows[i].mark /\ locks[i] = None
    /\ rows' = [rows EXCEPT ![i].status = "deployed"]
    /\ UNCHANGED <<locks, tx, dep, agreed>>

-----------------------------------------------------------------------------
(* Deployments.                                                            *)

\* Mutant: the seal is not looked at.
DeployableByStatus(i) == In(i, "approved") /\ locks[i] = None

\* validate_deployable_queue_items, of one row.
Deployable(i) == In(i, "approved") /\ locks[i] = None /\ Sealed(rows[i])

\* The multiple-deploy route validates the rows that are named; the gateway row comes as "the
\* approved one", and is not looked at before the activity reads the rows.
Accept(d) ==
    /\ dep[d].stage = "none"
    /\ \E S \in SUBSET {i \in Row : Deployable(i)}, g \in BOOLEAN :
        /\ S # {}
        /\ dep' = [dep EXCEPT ![d] = [NoDeploy EXCEPT !.stage = "accepted", !.items = S, !.gateway = g,
                                                     !.gated = {i \in S : rows[i].mark /\ rows[i].kind = "settings"}]]
    /\ UNCHANGED <<rows, locks, tx, agreed>>

\* find_gateway_request_for_deploy
Routes == {i \in Row : rows[i].kind = "gateway" /\ In(i, "approved")}

Read(S) == [NoDeploy EXCEPT !.stage = "read", !.items = S]

\* prepare_multiple_deploy reads the rows: named ones that are not approved any more are skipped.
Prepare(d) ==
    LET mine == {i \in dep[d].items : rows[i].status = "approved"}
        routes == {i \in Routes : dep[d].gateway}
    IN
    /\ dep[d].stage = "accepted"
    /\ \E R \in IF routes = {} THEN {{}} ELSE {{i} : i \in routes} :
        dep' = [dep EXCEPT ![d] =
                   IF mine \cup R = {} THEN NoDeploy
                   ELSE [Read(mine \cup R) EXCEPT !.gated = dep[d].gated \cap mine]]
    /\ UNCHANGED <<rows, locks, tx, agreed>>

\* get_pending_items_for_user: rows of every kind, whatever their seals say.
Pending(a) == {i \in Row : rows[i].by = a /\ In(i, "approved")}

\* A request that names no rows: the route lets it pass unseen, so that nothing happens before the
\* activity, which takes the gateway row if it is asked for and found, else all of the caller's.
PrepareUnnamed(d) ==
    /\ dep[d].stage = "none"
    /\ \E S \in {{i} : i \in Routes} \cup {Pending(a) : a \in Author} :
        S # {} /\ dep' = [dep EXCEPT ![d] = Read(S)]
    /\ UNCHANGED <<rows, locks, tx, agreed>>

Started(S) == [i \in Row |-> IF i \in S THEN [rows[i] EXCEPT !.status = "starting"] ELSE rows[i]]

\* ... asks GitHub where their files are, and writes the status without reading it again.
MarkStarting(d) ==
    /\ dep[d].stage = "read" /\ Unlocked(dep[d].items)
    /\ rows' = Started(dep[d].items)
    /\ dep' = [dep EXCEPT ![d].stage = "prepared"]
    /\ UNCHANGED <<locks, tx, agreed>>

\* The rows of the child whose turn it is: the service's own, then the routes.
Group(d) ==
    LET first == {i \in dep[d].items : rows[i].kind # "gateway"}
    IN IF first = {} THEN dep[d].items ELSE first

\* What is left of the run when the child's rows S are done with.
Less(d, S, s) ==
    IF dep[d].items \subseteq S THEN NoDeploy
    ELSE [NoDeploy EXCEPT !.stage = s, !.items = dep[d].items \ S, !.gated = dep[d].gated \ S]

\* With its locks granted the child writes the status again and raises the pull request.
CreatePull(d) ==
    /\ dep[d].stage = "prepared" /\ Unlocked(Group(d))
    /\ rows' = Started(Group(d))
    /\ dep' = [dep EXCEPT ![d].stage = "pull"]
    /\ UNCHANGED <<locks, tx, agreed>>

\* update_queue_status with DEPLOYED; then the next child starts.
Finish(d) ==
    LET S == Group(d) IN
    /\ dep[d].stage = "pull" /\ Unlocked(S)
    /\ rows' = [i \in Row |-> IF i \in S THEN [rows[i] EXCEPT !.status = "deployed"] ELSE rows[i]]
    /\ dep' = [dep EXCEPT ![d] = Less(d, S, "prepared")]
    /\ UNCHANGED <<locks, tx, agreed>>

\* The locks never come: the batch, or the child, ends without a word about its rows.
Abandon(d) ==
    /\ dep[d].stage = "prepared"
    /\ \E S \in {Group(d), dep[d].items} : dep' = [dep EXCEPT ![d] = Less(d, S, "skipped")]
    /\ UNCHANGED <<rows, locks, tx, agreed>>

\* Mutant: whatever the row is.
InFlightAny == Status

InFlight == {"approved", "starting"}

\* update_queue_status with FAILED, of the child's rows or (_mark_skipped) of the rows of a child
\* that is not started: it reads them without a lock, looks for those in flight ...
ReadFailed(d) ==
    LET S == {i \in Group(d) : rows[i].status \in InFlight} IN
    /\ dep[d].stage \in {"prepared", "pull", "skipped"}
    /\ dep' = [dep EXCEPT ![d] = IF S = {} THEN Less(d, Group(d), "skipped") ELSE
                  [Less(d, Group(d), "failing") EXCEPT
                      !.stage = "failing",
                      !.was = [i \in Row |-> IF i \in S THEN rows[i].status ELSE None],
                      !.marked = {i \in S : rows[i].mark}]]
    /\ UNCHANGED <<rows, locks, tx, agreed>>

\* What has changed is written: the status to approved, the mark to none.
Failed(d, i) ==
    [rows[i] EXCEPT !.status = IF dep[d].was[i] = "approved" THEN @ ELSE "approved",
                    !.mark = @ /\ i \notin dep[d].marked]

\* ... and writes these.
WriteFailed(d) ==
    LET S == {i \in Row : dep[d].was[i] # None} IN
    /\ dep[d].stage = "failing" /\ Unlocked(S)
    /\ rows' = [i \in Row |-> IF i \in S THEN Failed(d, i) ELSE rows[i]]
    /\ dep' = [dep EXCEPT ![d] = Less(d, {}, "skipped")]
    /\ UNCHANGED <<locks, tx, agreed>>

\* The mark outlives the time between the gate and STARTING_DEPLOYMENT.
InUse(i) == \E d \in Deployment : dep[d].stage \in {"accepted", "read"} /\ i \in dep[d].gated

\* _DEPLOY_MARK_TTL has passed.
ExpireMark(i) ==
    /\ rows[i].mark /\ In(i, "approved") /\ ~InUse(i)
    /\ rows' = [rows EXCEPT ![i].mark = FALSE]
    /\ UNCHANGED <<locks, tx, dep, agreed>>

-----------------------------------------------------------------------------
Next ==
    \/ \E c \in Client :
        \/ \E v \in Verb, i \in Row : Open(c, v, i)
        \/ Decide(c) \/ Refuse(c) \/ BreakDeadlock(c)
        \/ \E i \in Row : OpenDiscard(c, i)
        \/ SecretDiscards(c) \/ SecretFails(c) \/ Bin(c)
        \/ \E a \in Author, k \in DOMAIN Reusable : BeginSave(c, a, k) \/ BeginClear(c, a, k)
        \/ WriteSave(c) \/ WriteClear(c)
    \/ \E a \in Author, v \in Content : StageVariables(a, v)
    \/ \E i \in Row : ShipVariables(i) \/ ExpireMark(i)
    \/ \E d \in Deployment :
        \/ Accept(d) \/ Prepare(d) \/ PrepareUnnamed(d) \/ MarkStarting(d)
        \/ CreatePull(d) \/ Finish(d) \/ Abandon(d) \/ ReadFailed(d) \/ WriteFailed(d)

Spec == Init /\ [][Next]_vars

-----------------------------------------------------------------------------
\* The types: among them, that a save only ever takes up a draft or an approved row
\* (the status filters of save_draft and upsert_pending_for_scope).
TypeOK ==
    /\ rows \in [Row -> [by : Author \cup {None}, kind : Kind \cup {None}, status : Status,
                         content : Content \cup {None}, seal : Content \cup {None},
                         gone : BOOLEAN, mark : BOOLEAN]]
    /\ locks \in [Row -> Client \cup {None}]
    /\ tx \in [Client -> [verb : Verb \cup {"none", "bin", "call", "lost", "save", "clear"},
                          set : SUBSET Row, who : Author \cup {None},
                          kind : Kind \cup {None}, seen : {"draft", "approved", None}]]
    /\ dep \in [Deployment -> [stage : {"none", "accepted", "read", "prepared", "pull",
                                        "skipped", "failing"},
                               items : SUBSET Row, gateway : BOOLEAN,
                               gated : SUBSET Row, was : [Row -> Status \cup {None}], marked : SUBSET Row]]
    /\ agreed \in [Row -> Content \cup {None}]

\* The exception that the code makes: a failing deployment has read the routes in flight, and a save
\* that had begun before the deployment writes them, before the failure is written.
Overtaken(i) == rows[i].kind = "gateway" /\ \E d \in Deployment : dep[d].was[i] = "starting"

\* However the requests of reviewers, authors and deployments overlap, a row is rejected only
\* while it waits for review, and it becomes approved only there or by the failure of its own
\* deployment, which leaves alone rows that were not in flight (_get_locked with approve and
\* reject; update_queue_status with FAILED).  An overtaken route can come even from draft.  Stated
\* for one deployment at a time, as the run has it.
VerdictsOnReview ==
    [][\A i \in Row : rows'[i].status # rows[i].status =>
         /\ rows'[i].status = "rejected" => rows[i].status = "submit"
         /\ rows'[i].status = "approved" =>
              rows[i].status \in {"submit", "starting"} \/ Overtaken(i)]_rows

\* A verdict takes an author's request whole: of two rows of one author in review, neither is
\* approved or rejected without the other (_change_set, "every verb that moves it moves all
\* of it"), although the second row is locked only after the first has been looked at.  It is
\* not a verdict when an overtaken route comes back as approved.
VerdictWhole ==
    [][\A i, j \in Row :
         /\ In(i, "submit") /\ In(j, "submit") /\ rows[i].by = rows[j].by
         /\ rows'[i].status = "rejected" \/ (rows'[i].status = "approved" /\ ~Overtaken(i))
         => rows'[j].status = rows'[i].status]_rows

\* A deployment that names its rows is accepted only with the content somebody has approved and
\* nobody taken back, whatever was saved over a row meanwhile (verify_seal and
\* validate_deployable_queue_items, "is this still the content that was approved?").  A request
\* for all of the caller's rows, and the gateway row, are not validated: Prepare takes them by
\* their status.
AcceptsApproved ==
    [][\A d \in Deployment :
         dep[d].stage = "none" /\ dep'[d].stage = "accepted" =>
           \A i \in dep'[d].items : rows[i].content = agreed[i]]_dep

\* With one deployment of the service at a time, a settings row that the gate had let through when
\* its deployment was accepted has a standing approval until the deployment is done with it: the
\* gate's mark keeps a revoke out of the gap between the gate and the activity that moves the
\* status (revoke, deploy_in_flight).
RevokeStands ==
    \A d \in Deployment : \A i \in dep[d].gated : agreed[i] # None
=============================================================================

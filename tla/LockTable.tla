----------------------------- MODULE LockTable -----------------------------
(***************************************************************************)
(* What the coordinator promises about its lock table, whatever order its  *)
(* handlers interleave in: a directory has one holder, only that holder's  *)
(* own release frees it, and a grant is whole - it answers a request that  *)
(* was made, takes every directory of it that is free and finds the others *)
(* with the requester's parent.                                            *)
(***************************************************************************)
CONSTANTS Wf, Dir, None

VARIABLES
    owner,        \* holder of each directory, or None
    asked         \* requests made so far

Request == [wf : Wf, dirs : SUBSET Dir, parent : Wf \cup {None}]

Init ==
    /\ owner = [d \in Dir |-> None]
    /\ asked = {}

Grantable(q, lk) == \A d \in q.dirs : lk[d] \in {None, q.parent}

Grant(q, lk) == [d \in Dir |-> IF d \in q.dirs /\ lk[d] = None THEN q.wf ELSE lk[d]]

Free(R) == [d \in Dir |-> IF d \in R THEN None ELSE owner[d]]

\* A request is granted at once or remembered.
Ask(q) ==
    /\ asked' = asked \cup {q}
    /\ \/ owner' = owner
       \/ Grantable(q, owner) /\ owner' = Grant(q, owner)

\* r gives some of its directories back, and at most one request is granted in
\* the same step.
Release(r, R) ==
    /\ \A d \in R : owner[d] = r
    /\ \/ owner' = Free(R)
       \/ \E q \in asked : Grantable(q, Free(R)) /\ owner' = Grant(q, Free(R))
    /\ UNCHANGED asked

\* A scan goes on after an await: one more request is granted.
Serve ==
    /\ \E q \in asked : Grantable(q, owner) /\ owner' = Grant(q, owner)
    /\ UNCHANGED asked

\* reset_state, or a new run after the coordinator's run has failed.
Wipe ==
    /\ owner' = [d \in Dir |-> None]
    /\ UNCHANGED asked

Next ==
    \/ \E q \in Request : Ask(q)
    \/ \E r \in Wf, R \in SUBSET Dir : Release(r, R)
    \/ Serve
    \/ Wipe

Spec == Init /\ [][Next]_<<owner, asked>>
=============================================================================

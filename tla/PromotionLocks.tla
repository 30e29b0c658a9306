--------------------------- MODULE PromotionLocks ---------------------------
(***************************************************************************)
(* What production deployments of a repository get from the locks, whoever *)
(* keeps them: one at a time is inside, with all its directories; one that *)
(* steps aside keeps its own directories and gives the shared ones back;   *)
(* and nobody comes in, for the first time or again, while what it needs   *)
(* is taken.  MergeGate is built on this much; ProductionLocks shows that  *)
(* batches, their children and the coordinator provide it.                 *)
(***************************************************************************)
CONSTANTS
    Wf,           \* production deployments
    Own,          \* directories a deployment keeps while it is aside
    Shared        \* directories it gives back while it is aside

VARIABLE at       \* where each deployment is, as far as locks go

Place == {"out", "inside", "aside", "over"}

Holds(w) ==
    IF at[w] = "inside" THEN Own[w] \cup Shared[w] ELSE IF at[w] = "aside" THEN Own[w] ELSE {}

\* Nobody else is inside, and nobody else holds one of ds.
Free(w, ds) == \A v \in Wf \ {w} : at[v] # "inside" /\ Holds(v) \cap ds = {}

Init == at = [w \in Wf |-> "out"]

Move(w, from, to) == at[w] \in from /\ at' = [at EXCEPT ![w] = to]

Enter(w) == Free(w, Own[w] \cup Shared[w]) /\ Move(w, {"out"}, "inside")

StepAside(w) == Move(w, {"inside"}, "aside")

Return(w) == Free(w, Shared[w]) /\ Move(w, {"aside"}, "inside")

\* Also from outside: who gives up waiting never comes in.
Leave(w) == Move(w, {"out", "inside", "aside"}, "over")

Next == \E w \in Wf : Enter(w) \/ StepAside(w) \/ Return(w) \/ Leave(w)

Spec == Init /\ [][Next]_at
=============================================================================

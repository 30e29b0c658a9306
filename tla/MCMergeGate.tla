---------------------------- MODULE MCMergeGate ----------------------------
(* Instances of MergeGate for TLC.                                         *)
EXTENDS MergeGate, TLC

CONSTANTS a, b, g, y, m

\* Two deployments of the same two gateways, one after the other.
OwnSame == a :> {} @@ b :> {}
SharedSame == a :> {g, y} @@ b :> {g, y}
=============================================================================

------------------------- MODULE MCProductionLocks -------------------------
(* Instances of ProductionLocks for TLC.                                   *)
EXTENDS ProductionLocks, TLC

CONSTANTS o, k1, k2, p, z, s, g, key

\* A batch of a service and a gateway group, a standalone deployment of the
\* gateway, and a stage deployment of the same gateway.
BatchChildren == o :> <<k1, k2>>
OwnDirs == o :> {s} @@ k1 :> {s} @@ k2 :> {} @@ p :> {g} @@ z :> {g}
SharedDirs == o :> {g} @@ k1 :> {} @@ k2 :> {g} @@ p :> {} @@ z :> {}
=============================================================================

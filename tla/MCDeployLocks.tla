--------------------------- MODULE MCDeployLocks ---------------------------
(* Instances of DeployLocks for TLC.                                       *)
EXTENDS DeployLocks, TLC

CONSTANTS a, b, c, e, f, g, w, x, y, z

\* Three deployments; b overlaps both others.
Overlap3 == a :> {x} @@ b :> {x, y} @@ c :> {y}
Pairs == a :> {w, z} @@ b :> {x, y} @@ c :> {w} @@ e :> {x} @@ f :> {y} @@ g :> {z}
=============================================================================

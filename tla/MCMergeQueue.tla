--------------------------- MODULE MCMergeQueue ---------------------------
(* Instances of MergeQueue for TLC.                                        *)
EXTENDS MergeQueue, TLC

CONSTANTS a, b, c

\* Two pull requests of one repository, and one of another with the number of the first.
TwoRepositories == a :> 1 @@ b :> 2 @@ c :> 1
=============================================================================

-------------------------- MODULE MCChangeRequests --------------------------
(* A small instance of ChangeRequests.  Authors, requests and contents are *)
(* interchangeable, so states that differ by a renaming count as one; the  *)
(* run checks no liveness.                                                 *)
EXTENDS ChangeRequests, TLC

Renamings ==
    Permutations(Author) \cup Permutations(Client) \cup Permutations(Content)
=============================================================================

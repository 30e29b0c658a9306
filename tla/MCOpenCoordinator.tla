------------------------- MODULE MCOpenCoordinator -------------------------
(* Instances of OpenCoordinator for TLC.                                   *)
EXTENDS OpenCoordinator

CONSTANTS p, q, c, x, y

Req(w, ds, par) == [wf |-> w, dirs |-> ds, parent |-> par]

\* A parent that holds x, another deployment on y and a child that needs both.
Family == {Req(p, {x}, None), Req(q, {y}, None), Req(c, {x, y}, p)}
\* A release names nothing ("all I hold") or both directories.
AllOrBoth == {{}, {x, y}}
=============================================================================

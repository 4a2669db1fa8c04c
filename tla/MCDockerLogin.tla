---------------------------- MODULE MCDockerLogin ----------------------------
(***************************************************************************)
(* Three helpers, two of them for one host.                                *)
(***************************************************************************)
EXTENDS DockerLogin

CONSTANTS p1, p2, p3, h1, h2

MCHostOf == [p \in Helpers |-> IF p = p3 THEN h2 ELSE h1]
=============================================================================

------------------------------ MODULE MCGoDeps ------------------------------
(***************************************************************************)
(* Two releases of a starter with three modules: base is required by every *)
(* selection, indirectly at first; opt by one selection only; and own by   *)
(* none.  The second release raises base, makes it direct, and drops opt.  *)
(***************************************************************************)
EXTENDS GoDeps, TLC

CONSTANTS base, opt, own

V(n) == [release |-> <<1, n, 0>>, pre |-> <<>>]
\* A prerelease, a release after it, and the name of a branch.
Pre == [release |-> <<1, 1, 0>>, pre |-> << <<1, 1>>, <<0, 2>> >>]
Branch == [release |-> <<>>, pre |-> <<>>]
G == [release |-> <<1, 26, 4, 0>>, pre |-> <<>>]
MCSemvers == {Pre, V(1)}
MCEdited == {Path}
MCGovers == {G}
MCPaths == {[path |-> "starter"], [path |-> "repo"]}

Req(m, v, i) == Require(m) :> [arg |-> v, indirect |-> i]
Head1 == (Path :> [arg |-> [path |-> "starter"], indirect |-> FALSE]) @@ (Go :> [arg |-> G, indirect |-> FALSE])
Small(r) ==
    Head1 @@ IF r = 1 THEN Req(base, Pre, TRUE) ELSE Req(base, V(1), FALSE)
MCStarter ==
    [r \in Releases |-> [s \in Selections |->
        IF s = Everything /\ r = 1 THEN Small(r) @@ Req(opt, Pre, FALSE) ELSE Small(r)]]
MCStarterNames ==
    [r \in Releases |-> [s \in Selections |->
        {m \in Direct(MCStarter[r][s]) : m # own}]]
MCStarterSums == [r \in Releases |-> IF r = 1 THEN {<<base, Pre>>, <<opt, Pre>>} ELSE {<<base, V(1)>>}]

\* Between runs the last selection says nothing: Start sets it before any use.
MCView == <<files, release, IF pc = "idle" THEN Everything ELSE selection, pc, reads, whole, ghosts>>
=============================================================================

---------------------------- MODULE MCMintRelease ----------------------------
(***************************************************************************)
(* Instances of MintRelease for TLC.  Modules 1 and 2 are released under   *)
(* prefix 1 and module 3 under prefix 2; a configuration says which of     *)
(* them there are and which have an image.                                 *)
(***************************************************************************)
EXTENDS MintRelease, TLC

MCPrefixOf == [m \in Modules |-> IF m = 3 THEN 2 ELSE 1]
MCSemver == {<<0, 0, n>> : n \in 1 .. 2}
MCCalver == {<<d>> : d \in 1 .. MaxDay}
MCSemverOverrides == {<<0, 0, 2>>}
MCNone == {}
MCAllTracks == {{"artifact", "image"}}
MCSymmetry == Permutations(Runs)

\* Each run in a clone of its own; which one is all the same.
MCApartInit == Init /\ clone = [r \in Runs |-> IF r = 1 THEN 3 ELSE 4]
MCApartSpec == MCApartInit /\ [][Next]_vars /\ Fairness

\* What the next steps, OwnTagsHeld, LocalTagsAccounted and ImplementsLedger depend
\* on: not the worktrees, and of a run that has ended only the tags it left.
MCRunView(r) ==
    IF pc[r] \in {"done", "failed", "killed"}
    THEN <<"ended", {TagOf(r, p) : p \in IF outcome[r] \in {"ok", "error"}
                                         THEN undeleted[r] ELSE tagged[r]}>>
    ELSE <<pc[r], mods[r], include[r], IF pc[r] = "plan" THEN override[r] ELSE NoVersion,
           plan[r], base[r], tagged[r], undeleted[r], todo[r], outcome[r]>>
MCView ==
    <<tip, origin, head, tracking, local, store, today, clone,
      [r \in Runs |-> MCRunView(r)]>>
=============================================================================

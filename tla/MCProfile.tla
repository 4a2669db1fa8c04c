----------------------------- MODULE MCProfile -----------------------------
(***************************************************************************)
(* Every language in both modes, each target in a workspace of its own but *)
(* for two pairs: a Go target and a C++ target that has both tags, in one  *)
(* directory; and Python targets of either mode in another.                *)
(***************************************************************************)
EXTENDS Profile, TLC

CONSTANTS rs, go, cc, jv, py, goMem, ccMem, jvMem, pyMem, b1, b2

MCLabels == {rs, go, cc, jv, py, goMem, ccMem, jvMem, pyMem}
MCWorkspaces == {{go, cc}, {py, pyMem}, {rs}, {jv}, {goMem}, {jvMem}, {ccMem}}
MCTags == [l \in Labels |-> IF l = cc THEN Modes ELSE IF l \in {rs, go, jv, py} THEN {"cpu"} ELSE {"mem"}]
MCLanguage ==
    [l \in Labels |-> CASE l = rs -> "rust" [] l \in {go, goMem} -> "go" [] l \in {cc, ccMem} -> "cpp"
                        [] l \in {jv, jvMem} -> "java" [] OTHER -> "python"]
MCOut == [l \in Labels |-> CASE l = cc -> go [] l = pyMem -> py [] OTHER -> l]
MCBenches == [l \in Labels |-> IF l = jv THEN {b1, b2} ELSE {b1}]
MCId == [b \in {b1, b2, Single, Perf} |-> b]
=============================================================================

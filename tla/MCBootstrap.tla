------------------------------ MODULE MCBootstrap ------------------------------
(***************************************************************************)
(* Two languages and a feature, with one file for each way a file comes to *)
(* be in a target: the region of a language, its lock file, a file in its  *)
(* directory that another language ships too and the second release no     *)
(* longer has, a feature's generator, a file of a language that ships      *)
(* under a feature only, and the user's own.                               *)
(***************************************************************************)
EXTENDS Bootstrap

CONSTANTS cpp, java, lint, toolsCpp, toolsLint,
          deps, lock, segment, generator, pmd, mine

MCDirOwner == [d \in Dirs |-> IF d = toolsCpp THEN cpp ELSE lint]

File(kind, dir, any) == [kind |-> kind, dir |-> dir, seed |-> FALSE, any |-> any, gate |-> {}]
MCEntry == [p \in Paths |->
    CASE p = deps -> File("composite", toolsCpp, {cpp})
      [] p = lock -> [File("tree", toolsCpp, {cpp}) EXCEPT !.seed = TRUE]
      [] p = segment -> File("file", toolsCpp, {cpp, java})
      [] p = generator -> File("tree", toolsLint, {lint})
      [] p = pmd -> [File("file", Root, {java}) EXCEPT !.gate = {lint}]
      [] p = mine -> File("own", toolsCpp, {})]
MCShippedIn == <<Paths \ {mine}, Paths \ {mine, segment}>>
MCSelections == {{cpp}, {java}, {java, lint}}
=============================================================================

------------------------------- MODULE GoDeps -------------------------------
(***************************************************************************)
(* The Go dependencies of a bootstrapped repository (bootstrap/gomod.py):  *)
(* go.mod, go.sum and use_repo(go_deps, ...) over runs of bootstrap with   *)
(* changing selections and newer starters, between which and during which  *)
(* the user gets, raises and drops dependencies of their own.              *)
(*                                                                         *)
(* go.mod is a function from the keys of its entries to what they say.     *)
(* Go's tools leave at most one entry of a key.                            *)
(***************************************************************************)
EXTENDS GoVersion, FiniteSets

CONSTANTS
    Modules,        \* Go modules
    Semvers,        \* versions of modules
    Govers,         \* versions of Go
    Paths,          \* paths of the repository's own module, targets of replace
    Selections,     \* selections of languages and features, all of them with Go
    Edited,         \* keys of go.mod, other than of require, that the user edits
    Everything,     \* the selection of every language and feature
    Careful,        \* no command of the user's changes a file the tool has read and is
                    \* about to write, or drops a checksum it is about to need
    MaxRelease,     \* releases of the starter
    Starter,        \* [release -> [selection -> go.mod as rendered]]
    StarterNames,   \* [release -> [selection -> modules in use_repo]]
    StarterSums     \* [release -> <<module, version>> pairs in go.sum]

Releases == 1 .. MaxRelease
Require(m) == <<"require", m>>
Replace(m) == <<"replace", m>>
Path == <<"module">>
Go == <<"go">>
Keys == {Path, Go} \cup {Require(m) : m \in Modules} \cup {Replace(m) : m \in Modules}
Entries == [arg : Semvers \cup Govers \cup Paths, indirect : BOOLEAN]
EntriesOf(k) ==
    [arg : IF k = Go THEN Govers ELSE IF k[1] = "require" THEN Semvers ELSE Paths, indirect : BOOLEAN]
IsGoMod(f) ==
    /\ f = [k \in DOMAIN f |-> f[k]]
    /\ DOMAIN f \subseteq Keys
    /\ \A k \in DOMAIN f : f[k] \in EntriesOf(k)

NoMod == [k \in {} |-> k]
Required(f) == {m \in Modules : Require(m) \in DOMAIN f}
Direct(f) == {m \in Required(f) : ~f[Require(m)].indirect}

VARIABLES
    mod,        \* go.mod
    sums,       \* go.sum: <<module, version>> pairs
    names,      \* modules whose repository use_repo names
    release,    \* release of the starter
    selection,  \* selection of the run
    pc,         \* the file the run reads or writes next, "idle" between runs
    read,       \* go.mod as the run read it, while it asks
    readNames,  \* the names as it read them
    whole,      \* the run, or the last one, kept no file and was not stopped
    \* History, for the properties only.
    asked,      \* [modules the user got for themselves -> version]
    behind      \* names that go.mod did not require when the starter was updated

files == <<mod, sums, names>>
reads == <<read, readNames>>
ghosts == <<asked, behind>>
vars == <<files, release, selection, pc, reads, whole, ghosts>>

Rendered == Starter[release][selection]
Shippable == Starter[release][Everything]

-----------------------------------------------------------------------------
\* _fold: what an entry says that both files have.
Fold(k, ours, theirs) ==
    CASE k = Path -> [ours EXCEPT !.arg = theirs.arg]
      [] k = Go -> IF HigherGo(theirs.arg, ours.arg) THEN [ours EXCEPT !.arg = theirs.arg] ELSE ours
      [] k[1] = "require" ->
            [arg |-> IF Higher(theirs.arg, ours.arg) THEN theirs.arg ELSE ours.arg,
             indirect |-> ours.indirect /\ theirs.indirect]
      [] OTHER -> ours

\* Mutant: go.mod is replaced, as it once was.
ReplaceGoMod(rendered, existing, shippable) == rendered

\* The starter's entries, folded with the repo's, and the repo's own: those
\* that the starter ships under no selection.
MergeGoMod(rendered, existing, shippable) ==
    [k \in DOMAIN rendered \cup (DOMAIN existing \ DOMAIN shippable) |->
        IF k \notin DOMAIN rendered THEN existing[k]
        ELSE IF k \in DOMAIN existing THEN Fold(k, rendered[k], existing[k])
        ELSE rendered[k]]

\* Mutant: the checksums of the starter only.
MergeGoSumOurs(rendered, existing) == rendered

MergeGoSum(rendered, existing) == rendered \cup existing

\* Mutant: every name stays, whether the starter could ship it or not.
MergeGoUseRepoAll(rendered, existing, shippable) == rendered \cup existing

MergeGoUseRepo(rendered, existing, shippable) == rendered \cup (existing \ shippable)

-----------------------------------------------------------------------------
\* The repository before the first run: no file of the three.
Init ==
    /\ mod = NoMod /\ sums = {} /\ names = {}
    /\ release = 1
    /\ selection \in Selections
    /\ pc = "idle" /\ read = NoMod /\ readNames = {} /\ whole = FALSE
    /\ asked = [m \in {} |-> m] /\ behind = {}

\* A newer starter.
Update ==
    /\ pc = "idle" /\ release < MaxRelease
    /\ release' = release + 1
    /\ behind' = names \ Required(mod)
    /\ UNCHANGED <<files, selection, pc, reads, whole, asked>>

\* A command that changes go.mod, or the names.
ModOpen == Careful => pc # "askmod"
NamesOpen == Careful => pc # "asknames"

\* go get m@v, with the bazel mod tidy that follows it, and go.mod not empty.
Get(m, v) ==
    /\ mod # NoMod /\ ModOpen /\ NamesOpen
    /\ mod' = [k \in DOMAIN mod \cup {Require(m)} |->
                    IF k = Require(m) THEN [arg |-> v, indirect |-> FALSE] ELSE mod[k]]
    /\ sums' = sums \cup {<<m, v>>}
    /\ names' = names \cup {m}
    /\ asked' = [n \in DOMAIN asked \cup {m} |-> IF n = m THEN v ELSE asked[n]]
    /\ UNCHANGED <<release, selection, pc, reads, whole, behind>>

\* A module that another one brings along, or raises.
Bring(m, v) ==
    /\ mod # NoMod /\ ModOpen /\ m \notin DOMAIN asked
    /\ IF m \in Required(mod) THEN Higher(v, mod[Require(m)].arg) ELSE TRUE
    /\ mod' = [k \in DOMAIN mod \cup {Require(m)} |->
                    IF k # Require(m) THEN mod[k]
                    ELSE [arg |-> v, indirect |-> m \notin Direct(mod)]]
    /\ sums' = sums \cup {<<m, v>>}
    /\ UNCHANGED <<names, release, selection, pc, reads, whole, ghosts>>

\* The user removes a dependency of their own, while no run writes.
Drop(m) ==
    /\ pc = "idle" /\ m \in DOMAIN asked
    /\ mod' = [k \in DOMAIN mod \ {Require(m), Replace(m)} |-> mod[k]]
    /\ names' = names \ {m}
    /\ asked' = [n \in DOMAIN asked \ {m} |-> asked[n]]
    /\ UNCHANGED <<sums, release, selection, pc, reads, whole, behind>>

\* go mod tidy drops the checksums that go.mod does not need, the user's or the one of
\* the lock refresh that ends a run.
Tidy ==
    /\ Careful => pc \notin {"mod", "askmod"}
    /\ sums' = {<<m, mod[Require(m)].arg>> : m \in Required(mod)} \cap sums
    /\ UNCHANGED <<mod, names, release, selection, pc, reads, whole, ghosts>>

\* The user replaces a module, or sets the path or the Go version.
Edit(k, e) ==
    /\ mod # NoMod /\ ModOpen /\ e \in EntriesOf(k) /\ ~e.indirect
    /\ mod' = [l \in DOMAIN mod \cup {k} |-> IF l = k THEN e ELSE mod[l]]
    /\ UNCHANGED <<sums, names, release, selection, pc, reads, whole, ghosts>>

User ==
    \/ \E m \in Modules, v \in Semvers : Get(m, v) \/ Bring(m, v)
    \/ \E m \in Modules : Drop(m)
    \/ Tidy
    \/ \E k \in Edited, e \in Entries : Edit(k, e)

-----------------------------------------------------------------------------
Start(s) ==
    /\ pc = "idle"
    /\ selection' = s
    /\ pc' = "sums" /\ whole' = TRUE
    /\ UNCHANGED <<files, release, reads, ghosts>>

\* go.sum is merged among the files that are copied, without a question.
WriteSums ==
    /\ pc = "sums"
    /\ sums' = MergeGoSum(StarterSums[release], sums)
    /\ pc' = "mod"
    /\ UNCHANGED <<mod, names, release, selection, reads, whole, ghosts>>

\* go.mod is composite: it is read, merged, and with --review the user is asked ...
ReadMod ==
    /\ pc = "mod"
    /\ read' = mod
    /\ pc' = "askmod"
    /\ UNCHANGED <<files, readNames, release, selection, whole, ghosts>>

\* ... and the merge of what was read is written, or the file kept as it is.
WriteMod(kept) ==
    /\ pc = "askmod"
    /\ kept => read # NoMod
    /\ mod' = IF kept THEN mod ELSE MergeGoMod(Rendered, read, Shippable)
    /\ read' = NoMod
    /\ pc' = "names" /\ whole' = (whole /\ ~kept)
    /\ UNCHANGED <<sums, names, readNames, release, selection, ghosts>>

ReadNames ==
    /\ pc = "names"
    /\ readNames' = names
    /\ pc' = "asknames"
    /\ UNCHANGED <<files, read, release, selection, whole, ghosts>>

WriteNames(kept) ==
    /\ pc = "asknames"
    /\ names' = IF kept THEN names
                ELSE MergeGoUseRepo(StarterNames[release][selection], readNames,
                                    StarterNames[release][Everything])
    /\ readNames' = {}
    /\ pc' = "idle" /\ whole' = (whole /\ ~kept)
    /\ UNCHANGED <<mod, sums, read, release, selection, ghosts>>

\* The run fails or is stopped before a file, or while it asks.
Stop ==
    /\ pc # "idle" /\ pc' = "idle"
    /\ read' = NoMod /\ readNames' = {} /\ whole' = FALSE
    /\ UNCHANGED <<files, release, selection, ghosts>>

RunStep ==
    \/ \E s \in Selections : Start(s)
    \/ WriteSums
    \/ ReadMod
    \/ ReadNames
    \/ \E kept \in BOOLEAN : WriteMod(kept) \/ WriteNames(kept)
    \/ Stop

Next == Update \/ User \/ RunStep

Spec == Init /\ [][Next]_vars

-----------------------------------------------------------------------------
\* What the starter's files have in common, in every release: the full
\* selection ships and names all that any does; go.sum covers go.mod; use_repo names
\* what go.mod requires; and a module that only some selections require is named
\* wherever it is required.  What a release ships, a later one may drop.
ASSUME ReleaseAssumption ==
    MaxRelease \in Nat \ {0} /\ Everything \in Selections /\ Careful \in BOOLEAN
ASSUME SemverAssumption == \A v \in Semvers : Semver(v)
ASSUME EditedAssumption == Edited \subseteq {k \in Keys : k[1] # "require"}
ASSUME StarterAssumption ==
    /\ \A r \in Releases, s \in Selections : IsGoMod(Starter[r][s])
    /\ StarterNames \in [Releases -> [Selections -> SUBSET Modules]]
    /\ StarterSums \in [Releases -> SUBSET (Modules \X Semvers)]
    /\ \A r \in Releases, s \in Selections :
        /\ {Path, Go} \subseteq DOMAIN Starter[r][s]
        /\ DOMAIN Starter[r][s] \subseteq DOMAIN Starter[r][Everything]
        /\ \A m \in Required(Starter[r][s]) : <<m, Starter[r][s][Require(m)].arg>> \in StarterSums[r]
        /\ StarterNames[r][s] \subseteq Required(Starter[r][s])
        /\ StarterNames[r][s] \subseteq StarterNames[r][Everything]
Optional(r) == UNION {Required(Starter[r][Everything]) \ Required(Starter[r][s]) : s \in Selections}
ASSUME OptionalAssumption ==
    \A r \in Releases, s \in Selections : Optional(r) \cap Required(Starter[r][s]) \subseteq StarterNames[r][s]

-----------------------------------------------------------------------------
\* Types of the variables.
TypeOK ==
    /\ IsGoMod(mod) /\ IsGoMod(read)
    /\ sums \subseteq Modules \X Semvers
    /\ names \subseteq Modules /\ readNames \subseteq Modules /\ behind \subseteq Modules
    /\ release \in Releases /\ selection \in Selections
    /\ pc \in {"idle", "sums", "mod", "askmod", "names", "asknames"} /\ whole \in BOOLEAN
    /\ DOMAIN asked \subseteq Modules /\ \A m \in DOMAIN asked : asked[m] \in Semvers

\* What the user got stays, at their version, with its checksum and its
\* repository, whatever selections and releases come and wherever a run stops:
\* for a module that no release so far ships.  A careful user gets none while the tool
\* asks: the answer writes the merge of what was read before the question.
Own == {m \in DOMAIN asked : \A r \in 1 .. release : m \notin Required(Starter[r][Everything])}
YoursStay ==
    \A m \in Own :
        /\ m \in Direct(mod) /\ mod[Require(m)].arg = asked[m]
        /\ <<m, asked[m]>> \in sums
        /\ m \in names

\* Every version that go.mod requires has its checksum, at every moment.
SumsCover == \A m \in Required(mod) : <<m, mod[Require(m)].arg>> \in sums

\* After a run that wrote all three, use_repo names only what go.mod requires,
\* whatever runs before it were stopped or told to keep: unless a name was already
\* left without its requirement when the starter was last updated.  (A run that stops
\* between the two files, and a later release that no longer ships the module, leave a
\* name that looks like the repo's own.)
InStep == pc = "idle" /\ whole => names \subseteq Required(mod) \cup behind

\* A run lowers no version that it keeps, in the order of Go, and makes no
\* direct requirement indirect.
Lower(v, w) == Parses(v) /\ Parses(w) /\ Precedes(v, w)
Lowered == {m \in Required(mod) \cap Required(mod') : Lower(mod'[Require(m)].arg, mod[Require(m)].arg)}
NoDowngrade ==
    [][RunStep => Lowered = {} /\ Direct(mod) \cap Required(mod') \subseteq Direct(mod')]_vars
=============================================================================

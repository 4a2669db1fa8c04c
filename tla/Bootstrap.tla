------------------------------- MODULE Bootstrap -------------------------------
(***************************************************************************)
(* tools/bootstrap: a repository is scaffolded from the starter and        *)
(* re-bootstrapped, with another selection or from a newer starter.        *)
(*                                                                         *)
(* A run (cli.run) detects the earlier selection from the marker, strips   *)
(* the generated targets of a deselected feature, deletes what the user    *)
(* agrees to delete, writes the files of the selection, records them in    *)
(* the marker, deals with the orphans, runs the generators and formatters, *)
(* and records the files again.  The user edits files at any time, and a   *)
(* run may be interrupted or killed after any step.                        *)
(***************************************************************************)
EXTENDS Naturals

CONSTANTS
    Owners,      \* the languages and features
    Features,    \* the features, which scatter targets into the user's BUILD files
    Selections,  \* the selections a user may make, required languages added
    Dirs,        \* the tool directories
    DirOwner,    \* [Dirs -> Owners \cup {Core}]
    Core,        \* the owner of a directory that always ships
    Root,        \* the place of a file in no tool directory
    Paths,       \* the files of any release of the starter, and the user's own
    Entry,       \* [Paths -> what the manifest says of it]
    Releases,    \* number of releases of the starter
    ShippedIn,   \* [1 .. Releases -> SUBSET Paths]
    None,        \* no file
    Gone,        \* what is at a path without a file
    Unverified,  \* the fingerprint of a file no run ever recorded
    Careful,     \* the user does not edit a file while the tool asks about it
    MaxRuns,     \* bound on runs
    MaxEdits     \* bound on edits by the user

\* A file is the release it was written from (0: by the user), the last edit of
\* the user in it (0: none), and whether a formatter or lock refresh rewrote it.
\* It is its own fingerprint.
Contents == [base : 0 .. Releases, edit : 0 .. MaxEdits, tidy : BOOLEAN]

\* "tree" comes with its directory, "file" and "composite" have an entry of their
\* own; a composite carries a user-managed region.  "own" is a file of the user.
Kinds == {"tree", "file", "composite", "own"}

ASSUME OwnersAssumption == Features \subseteq Owners /\ Core \notin Owners
ASSUME SelectionsAssumption == Selections \subseteq SUBSET Owners
ASSUME NamesAssumption ==
    /\ Paths \cap Dirs = {} /\ Root \notin Dirs /\ None \notin Paths
    /\ Features \cap (Paths \cup Dirs) = {}
ASSUME DirsAssumption == DirOwner \in [Dirs -> Owners \cup {Core}]
ASSUME EntryAssumption ==
    Entry \in [Paths -> [kind : Kinds, dir : Dirs \cup {Root}, seed : BOOLEAN,
                         any : SUBSET Owners, gate : SUBSET Owners]]
ASSUME ReleasesAssumption ==
    /\ Releases \in Nat \ {0} /\ ShippedIn \in [1 .. Releases -> SUBSET Paths]
    /\ \A i \in 1 .. Releases : \A p \in ShippedIn[i] : Entry[p].kind # "own"
\* Every release ships, in a feature's directory, the feature's generator.
ASSUME GeneratorAssumption ==
    \A f \in Features : \E p \in Paths :
        /\ Entry[p].dir \in Dirs /\ DirOwner[Entry[p].dir] = f
        /\ Entry[p].any = {f} /\ Entry[p].gate = {}
        /\ \A i \in 1 .. Releases : p \in ShippedIn[i]
ASSUME FingerprintAssumption == Gone \notin Contents /\ Unverified \notin Contents
ASSUME BoundsAssumption ==
    MaxRuns \in Nat /\ MaxEdits \in Nat /\ Careful \in BOOLEAN

VARIABLES
    release,    \* the release of the starter checkout
    disk,       \* [Paths -> Contents \cup {Gone}], the target
    marker,     \* .omniglot_bootstrap.toml of the target
    generated,  \* the features with targets in the user's BUILD files
    pc,         \* where the run is, "idle" between runs
    sel,        \* the new selection
    pruneRel,   \* what it deselects, found before the user confirms
    review,     \* --review
    todo,       \* what the current step has still to do
    declined,   \* the entries the user refused to delete in this run
    orphans,    \* ScaffoldResult.orphans, less what was deleted
    asking,     \* the file --review asks about, or None
    seen,       \* the edit in it when it was read
    runs, edits,
    \* History, for the properties only.
    refused,    \* the files this run's user refused to delete, and did not agree to
                \* delete along with anything else
    owed,       \* [Paths -> the user's edit that no agreement gave up, or 0]
    recorded,   \* files on disk that a marker has listed
    touched,    \* files edited since they were last fingerprinted
    failed      \* features whose remover failed

runVars == <<sel, pruneRel, review, todo, declined, orphans, asking, seen, refused>>
ghosts == <<owed, recorded, touched, failed>>
vars == <<release, disk, marker, generated, pc, runVars, runs, edits, ghosts>>

-----------------------------------------------------------------------------
Fresh == [base |-> release, edit |-> 0, tidy |-> FALSE]
OnDisk == {p \in Paths : disk[p] # Gone}

\* A table of the marker: path -> fingerprint.
NoTable == [p \in {} |-> Unverified]
Listed(table) == DOMAIN table
Select(table, S) == [p \in S |-> table[p]]

\* "plain" is a marker that predates the inventory.
Marker(kind, S, files, left) == [kind |-> kind, sel |-> S, files |-> files, orphans |-> left]
Detected == marker.kind # "absent"

\* What the user writes survives in a region, a seed file or a file of the user's;
\* a verbatim copy is the starter's.
Keeps(p) == Entry[p].seed \/ Entry[p].kind \in {"composite", "own"}

PCs == {"idle", "remove", "decide", "prune", "write", "ask", "mark", "orphans", "refresh",
        "finalize", "format", "record"}

Goto(label) == pc' = label
-----------------------------------------------------------------------------
\* effective_excluded_files, resolve_files.
Excluded(p, S) == ~(Entry[p].gate \subseteq S)
Ships(p, S) ==
    /\ p \in ShippedIn[release]
    /\ Entry[p].any = {} \/ Entry[p].any \cap S # {}
    /\ ~Excluded(p, S)
Managed == {p \in Paths : Ships(p, sel)}

\* compute_prune_set: entries the old selection shipped and the new one does not, and
\* files newly excluded; a directory is an entry, the files in it are not.
PruneSet(old, new) ==
    {p \in Paths : Entry[p].kind # "tree" /\ Ships(p, old) /\ ~Ships(p, new)}
    \cup {p \in ShippedIn[release] : Excluded(p, new) /\ ~Excluded(p, old)}
    \cup {d \in Dirs : DirOwner[d] \in old \ new}

Under(items) == {p \in Paths : p \in items \/ Entry[p].dir \in items}
Existing(items) == {i \in items : Under({i}) \cap OnDisk # {}}

\* Mutant: a path that ships again is not skipped.
ComputeOrphansUnchecked ==
    LET left == (Listed(marker.files) \cup Listed(marker.orphans)) \cap OnDisk
    IN  [p \in left |-> IF p \in Listed(marker.files) THEN marker.files[p]
                                                      ELSE marker.orphans[p]]

\* Mutant: the orphans of earlier runs are not carried forward.
ComputeOrphansOfLastRun ==
    Select(marker.files, {p \in Listed(marker.files) : ~Ships(p, sel) /\ p \in OnDisk})

\* Mutant: the fingerprint is the current one.
ComputeOrphansNow ==
    Select(disk, {p \in Listed(marker.files) \cup Listed(marker.orphans) :
                    ~Ships(p, sel) /\ p \in OnDisk})

\* compute_orphans: what a run listed, this one does not ship, and is still there.
ComputeOrphans ==
    LET listed == Listed(marker.files) \cup Listed(marker.orphans)
        left == {p \in listed : ~Ships(p, sel) /\ p \in OnDisk}
    IN  [p \in left |-> IF p \in Listed(marker.files) THEN marker.files[p]
                                                      ELSE marker.orphans[p]]

\* Mutant: the files of this run are not left out.
InferOrphansAll ==
    {p \in OnDisk : Entry[p].dir # Root /\ \E q \in Managed : Entry[q].dir = Entry[p].dir}

\* infer_orphans: whatever else is in a tool directory this run writes into.
InferOrphans ==
    {p \in OnDisk \ Managed :
        Entry[p].dir # Root /\ \E q \in Managed : Entry[q].dir = Entry[p].dir}

ScaffoldOrphans ==
    IF marker.kind = "plain"
      THEN [p \in InferOrphans \cup Listed(ComputeOrphans) |->
              IF p \in Listed(ComputeOrphans) THEN ComputeOrphans[p] ELSE Unverified]
      ELSE ComputeOrphans

\* Mutant: --prune takes the unverified ones as well.
PrunableUnverified ==
    {p \in Listed(orphans) : p \notin declined /\ Entry[p].dir \notin declined}

\* Mutant: --prune overrules the answers of this run.
PrunableDeclined == {p \in Listed(orphans) : review \/ orphans[p] # Unverified}

\* prunable_orphans.
Prunable ==
    {p \in Listed(orphans) :
        /\ review \/ orphans[p] # Unverified
        /\ p \notin declined /\ Entry[p].dir \notin declined}

\* write_bootstrap_marker.
WriteMarker(table) ==
    /\ marker' = Marker("full", sel, Select(disk, Managed \cap OnDisk), table)
    /\ recorded' = recorded \cup (Managed \cap OnDisk)
    /\ touched' = touched \ Managed
-----------------------------------------------------------------------------
\* A repository that does not exist yet, or one scaffolded from release 1, maybe by a
\* tool that kept no inventory.
Init ==
    /\ release = 1
    /\ \/ marker = Marker("absent", {}, NoTable, NoTable) /\ disk = [p \in Paths |-> Gone] /\ recorded = {}
       \/ \E S \in Selections : LET shipped == {p \in Paths : Ships(p, S)} IN
             /\ disk = [p \in Paths |-> IF p \in shipped THEN Fresh ELSE Gone]
             /\ \/ marker = Marker("plain", S, NoTable, NoTable) /\ recorded = {}
                \/ /\ marker = Marker("full", S, Select(disk, shipped), NoTable)
                   /\ recorded = shipped
    /\ generated = {} /\ pc = "idle"
    /\ sel = {} /\ pruneRel = {} /\ review = FALSE
    /\ todo = {} /\ declined = {} /\ orphans = NoTable
    /\ asking = None /\ seen = 0 /\ refused = {} /\ runs = 0 /\ edits = 0
    /\ owed = [p \in Paths |-> 0] /\ touched = {} /\ failed = {}

\* run, up to the confirmation: detect_repo, _reuse_detected, _ask_fresh.
Start(S, r) ==
    /\ pc = "idle" /\ runs < MaxRuns
    /\ S \in Selections \/ (Detected /\ S = marker.sel)
    /\ sel' = S
    /\ review' = r
    /\ LET old == IF Detected THEN marker.sel ELSE {} IN
          /\ pruneRel' = Existing(PruneSet(old, S))
          /\ todo' = (old \ S) \cap Features
    /\ runs' = runs + 1
    /\ Goto("remove")
    /\ UNCHANGED <<release, disk, marker, generated, declined, orphans, asking, seen, refused,
                   edits, ghosts>>

\* run_feature_removers: one feature; the generator is in the feature's directory.
Remover(f) ==
    /\ pc = "remove" /\ f \in todo
    /\ todo' = todo \ {f}
    /\ \/ /\ \E p \in OnDisk : Entry[p].dir \in Dirs /\ DirOwner[Entry[p].dir] = f
          /\ generated' = generated \ {f}
          /\ failed' = failed \ {f}
       \/ /\ failed' = failed \cup {f}
          /\ UNCHANGED generated
    /\ UNCHANGED <<release, disk, marker, pc, sel, pruneRel, review, declined, orphans, asking,
                   seen, refused, runs, edits, owed, recorded, touched>>

\* Mutant: the removers are skipped.
RemoversSkipped ==
    /\ pc = "remove"
    /\ Goto("decide")
    /\ UNCHANGED <<release, disk, marker, generated, runVars, runs, edits, ghosts>>

RemoversEnd ==
    /\ pc = "remove" /\ todo = {}
    /\ Goto("decide")
    /\ UNCHANGED <<release, disk, marker, generated, runVars, runs, edits, ghosts>>

\* _decide_prune: all or nothing, or entry by entry with --review.
DecidePrune ==
    /\ pc = "decide"
    /\ \E agreed \in SUBSET pruneRel :
          /\ review \/ agreed \in {{}, pruneRel}
          /\ declined' = pruneRel \ agreed
          /\ todo' = agreed
          /\ refused' = (Under(declined') \ Under(agreed)) \cap OnDisk
          /\ owed' = [p \in Paths |-> IF p \in Under(agreed) THEN 0 ELSE owed[p]]
    /\ pruneRel' = {}
    /\ Goto("prune")
    /\ UNCHANGED <<release, disk, marker, generated, sel, review, orphans, asking,
                   seen, runs, edits, recorded, touched, failed>>

Delete(S) ==
    /\ disk' = [p \in Paths |-> IF p \in S THEN Gone ELSE disk[p]]
    /\ recorded' = recorded \ S
    /\ touched' = touched \ S

\* prune_paths: one entry.
Prune(i) ==
    /\ pc = "prune" /\ i \in todo
    /\ todo' = todo \ {i}
    /\ Delete(Under({i}))
    /\ UNCHANGED <<release, marker, generated, pc, sel, pruneRel, review, declined, orphans,
                   asking, seen, refused, runs, edits, owed, failed>>

PruneEnd ==
    /\ pc = "prune" /\ todo = {}
    /\ todo' = Managed
    /\ Goto("write")
    /\ UNCHANGED <<release, disk, marker, generated, sel, pruneRel, review, declined, orphans,
                   asking, seen, refused, runs, edits, ghosts>>
-----------------------------------------------------------------------------
\* scaffold_repo: the files, then the directories, then the composite files.
Copies ==
    LET OfKind(k) == {p \in todo : Entry[p].kind = k}
    IN  IF OfKind("file") # {} THEN OfKind("file") ELSE OfKind("tree")

\* Steps 1 and 2: a verbatim copy.
WriteCopy(p) ==
    /\ pc = "write" /\ p \in Copies
    /\ ~(Entry[p].seed /\ p \in OnDisk)
    /\ disk' = [disk EXCEPT ![p] = Fresh]
    /\ touched' = touched \ {p}
    /\ todo' = todo \ {p}
    /\ UNCHANGED <<release, marker, generated, pc, sel, pruneRel, review, declined, orphans,
                   asking, seen, refused, runs, edits, owed, recorded, failed>>

\* _keep_seed.
KeepSeed(p) ==
    /\ pc = "write" /\ p \in Copies
    /\ Entry[p].seed /\ p \in OnDisk
    /\ todo' = todo \ {p}
    /\ UNCHANGED <<release, disk, marker, generated, pc, sel, pruneRel, review, declined,
                   orphans, asking, seen, refused, runs, edits, ghosts>>

\* splice_user_region: the starter's text around the user's region.
Spliced(edit) == [base |-> release, edit |-> edit, tidy |-> FALSE]
EditIn(p) == IF p \in OnDisk THEN disk[p].edit ELSE 0

\* Steps 3 and 4, _resolve_managed without a question.
WriteComposite(p) ==
    /\ pc = "write" /\ Copies = {} /\ p \in todo
    /\ review => p \notin OnDisk \/ disk[p] = Spliced(EditIn(p))
    /\ disk' = [disk EXCEPT ![p] = Spliced(EditIn(p))]
    /\ todo' = todo \ {p}
    /\ UNCHANGED <<release, marker, generated, pc, sel, pruneRel, review, declined, orphans,
                   asking, seen, refused, runs, edits, ghosts>>

\* --review: the file is read, its new text computed, and the user asked.
AskOverwrite(p) ==
    /\ pc = "write" /\ Copies = {} /\ p \in todo
    /\ review /\ p \in OnDisk /\ disk[p] # Spliced(EditIn(p))
    /\ asking' = p
    /\ seen' = disk[p].edit
    /\ Goto("ask")
    /\ UNCHANGED <<release, disk, marker, generated, sel, pruneRel, review, todo, declined,
                   orphans, refused, runs, edits, ghosts>>

AnswerOverwrite(yes) ==
    /\ pc = "ask"
    /\ disk' = IF yes THEN [disk EXCEPT ![asking] = Spliced(seen)] ELSE disk
    /\ todo' = todo \ {asking}
    /\ asking' = None
    /\ seen' = 0
    /\ Goto("write")
    /\ UNCHANGED <<release, marker, generated, sel, pruneRel, review, declined, orphans,
                   refused, runs, edits, ghosts>>

WriteEnd ==
    /\ pc = "write" /\ todo = {}
    /\ Goto("mark")
    /\ UNCHANGED <<release, disk, marker, generated, runVars, runs, edits, ghosts>>

\* Step 7: the marker, before any of the later steps.
Mark ==
    /\ pc = "mark"
    /\ orphans' = ScaffoldOrphans
    /\ WriteMarker(ScaffoldOrphans)
    /\ Goto("orphans")
    /\ UNCHANGED <<release, disk, generated, sel, pruneRel, review, todo, declined, asking,
                   seen, refused, runs, edits, owed, failed>>

\* _handle_orphans: listed always, deleted under --prune, one by one with --review.
HandleOrphans(prune) ==
    /\ pc = "orphans"
    /\ \E removed \in SUBSET Prunable :
          /\ prune \/ removed = {}
          /\ prune /\ ~review => removed = Prunable
          /\ Delete(removed)
          /\ orphans' = Select(orphans, Listed(orphans) \ removed)
          /\ owed' = [p \in Paths |->
                        IF p \in removed /\ (review \/ orphans[p] # Unverified)
                          THEN 0 ELSE owed[p]]
    /\ Goto("refresh")
    /\ UNCHANGED <<release, marker, generated, sel, pruneRel, review, todo, declined, asking,
                   seen, refused, runs, edits, failed>>

Tidy(c) == [base |-> c.base, edit |-> c.edit, tidy |-> TRUE]
Tidied(S) == disk' = [p \in Paths |-> IF p \in S \cap OnDisk THEN Tidy(disk[p]) ELSE disk[p]]

\* refresh_lock_files: declined, or each lock is written again unless its command fails.
RefreshLocks ==
    /\ pc = "refresh"
    /\ \E done \in SUBSET {p \in Managed : Entry[p].seed} : Tidied(done)
    /\ Goto("finalize")
    /\ UNCHANGED <<release, marker, generated, runVars, runs, edits, ghosts>>

\* run_feature_finalizers: each may fail.
Finalize(done) ==
    /\ pc = "finalize"
    /\ done \subseteq sel \cap Features
    /\ generated' = generated \cup done
    /\ failed' = failed \ done
    /\ Goto("format")
    /\ UNCHANGED <<release, disk, marker, runVars, runs, edits, owed, recorded, touched>>

\* run_formatters: over everything in the target.
Format(yes) ==
    /\ pc = "format"
    /\ Tidied(IF yes THEN {p \in Paths : ~Entry[p].seed} ELSE {})
    /\ Goto("record")
    /\ UNCHANGED <<release, marker, generated, runVars, runs, edits, ghosts>>

Reset ==
    /\ Goto("idle")
    /\ sel' = {} /\ pruneRel' = {} /\ review' = FALSE /\ todo' = {}
    /\ declined' = {} /\ orphans' = NoTable /\ asking' = None /\ seen' = 0 /\ refused' = {}

\* The marker again: its fingerprints are of the files as the run leaves them.
Record ==
    /\ pc = "record"
    /\ WriteMarker(orphans)
    /\ Reset
    /\ UNCHANGED <<release, disk, generated, runs, edits, owed, failed>>

\* Ctrl-C, a command that raises, a kill.
Stop ==
    /\ pc # "idle"
    /\ Reset
    /\ UNCHANGED <<release, disk, marker, generated, runs, edits, ghosts>>
-----------------------------------------------------------------------------
\* The user edits a file, during a run as well, or adds one of their own.
Edit(p) ==
    /\ edits < MaxEdits
    /\ p \in OnDisk \/ Entry[p].kind = "own"
    /\ Careful => asking # p
    /\ edits' = edits + 1
    /\ disk' = [disk EXCEPT ![p] = [base |-> IF p \in OnDisk THEN disk[p].base ELSE 0,
                                    edit |-> edits + 1, tidy |-> FALSE]]
    /\ owed' = [owed EXCEPT ![p] = IF Keeps(p) /\ ~(pc = "prune" /\ p \in Under(todo))
                                     THEN edits + 1 ELSE 0]
    /\ touched' = touched \cup {p}
    /\ UNCHANGED <<release, marker, generated, pc, runVars, runs, recorded, failed>>

\* The starter is updated.
Upgrade ==
    /\ pc = "idle" /\ release < Releases
    /\ release' = release + 1
    /\ UNCHANGED <<disk, marker, generated, pc, runVars, runs, edits, ghosts>>

Scaffold ==
    \/ \E p \in Paths : WriteCopy(p) \/ KeepSeed(p) \/ WriteComposite(p) \/ AskOverwrite(p)
    \/ \E yes \in BOOLEAN : AnswerOverwrite(yes)
    \/ WriteEnd \/ Mark

Run ==
    \/ \E S \in SUBSET Owners, r \in BOOLEAN : Start(S, r)
    \/ \E f \in Features : Remover(f)
    \/ RemoversEnd
    \/ DecidePrune
    \/ \E i \in Paths \cup Dirs : Prune(i)
    \/ PruneEnd
    \/ Scaffold
    \/ \E yes \in BOOLEAN : HandleOrphans(yes) \/ Format(yes)
    \/ RefreshLocks
    \/ \E done \in SUBSET Features : Finalize(done)
    \/ Record

Next == Run \/ Stop \/ Upgrade \/ \E p \in Paths : Edit(p)

Spec == Init /\ [][Next]_vars
-----------------------------------------------------------------------------
\* The tables of the marker have no path in common, and list files by content.
TypeOK ==
    /\ release \in 1 .. Releases
    /\ disk \in [Paths -> Contents \cup {Gone}]
    /\ marker.kind \in {"absent", "plain", "full"} /\ marker.sel \subseteq Owners
    /\ \A table \in {marker.files, marker.orphans, orphans} :
          /\ Listed(table) \subseteq Paths
          /\ \A p \in Listed(table) : table[p] \in Contents \cup {Unverified}
    /\ Listed(marker.files) \cap Listed(marker.orphans) = {}
    /\ generated \subseteq Features /\ failed \subseteq Features
    /\ pc \in PCs /\ sel \subseteq Owners /\ pruneRel \subseteq Paths \cup Dirs /\ review \in BOOLEAN
    /\ todo \subseteq Features \cup Paths \cup Dirs /\ declined \subseteq Paths \cup Dirs
    /\ asking \in Paths \cup {None} /\ seen \in 0 .. MaxEdits
    /\ runs \in 0 .. MaxRuns /\ edits \in 0 .. MaxEdits
    /\ owed \in [Paths -> 0 .. MaxEdits]
    /\ recorded \subseteq Paths /\ touched \subseteq Paths /\ refused \subseteq Paths

\* tools/bootstrap/README.md: "edits you made inside BEGIN/END user-managed regions
\* are carried forward, and your resolved lock files are kept"; a file of the user's
\* in a tool directory stays as well.  Whatever is interrupted and run again with
\* another selection, only a deletion the user agreed to gives an edit up.
EditsSurvive ==
    \A p \in Paths : owed[p] # 0 => p \in OnDisk /\ disk[p].edit = owed[p]

\* prunable_orphans: "the flag must not overrule an answer given a moment ago".  A file
\* refused at the first question, itself or with its directory, and not agreed to with
\* another entry, is there when the run ends, through the pruning of the rest, the
\* writing and the orphans.
RefusalsHold == refused \subseteq OnDisk

\* write_bootstrap_marker: an orphan left on disk is not "forgotten one run later",
\* nor by an interrupted run: a file a marker has listed stays listed as long as it
\* is there.
NothingForgotten ==
    \A p \in recorded \cap OnDisk :
        p \in Listed(marker.files) \cup Listed(marker.orphans)

\* orphan_status: an orphan changed since it was last fingerprinted is not listed as
\* "unmodified".
ChangesAreSeen ==
    \A p \in touched \cap Listed(marker.orphans) : marker.orphans[p] # disk[p]

\* run_feature_removers: the rules of a feature do not "dangle once tools/lint/ (and
\* its linters.bzl load target) is deleted", unless its remover failed.
TargetsDoNotDangle ==
    \A f \in generated : f \in failed \/
        \E p \in OnDisk : Entry[p].dir \in Dirs /\ DirOwner[Entry[p].dir] = f

\* run: pruning is "done before scaffolding so the re-rendered baseline isn't deleted
\* out from under us".  What is written stays for the later steps, up to date except
\* for what the user chose to keep.
BaselineIsComplete ==
    pc \in {"mark", "orphans", "refresh", "finalize", "format", "record"} =>
        \A p \in Managed :
            /\ p \in OnDisk
            /\ disk[p].base = release \/ Entry[p].seed
                 \/ (review /\ Entry[p].kind = "composite")

\* The invariant behind EditsSurvive: only what survives is owed, what is about to be
\* deleted is not, and the text the user is asked about is the one that was read.
EditInv ==
    /\ \A p \in Paths : owed[p] # 0 => Keeps(p)
    /\ pc = "prune" => \A p \in Under(todo) : owed[p] = 0
    /\ pc = "ask" => asking \in OnDisk /\ disk[asking].edit = seen

\* The one behind the tables of TypeOK: no orphan ships.
Marking == pc \in {"orphans", "refresh", "finalize", "format", "record"}
OrphanInv == Marking => Listed(orphans) \cap Managed = {}

\* The one behind NothingForgotten: what was recorded is on disk, and the run that is
\* to write the marker again either ships it or holds it as an orphan.
RecordedInv ==
    /\ recorded \subseteq OnDisk
    /\ Marking => recorded \subseteq Managed \cup Listed(orphans)

\* The one behind RefusalsHold: what was refused is not about to be pruned, and is
\* still among the entries that were declined when the orphans come.
RefusedInv ==
    /\ refused \subseteq OnDisk
    /\ refused \subseteq Under(declined)
    /\ pc = "prune" => refused \cap Under(todo) = {}

\* _decide_prune: the user can "inspect each path and keep or delete it individually".
KeptIsKept ==
    [][\A p \in declined \cap OnDisk : disk'[p] # Gone]_vars
=============================================================================

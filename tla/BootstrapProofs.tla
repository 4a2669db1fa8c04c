---------------------------- MODULE BootstrapProofs ----------------------------
(***************************************************************************)
(* Proofs about Bootstrap for any manifest, number of releases, runs and   *)
(* edits.                                                                  *)
(***************************************************************************)
EXTENDS Bootstrap, TLAPS

USE DEF Goto, Listed

LEMMA FreshIsContent ==
    ASSUME TypeOK
    PROVE  Fresh \in Contents
<1>1. 0 \in 0 .. Releases /\ release \in 0 .. Releases
    BY ReleasesAssumption DEF TypeOK
<1>2. 0 \in 0 .. MaxEdits
    BY BoundsAssumption
<1>. QED
    BY <1>1, <1>2 DEF Fresh, Contents

\* What a file on disk is.
LEMMA OnDiskIsContent ==
    ASSUME TypeOK, NEW p \in OnDisk
    PROVE  /\ p \in Paths
           /\ disk[p] \in Contents
           /\ disk[p].base \in 0 .. Releases
           /\ disk[p].edit \in 0 .. MaxEdits
<1>1. p \in Paths /\ disk[p] \in Contents
    BY DEF TypeOK, OnDisk
<1>. QED
    BY <1>1 DEF Contents

LEMMA InitTypes == Init => TypeOK
<1>. SUFFICES ASSUME Init PROVE TypeOK
    OBVIOUS
<1>1. release \in 1 .. Releases /\ 0 \in 0 .. MaxEdits /\ 0 \in 0 .. MaxRuns
    BY ReleasesAssumption, BoundsAssumption DEF Init
<1>2. Fresh \in Contents
    BY <1>1, ReleasesAssumption, BoundsAssumption DEF Fresh, Contents
<1>3. disk \in [Paths -> Contents \cup {Gone}]
    BY <1>2 DEF Init
<1>4. /\ marker.kind \in {"absent", "plain", "full"} /\ marker.sel \subseteq Owners
      /\ \A table \in {marker.files, marker.orphans, orphans} :
            /\ DOMAIN table \subseteq Paths
            /\ \A p \in DOMAIN table : table[p] \in Contents \cup {Unverified}
      /\ DOMAIN marker.files \cap DOMAIN marker.orphans = {}
      /\ recorded \subseteq Paths
  <2>1. CASE marker = Marker("absent", {}, NoTable, NoTable) /\ recorded = {}
    BY <2>1 DEF Init, Marker, NoTable
  <2>2. ASSUME NEW S \in Selections, marker = Marker("plain", S, NoTable, NoTable),
               recorded = {}
        PROVE  <1>4
    BY <2>2, SelectionsAssumption DEF Init, Marker, NoTable
  <2>3. ASSUME NEW S \in Selections, NEW shipped, shipped = {p \in Paths : Ships(p, S)},
               disk = [p \in Paths |-> IF p \in shipped THEN Fresh ELSE Gone],
               marker = Marker("full", S, Select(disk, shipped), NoTable), recorded = shipped
        PROVE  <1>4
    <3>1. \A p \in shipped : disk[p] \in Contents
      BY <1>2, <2>3
    <3>. QED
      BY <3>1, <2>3, SelectionsAssumption DEF Init, Marker, NoTable, Select
  <2>. QED
    BY <2>1, <2>2, <2>3 DEF Init
<1>. QED
    BY <1>1, <1>3, <1>4 DEF Init, TypeOK, PCs

LEMMA SplicedIsContent ==
    ASSUME TypeOK, NEW e \in 0 .. MaxEdits
    PROVE  Spliced(e) \in Contents
BY ReleasesAssumption DEF TypeOK, Spliced, Contents

LEMMA TidyIsContent ==
    ASSUME TypeOK, NEW p \in OnDisk
    PROVE  Tidy(disk[p]) \in Contents
BY OnDiskIsContent DEF Tidy, Contents

\* compute_orphans and infer_orphans list files with a fingerprint, none that ships.
LEMMA OrphansTypes ==
    ASSUME TypeOK
    PROVE  /\ Listed(ScaffoldOrphans) \subseteq Paths \ Managed
           /\ \A p \in Listed(ScaffoldOrphans) :
                 ScaffoldOrphans[p] \in Contents \cup {Unverified}
<1>1. /\ Listed(ComputeOrphans) \subseteq Paths \ Managed
      /\ \A p \in Listed(ComputeOrphans) : ComputeOrphans[p] \in Contents \cup {Unverified}
    BY DEF TypeOK, ComputeOrphans, Managed, OnDisk
<1>2. InferOrphans \subseteq Paths \ Managed
    BY DEF InferOrphans, OnDisk
<1>. QED
    BY <1>1, <1>2 DEF ScaffoldOrphans

\* write_bootstrap_marker keeps the types when no orphan ships.
LEMMA MarkerTypes ==
    ASSUME TypeOK, NEW table, WriteMarker(table),
           Listed(table) \subseteq Paths \ Managed,
           \A p \in Listed(table) : table[p] \in Contents \cup {Unverified}
    PROVE  /\ marker'.kind \in {"absent", "plain", "full"} /\ marker'.sel \subseteq Owners
           /\ \A t \in {marker'.files, marker'.orphans} :
                 /\ Listed(t) \subseteq Paths
                 /\ \A p \in Listed(t) : t[p] \in Contents \cup {Unverified}
           /\ Listed(marker'.files) \cap Listed(marker'.orphans) = {}
           /\ recorded' \subseteq Paths /\ touched' \subseteq Paths
<1>1. /\ marker'.kind = "full" /\ marker'.sel = sel /\ marker'.orphans = table
      /\ marker'.files = [p \in Managed \cap OnDisk |-> disk[p]]
    BY DEF WriteMarker, Marker, Select
<1>2. \A p \in Managed \cap OnDisk : p \in Paths /\ disk[p] \in Contents
    BY DEF TypeOK, OnDisk
<1>3. /\ DOMAIN marker'.files = Managed \cap OnDisk
      /\ \A p \in Managed \cap OnDisk : marker'.files[p] = disk[p]
    BY <1>1
<1>4. Managed \subseteq Paths
    BY DEF Managed
<1>5. recorded' \subseteq Paths /\ touched' \subseteq Paths
    BY <1>4 DEF WriteMarker, TypeOK
<1>6. DOMAIN marker'.files \cap DOMAIN marker'.orphans = {}
    BY <1>1, <1>3
<1>7. \A t \in {marker'.files, marker'.orphans} :
         DOMAIN t \subseteq Paths /\ \A p \in DOMAIN t : t[p] \in Contents \cup {Unverified}
    BY <1>1, <1>2, <1>3
<1>. QED
    BY <1>1, <1>5, <1>6, <1>7 DEF TypeOK

LEMMA NoTableIsEmpty == DOMAIN NoTable = {}
BY DEF NoTable

LEMMA StepTypes ==
    ASSUME TypeOK, OrphanInv, [Next]_vars
    PROVE  TypeOK'
<1>1. ASSUME NEW S \in SUBSET Owners, NEW r \in BOOLEAN, Start(S, r) PROVE TypeOK'
  <2>1. \A S1, S2 : Existing(PruneSet(S1, S2)) \subseteq Paths \cup Dirs
    BY ReleasesAssumption DEF TypeOK, Existing, PruneSet
  <2>2. pruneRel' \subseteq Paths \cup Dirs /\ todo' \subseteq Features
    BY <1>1, <2>1 DEF Start
  <2>. QED
    BY <2>2, BoundsAssumption, <1>1 DEF TypeOK, Start, PCs, runVars, ghosts
<1>2. ASSUME NEW f \in Features, Remover(f) PROVE TypeOK'
    BY <1>2 DEF TypeOK, Remover, PCs, runVars, ghosts
<1>3. ASSUME RemoversEnd PROVE TypeOK'
    BY <1>3 DEF TypeOK, RemoversEnd, PCs, runVars, ghosts
<1>4. ASSUME DecidePrune PROVE TypeOK'
  <2>1. PICK agreed \in SUBSET pruneRel :
          /\ declined' = pruneRel \ agreed
          /\ todo' = agreed
          /\ owed' = [p \in Paths |-> IF p \in Under(agreed) THEN 0 ELSE owed[p]]
          /\ refused' = (Under(declined') \ Under(agreed)) \cap OnDisk
    BY <1>4 DEF DecidePrune
  <2>2. refused' \subseteq Paths
    BY <2>1 DEF OnDisk
  <2>3. owed' \in [Paths -> 0 .. MaxEdits]
    BY <2>1, BoundsAssumption DEF TypeOK
  <2>. QED
    BY <1>4, <2>1, <2>2, <2>3 DEF TypeOK, DecidePrune, PCs, runVars, ghosts
<1>5. ASSUME NEW i \in Paths \cup Dirs, Prune(i) PROVE TypeOK'
    BY <1>5 DEF TypeOK, Prune, Delete, PCs, runVars, ghosts
<1>6. ASSUME PruneEnd PROVE TypeOK'
    BY <1>6 DEF TypeOK, PruneEnd, Managed, PCs, runVars, ghosts
<1>7. ASSUME NEW p \in Paths, WriteCopy(p) PROVE TypeOK'
    BY FreshIsContent, <1>7 DEF TypeOK, WriteCopy, PCs, runVars, ghosts
<1>8. ASSUME NEW p \in Paths, KeepSeed(p) PROVE TypeOK'
    BY <1>8 DEF TypeOK, KeepSeed, PCs, runVars, ghosts
<1>9. ASSUME NEW p \in Paths, WriteComposite(p) PROVE TypeOK'
  <2>1. EditIn(p) \in 0 .. MaxEdits
    BY OnDiskIsContent, BoundsAssumption DEF EditIn
  <2>2. Spliced(EditIn(p)) \in Contents
    BY <2>1, SplicedIsContent
  <2>. QED
    BY <1>9, <2>2 DEF TypeOK, WriteComposite, PCs, runVars, ghosts
<1>10. ASSUME NEW p \in Paths, AskOverwrite(p) PROVE TypeOK'
    BY OnDiskIsContent, <1>10 DEF TypeOK, AskOverwrite, PCs, runVars, ghosts
<1>11. ASSUME NEW yes \in BOOLEAN, AnswerOverwrite(yes) PROVE TypeOK'
  <2>1. Spliced(seen) \in Contents
    BY SplicedIsContent DEF TypeOK
  <2>2. disk' \in [Paths -> Contents \cup {Gone}]
    BY <1>11, <2>1 DEF TypeOK, AnswerOverwrite
  <2>3. 0 \in 0 .. MaxEdits
    BY BoundsAssumption
  <2>. QED
    BY <1>11, <2>2, <2>3 DEF TypeOK, AnswerOverwrite, PCs, ghosts
<1>12. ASSUME WriteEnd PROVE TypeOK'
    BY <1>12 DEF TypeOK, WriteEnd, PCs, runVars, ghosts
<1>13. ASSUME Mark PROVE TypeOK'
    BY OrphansTypes, MarkerTypes, <1>13 DEF TypeOK, Mark, Managed, PCs, runVars, ghosts
<1>14. ASSUME NEW prune \in BOOLEAN, HandleOrphans(prune) PROVE TypeOK'
  <2>1. PICK removed \in SUBSET Prunable :
          /\ disk' = [p \in Paths |-> IF p \in removed THEN Gone ELSE disk[p]]
          /\ recorded' = recorded \ removed /\ touched' = touched \ removed
          /\ orphans' = [p \in DOMAIN orphans \ removed |-> orphans[p]]
          /\ owed' = [p \in Paths |->
                        IF p \in removed /\ (review \/ orphans[p] # Unverified)
                          THEN 0 ELSE owed[p]]
    BY <1>14 DEF HandleOrphans, Delete, Select
  <2>2. owed' \in [Paths -> 0 .. MaxEdits]
    BY <2>1, BoundsAssumption DEF TypeOK
  <2>3. disk' \in [Paths -> Contents \cup {Gone}]
    BY <2>1 DEF TypeOK
  <2>4. /\ DOMAIN orphans' \subseteq Paths
        /\ \A p \in DOMAIN orphans' : orphans'[p] \in Contents \cup {Unverified}
    BY <2>1 DEF TypeOK
  <2>. QED
    BY <1>14, <2>1, <2>2, <2>3, <2>4 DEF TypeOK, HandleOrphans, PCs, runVars, ghosts
<1>15. ASSUME RefreshLocks PROVE TypeOK'
    BY TidyIsContent, <1>15 DEF TypeOK, RefreshLocks, Tidied, PCs, runVars, ghosts
<1>16. ASSUME NEW done \in SUBSET Features, Finalize(done) PROVE TypeOK'
    BY <1>16 DEF TypeOK, Finalize, PCs, runVars, ghosts
<1>17. ASSUME NEW yes \in BOOLEAN, Format(yes) PROVE TypeOK'
    BY TidyIsContent, <1>17 DEF TypeOK, Format, Tidied, PCs, runVars, ghosts
<1>18. ASSUME Record PROVE TypeOK'
  <2>1. /\ DOMAIN orphans \subseteq Paths \ Managed
        /\ \A p \in DOMAIN orphans : orphans[p] \in Contents \cup {Unverified}
    BY <1>18 DEF TypeOK, OrphanInv, Marking, Record
  <2>2. WriteMarker(orphans)
    BY <1>18 DEF Record
  <2>3. 0 \in 0 .. MaxEdits
    BY BoundsAssumption
  <2>. QED
    BY <1>18, <2>1, <2>2, <2>3, MarkerTypes, NoTableIsEmpty
       DEF TypeOK, Record, Reset, PCs, runVars, ghosts
<1>19. ASSUME Stop PROVE TypeOK'
  <2>1. 0 \in 0 .. MaxEdits
    BY BoundsAssumption
  <2>2. DOMAIN orphans' = {}
    BY <1>19, NoTableIsEmpty DEF Stop, Reset
  <2>. QED
    BY <1>19, <2>1, <2>2 DEF TypeOK, Stop, Reset, PCs, ghosts
<1>20. ASSUME Upgrade PROVE TypeOK'
    BY <1>20, ReleasesAssumption DEF TypeOK, Upgrade, PCs, runVars, ghosts
<1>21. ASSUME NEW p \in Paths, Edit(p) PROVE TypeOK'
  <2>1. edits + 1 \in 0 .. MaxEdits /\ 0 \in 0 .. MaxEdits /\ 0 \in 0 .. Releases
    BY <1>21, BoundsAssumption, ReleasesAssumption DEF TypeOK, Edit
  <2>2. [base |-> IF p \in OnDisk THEN disk[p].base ELSE 0,
         edit |-> edits + 1, tidy |-> FALSE] \in Contents
    BY <2>1, OnDiskIsContent DEF Contents
  <2>3. disk' \in [Paths -> Contents \cup {Gone}] /\ owed' \in [Paths -> 0 .. MaxEdits]
    BY <1>21, <2>1, <2>2 DEF TypeOK, Edit
  <2>. QED
    BY <1>21, <2>1, <2>3 DEF TypeOK, Edit, PCs, runVars, ghosts
<1>22. CASE UNCHANGED vars
    BY <1>22 DEF TypeOK, vars, runVars, ghosts
<1>. QED
    BY <1>1, <1>2, <1>3, <1>4, <1>5, <1>6, <1>7, <1>8, <1>9, <1>10, <1>11, <1>12, <1>13, <1>14, <1>15, <1>16, <1>17, <1>18, <1>19, <1>20, <1>21, <1>22 DEF Next, Run, Scaffold

LEMMA StepOrphans ==
    ASSUME TypeOK, OrphanInv, [Next]_vars
    PROVE  OrphanInv'
<1>1. ASSUME NEW S \in SUBSET Owners, NEW r \in BOOLEAN, Start(S, r) PROVE OrphanInv'
    BY <1>1 DEF OrphanInv, Marking, Start
<1>2. CASE Mark
  <2>1. Managed' = Managed
    BY <1>2 DEF Mark, Managed, Ships, Excluded
  <2>. QED
    BY <1>2, <2>1, OrphansTypes DEF OrphanInv, Mark
<1>3. ASSUME NEW prune \in BOOLEAN, HandleOrphans(prune) PROVE OrphanInv'
  <2>1. Managed' = Managed
    BY <1>3 DEF HandleOrphans, Managed, Ships, Excluded
  <2>2. DOMAIN orphans' \subseteq DOMAIN orphans
    BY <1>3 DEF HandleOrphans, Select
  <2>. QED
    BY <1>3, <2>1, <2>2 DEF OrphanInv, Marking, HandleOrphans
<1>4. CASE Record \/ Stop
    BY <1>4 DEF OrphanInv, Marking, Record, Stop, Reset
<1>5. CASE Upgrade
    BY <1>5 DEF OrphanInv, Marking, Upgrade
<1>6. CASE UNCHANGED <<release, sel, orphans>> /\ (Marking' => Marking)
  <2>1. Managed' = Managed
    BY <1>6 DEF Managed, Ships, Excluded
  <2>. QED
    BY <1>6, <2>1 DEF OrphanInv
<1>7. ASSUME NEW f \in Features, Remover(f) PROVE OrphanInv'
    BY <1>7, <1>6 DEF Remover, Marking
<1>8. ASSUME NEW i \in Paths \cup Dirs, Prune(i) PROVE OrphanInv'
    BY <1>8, <1>6 DEF Prune, Marking
<1>9. CASE RemoversEnd \/ DecidePrune \/ PruneEnd \/ WriteEnd
    BY <1>9, <1>6 DEF RemoversEnd, DecidePrune, PruneEnd, WriteEnd, Marking, runVars
<1>10. ASSUME NEW p \in Paths,
              WriteCopy(p) \/ KeepSeed(p) \/ WriteComposite(p) \/ AskOverwrite(p)
       PROVE  OrphanInv'
    BY <1>10, <1>6 DEF WriteCopy, KeepSeed, WriteComposite, AskOverwrite, Marking
<1>11. ASSUME NEW yes \in BOOLEAN, AnswerOverwrite(yes) \/ Format(yes) \/ RefreshLocks
       PROVE  OrphanInv'
    BY <1>11, <1>6 DEF AnswerOverwrite, RefreshLocks, Format, Marking, runVars
<1>12. ASSUME NEW done \in SUBSET Features, Finalize(done) PROVE OrphanInv'
    BY <1>12, <1>6 DEF Finalize, Marking, runVars
<1>13. ASSUME NEW p \in Paths, Edit(p) PROVE OrphanInv'
    BY <1>13, <1>6 DEF Edit, Marking, runVars
<1>14. CASE UNCHANGED vars
    BY <1>14, <1>6 DEF vars, runVars, Marking
<1>. QED
    BY <1>1, <1>2, <1>3, <1>4, <1>5, <1>7, <1>8, <1>9, <1>10, <1>11, <1>12, <1>13, <1>14
       DEF Next, Run, Scaffold

\* Type correctness: whatever is run, stopped, upgraded and edited, the marker's two
\* tables (write_bootstrap_marker) list files by fingerprint and have no path in
\* common.  It needs that no orphan of a run is a file the run ships.
THEOREM TypeCorrect == Spec => [](TypeOK /\ OrphanInv)
<1>1. Init => TypeOK /\ OrphanInv
    BY InitTypes DEF Init, OrphanInv, Marking
<1>2. TypeOK /\ OrphanInv /\ [Next]_vars => (TypeOK /\ OrphanInv)'
    BY StepTypes, StepOrphans
<1>. QED
    BY <1>1, <1>2, PTL DEF Spec

-----------------------------------------------------------------------------
\* What keeps an edit: a step that leaves it in its file, or gives it up.
EditFacts == EditInv /\ EditsSurvive

LEMMA EditsKept ==
    ASSUME EditFacts, pc' \notin {"prune", "ask"},
           \A p \in Paths :
              /\ owed'[p] \in {0, owed[p]}
              /\ owed'[p] # 0 /\ disk[p] # Gone
                    => disk'[p] # Gone /\ disk'[p].edit = disk[p].edit
    PROVE  EditFacts'
<1>1. \A p \in Paths : owed'[p] # 0 => Keeps(p) /\ disk'[p] # Gone /\ disk'[p].edit = owed'[p]
    BY DEF EditFacts, EditInv, EditsSurvive, OnDisk
<1>. QED
    BY <1>1 DEF EditFacts, EditInv, EditsSurvive, OnDisk, Keeps

LEMMA StepEdits ==
    ASSUME TypeOK, EditFacts, Careful, [Next]_vars
    PROVE  EditFacts'
<1>1. CASE UNCHANGED <<disk, owed>> /\ pc' \notin {"prune", "ask"}
    BY <1>1, EditsKept
<1>2. ASSUME NEW S \in SUBSET Owners, NEW r \in BOOLEAN, Start(S, r) PROVE EditFacts'
    BY <1>2, <1>1 DEF Start, ghosts
<1>3. ASSUME NEW f \in Features, Remover(f) PROVE EditFacts'
    BY <1>3, <1>1 DEF Remover
<1>4. CASE DecidePrune
  <2>1. PICK agreed \in SUBSET pruneRel :
          todo' = agreed /\ owed' = [p \in Paths |-> IF p \in Under(agreed) THEN 0 ELSE owed[p]]
    BY <1>4 DEF DecidePrune
  <2>2. \A p \in Paths : owed'[p] \in {0, owed[p]} /\ (p \in Under(todo') => owed'[p] = 0)
    BY <2>1
  <2>3. disk' = disk /\ pc' = "prune"
    BY <1>4 DEF DecidePrune
  <2>4. Under(todo') \subseteq Paths
    BY DEF Under
  <2>. QED
    BY <2>2, <2>3, <2>4 DEF EditFacts, EditInv, EditsSurvive, OnDisk, Under, Keeps
<1>5. ASSUME NEW i \in Paths \cup Dirs, Prune(i) PROVE EditFacts'
  <2>1. Under({i}) \subseteq Under(todo) /\ Under(todo') \subseteq Under(todo)
    BY <1>5 DEF Prune, Under
  <2>2. \A p \in Under(todo) : owed[p] = 0
    BY <1>5 DEF Prune, EditFacts, EditInv
  <2>3. /\ pc' = "prune" /\ owed' = owed
        /\ \A p \in Paths : disk'[p] = IF p \in Under({i}) THEN Gone ELSE disk[p]
    BY <1>5 DEF Prune, Delete
  <2>. QED
    BY <2>1, <2>2, <2>3 DEF EditFacts, EditInv, EditsSurvive, OnDisk, Under, Keeps
<1>6. CASE RemoversEnd \/ PruneEnd \/ WriteEnd \/ Mark \/ Record \/ Stop
    BY <1>6, <1>1 DEF RemoversEnd, PruneEnd, WriteEnd, Mark, Record, Stop, Reset, ghosts
<1>7. ASSUME NEW p \in Paths, WriteCopy(p) PROVE EditFacts'
  <2>1. ~(Keeps(p) /\ p \in OnDisk)
    BY <1>7 DEF WriteCopy, Copies, Keeps
  <2>2. owed[p] = 0
    BY <2>1 DEF EditFacts, EditInv, EditsSurvive
  <2>3. /\ pc' = "write" /\ owed' = owed
        /\ \A q \in Paths : q # p => disk'[q] = disk[q]
    BY <1>7 DEF WriteCopy, TypeOK
  <2>. QED
    BY <2>2, <2>3, EditsKept
<1>8. ASSUME NEW p \in Paths, KeepSeed(p) PROVE EditFacts'
    BY <1>8, <1>1 DEF KeepSeed, ghosts
<1>9. ASSUME NEW p \in Paths, WriteComposite(p) PROVE EditFacts'
  <2>1. /\ pc' = "write" /\ owed' = owed
        /\ \A q \in Paths : disk'[q] = IF q = p THEN Spliced(EditIn(p)) ELSE disk[q]
    BY <1>9 DEF WriteComposite, TypeOK, ghosts
  <2>2. p \in OnDisk => EditIn(p) = disk[p].edit
    BY DEF EditIn
  <2>3. Spliced(EditIn(p)) # Gone
    <3>1. EditIn(p) \in 0 .. MaxEdits
      BY OnDiskIsContent, BoundsAssumption DEF EditIn
    <3>. QED
      BY <3>1, SplicedIsContent, FingerprintAssumption
  <2>4. Spliced(EditIn(p)).edit = EditIn(p)
    BY DEF Spliced
  <2>. QED
    BY <2>1, <2>2, <2>3, <2>4, EditsKept DEF OnDisk
<1>10. ASSUME NEW p \in Paths, AskOverwrite(p) PROVE EditFacts'
  <2>1. /\ pc' = "ask" /\ UNCHANGED <<disk, owed>>
        /\ asking' = p /\ p \in OnDisk /\ seen' = disk[p].edit
    BY <1>10 DEF AskOverwrite, ghosts
  <2>. QED
    BY <2>1 DEF EditFacts, EditInv, EditsSurvive, OnDisk, Keeps
<1>11. ASSUME NEW yes \in BOOLEAN, AnswerOverwrite(yes) PROVE EditFacts'
  <2>1. asking \in OnDisk /\ disk[asking].edit = seen
    BY <1>11 DEF AnswerOverwrite, EditFacts, EditInv
  <2>2. /\ pc' = "write" /\ owed' = owed
        /\ \A q \in Paths : disk'[q] = IF yes /\ q = asking THEN Spliced(seen) ELSE disk[q]
    BY <1>11, <2>1 DEF AnswerOverwrite, TypeOK, OnDisk, ghosts
  <2>3. Spliced(seen) # Gone
    BY SplicedIsContent, FingerprintAssumption DEF TypeOK
  <2>4. Spliced(seen).edit = seen
    BY DEF Spliced
  <2>. QED
    BY <2>1, <2>2, <2>3, <2>4, EditsKept
<1>12. ASSUME NEW prune \in BOOLEAN, HandleOrphans(prune) PROVE EditFacts'
  <2>1. PICK removed \in SUBSET Prunable :
          /\ disk' = [p \in Paths |-> IF p \in removed THEN Gone ELSE disk[p]]
          /\ owed' = [p \in Paths |->
                        IF p \in removed /\ (review \/ orphans[p] # Unverified)
                          THEN 0 ELSE owed[p]]
    BY <1>12 DEF HandleOrphans, Delete
  <2>2. \A p \in removed : review \/ orphans[p] # Unverified
    BY DEF Prunable
  <2>3. \A p \in Paths :
          /\ owed'[p] \in {0, owed[p]}
          /\ owed'[p] # 0 => disk'[p] = disk[p]
    BY <2>1, <2>2
  <2>4. pc' = "refresh"
    BY <1>12 DEF HandleOrphans
  <2>. QED
    BY <2>3, <2>4, EditsKept
<1>13. ASSUME NEW S, Tidied(S), owed' = owed, pc' \notin {"prune", "ask"} PROVE EditFacts'
  <2>1. \A p \in OnDisk : Tidy(disk[p]) # Gone /\ Tidy(disk[p]).edit = disk[p].edit
    BY TidyIsContent, FingerprintAssumption DEF Tidy
  <2>2. \A p \in Paths : disk'[p] = IF p \in S \cap OnDisk THEN Tidy(disk[p]) ELSE disk[p]
    BY <1>13 DEF Tidied
  <2>. QED
    BY <1>13, <2>1, <2>2, EditsKept
<1>14. ASSUME RefreshLocks PROVE EditFacts'
    BY <1>14, <1>13 DEF RefreshLocks, ghosts
<1>15. ASSUME NEW done \in SUBSET Features, Finalize(done) PROVE EditFacts'
    BY <1>15, <1>1 DEF Finalize
<1>16. ASSUME NEW yes \in BOOLEAN, Format(yes) PROVE EditFacts'
    BY <1>16, <1>13 DEF Format, ghosts
<1>17. CASE Upgrade
    BY <1>17, <1>1 DEF Upgrade, ghosts
<1>18. ASSUME NEW p \in Paths, Edit(p) PROVE EditFacts'
  <2>. DEFINE new == [base |-> IF p \in OnDisk THEN disk[p].base ELSE 0,
                      edit |-> edits + 1, tidy |-> FALSE]
              due == IF Keeps(p) /\ ~(pc = "prune" /\ p \in Under(todo)) THEN edits + 1 ELSE 0
  <2>1. /\ edits + 1 \in 0 .. MaxEdits /\ 0 \in 0 .. Releases
    BY <1>18, BoundsAssumption, ReleasesAssumption DEF TypeOK, Edit
  <2>2. new \in Contents
    BY <2>1, OnDiskIsContent DEF Contents
  <2>3. new # Gone /\ new.edit = edits + 1
    BY <2>2, FingerprintAssumption
  <2>4. /\ \A q \in Paths : disk'[q] = IF q = p THEN new ELSE disk[q]
        /\ \A q \in Paths : owed'[q] = IF q = p THEN due ELSE owed[q]
        /\ UNCHANGED <<pc, todo, asking, seen>> /\ asking # p
    BY <1>18 DEF Edit, TypeOK, runVars
  <2>5. due # 0 => Keeps(p) /\ due = edits + 1 /\ ~(pc = "prune" /\ p \in Under(todo))
    OBVIOUS
  <2>. HIDE DEF new, due
  <2>6. EditsSurvive'
    BY <2>3, <2>4, <2>5 DEF EditFacts, EditsSurvive, OnDisk
  <2>7. \A q \in Paths : owed'[q] # 0 => Keeps(q)
    BY <2>4, <2>5 DEF EditFacts, EditInv
  <2>8. Under(todo') = Under(todo) /\ Under(todo) \subseteq Paths
    BY <2>4 DEF Under
  <2>9. pc' = "prune" => \A q \in Under(todo) : owed'[q] = 0
    BY <2>4, <2>5, <2>8 DEF EditFacts, EditInv
  <2>10. pc' = "ask" => asking' \in OnDisk' /\ disk'[asking'].edit = seen'
    BY <2>4 DEF EditFacts, EditInv, OnDisk
  <2>. QED
    BY <2>6, <2>7, <2>8, <2>9, <2>10 DEF EditFacts, EditInv, Keeps
<1>19. CASE UNCHANGED vars
    BY <1>19 DEF vars, runVars, ghosts, EditFacts, EditInv, EditsSurvive, OnDisk, Under, Keeps
<1>. QED
    BY <1>2, <1>3, <1>4, <1>5, <1>6, <1>7, <1>8, <1>9, <1>10, <1>11, <1>12, <1>14, <1>15,
       <1>16, <1>17, <1>18, <1>19 DEF Next, Run, Scaffold

\* What the user wrote in a user-managed region, a lock file or a file of their own is
\* there after any number of runs, stops and upgrades, unless they agreed to delete it
\* (scaffold_repo, _decide_prune, _handle_orphans), if they do not edit a file while
\* the tool asks about it.
THEOREM EditsAreSafe == Careful /\ Spec => []EditsSurvive
<1>1. Init => EditFacts
  <2>1. Init => pc = "idle" /\ \A p \in Paths : owed[p] = 0
    BY DEF Init
  <2>. QED
    BY <2>1 DEF EditFacts, EditInv, EditsSurvive
<1>2. ASSUME Careful
      PROVE  TypeOK /\ EditFacts /\ [Next]_vars => EditFacts'
    BY <1>2, StepEdits
<1>3. EditFacts => EditsSurvive
    BY DEF EditFacts
<1>4. ASSUME Careful PROVE Spec => []EditsSurvive
    BY <1>1, <1>2, <1>3, <1>4, TypeCorrect, PTL DEF Spec
<1>. QED
    BY <1>4

-----------------------------------------------------------------------------
RecordedFacts == RecordedInv /\ NothingForgotten

\* A step that records nothing and keeps what is recorded.
LEMMA RecordedKept ==
    ASSUME RecordedFacts, UNCHANGED <<marker, recorded>>, ~Marking',
           \A p \in Paths : disk[p] # Gone /\ p \in recorded => disk'[p] # Gone
    PROVE  RecordedFacts'
BY DEF RecordedFacts, RecordedInv, NothingForgotten, OnDisk

LEMMA RecordedKeptMarking ==
    ASSUME RecordedFacts, UNCHANGED <<marker, recorded, release, sel, orphans>>, Marking,
           \A p \in Paths : disk[p] # Gone => disk'[p] # Gone
    PROVE  RecordedFacts'
<1>1. Managed' = Managed
    BY DEF Managed, Ships, Excluded
<1>. QED
    BY <1>1 DEF RecordedFacts, RecordedInv, NothingForgotten, OnDisk

LEMMA StepRecorded ==
    ASSUME TypeOK, RecordedFacts, [Next]_vars
    PROVE  RecordedFacts'
<1>1. CASE UNCHANGED <<disk, marker, recorded>> /\ ~Marking'
    BY <1>1, RecordedKept
<1>2. ASSUME NEW S \in SUBSET Owners, NEW r \in BOOLEAN, Start(S, r) PROVE RecordedFacts'
    BY <1>2, <1>1 DEF Start, Marking, ghosts
<1>3. ASSUME NEW f \in Features, Remover(f) PROVE RecordedFacts'
    BY <1>3, <1>1 DEF Remover, Marking
<1>4. CASE RemoversEnd \/ DecidePrune \/ PruneEnd \/ WriteEnd \/ Stop
    BY <1>4, <1>1 DEF RemoversEnd, DecidePrune, PruneEnd, WriteEnd, Stop, Reset, Marking, ghosts
<1>5. ASSUME NEW i \in Paths \cup Dirs, Prune(i) PROVE RecordedFacts'
  <2>1. /\ \A p \in Paths : disk'[p] = IF p \in Under({i}) THEN Gone ELSE disk[p]
        /\ recorded' = recorded \ Under({i}) /\ marker' = marker /\ ~Marking'
    BY <1>5 DEF Prune, Delete, Marking
  <2>. QED
    BY <2>1 DEF RecordedFacts, RecordedInv, NothingForgotten, OnDisk
<1>6. ASSUME NEW p \in Paths, WriteCopy(p) PROVE RecordedFacts'
  <2>1. Fresh # Gone
    BY FreshIsContent, FingerprintAssumption
  <2>. QED
    BY <1>6, <2>1, RecordedKept DEF WriteCopy, TypeOK, Marking
<1>7. ASSUME NEW p \in Paths, KeepSeed(p) \/ AskOverwrite(p) PROVE RecordedFacts'
    BY <1>7, <1>1 DEF KeepSeed, AskOverwrite, Marking, ghosts
<1>8. ASSUME NEW p \in Paths, WriteComposite(p) PROVE RecordedFacts'
  <2>1. EditIn(p) \in 0 .. MaxEdits
    BY OnDiskIsContent, BoundsAssumption DEF EditIn
  <2>2. Spliced(EditIn(p)) # Gone
    BY <2>1, SplicedIsContent, FingerprintAssumption
  <2>. QED
    BY <1>8, <2>2, RecordedKept DEF WriteComposite, TypeOK, Marking, ghosts
<1>9. ASSUME NEW yes \in BOOLEAN, AnswerOverwrite(yes) PROVE RecordedFacts'
  <2>1. Spliced(seen) # Gone
    BY SplicedIsContent, FingerprintAssumption DEF TypeOK
  <2>. QED
    BY <1>9, <2>1, RecordedKept DEF AnswerOverwrite, TypeOK, Marking, ghosts
<1>10. CASE Mark
  <2>1. /\ recorded' = recorded \cup (Managed \cap OnDisk)
        /\ DOMAIN marker'.files = Managed \cap OnDisk
        /\ marker'.orphans = ScaffoldOrphans /\ orphans' = ScaffoldOrphans
        /\ disk' = disk
    BY <1>10 DEF Mark, WriteMarker, Marker, Select
  <2>2. recorded \cap OnDisk \subseteq Managed \cup DOMAIN ComputeOrphans
    BY DEF RecordedFacts, NothingForgotten, ComputeOrphans, Managed, OnDisk
  <2>3. DOMAIN ComputeOrphans \subseteq DOMAIN ScaffoldOrphans
    BY DEF ScaffoldOrphans
  <2>4. recorded \subseteq OnDisk
    BY DEF RecordedFacts, RecordedInv
  <2>5. Managed' = Managed /\ OnDisk' = OnDisk
    BY <1>10 DEF Mark, Managed, Ships, Excluded, OnDisk
  <2>. QED
    BY <2>1, <2>2, <2>3, <2>4, <2>5 DEF RecordedFacts, RecordedInv, NothingForgotten
<1>11. ASSUME NEW prune \in BOOLEAN, HandleOrphans(prune) PROVE RecordedFacts'
  <2>1. PICK removed \in SUBSET Prunable :
          /\ disk' = [p \in Paths |-> IF p \in removed THEN Gone ELSE disk[p]]
          /\ recorded' = recorded \ removed
          /\ orphans' = [p \in DOMAIN orphans \ removed |-> orphans[p]]
    BY <1>11 DEF HandleOrphans, Delete, Select
  <2>2. DOMAIN orphans' = DOMAIN orphans \ removed
    BY <2>1
  <2>3. marker' = marker /\ Marking
    BY <1>11 DEF HandleOrphans, Marking
  <2>4. Managed' = Managed
    BY <1>11 DEF HandleOrphans, Managed, Ships, Excluded
  <2>5. \A p \in Paths : disk'[p] = IF p \in removed THEN Gone ELSE disk[p]
    BY <2>1
  <2>6. recorded' = recorded \ removed
    BY <2>1
  <2>. QED
    BY <2>2, <2>3, <2>4, <2>5, <2>6 DEF RecordedFacts, RecordedInv, NothingForgotten, OnDisk
<1>12. ASSUME NEW S, Tidied(S), UNCHANGED <<marker, recorded, release, sel, orphans>>, Marking
       PROVE  RecordedFacts'
  <2>1. \A p \in OnDisk : Tidy(disk[p]) # Gone
    BY TidyIsContent, FingerprintAssumption
  <2>2. \A p \in Paths : disk'[p] = IF p \in S \cap OnDisk THEN Tidy(disk[p]) ELSE disk[p]
    BY <1>12 DEF Tidied
  <2>. QED
    BY <1>12, <2>1, <2>2, RecordedKeptMarking
<1>13. CASE RefreshLocks
    BY <1>13, <1>12 DEF RefreshLocks, runVars, ghosts, Marking
<1>14. ASSUME NEW yes \in BOOLEAN, Format(yes) PROVE RecordedFacts'
    BY <1>14, <1>12 DEF Format, runVars, ghosts, Marking
<1>15. ASSUME NEW done \in SUBSET Features, Finalize(done) PROVE RecordedFacts'
    BY <1>15, RecordedKeptMarking DEF Finalize, runVars, Marking
<1>16. CASE Record
  <2>1. /\ recorded' = recorded \cup (Managed \cap OnDisk)
        /\ DOMAIN marker'.files = Managed \cap OnDisk
        /\ marker'.orphans = orphans
        /\ disk' = disk /\ Marking /\ ~Marking'
    BY <1>16 DEF Record, WriteMarker, Marker, Select, Reset, Marking
  <2>2. recorded \subseteq OnDisk /\ recorded \subseteq Managed \cup DOMAIN orphans
    BY <2>1 DEF RecordedFacts, RecordedInv
  <2>3. OnDisk' = OnDisk
    BY <2>1 DEF OnDisk
  <2>. QED
    BY <2>1, <2>2, <2>3 DEF RecordedFacts, RecordedInv, NothingForgotten
<1>17. CASE Upgrade
    BY <1>17, <1>1 DEF Upgrade, Marking, ghosts
<1>18. ASSUME NEW p \in Paths, Edit(p) PROVE RecordedFacts'
  <2>. DEFINE new == [base |-> IF p \in OnDisk THEN disk[p].base ELSE 0,
                      edit |-> edits + 1, tidy |-> FALSE]
  <2>1. edits + 1 \in 0 .. MaxEdits /\ 0 \in 0 .. Releases
    BY <1>18, BoundsAssumption, ReleasesAssumption DEF TypeOK, Edit
  <2>2. new \in Contents
    BY <2>1, OnDiskIsContent DEF Contents
  <2>3. new # Gone
    BY <2>2, FingerprintAssumption
  <2>4. /\ \A q \in Paths : disk'[q] = IF q = p THEN new ELSE disk[q]
        /\ UNCHANGED <<marker, recorded, release, sel, orphans, pc>>
    BY <1>18 DEF Edit, TypeOK, runVars
  <2>. HIDE DEF new
  <2>5. \A q \in Paths : disk[q] # Gone => disk'[q] # Gone
    BY <2>3, <2>4
  <2>6. Marking' <=> Marking
    BY <2>4 DEF Marking
  <2>. QED
    BY <2>4, <2>5, <2>6, RecordedKept, RecordedKeptMarking
<1>19. CASE UNCHANGED vars
  <2>1. UNCHANGED <<disk, marker, recorded, release, sel, orphans, pc>>
    BY <1>19 DEF vars, runVars, ghosts
  <2>2. Marking' <=> Marking
    BY <2>1 DEF Marking
  <2>. QED
    BY <2>1, <2>2, RecordedKept, RecordedKeptMarking
<1>. QED
    BY <1>2, <1>3, <1>4, <1>5, <1>6, <1>7, <1>8, <1>9, <1>10, <1>11, <1>13, <1>14, <1>15,
       <1>16, <1>17, <1>18, <1>19 DEF Next, Run, Scaffold

\* Once a marker lists a file it stays listed, as shipped or as an orphan, until the
\* file is deleted (compute_orphans, write_bootstrap_marker), however many runs with
\* whatever selections are stopped at whatever step.
THEOREM NothingIsForgotten == Spec => []NothingForgotten
<1>1. Init => RecordedFacts
  <2>. SUFFICES ASSUME Init PROVE RecordedFacts
    OBVIOUS
  <2>1. ~Marking
    BY DEF Init, Marking
  <2>2. CASE recorded = {}
    BY <2>1, <2>2 DEF RecordedFacts, RecordedInv, NothingForgotten
  <2>3. ASSUME NEW S \in Selections, NEW shipped, shipped = {p \in Paths : Ships(p, S)},
               disk = [p \in Paths |-> IF p \in shipped THEN Fresh ELSE Gone],
               marker = Marker("full", S, Select(disk, shipped), NoTable), recorded = shipped
        PROVE  RecordedFacts
    <3>1. Fresh # Gone
      BY InitTypes, FreshIsContent, FingerprintAssumption
    <3>2. DOMAIN marker.files = shipped
      BY <2>3 DEF Marker, Select
    <3>3. shipped \subseteq OnDisk
      BY <2>3, <3>1 DEF OnDisk
    <3>. QED
      BY <2>1, <2>3, <3>2, <3>3 DEF RecordedFacts, RecordedInv, NothingForgotten
  <2>. QED
    BY <2>2, <2>3 DEF Init
<1>2. TypeOK /\ RecordedFacts /\ [Next]_vars => RecordedFacts'
    BY StepRecorded
<1>3. RecordedFacts => NothingForgotten
    BY DEF RecordedFacts
<1>. QED
    BY <1>1, <1>2, <1>3, TypeCorrect, PTL DEF Spec

-----------------------------------------------------------------------------
\* A step that deletes nothing, and leaves the answers of the run alone.
LEMMA RefusedKept ==
    ASSUME RefusedInv, UNCHANGED <<refused, declined>>,
           pc' = "prune" => pc = "prune" /\ todo' = todo,
           \A p \in Paths : disk[p] # Gone => disk'[p] # Gone
    PROVE  RefusedInv'
BY DEF RefusedInv, OnDisk, Under

LEMMA StepRefused ==
    ASSUME TypeOK, RefusedInv, [Next]_vars
    PROVE  RefusedInv'
<1>1. CASE UNCHANGED <<disk, refused, declined, pc, todo>>
    BY <1>1, RefusedKept
<1>2. CASE UNCHANGED <<disk, refused, declined>> /\ pc' # "prune"
    BY <1>2, RefusedKept
<1>3. ASSUME NEW S \in SUBSET Owners, NEW r \in BOOLEAN, Start(S, r) PROVE RefusedInv'
    BY <1>3, <1>2 DEF Start
<1>4. ASSUME NEW f \in Features, Remover(f) PROVE RefusedInv'
    BY <1>4, <1>2 DEF Remover
<1>5. CASE RemoversEnd \/ PruneEnd \/ WriteEnd \/ Mark
    BY <1>5, <1>2 DEF RemoversEnd, PruneEnd, WriteEnd, Mark, runVars, Goto
<1>6. CASE DecidePrune
  <2>1. PICK agreed \in SUBSET pruneRel :
          /\ declined' = pruneRel \ agreed /\ todo' = agreed /\ disk' = disk
          /\ refused' = (Under(declined') \ Under(agreed)) \cap OnDisk
    BY <1>6 DEF DecidePrune
  <2>. QED
    BY <2>1 DEF RefusedInv, OnDisk, Under
<1>7. ASSUME NEW i \in Paths \cup Dirs, Prune(i) PROVE RefusedInv'
  <2>1. /\ \A p \in Paths : disk'[p] = IF p \in Under({i}) THEN Gone ELSE disk[p]
        /\ i \in todo /\ todo' \subseteq todo
        /\ UNCHANGED <<refused, declined>> /\ pc = "prune"
    BY <1>7 DEF Prune, Delete
  <2>2. Under({i}) \subseteq Under(todo) /\ Under(todo') \subseteq Under(todo)
    BY <2>1 DEF Under
  <2>. QED
    BY <2>1, <2>2 DEF RefusedInv, OnDisk, Under
<1>8. ASSUME NEW p \in Paths, WriteCopy(p) PROVE RefusedInv'
  <2>1. Fresh # Gone
    BY FreshIsContent, FingerprintAssumption
  <2>. QED
    BY <1>8, <2>1, RefusedKept DEF WriteCopy, TypeOK
<1>9. ASSUME NEW p \in Paths, KeepSeed(p) \/ AskOverwrite(p) PROVE RefusedInv'
    BY <1>9, <1>2 DEF KeepSeed, AskOverwrite, Goto
<1>10. ASSUME NEW p \in Paths, WriteComposite(p) PROVE RefusedInv'
  <2>1. EditIn(p) \in 0 .. MaxEdits
    BY OnDiskIsContent, BoundsAssumption DEF EditIn
  <2>2. Spliced(EditIn(p)) # Gone
    BY <2>1, SplicedIsContent, FingerprintAssumption
  <2>. QED
    BY <1>10, <2>2, RefusedKept DEF WriteComposite, TypeOK
<1>11. ASSUME NEW yes \in BOOLEAN, AnswerOverwrite(yes) PROVE RefusedInv'
  <2>1. Spliced(seen) # Gone
    BY SplicedIsContent, FingerprintAssumption DEF TypeOK
  <2>. QED
    BY <1>11, <2>1, RefusedKept DEF AnswerOverwrite, TypeOK, Goto
<1>12. ASSUME NEW prune \in BOOLEAN, HandleOrphans(prune) PROVE RefusedInv'
  <2>1. PICK removed \in SUBSET Prunable :
          disk' = [p \in Paths |-> IF p \in removed THEN Gone ELSE disk[p]]
    BY <1>12 DEF HandleOrphans, Delete
  <2>2. Prunable \cap Under(declined) = {}
    BY DEF Prunable, Under
  <2>3. \A p \in refused : p \notin removed
    BY <2>1, <2>2 DEF RefusedInv
  <2>4. UNCHANGED <<refused, declined>> /\ pc' = "refresh"
    BY <1>12 DEF HandleOrphans, Goto
  <2>. QED
    BY <2>1, <2>3, <2>4 DEF RefusedInv, OnDisk, Under
<1>13. ASSUME NEW S, Tidied(S), UNCHANGED <<refused, declined>>, pc' # "prune"
       PROVE  RefusedInv'
  <2>1. \A p \in OnDisk : Tidy(disk[p]) # Gone
    BY TidyIsContent, FingerprintAssumption
  <2>2. \A p \in Paths : disk'[p] = IF p \in S \cap OnDisk THEN Tidy(disk[p]) ELSE disk[p]
    BY <1>13 DEF Tidied
  <2>. QED
    BY <1>13, <2>1, <2>2, RefusedKept
<1>14. CASE RefreshLocks
    BY <1>14, <1>13 DEF RefreshLocks, runVars, Goto
<1>15. ASSUME NEW yes \in BOOLEAN, Format(yes) PROVE RefusedInv'
    BY <1>15, <1>13 DEF Format, runVars, Goto
<1>16. ASSUME NEW done \in SUBSET Features, Finalize(done) PROVE RefusedInv'
    BY <1>16, <1>2 DEF Finalize, runVars, Goto
<1>17. CASE Record \/ Stop
    BY <1>17 DEF Record, Stop, Reset, Goto, RefusedInv, Under
<1>18. CASE Upgrade
    BY <1>18, <1>1 DEF Upgrade, runVars
<1>19. ASSUME NEW p \in Paths, Edit(p) PROVE RefusedInv'
  <2>. DEFINE new == [base |-> IF p \in OnDisk THEN disk[p].base ELSE 0,
                      edit |-> edits + 1, tidy |-> FALSE]
  <2>1. edits + 1 \in 0 .. MaxEdits /\ 0 \in 0 .. Releases
    BY <1>19, BoundsAssumption, ReleasesAssumption DEF TypeOK, Edit
  <2>2. new \in Contents
    BY <2>1, OnDiskIsContent DEF Contents
  <2>3. new # Gone
    BY <2>2, FingerprintAssumption
  <2>4. /\ \A q \in Paths : disk'[q] = IF q = p THEN new ELSE disk[q]
        /\ UNCHANGED <<refused, declined, todo, pc>>
    BY <1>19 DEF Edit, TypeOK, runVars
  <2>. HIDE DEF new
  <2>. QED
    BY <2>3, <2>4, RefusedKept
<1>20. CASE UNCHANGED vars
    BY <1>20, <1>1 DEF vars, runVars
<1>. QED
    BY <1>3, <1>4, <1>5, <1>6, <1>7, <1>8, <1>9, <1>10, <1>11, <1>12, <1>14, <1>15, <1>16,
       <1>17, <1>18, <1>19, <1>20 DEF Next, Run, Scaffold

\* An answer of the user holds to the end of the run: no later step of the run deletes
\* a file the user refused to delete and did not agree to with another entry
\* (_decide_prune, prune_paths, prunable_orphans).
THEOREM RefusalsStand == Spec => []RefusalsHold
<1>1. Init => RefusedInv
    BY DEF Init, RefusedInv
<1>2. TypeOK /\ RefusedInv /\ [Next]_vars => RefusedInv'
    BY StepRefused
<1>3. RefusedInv => RefusalsHold
    BY DEF RefusedInv, RefusalsHold
<1>. QED
    BY <1>1, <1>2, <1>3, TypeCorrect, PTL DEF Spec

-----------------------------------------------------------------------------
\* What a written file is, and what is known of the one the user is asked about.
Written(p) ==
    /\ p \in OnDisk
    /\ disk[p].base = release \/ Entry[p].seed
         \/ (review /\ Entry[p].kind = "composite")

WrittenInv ==
    /\ pc \in {"write", "ask"} =>
          todo \subseteq Managed /\ \A p \in Managed \ todo : Written(p)
    /\ pc = "ask" =>
          asking \in todo /\ asking \in OnDisk /\ review /\ Entry[asking].kind = "composite"

WrittenFacts == WrittenInv /\ BaselineIsComplete

\* A file of the starter is no file of the user's.
LEMMA ManagedKinds ==
    ASSUME TypeOK, NEW p \in Managed
    PROVE  p \in Paths /\ Entry[p].kind \in {"tree", "file", "composite"}
BY ReleasesAssumption, EntryAssumption DEF TypeOK, Managed, Ships, Kinds

\* A step that leaves alone what is written.
LEMMA WrittenKept ==
    ASSUME WrittenFacts, UNCHANGED <<release, sel, review, todo, asking>>,
           pc' = pc \/ (pc' \notin {"write", "ask"} /\
                        (Marking' \/ pc' = "mark" => Marking \/ pc = "mark")),
           \A p \in Managed : p \in OnDisk => p \in OnDisk' /\ disk'[p].base = disk[p].base
    PROVE  WrittenFacts'
<1>1. Managed' = Managed
    BY DEF Managed, Ships, Excluded
<1>. QED
    BY <1>1 DEF WrittenFacts, WrittenInv, Written, BaselineIsComplete, Marking

LEMMA StepWritten ==
    ASSUME TypeOK, OrphanInv, WrittenFacts, [Next]_vars
    PROVE  WrittenFacts'
<1>1. CASE pc' \notin {"write", "ask", "mark"} /\ ~Marking'
    BY <1>1 DEF WrittenFacts, WrittenInv, BaselineIsComplete, Marking
<1>2. ASSUME NEW S \in SUBSET Owners, NEW r \in BOOLEAN, Start(S, r) PROVE WrittenFacts'
    BY <1>2, <1>1 DEF Start, Marking
<1>3. ASSUME NEW f \in Features, Remover(f) PROVE WrittenFacts'
    BY <1>3, <1>1 DEF Remover, Marking
<1>4. CASE RemoversEnd \/ DecidePrune \/ Record \/ Stop \/ Upgrade
    BY <1>4, <1>1 DEF RemoversEnd, DecidePrune, Record, Stop, Reset, Upgrade, Marking
<1>5. ASSUME NEW i \in Paths \cup Dirs, Prune(i) PROVE WrittenFacts'
    BY <1>5, <1>1 DEF Prune, Marking
<1>6. CASE PruneEnd
  <2>1. Managed' = Managed
    BY <1>6 DEF PruneEnd, Managed, Ships, Excluded
  <2>. QED
    BY <1>6, <2>1 DEF PruneEnd, WrittenFacts, WrittenInv, BaselineIsComplete
\* One file is done: it is written, and the others are as they were.
<1>7. ASSUME NEW p \in todo, pc \in {"write", "ask"}, pc' = "write", todo' = todo \ {p},
             UNCHANGED <<release, sel, review>>, p \in Managed => Written(p)',
             \A q \in Managed : q # p => disk'[q] = disk[q]
      PROVE  WrittenFacts'
  <2>1. Managed' = Managed
    BY <1>7 DEF Managed, Ships, Excluded
  <2>2. \A q \in Managed \ todo : Written(q)'
    BY <1>7 DEF WrittenFacts, WrittenInv, Written, OnDisk
  <2>. QED
    BY <1>7, <2>1, <2>2 DEF WrittenFacts, WrittenInv, BaselineIsComplete
<1>8. ASSUME NEW p \in Paths, WriteCopy(p) PROVE WrittenFacts'
  <2>1. Fresh # Gone /\ Fresh.base = release
    BY FreshIsContent, FingerprintAssumption DEF Fresh
  <2>2. /\ p \in todo /\ pc = "write" /\ pc' = "write" /\ todo' = todo \ {p}
        /\ UNCHANGED <<release, sel, review>>
        /\ \A q \in Paths : disk'[q] = IF q = p THEN Fresh ELSE disk[q]
    BY <1>8 DEF WriteCopy, Copies, TypeOK
  <2>. QED
    BY <2>1, <2>2, <1>7, ManagedKinds DEF Written, OnDisk
<1>9. ASSUME NEW p \in Paths, KeepSeed(p) PROVE WrittenFacts'
  <2>1. /\ p \in todo /\ pc = "write" /\ pc' = "write" /\ todo' = todo \ {p}
        /\ UNCHANGED <<release, sel, review, disk>> /\ Entry[p].seed /\ p \in OnDisk
    BY <1>9 DEF KeepSeed, Copies
  <2>. QED
    BY <2>1, <1>7 DEF Written, OnDisk
<1>10. ASSUME NEW p \in Paths, WriteComposite(p) PROVE WrittenFacts'
  <2>1. EditIn(p) \in 0 .. MaxEdits
    BY OnDiskIsContent, BoundsAssumption DEF EditIn
  <2>2. Spliced(EditIn(p)) # Gone /\ Spliced(EditIn(p)).base = release
    BY <2>1, SplicedIsContent, FingerprintAssumption DEF Spliced
  <2>3. /\ p \in todo /\ pc = "write" /\ pc' = "write" /\ todo' = todo \ {p}
        /\ UNCHANGED <<release, sel, review>>
        /\ \A q \in Paths : disk'[q] = IF q = p THEN Spliced(EditIn(p)) ELSE disk[q]
    BY <1>10 DEF WriteComposite, TypeOK
  <2>. QED
    BY <2>2, <2>3, <1>7, ManagedKinds DEF Written, OnDisk
<1>11. ASSUME NEW p \in Paths, AskOverwrite(p) PROVE WrittenFacts'
  <2>1. /\ pc = "write" /\ p \in todo /\ review /\ p \in OnDisk /\ pc' = "ask" /\ asking' = p
        /\ UNCHANGED <<release, disk, sel, review, todo>>
    BY <1>11 DEF AskOverwrite
  <2>2. p \in Managed /\ Copies = {}
    BY <1>11, <2>1 DEF AskOverwrite, WrittenFacts, WrittenInv
  <2>3. Entry[p].kind = "composite"
    BY <2>1, <2>2, ManagedKinds DEF Copies
  <2>4. Managed' = Managed /\ OnDisk' = OnDisk
    BY <2>1 DEF Managed, Ships, Excluded, OnDisk
  <2>5. \A q \in Managed \ todo : Written(q)'
    BY <2>1, <2>4 DEF WrittenFacts, WrittenInv, Written
  <2>. QED
    BY <2>1, <2>3, <2>4, <2>5 DEF WrittenFacts, WrittenInv, BaselineIsComplete
<1>12. ASSUME NEW yes \in BOOLEAN, AnswerOverwrite(yes) PROVE WrittenFacts'
  <2>1. asking \in todo /\ asking \in OnDisk /\ review /\ Entry[asking].kind = "composite"
    BY <1>12 DEF AnswerOverwrite, WrittenFacts, WrittenInv
  <2>2. Spliced(seen) # Gone
    BY SplicedIsContent, FingerprintAssumption DEF TypeOK
  <2>3. /\ pc = "ask" /\ pc' = "write" /\ todo' = todo \ {asking}
        /\ UNCHANGED <<release, sel, review>>
        /\ \A q \in Paths : disk'[q] = IF yes /\ q = asking THEN Spliced(seen) ELSE disk[q]
    BY <1>12, <2>1 DEF AnswerOverwrite, TypeOK, OnDisk
  <2>4. PICK p \in todo : p = asking
    BY <2>1
  <2>5. p \in Paths /\ Written(p)'
    BY <2>1, <2>2, <2>3, <2>4 DEF Written, OnDisk
  <2>6. \A q \in Managed : q # p => disk'[q] = disk[q]
    BY <2>3, <2>4, ManagedKinds
  <2>. QED
    BY <2>3, <2>4, <2>5, <2>6, <1>7
<1>13. CASE WriteEnd
  <2>1. /\ pc = "write" /\ todo = {} /\ pc' = "mark"
        /\ UNCHANGED <<release, disk, sel, review>>
    BY <1>13 DEF WriteEnd, runVars
  <2>2. Managed' = Managed /\ OnDisk' = OnDisk
    BY <2>1 DEF Managed, Ships, Excluded, OnDisk
  <2>. QED
    BY <2>1, <2>2 DEF WrittenFacts, WrittenInv, Written, BaselineIsComplete
<1>14. CASE Mark
    BY <1>14, WrittenKept DEF Mark, Marking, OnDisk
<1>15. ASSUME NEW prune \in BOOLEAN, HandleOrphans(prune) PROVE WrittenFacts'
  <2>1. PICK removed \in SUBSET Prunable :
          disk' = [p \in Paths |-> IF p \in removed THEN Gone ELSE disk[p]]
    BY <1>15 DEF HandleOrphans, Delete
  <2>2. removed \cap Managed = {}
    BY <1>15 DEF HandleOrphans, Prunable, OrphanInv, Marking
  <2>3. \A p \in Managed : p \in Paths /\ disk'[p] = disk[p]
    BY <2>1, <2>2 DEF Managed
  <2>. QED
    BY <1>15, <2>3, WrittenKept DEF HandleOrphans, Marking, OnDisk
<1>16. ASSUME NEW S, Tidied(S), UNCHANGED runVars, UNCHANGED release, Marking, Marking',
              pc' \notin {"write", "ask"}
       PROVE  WrittenFacts'
  <2>1. \A p \in OnDisk : Tidy(disk[p]) # Gone /\ Tidy(disk[p]).base = disk[p].base
    BY TidyIsContent, FingerprintAssumption DEF Tidy
  <2>2. \A p \in Paths : disk'[p] = IF p \in S \cap OnDisk THEN Tidy(disk[p]) ELSE disk[p]
    BY <1>16 DEF Tidied
  <2>3. \A p \in OnDisk : p \in OnDisk' /\ disk'[p].base = disk[p].base
    BY <2>1, <2>2 DEF OnDisk
  <2>. QED
    BY <1>16, <2>3, WrittenKept DEF runVars
<1>17. CASE RefreshLocks
    BY <1>17, <1>16 DEF RefreshLocks, Marking
<1>18. ASSUME NEW done \in SUBSET Features, Finalize(done) PROVE WrittenFacts'
    BY <1>18, WrittenKept DEF Finalize, Marking, runVars, OnDisk
<1>19. ASSUME NEW yes \in BOOLEAN, Format(yes) PROVE WrittenFacts'
    BY <1>19, <1>16 DEF Format, Marking
<1>20. ASSUME NEW p \in Paths, Edit(p) PROVE WrittenFacts'
  <2>. DEFINE new == [base |-> IF p \in OnDisk THEN disk[p].base ELSE 0,
                      edit |-> edits + 1, tidy |-> FALSE]
  <2>1. edits + 1 \in 0 .. MaxEdits /\ 0 \in 0 .. Releases
    BY <1>20, BoundsAssumption, ReleasesAssumption DEF TypeOK, Edit
  <2>2. new \in Contents
    BY <2>1, OnDiskIsContent DEF Contents
  <2>3. new # Gone /\ (p \in OnDisk => new.base = disk[p].base)
    BY <2>2, FingerprintAssumption
  <2>4. /\ \A q \in Paths : disk'[q] = IF q = p THEN new ELSE disk[q]
        /\ UNCHANGED <<pc, release, sel, review, todo, asking>>
    BY <1>20 DEF Edit, TypeOK, runVars
  <2>. HIDE DEF new
  <2>5. \A q \in OnDisk : q \in OnDisk' /\ disk'[q].base = disk[q].base
    BY <2>3, <2>4 DEF OnDisk
  <2>6. pc' = pc /\ UNCHANGED <<release, sel, review, todo, asking>>
    BY <2>4
  <2>7. OnDisk \subseteq OnDisk' /\ Managed' = Managed
    BY <2>5, <2>6 DEF Managed, Ships, Excluded
  <2>. QED
    BY <2>5, <2>6, WrittenKept
<1>21. CASE UNCHANGED vars
    BY <1>21, WrittenKept DEF vars, runVars, OnDisk
<1>. QED
    BY <1>2, <1>3, <1>4, <1>5, <1>6, <1>8, <1>9, <1>10, <1>11, <1>12, <1>13, <1>14, <1>15,
       <1>17, <1>18, <1>19, <1>20, <1>21 DEF Next, Run, Scaffold

\* run prunes before it scaffolds, and the orphans it deletes are no files of the
\* selection: from the first marker on, all of the selection is on disk, of this
\* release but for the lock files and the composite files a review kept.
THEOREM BaselineStays == Spec => []BaselineIsComplete
<1>1. Init => WrittenFacts
    BY DEF Init, WrittenFacts, WrittenInv, BaselineIsComplete
<1>2. TypeOK /\ OrphanInv /\ WrittenFacts /\ [Next]_vars => WrittenFacts'
    BY StepWritten
<1>3. WrittenFacts => BaselineIsComplete
    BY DEF WrittenFacts
<1>. QED
    BY <1>1, <1>2, <1>3, TypeCorrect, PTL DEF Spec

-----------------------------------------------------------------------------
\* The fingerprint that a table has of a file: of no edit yet to come, and of another
\* edit than the one in a file touched since.
OfPast(table) == \A p \in Listed(table) : table[p] = Unverified \/ table[p].edit <= edits
OfOther(table) ==
    \A p \in touched \cap Listed(table) : table[p] = Unverified \/ table[p].edit # disk[p].edit

TouchedInv ==
    /\ touched \subseteq OnDisk
    /\ \A p \in OnDisk : disk[p].edit <= edits
    /\ OfPast(marker.files) /\ OfPast(marker.orphans) /\ OfPast(orphans)
    /\ OfOther(marker.files) /\ OfOther(marker.orphans) /\ OfOther(orphans)

\* A step that touches no further file, keeps the edit of those it writes, and starts
\* no table.
LEMMA TouchedKept ==
    ASSUME TouchedInv, UNCHANGED <<edits, marker>>, touched' \subseteq touched,
           orphans' \in {orphans, NoTable},
           \A p \in touched' : disk'[p] # Gone /\ disk'[p].edit = disk[p].edit,
           \A p \in Paths : disk'[p] # Gone => disk'[p].edit <= edits
    PROVE  TouchedInv'
BY NoTableIsEmpty DEF TouchedInv, OfPast, OfOther, OnDisk

\* The orphans that scaffold_repo returns have the fingerprints of the marker, or none.
LEMMA OrphansAreOld ==
    ASSUME TouchedInv
    PROVE  OfPast(ScaffoldOrphans) /\ OfOther(ScaffoldOrphans)
<1>1. OfPast(ComputeOrphans) /\ OfOther(ComputeOrphans)
    BY DEF TouchedInv, OfPast, OfOther, ComputeOrphans
<1>. QED
    BY <1>1 DEF ScaffoldOrphans, OfPast, OfOther

\* write_bootstrap_marker fingerprints the files that ship as they are.
LEMMA MarkerIsOld ==
    ASSUME TypeOK, TouchedInv, NEW table, WriteMarker(table), OfPast(table), OfOther(table),
           UNCHANGED <<disk, edits>>, orphans' \in {table, NoTable}
    PROVE  TouchedInv'
<1>1. /\ DOMAIN marker'.files = Managed \cap OnDisk /\ marker'.orphans = table
      /\ \A p \in Managed \cap OnDisk : marker'.files[p] = disk[p]
      /\ touched' = touched \ Managed
    BY DEF WriteMarker, Marker, Select
<1>2. OfPast(marker.files)' /\ OfOther(marker.files)'
    BY <1>1 DEF TouchedInv, OfPast, OfOther
<1>3. OfPast(table)' /\ OfOther(table)'
    BY <1>1 DEF OfPast, OfOther
<1>. QED
    BY <1>1, <1>2, <1>3, NoTableIsEmpty DEF TouchedInv, OfPast, OfOther, OnDisk

LEMMA StepTouched ==
    ASSUME TypeOK, EditFacts, Careful, TouchedInv, [Next]_vars
    PROVE  TouchedInv'
<1>1. CASE UNCHANGED <<edits, marker, touched, disk>> /\ orphans' \in {orphans, NoTable}
    BY <1>1, TouchedKept DEF TouchedInv, OnDisk
<1>2. ASSUME NEW S \in SUBSET Owners, NEW r \in BOOLEAN, Start(S, r) PROVE TouchedInv'
    BY <1>2, <1>1 DEF Start, ghosts
<1>3. ASSUME NEW f \in Features, Remover(f) PROVE TouchedInv'
    BY <1>3, <1>1 DEF Remover
<1>4. CASE RemoversEnd \/ DecidePrune \/ PruneEnd \/ WriteEnd \/ Stop \/ Upgrade
    BY <1>4, <1>1 DEF RemoversEnd, DecidePrune, PruneEnd, WriteEnd, Stop, Reset, Upgrade,
       runVars, ghosts
<1>5. ASSUME NEW i \in Paths \cup Dirs, Prune(i) PROVE TouchedInv'
  <2>1. /\ disk' = [p \in Paths |-> IF p \in Under({i}) THEN Gone ELSE disk[p]]
        /\ touched' = touched \ Under({i}) /\ UNCHANGED <<edits, marker, orphans>>
    BY <1>5 DEF Prune, Delete
  <2>2. \A p \in Paths : disk'[p] = IF p \in Under({i}) THEN Gone ELSE disk[p]
    BY <2>1
  <2>. QED
    BY <2>1, <2>2, TouchedKept DEF TouchedInv, OnDisk
<1>6. ASSUME NEW p \in Paths, WriteCopy(p) PROVE TouchedInv'
  <2>1. /\ touched' = touched \ {p} /\ UNCHANGED <<edits, marker, orphans>>
        /\ \A q \in Paths : disk'[q] = IF q = p THEN Fresh ELSE disk[q]
    BY <1>6 DEF WriteCopy, TypeOK
  <2>2. Fresh.edit <= edits
    BY DEF Fresh, TypeOK
  <2>. QED
    BY <2>1, <2>2, TouchedKept DEF TouchedInv, OnDisk
<1>7. ASSUME NEW p \in Paths, KeepSeed(p) \/ AskOverwrite(p) PROVE TouchedInv'
    BY <1>7, <1>1 DEF KeepSeed, AskOverwrite, ghosts
\* A composite is written around the edit that is in it.
<1>8. ASSUME NEW p \in Paths, NEW e \in 0 .. MaxEdits,
             p \in OnDisk => e = disk[p].edit, p \notin OnDisk => e = 0,
             \A q \in Paths : disk'[q] = IF q = p THEN Spliced(e) ELSE disk[q],
             UNCHANGED <<edits, marker, touched, orphans>>
      PROVE  TouchedInv'
  <2>1. Spliced(e) # Gone /\ Spliced(e).edit = e
    BY SplicedIsContent, FingerprintAssumption DEF Spliced
  <2>2. e <= edits
    BY <1>8 DEF TouchedInv, TypeOK
  <2>. QED
    BY <1>8, <2>1, <2>2, TouchedKept DEF TouchedInv, OnDisk
<1>9. ASSUME NEW p \in Paths, WriteComposite(p) PROVE TouchedInv'
  <2>1. EditIn(p) \in 0 .. MaxEdits
    BY OnDiskIsContent, BoundsAssumption DEF EditIn
  <2>2. /\ \A q \in Paths : disk'[q] = IF q = p THEN Spliced(EditIn(p)) ELSE disk[q]
        /\ UNCHANGED <<edits, marker, touched, orphans>>
    BY <1>9 DEF WriteComposite, TypeOK, ghosts
  <2>. QED
    BY <2>1, <2>2, <1>8 DEF EditIn
<1>10. ASSUME NEW yes \in BOOLEAN, AnswerOverwrite(yes) PROVE TouchedInv'
  <2>1. asking \in OnDisk /\ disk[asking].edit = seen
    BY <1>10 DEF AnswerOverwrite, EditFacts, EditInv
  <2>2. /\ disk' = IF yes THEN [disk EXCEPT ![asking] = Spliced(seen)] ELSE disk
        /\ UNCHANGED <<edits, marker, touched, orphans>>
    BY <1>10 DEF AnswerOverwrite, ghosts
  <2>3. PICK p \in Paths : p = asking
    BY <2>1 DEF OnDisk
  <2>4. CASE yes
    <3>1. \A q \in Paths : disk'[q] = IF q = p THEN Spliced(seen) ELSE disk[q]
      BY <2>2, <2>3, <2>4 DEF TypeOK
    <3>. QED
      BY <2>1, <2>2, <2>3, <3>1, <1>8 DEF TypeOK
  <2>. QED
    BY <2>2, <2>4, <1>1
<1>11. CASE Mark
  <2>. DEFINE table == ScaffoldOrphans
  <2>1. OfPast(table) /\ OfOther(table)
    BY OrphansAreOld
  <2>2. WriteMarker(table) /\ UNCHANGED <<disk, edits>> /\ orphans' = table
    BY <1>11 DEF Mark
  <2>. HIDE DEF table
  <2>. QED
    BY <2>1, <2>2, MarkerIsOld
<1>12. ASSUME NEW prune \in BOOLEAN, HandleOrphans(prune) PROVE TouchedInv'
  <2>1. PICK removed \in SUBSET Prunable :
          /\ disk' = [p \in Paths |-> IF p \in removed THEN Gone ELSE disk[p]]
          /\ touched' = touched \ removed
          /\ orphans' = [p \in DOMAIN orphans \ removed |-> orphans[p]]
    BY <1>12 DEF HandleOrphans, Delete, Select
  <2>2. \A p \in Paths : disk'[p] = IF p \in removed THEN Gone ELSE disk[p]
    BY <2>1
  <2>3. /\ DOMAIN orphans' \subseteq DOMAIN orphans
        /\ \A p \in DOMAIN orphans' : orphans'[p] = orphans[p]
    BY <2>1
  <2>4. UNCHANGED <<edits, marker>> /\ touched' \subseteq Paths \ removed
    BY <1>12, <2>1 DEF HandleOrphans, TypeOK
  <2>. QED
    BY <2>1, <2>2, <2>3, <2>4 DEF TouchedInv, OfPast, OfOther, OnDisk
<1>13. ASSUME NEW S, Tidied(S), UNCHANGED <<edits, marker, touched, orphans>>
       PROVE  TouchedInv'
  <2>1. \A p \in OnDisk : Tidy(disk[p]) # Gone /\ Tidy(disk[p]).edit = disk[p].edit
    BY TidyIsContent, FingerprintAssumption DEF Tidy
  <2>2. \A p \in Paths : disk'[p] = IF p \in S \cap OnDisk THEN Tidy(disk[p]) ELSE disk[p]
    BY <1>13 DEF Tidied
  <2>. QED
    BY <1>13, <2>1, <2>2, TouchedKept DEF TouchedInv, OnDisk
<1>14. CASE RefreshLocks
    BY <1>14, <1>13 DEF RefreshLocks, runVars, ghosts
<1>15. ASSUME NEW done \in SUBSET Features, Finalize(done) PROVE TouchedInv'
    BY <1>15, <1>1 DEF Finalize, runVars
<1>16. ASSUME NEW yes \in BOOLEAN, Format(yes) PROVE TouchedInv'
    BY <1>16, <1>13 DEF Format, runVars, ghosts
<1>17. CASE Record
  <2>1. /\ WriteMarker(orphans) /\ UNCHANGED <<disk, edits>> /\ orphans' = NoTable
    BY <1>17 DEF Record, Reset
  <2>. QED
    BY <2>1, MarkerIsOld DEF TouchedInv
<1>18. ASSUME NEW p \in Paths, Edit(p) PROVE TouchedInv'
  <2>. DEFINE new == [base |-> IF p \in OnDisk THEN disk[p].base ELSE 0,
                      edit |-> edits + 1, tidy |-> FALSE]
  <2>1. edits + 1 \in 0 .. MaxEdits /\ 0 \in 0 .. Releases
    BY <1>18, BoundsAssumption, ReleasesAssumption DEF TypeOK, Edit
  <2>2. new \in Contents
    BY <2>1, OnDiskIsContent DEF Contents
  <2>3. new # Gone /\ new.edit = edits + 1
    BY <2>2, FingerprintAssumption
  <2>4. /\ \A q \in Paths : disk'[q] = IF q = p THEN new ELSE disk[q]
        /\ UNCHANGED <<marker, orphans>> /\ touched' = touched \cup {p} /\ edits' = edits + 1
    BY <1>18 DEF Edit, TypeOK, runVars
  <2>. HIDE DEF new
  <2>5. \A table \in {marker.files, marker.orphans, orphans} :
          \A q \in DOMAIN table :
             table[q] = Unverified \/ (table[q].edit \in Nat /\ table[q].edit <= edits)
    BY DEF TouchedInv, OfPast, TypeOK, Contents
  <2>6. edits \in Nat
    BY DEF TypeOK
  <2>7. \A q \in Paths : disk'[q] # Gone => disk'[q].edit <= edits'
    BY <2>3, <2>4, <2>6, OnDiskIsContent DEF TouchedInv, OnDisk
  <2>8. touched' \subseteq OnDisk'
    BY <2>3, <2>4 DEF TouchedInv, OnDisk
  <2>9. \A table \in {marker.files, marker.orphans, orphans} :
          OfPast(table) /\ OfOther(table) => OfPast(table)' /\ OfOther(table)'
    BY <2>3, <2>4, <2>5, <2>6 DEF OfPast, OfOther, TypeOK, TouchedInv, OnDisk
  <2>. QED
    BY <2>4, <2>7, <2>8, <2>9 DEF TouchedInv, OnDisk, OfPast, OfOther
<1>19. CASE UNCHANGED vars
    BY <1>19, <1>1 DEF vars, runVars, ghosts
<1>. QED
    BY <1>2, <1>3, <1>4, <1>5, <1>6, <1>7, <1>9, <1>10, <1>11, <1>12, <1>14, <1>15, <1>16,
       <1>17, <1>18, <1>19 DEF Next, Run, Scaffold

\* Whatever is rewritten, formatted, spliced or carried over from marker to marker, a
\* file the user changed since it was fingerprinted never has the fingerprint that
\* orphan_status compares it with, if the user does not edit a file while the tool
\* asks about it.
THEOREM ChangesStaySeen == Careful /\ Spec => []ChangesAreSeen
<1>1. Init => EditFacts
  <2>1. Init => pc = "idle" /\ \A p \in Paths : owed[p] = 0
    BY DEF Init
  <2>. QED
    BY <2>1 DEF EditFacts, EditInv, EditsSurvive
<1>2. Init => TouchedInv
  <2>. SUFFICES ASSUME Init PROVE TouchedInv
    OBVIOUS
  <2>1. /\ TypeOK /\ touched = {} /\ edits = 0 /\ DOMAIN orphans = {}
    BY InitTypes, NoTableIsEmpty DEF Init
  <2>2. Fresh.edit = 0
    BY DEF Fresh
  <2>3. \A p \in OnDisk : disk[p].edit = 0
    BY <2>2 DEF Init, OnDisk
  <2>4. OfPast(marker.files) /\ DOMAIN marker.orphans = {}
    <3>1. ASSUME NEW kind, NEW S, marker = Marker(kind, S, NoTable, NoTable)
          PROVE  <2>4
      BY <3>1, NoTableIsEmpty DEF OfPast, Marker
    <3>2. ASSUME NEW S \in Selections, NEW shipped, shipped = {p \in Paths : Ships(p, S)},
                 disk = [p \in Paths |-> IF p \in shipped THEN Fresh ELSE Gone],
                 marker = Marker("full", S, Select(disk, shipped), NoTable)
          PROVE  <2>4
      <4>1. /\ marker.files = [p \in shipped |-> disk[p]] /\ marker.orphans = NoTable
            /\ \A p \in shipped : disk[p] = Fresh
        BY <3>2 DEF Marker, Select
      <4>. QED
        BY <4>1, <2>1, <2>2, NoTableIsEmpty DEF OfPast
    <3>. QED
      BY <3>1, <3>2 DEF Init
  <2>. QED
    BY <2>1, <2>3, <2>4 DEF TouchedInv, OfPast, OfOther
<1>3. ASSUME Careful
      PROVE  TypeOK /\ EditFacts /\ TouchedInv /\ [Next]_vars => EditFacts' /\ TouchedInv'
    BY <1>3, StepEdits, StepTouched
<1>4. TypeOK /\ TouchedInv => ChangesAreSeen
  <2>. SUFFICES ASSUME TypeOK, TouchedInv, NEW p \in touched \cap Listed(marker.orphans)
                PROVE  marker.orphans[p] # disk[p]
    BY DEF ChangesAreSeen
  <2>1. disk[p] # Unverified
    BY OnDiskIsContent, FingerprintAssumption DEF TouchedInv
  <2>. QED
    BY <2>1 DEF TouchedInv, OfOther
<1>5. ASSUME Careful PROVE Spec => []ChangesAreSeen
    BY <1>1, <1>2, <1>3, <1>4, <1>5, TypeCorrect, PTL DEF Spec
<1>. QED
    BY <1>5

-----------------------------------------------------------------------------
\* A feature's generator ships with the feature, in every release.
IsGenerator(p, f) ==
    /\ p \in Paths /\ Entry[p].dir \in Dirs /\ DirOwner[Entry[p].dir] = f
    /\ Entry[p].any = {f} /\ Entry[p].gate = {}
    /\ \A i \in 1 .. Releases : p \in ShippedIn[i]

\* The features whose targets are there and whose remover did not fail.
Standing == generated \ failed

Spared(items) ==
    \A f \in sel \cap Features : \A p \in Under(items) : ~IsGenerator(p, f)

TargetInv ==
    /\ Standing \subseteq marker.sel
    /\ marker.kind = "absent" => marker.sel = {}
    /\ Marking => marker.sel = sel
    /\ pc = "remove" => Standing \subseteq sel \cup todo
    /\ pc \notin {"idle", "remove"} => Standing \subseteq sel
    /\ \A f \in Standing, p \in Paths : IsGenerator(p, f) => p \in OnDisk
    /\ pc \in {"remove", "decide"} => Spared(pruneRel)
    /\ pc = "prune" => Spared(todo)

LEMMA GeneratorShips ==
    ASSUME TypeOK, NEW S, NEW f \in S, NEW p, IsGenerator(p, f)
    PROVE  Ships(p, S)
BY DEF TypeOK, IsGenerator, Ships, Excluded

\* compute_prune_set does not touch the generator of a feature that stays.
LEMMA PruneSpares ==
    ASSUME TypeOK, NEW old, NEW new, NEW f \in new, NEW p \in Under(PruneSet(old, new))
    PROVE  ~IsGenerator(p, f)
<1>. SUFFICES ASSUME IsGenerator(p, f) PROVE FALSE
    OBVIOUS
<1>1. Ships(p, new)
    BY GeneratorShips
<1>2. p \notin PruneSet(old, new)
    BY <1>1, NamesAssumption DEF PruneSet, IsGenerator, Excluded
<1>3. Entry[p].dir \notin PruneSet(old, new)
    <2>1. Entry[p].dir \notin Paths /\ DirOwner[Entry[p].dir] \in new
      BY NamesAssumption DEF IsGenerator
    <2>2. \A d \in PruneSet(old, new) : d \in Paths \/ DirOwner[d] \notin new
      BY ReleasesAssumption DEF PruneSet, TypeOK
    <2>. QED
      BY <2>1, <2>2
<1>. QED
    BY <1>2, <1>3 DEF Under

\* A step of a run that neither deletes a generator nor generates a target.
LEMMA TargetKept ==
    ASSUME TargetInv, UNCHANGED <<generated, failed, marker, sel>>,
           pc \notin {"idle", "remove"}, pc' \notin {"remove", "decide", "prune"},
           Marking' => Marking,
           \A f \in Standing, p \in Paths : IsGenerator(p, f) /\ p \in OnDisk => p \in OnDisk'
    PROVE  TargetInv'
<1>1. pc' = "idle" \/ pc' \notin {"idle", "remove"}
    OBVIOUS
<1>. QED
    BY <1>1 DEF TargetInv, Standing, IsGenerator

LEMMA StepTarget ==
    ASSUME TypeOK, OrphanInv, BaselineIsComplete, TargetInv, [Next]_vars
    PROVE  TargetInv'
<1>1. ASSUME NEW S \in SUBSET Owners, NEW r \in BOOLEAN, Start(S, r) PROVE TargetInv'
  <2>. DEFINE old == IF Detected THEN marker.sel ELSE {}
  <2>1. /\ pc' = "remove" /\ sel' = S /\ pruneRel' = Existing(PruneSet(old, S))
        /\ todo' = (old \ S) \cap Features
        /\ UNCHANGED <<generated, failed, marker, disk>>
    BY <1>1 DEF Start, ghosts
  <2>2. Standing \subseteq old /\ Standing \subseteq Features
    BY DEF TargetInv, Standing, Detected, TypeOK
  <2>. HIDE DEF old
  <2>3. Standing' \subseteq sel' \cup todo'
    BY <2>1, <2>2 DEF Standing
  <2>4. Existing(PruneSet(old, S)) \subseteq PruneSet(old, S)
    BY DEF Existing
  <2>5. Spared(pruneRel)'
    BY <2>1, <2>4, PruneSpares DEF Spared, Under, IsGenerator
  <2>. QED
    BY <2>1, <2>3, <2>5 DEF TargetInv, Standing, Marking, OnDisk, IsGenerator
<1>2. ASSUME NEW f \in Features, Remover(f) PROVE TargetInv'
  <2>1. /\ pc = "remove" /\ pc' = "remove" /\ todo' = todo \ {f}
        /\ UNCHANGED <<marker, disk, sel, pruneRel>>
        /\ Standing' \subseteq Standing \ {f}
    BY <1>2 DEF Remover, Standing
  <2>2. Spared(pruneRel)'
    BY <2>1 DEF TargetInv, Spared, Under, IsGenerator
  <2>. QED
    BY <2>1, <2>2 DEF TargetInv, Marking, OnDisk, IsGenerator
<1>3. CASE RemoversEnd
  <2>1. /\ pc = "remove" /\ todo = {} /\ pc' = "decide"
        /\ UNCHANGED <<generated, failed, marker, disk, sel, pruneRel>>
    BY <1>3 DEF RemoversEnd, runVars, ghosts
  <2>2. Spared(pruneRel)'
    BY <2>1 DEF TargetInv, Spared, Under, IsGenerator
  <2>. QED
    BY <2>1, <2>2 DEF TargetInv, Standing, Marking, OnDisk, IsGenerator
<1>4. CASE DecidePrune
  <2>1. /\ pc = "decide" /\ pc' = "prune" /\ todo' \subseteq pruneRel
        /\ UNCHANGED <<generated, failed, marker, disk, sel>>
    BY <1>4 DEF DecidePrune
  <2>2. Spared(todo)'
    BY <2>1 DEF TargetInv, Spared, Under, IsGenerator
  <2>. QED
    BY <2>1, <2>2 DEF TargetInv, Standing, Marking, OnDisk, IsGenerator
<1>5. ASSUME NEW i \in Paths \cup Dirs, Prune(i) PROVE TargetInv'
  <2>1. /\ pc = "prune" /\ pc' = "prune" /\ todo' \subseteq todo /\ i \in todo
        /\ UNCHANGED <<generated, failed, marker, sel>>
        /\ \A p \in Paths : disk'[p] = IF p \in Under({i}) THEN Gone ELSE disk[p]
    BY <1>5 DEF Prune, Delete
  <2>2. Spared(todo)'
    BY <2>1 DEF TargetInv, Spared, Under, IsGenerator
  <2>3. Under({i}) \subseteq Under(todo)
    BY <2>1 DEF Under
  <2>4. \A f \in Standing, p \in Paths : IsGenerator(p, f) => p \notin Under({i})
    BY <2>1, <2>3 DEF TargetInv, Spared, Standing, TypeOK
  <2>. QED
    BY <2>1, <2>2, <2>4 DEF TargetInv, Standing, Marking, OnDisk, IsGenerator
<1>6. CASE PruneEnd \/ WriteEnd
    BY <1>6, TargetKept DEF PruneEnd, WriteEnd, Marking, OnDisk, runVars, ghosts
\* Files are written.
<1>7. ASSUME UNCHANGED <<generated, failed, marker, sel>>, pc \notin {"idle", "remove"},
             pc' \notin {"remove", "decide", "prune"}, Marking' => Marking,
             NEW p \in Paths, NEW c \in Contents, disk' = [disk EXCEPT ![p] = c]
      PROVE  TargetInv'
  <2>1. \A q \in Paths : disk'[q] = IF q = p THEN c ELSE disk[q]
    BY <1>7 DEF TypeOK
  <2>. QED
    BY <1>7, <2>1, TargetKept, FingerprintAssumption DEF OnDisk
<1>8. ASSUME NEW p \in Paths, WriteCopy(p) PROVE TargetInv'
    BY <1>8, <1>7, FreshIsContent DEF WriteCopy, Marking
<1>9. ASSUME NEW p \in Paths, KeepSeed(p) \/ AskOverwrite(p) PROVE TargetInv'
    BY <1>9, TargetKept DEF KeepSeed, AskOverwrite, Marking, OnDisk, ghosts
<1>10. ASSUME NEW p \in Paths, WriteComposite(p) PROVE TargetInv'
  <2>1. EditIn(p) \in 0 .. MaxEdits
    BY OnDiskIsContent, BoundsAssumption DEF EditIn
  <2>2. Spliced(EditIn(p)) \in Contents
    BY <2>1, SplicedIsContent
  <2>. QED
    BY <1>10, <1>7, <2>2 DEF WriteComposite, Marking, ghosts
<1>11. ASSUME NEW yes \in BOOLEAN, AnswerOverwrite(yes) PROVE TargetInv'
  <2>1. Spliced(seen) # Gone
    BY SplicedIsContent, FingerprintAssumption DEF TypeOK
  <2>2. \A q \in Paths : disk'[q] \in {disk[q], Spliced(seen)}
    BY <1>11 DEF AnswerOverwrite, TypeOK
  <2>. QED
    BY <1>11, <2>1, <2>2, TargetKept DEF AnswerOverwrite, Marking, OnDisk, ghosts
<1>12. CASE Mark
  <2>1. /\ pc = "mark" /\ pc' = "orphans" /\ marker'.sel = sel /\ marker'.kind = "full"
        /\ UNCHANGED <<generated, failed, disk, sel>>
    BY <1>12 DEF Mark, WriteMarker, Marker
  <2>. QED
    BY <2>1 DEF TargetInv, Standing, OnDisk, IsGenerator
<1>13. ASSUME NEW prune \in BOOLEAN, HandleOrphans(prune) PROVE TargetInv'
  <2>1. PICK removed \in SUBSET Prunable :
          disk' = [p \in Paths |-> IF p \in removed THEN Gone ELSE disk[p]]
    BY <1>13 DEF HandleOrphans, Delete
  <2>2. /\ pc = "orphans" /\ pc' = "refresh"
        /\ UNCHANGED <<generated, failed, marker, sel>>
    BY <1>13 DEF HandleOrphans
  <2>3. removed \cap Managed = {}
    BY <2>2 DEF Prunable, OrphanInv, Marking
  <2>4. \A f \in Standing, p \in Paths : IsGenerator(p, f) => p \in Managed
    BY <2>2, GeneratorShips DEF TargetInv, Managed
  <2>. QED
    BY <2>1, <2>2, <2>3, <2>4, TargetKept DEF Marking, OnDisk
<1>14. ASSUME NEW S, Tidied(S), UNCHANGED <<generated, failed, marker, sel>>, Marking, Marking'
       PROVE  TargetInv'
  <2>1. \A p \in OnDisk : Tidy(disk[p]) # Gone
    BY TidyIsContent, FingerprintAssumption
  <2>2. \A p \in Paths : disk'[p] = IF p \in S \cap OnDisk THEN Tidy(disk[p]) ELSE disk[p]
    BY <1>14 DEF Tidied
  <2>. QED
    BY <1>14, <2>1, <2>2, TargetKept DEF OnDisk, Marking
<1>15. CASE RefreshLocks
    BY <1>15, <1>14 DEF RefreshLocks, Marking, runVars, ghosts
<1>16. ASSUME NEW done \in SUBSET Features, Finalize(done) PROVE TargetInv'
  <2>1. /\ pc = "finalize" /\ pc' = "format" /\ done \subseteq sel
        /\ Standing' \subseteq Standing \cup done
        /\ UNCHANGED <<disk, marker, sel>>
    BY <1>16 DEF Finalize, Standing, runVars
  <2>2. Standing' \subseteq sel /\ marker.sel = sel
    BY <2>1 DEF TargetInv, Marking
  <2>3. \A f \in sel, p \in Paths : IsGenerator(p, f) => p \in OnDisk
    BY <2>1, GeneratorShips DEF BaselineIsComplete, Managed
  <2>. QED
    BY <2>1, <2>2, <2>3 DEF TargetInv, Marking, OnDisk, IsGenerator
<1>17. ASSUME NEW yes \in BOOLEAN, Format(yes) PROVE TargetInv'
    BY <1>17, <1>14 DEF Format, Marking, runVars, ghosts
<1>18. CASE Record
  <2>1. /\ pc' = "idle" /\ marker'.sel = sel /\ marker'.kind = "full"
        /\ UNCHANGED <<generated, failed, disk>> /\ pc = "record"
    BY <1>18 DEF Record, Reset, WriteMarker, Marker
  <2>. QED
    BY <2>1 DEF TargetInv, Standing, Marking, OnDisk, IsGenerator
<1>19. CASE Stop \/ Upgrade
  <2>1. pc' = "idle" /\ UNCHANGED <<generated, failed, marker, disk>>
    BY <1>19 DEF Stop, Reset, Upgrade, ghosts
  <2>. QED
    BY <2>1 DEF TargetInv, Standing, Marking, OnDisk, IsGenerator
<1>20. ASSUME NEW p \in Paths, Edit(p) PROVE TargetInv'
  <2>. DEFINE new == [base |-> IF p \in OnDisk THEN disk[p].base ELSE 0,
                      edit |-> edits + 1, tidy |-> FALSE]
  <2>1. edits + 1 \in 0 .. MaxEdits /\ 0 \in 0 .. Releases
    BY <1>20, BoundsAssumption, ReleasesAssumption DEF TypeOK, Edit
  <2>2. new \in Contents
    BY <2>1, OnDiskIsContent DEF Contents
  <2>3. /\ \A q \in Paths : disk'[q] = IF q = p THEN new ELSE disk[q]
        /\ UNCHANGED <<generated, failed, marker, sel, pc, todo, pruneRel>>
    BY <1>20 DEF Edit, TypeOK, runVars
  <2>. HIDE DEF new
  <2>4. OnDisk \subseteq OnDisk'
    BY <2>2, <2>3, FingerprintAssumption DEF OnDisk
  <2>5. Spared(pruneRel)' = Spared(pruneRel) /\ Spared(todo)' = Spared(todo)
    BY <2>3 DEF Spared, Under, IsGenerator
  <2>. QED
    BY <2>3, <2>4, <2>5 DEF TargetInv, Standing, Marking, IsGenerator
<1>21. CASE UNCHANGED vars
    BY <1>21 DEF vars, runVars, ghosts, TargetInv, Standing, Marking, OnDisk, Spared, Under,
       IsGenerator
<1>. QED
    BY <1>1, <1>2, <1>3, <1>4, <1>5, <1>6, <1>8, <1>9, <1>10, <1>11, <1>12, <1>13, <1>15,
       <1>16, <1>17, <1>18, <1>19, <1>20, <1>21 DEF Next, Run, Scaffold

\* The targets that a feature generated into the user's BUILD files have the feature's
\* directory to load from, unless its remover failed: run_feature_removers comes before
\* the deletion, in the run that deselects the feature and after any run that stopped.
THEOREM TargetsHaveRules == Spec => []TargetsDoNotDangle
<1>1. Init => WrittenFacts /\ TargetInv
  <2>. SUFFICES ASSUME Init PROVE WrittenFacts /\ TargetInv
    OBVIOUS
  <2>1. pc = "idle" /\ Standing = {}
    BY DEF Init, Standing
  <2>2. marker.kind = "absent" => marker.sel = {}
    <3>1. \/ marker = Marker("absent", {}, NoTable, NoTable)
          \/ \E S, files : \/ marker = Marker("plain", S, files, NoTable)
                          \/ marker = Marker("full", S, files, NoTable)
      BY DEF Init
    <3>. QED
      BY <3>1 DEF Marker
  <2>. QED
    BY <2>1, <2>2 DEF WrittenFacts, WrittenInv, BaselineIsComplete, TargetInv, Marking
<1>2. TypeOK /\ OrphanInv /\ WrittenFacts /\ TargetInv /\ [Next]_vars
        => WrittenFacts' /\ TargetInv'
    BY StepWritten, StepTarget DEF WrittenFacts
<1>3. TypeOK /\ TargetInv => TargetsDoNotDangle
  <2>. SUFFICES ASSUME TypeOK, TargetInv, NEW f \in generated, f \notin failed
                PROVE  \E p \in OnDisk : Entry[p].dir \in Dirs /\ DirOwner[Entry[p].dir] = f
    BY DEF TargetsDoNotDangle
  <2>1. PICK p \in Paths : IsGenerator(p, f)
    BY GeneratorAssumption DEF TypeOK, IsGenerator
  <2>. QED
    BY <2>1 DEF TargetInv, Standing, IsGenerator
<1>. QED
    BY <1>1, <1>2, <1>3, TypeCorrect, PTL DEF Spec
=============================================================================

----------------------------- MODULE JdkInstall -----------------------------
(***************************************************************************)
(* The installer of local JDKs                                             *)
(* (tools/java/toolchains/local_corretto_toolchains_setup.sh), run again   *)
(* and again in the directory it installs to, for one version of Java: the *)
(* download of the latest archive, its checksum, the extraction, the       *)
(* choice of the extracted directory by its time, the exchange of the      *)
(* link, the cleanup.  A run may be stopped in every step, within a        *)
(* deletion or an extraction too.                                          *)
(*                                                                         *)
(* On Linux release r is extracted to a directory of its own, d = r.  On   *)
(* macOS all releases of a version are extracted to the same directory,    *)
(* amazon-corretto-<version>.jdk, one over the other.  On Windows each has *)
(* a directory jdk<release>, which the pattern of the script misses.       *)
(* An extraction that ends gives the directory the time at which the       *)
(* release was built; one that is stopped, or a deletion that is, leaves a *)
(* time of this machine.  Only the order of these times matters.           *)
(***************************************************************************)
EXTENDS Download

CONSTANT NoLink     \* there is no link

ASSUME LinkAssumption == NoLink \notin Nat

VARIABLES
    pc,         \* where the run is
    md5,        \* the machine has a tool for the checksum
    platform,   \* its operating system
    sum,        \* the release of the checksum that was fetched
    dirs,       \* [Releases -> the releases that have files in the directory,
                \* and Torn when files are missing; {} if there is none]
    stamped,    \* what has a time of this machine: the file (0), directories
    earlier,    \* the pairs of them of which the first has the earlier time
    older,      \* [Releases -> the directories among them that are older than
                \* the release, for a release that was published after them]
    chosen,     \* extracted_dir
    link,       \* what amazon_corretto_jdk_<version>_latest leads to
    outcome,    \* how the last run ended
    quiet       \* nothing fails and nobody interrupts any more

machine == <<md5, platform>>
times == <<stamped, earlier>>
dirVars == <<dirs, older>>
vars == <<latest, downloadVars, pc, machine, sum, dirVars, times, chosen, link, outcome, quiet>>

-----------------------------------------------------------------------------
TheFile == 0
Torn == 0
Platforms == {"linux", "macos", "windows"}
PCs == {"idle", "download", "sum", "hung", "validate", "reject", "extract", "find",
        "link", "rmold", "rmlink", "ln", "cleanup"}

Whole(f) == \E r \in Releases : f = Archive(r)

\* The directory in which the archive of release r has its files.
Home(r) == IF platform = "macos" THEN 1 ELSE r

\* Directories that are there, and those that match amazon-corretto-<version>.*
Present == {d \in Releases : dirs[d] # {}}
Found == {d \in Present : platform # "windows"}

\* x gets the time of now; x gets an older time, or is deleted.
Others(x) == {p \in earlier : p[1] # x /\ p[2] # x}
Touch(x) ==
    /\ stamped' = stamped \cup {x}
    /\ earlier' = Others(x) \cup {<<y, x>> : y \in stamped \ {x}}
Forget(x) ==
    /\ stamped' = stamped \ {x}
    /\ earlier' = Others(x)
NotOlder(d) == [r \in Releases |-> older[r] \ {d}]

\* Directory a is more recent than b.
MoreRecent(a, b) ==
    IF a \in stamped
    THEN IF b \in stamped THEN <<b, a>> \in earlier ELSE a \notin older[b]
    ELSE IF b \in stamped THEN b \in older[a] ELSE a > b

\* find -newer "$filename": a directory with the time of its build is older
\* than the archive, which was downloaded later.
NewerThanFile == {d \in Found : <<TheFile, d>> \in earlier}
MostRecent == {d \in Found : \A e \in Found \ {d} : ~MoreRecent(e, d)}

Init ==
    /\ latest = 1
    /\ file = <<>> /\ dl = "off"
    /\ attempt = 0 /\ stalled = 0 /\ restarted = FALSE
    /\ pc = "idle"
    /\ md5 \in BOOLEAN /\ platform \in Platforms
    /\ sum = 1
    /\ dirs = [d \in Releases |-> {}]
    /\ stamped = {} /\ earlier = {}
    /\ older = [r \in Releases |-> {}]
    /\ chosen = 1
    /\ link = NoLink
    /\ outcome = "none"
    /\ quiet = FALSE

-----------------------------------------------------------------------------
Goto(label) == pc' = label

\* error: the script exits, and the next run begins from the start.
Ends(how) == Goto("idle") /\ outcome' = how /\ Return

Start ==
    /\ pc = "idle"
    /\ Call
    /\ Goto("download")
    /\ outcome' = "running"
    /\ UNCHANGED <<machine, sum, dirVars, times, chosen, link, quiet>>

\* One attempt of curl; what it writes changes the time of the file.
Attempt ==
    /\ pc = "download"
    /\ \/ Completes
       \/ Refuses
       \/ ~quiet /\ \E n \in 0 .. Missing : Breaks(n)
    /\ IF file' = file THEN UNCHANGED times
       ELSE IF file' = <<>> THEN Forget(TheFile) ELSE Touch(TheFile)
    /\ UNCHANGED <<pc, machine, sum, dirVars, chosen, link, outcome, quiet>>

Downloaded ==
    /\ pc = "download" /\ dl = "ok"
    /\ Goto("sum")
    /\ Return
    /\ UNCHANGED <<latest, file, machine, sum, dirVars, times, chosen, link, outcome, quiet>>

DownloadFails ==
    /\ pc = "download" /\ dl = "failed"
    /\ Ends("failed")
    /\ UNCHANGED <<latest, file, machine, sum, dirVars, times, chosen, link, quiet>>

\* The checksum has an address of its own.
FetchSum ==
    /\ pc = "sum"
    /\ sum' = latest
    /\ Goto("validate")
    /\ UNCHANGED <<latest, downloadVars, machine, dirVars, times, chosen, link, outcome, quiet>>

FetchSumFails ==
    /\ pc = "sum" /\ ~quiet
    /\ Ends("failed")
    /\ UNCHANGED <<latest, file, machine, sum, dirVars, times, chosen, link, quiet>>

\* This curl has no time limit.
FetchSumHangs ==
    /\ pc = "sum" /\ ~quiet
    /\ Goto("hung")
    /\ UNCHANGED <<latest, downloadVars, machine, sum, dirVars, times, chosen, link, outcome, quiet>>

\* Mutant: the length is taken for the checksum.
ValidateLength ==
    /\ pc = "validate"
    /\ Goto(IF md5 /\ Len(file) # Size[sum] THEN "reject" ELSE "extract")
    /\ UNCHANGED <<latest, downloadVars, machine, sum, dirVars, times, chosen, link, outcome, quiet>>

\* validate_checksum, which a machine without a tool for it skips.
Validate ==
    /\ pc = "validate"
    /\ Goto(IF md5 /\ file # Archive(sum) THEN "reject" ELSE "extract")
    /\ UNCHANGED <<latest, downloadVars, machine, sum, dirVars, times, chosen, link, outcome, quiet>>

\* Mutant: the rejected file is kept.
RejectKept ==
    /\ pc = "reject"
    /\ Ends("failed")
    /\ UNCHANGED <<latest, file, machine, sum, dirVars, times, chosen, link, quiet>>

Reject ==
    /\ pc = "reject"
    /\ file' = <<>>
    /\ Forget(TheFile)
    /\ Ends("failed")
    /\ UNCHANGED <<latest, machine, sum, dirVars, chosen, link, quiet>>

\* tar restores the time of the directory when all is extracted, and leaves
\* there what other releases have and this one has not.
Extract ==
    /\ pc = "extract" /\ Whole(file)
    /\ LET d == Home(file[1]) IN
        /\ dirs' = [dirs EXCEPT ![d] = (@ \ {Torn}) \cup {file[1]}]
        /\ Forget(d)
        /\ older' = NotOlder(d)
    /\ Goto("find")
    /\ UNCHANGED <<latest, downloadVars, machine, sum, chosen, link, outcome, quiet>>

\* unzip asks before it replaces a file, and may be told to keep them all.
UnzipKeeps ==
    /\ pc = "extract" /\ Whole(file)
    /\ platform = "windows" /\ file[1] \in Present
    /\ Goto("find")
    /\ UNCHANGED <<latest, downloadVars, machine, sum, dirVars, times, chosen, link, outcome, quiet>>

\* A directory some of whose files were deleted, or written from release r.
LeavesTorn(d, from) ==
    /\ dirs' = [dirs EXCEPT ![d] = @ \cup from \cup {Torn}]
    /\ \/ Touch(d) /\ older' = NotOlder(d)
       \/ dirs[d] # {} /\ UNCHANGED <<times, older>>

\* tar fails on bytes that are no archive, or on a full disk.
ExtractFails ==
    /\ pc = "extract" /\ (quiet => ~Whole(file))
    /\ LeavesTorn(Home(file[1]), {file[1]}) \/ UNCHANGED <<dirVars, times>>
    /\ Ends("failed")
    /\ UNCHANGED <<latest, file, machine, sum, chosen, link, quiet>>

\* The directory that is newer than the file, or else the most recent one.
Find ==
    /\ pc = "find" /\ Found # {}
    /\ chosen' \in IF NewerThanFile # {} THEN NewerThanFile ELSE MostRecent
    /\ Goto("link")
    /\ UNCHANGED <<latest, downloadVars, machine, sum, dirVars, times, link, outcome, quiet>>

\* Could not find extracted directory: the file stays for the next run.
FindFails ==
    /\ pc = "find" /\ Found = {}
    /\ Ends("failed")
    /\ UNCHANGED <<latest, file, machine, sum, dirVars, times, chosen, link, quiet>>

\* Mutant: the link is exchanged although it leads there already.
CompareNothing ==
    /\ pc = "link"
    /\ Goto(IF link \in Present THEN "rmold" ELSE "rmlink")
    /\ UNCHANGED <<latest, downloadVars, machine, sum, dirVars, times, chosen, link, outcome, quiet>>

\* create_symlink: nothing to do, or the old directory goes, and then the link.
Compare ==
    /\ pc = "link"
    /\ Goto(IF link = chosen THEN "cleanup" ELSE IF link \in Present THEN "rmold" ELSE "rmlink")
    /\ UNCHANGED <<latest, downloadVars, machine, sum, dirVars, times, chosen, link, outcome, quiet>>

RemoveOld ==
    /\ pc = "rmold"
    /\ dirs' = [dirs EXCEPT ![link] = {}]
    /\ Forget(link)
    /\ older' = NotOlder(link)
    /\ Goto("rmlink")
    /\ UNCHANGED <<latest, downloadVars, machine, sum, chosen, link, outcome, quiet>>

RemoveLink ==
    /\ pc = "rmlink"
    /\ link' = NoLink
    /\ Goto("ln")
    /\ UNCHANGED <<latest, downloadVars, machine, sum, dirVars, times, chosen, outcome, quiet>>

MakeLink ==
    /\ pc = "ln"
    /\ link' = chosen
    /\ Goto("cleanup")
    /\ UNCHANGED <<latest, downloadVars, machine, sum, dirVars, times, chosen, outcome, quiet>>

Cleanup ==
    /\ pc = "cleanup"
    /\ file' = <<>>
    /\ Forget(TheFile)
    /\ Ends("installed")
    /\ UNCHANGED <<latest, machine, sum, dirVars, chosen, link, quiet>>

\* The run is stopped, with what the command that ran had done by then.
Interrupt ==
    /\ pc # "idle" /\ (quiet => pc = "hung")
    /\ Ends("stopped")
    /\ CASE pc = "download" /\ dl = "on" ->
                /\ \E n \in 0 .. Missing :
                    /\ file' = file \o Pieces(latest, n)
                    /\ IF n = 0 THEN UNCHANGED times ELSE Touch(TheFile)
                /\ UNCHANGED dirVars
         [] pc = "extract" ->
                /\ LeavesTorn(Home(file[1]), {file[1]}) \/ UNCHANGED <<dirVars, times>>
                /\ UNCHANGED file
         [] pc = "rmold" ->
                /\ LeavesTorn(link, {}) \/ UNCHANGED <<dirVars, times>>
                /\ UNCHANGED file
         [] OTHER -> UNCHANGED <<file, dirVars, times>>
    /\ UNCHANGED <<latest, machine, sum, chosen, link, quiet>>

\* A release was built before it is published: before, between or after the
\* times of this machine, but after the release before it.
NextRelease ==
    /\ Publish
    /\ \E before \in SUBSET (stamped \ {TheFile}) :
        /\ older[latest] \subseteq before
        /\ \A p \in earlier : p[2] \in before => p[1] \in before \cup {TheFile}
        /\ older' = [older EXCEPT ![latest + 1] = before]
    /\ UNCHANGED <<downloadVars, pc, machine, sum, dirs, times, chosen, link, outcome, quiet>>

CalmDown ==
    /\ ~quiet /\ quiet' = TRUE
    /\ UNCHANGED <<latest, downloadVars, pc, machine, sum, dirVars, times, chosen, link, outcome>>

RunStep ==
    \/ Attempt \/ Downloaded \/ DownloadFails \/ FetchSum \/ FetchSumFails
    \/ FetchSumHangs \/ Validate \/ Reject \/ Extract \/ UnzipKeeps \/ ExtractFails
    \/ Find \/ FindFails \/ Compare \/ RemoveOld \/ RemoveLink \/ MakeLink \/ Cleanup

Next == Start \/ RunStep \/ Interrupt \/ NextRelease \/ CalmDown

Spec == Init /\ [][Next]_vars

\* A run takes its steps (the curl of the archive has time limits, that of the
\* checksum may hang), and who has seen a run fail starts another.  Nobody has
\* to stop a run that hangs.
Fairness == WF_vars(RunStep) /\ WF_vars(Start /\ outcome # "installed")
FairSpec == Spec /\ Fairness

-----------------------------------------------------------------------------
\* Types of the variables.
TypeOK ==
    /\ DownloadTypeOK
    /\ pc \in PCs
    /\ md5 \in BOOLEAN /\ platform \in Platforms
    /\ sum \in Releases
    /\ dirs \in [Releases -> SUBSET (Releases \cup {Torn})]
    /\ stamped \in SUBSET (Releases \cup {TheFile})
    /\ earlier \in SUBSET (stamped \X stamped)
    /\ older \in [Releases -> SUBSET Releases]
    /\ chosen \in Releases
    /\ link \in Releases \cup {NoLink}
    /\ outcome \in {"none", "running", "failed", "stopped", "installed"}
    /\ quiet \in BOOLEAN

\* What a run that reports success has linked.  Linux: the release whose
\* checksum it has verified, whole and alone; or a directory that a run before
\* it left torn (install_rerun shows that it may be).  macOS: every file of the
\* verified release, with files of older ones among them.  Windows: no run
\* reports success.
Verified(d) ==
    \/ platform = "linux" /\ (dirs[d] = {sum} \/ Torn \in dirs[d])
    \/ platform = "macos" /\ sum \in dirs[d] /\ Torn \notin dirs[d]
InstalledIsVerified == outcome = "installed" /\ md5 => Verified(link)

\* A JDK in use is only given up with a verified archive in hand: while the
\* link leads to a directory that misses no file, files are missing from it
\* only when that archive is being extracted over it (the same release, or on
\* macOS a later one), or when another directory was chosen.  That one is the
\* verified release, whole, or a torn one: then a whole JDK does go for a torn
\* one.
LinkedComplete == link \in Present /\ Torn \notin dirs[link]
GivenUpForAnother ==
    [][md5 /\ LinkedComplete /\ link' = link /\ ~LinkedComplete' =>
          /\ file = Archive(sum)
          /\ \/ link = Home(sum) /\ Torn \in dirs'[link]
             \/ chosen # link /\ Verified(chosen)]_vars

\* A download ends, however the network behaves.
DownloadEnds == pc = "download" ~> pc # "download"

\* Whatever runs that failed or were stopped have left behind, a partial of
\* an older release too: when nothing fails any more, a run succeeds, but on
\* Windows, and unless one hangs already.
Recovers == quiet /\ md5 /\ platform # "windows" /\ pc # "hung" ~> outcome = "installed"

\* "Successfully installed": the link leads to a directory that misses no file.
InstalledIsWhole == outcome = "installed" => LinkedComplete
=============================================================================

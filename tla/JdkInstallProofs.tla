-------------------------- MODULE JdkInstallProofs --------------------------
(***************************************************************************)
(* Proofs about resumable downloads and the JDK installer, for any number  *)
(* of releases of any sizes and any bounds on attempts.                    *)
(***************************************************************************)
EXTENDS JdkInstall, TLAPS

USE DEF Releases, TheFile, Torn

\* A download that goes on has attempts left, or has just used its restart.
DownloadInv ==
    /\ dl = "on" => /\ stalled < MaxStalled
                    /\ attempt < MaxAttempts \/ (restarted /\ attempt <= MaxAttempts)
    /\ AttemptsBounded
    /\ pc # "download" => dl = "off"
    /\ dl = "ok" => file # <<>>
    /\ pc \in {"sum", "validate", "extract"} => file # <<>>

\* Times of this machine belong to torn directories; what is extracted or
\* fetched was published; a directory of its own has files of its release only.
DirInv ==
    \A d \in Releases : /\ dirs[d] # {} => d <= latest
                        /\ d \in stamped => Torn \in dirs[d]
                        /\ platform = "linux" => dirs[d] \subseteq {d, Torn}
                        /\ platform = "macos" /\ dirs[d] # {} => d = 1
PieceInv == \A i \in 1 .. Len(file) : file[i] <= latest

\* From the checksum on, no directory is of a later release; from the
\* extraction on, the file is the release it belongs to.
Checked == {"extract", "find", "link", "rmold", "rmlink", "ln", "cleanup"}
SumInv ==
    /\ sum <= latest
    /\ md5 /\ pc \in {"validate"} \cup Checked => \A d \in Releases : dirs[d] # {} => d <= sum
    /\ md5 /\ pc \in Checked => file = Archive(sum)
    /\ md5 /\ pc = "find" /\ platform # "windows" => sum \in dirs[Home(sum)] /\ Torn \notin dirs[Home(sum)]

\* What is going to be linked is the verified release, or torn.
ChosenInv ==
    /\ md5 /\ pc \in {"link", "rmold", "rmlink", "ln", "cleanup"} => Verified(chosen)
    /\ pc = "rmold" => link # chosen /\ link \in Present
    /\ pc = "cleanup" => link = chosen
    /\ outcome = "installed" => pc = "idle" /\ link \in Releases
    /\ InstalledIsVerified

IInv == TypeOK /\ DownloadInv /\ DirInv /\ PieceInv /\ SumInv /\ ChosenInv

-----------------------------------------------------------------------------
(***************************************************************************)
(* Sequences of pieces.                                                    *)
(***************************************************************************)
LEMMA PiecesProperties ==
  ASSUME NEW r \in Releases, NEW n \in Nat
  PROVE  /\ Pieces(r, n) \in Seq(Releases)
         /\ Len(Pieces(r, n)) = n
         /\ \A i \in 1 .. n : Pieces(r, n)[i] = r
BY ReleaseAssumption DEF Pieces

LEMMA ResumeProperties ==
  ASSUME TypeOK, NEW n \in Nat
  PROVE  /\ file \o Pieces(latest, n) \in Seq(Releases)
         /\ PieceInv => \A i \in 1 .. Len(file \o Pieces(latest, n)) : (file \o Pieces(latest, n))[i] <= latest
         /\ (n > 0 \/ file # <<>>) => file \o Pieces(latest, n) # <<>>
<1> DEFINE p == Pieces(latest, n)
<1>1. /\ file \in Seq(Releases) /\ p \in Seq(Releases) /\ Len(p) = n /\ latest \in Releases
      /\ \A i \in 1 .. n : p[i] = latest
  BY PiecesProperties DEF TypeOK, DownloadTypeOK
<1>2. latest \in Nat /\ latest <= latest
  BY <1>1, ReleaseAssumption
<1>. HIDE DEF p
<1>3. file \o p \in Seq(Releases) /\ Len(file \o p) = Len(file) + n
  BY <1>1
<1>4. \A i \in 1 .. Len(file \o p) : (file \o p)[i] = IF i <= Len(file) THEN file[i] ELSE p[i - Len(file)]
  BY <1>1
<1>5. PieceInv => \A i \in 1 .. Len(file \o p) : (file \o p)[i] <= latest
  <2> SUFFICES ASSUME PieceInv, NEW i \in 1 .. Len(file \o p) PROVE (file \o p)[i] <= latest
    OBVIOUS
  <2>1. Len(file) \in Nat
    BY <1>1
  <2>2. CASE i <= Len(file)
    BY <1>4, <2>1, <2>2, <1>3 DEF PieceInv
  <2>3. CASE ~(i <= Len(file))
    <3>1. i - Len(file) \in 1 .. n
      BY <1>3, <2>1, <2>3
    <3> QED BY <1>1, <1>2, <1>4, <2>3, <3>1
  <2> QED BY <2>2, <2>3
<1>6. (n > 0 \/ file # <<>>) => file \o p # <<>>
  BY <1>1, <1>3
<1> QED BY <1>3, <1>5, <1>6 DEF p

LEMMA ArchiveProperties ==
  ASSUME NEW r \in Releases
  PROVE  Archive(r) # <<>> /\ Archive(r)[1] = r
<1>1. Size[r] \in Nat /\ Size[r] >= 1
  BY SizeAssumption
<1> QED BY <1>1, PiecesProperties DEF Archive, Pieces

LEMMA MissingType == TypeOK => Missing \in Nat /\ (file = <<>> => Missing > 0)
<1> SUFFICES ASSUME TypeOK PROVE Missing \in Nat /\ (file = <<>> => Missing > 0)
  OBVIOUS
<1>1. Size[latest] \in Nat /\ Size[latest] > 0 /\ Len(file) \in Nat
  BY SizeAssumption DEF TypeOK, DownloadTypeOK
<1>2. file = <<>> => Len(file) = 0
  OBVIOUS
<1> QED BY <1>1, <1>2 DEF Missing

\* The times stay times of what has one.
LEMMA TimesType ==
  ASSUME TypeOK, NEW x \in Releases \cup {TheFile}, Touch(x) \/ Forget(x)
  PROVE  /\ stamped' \in SUBSET (Releases \cup {TheFile})
         /\ earlier' \in SUBSET (stamped' \X stamped')
         /\ stamped' \subseteq stamped \cup {x}
         /\ Forget(x) => x \notin stamped'
<1>1. stamped \subseteq Releases \cup {TheFile} /\ earlier \subseteq stamped \X stamped
  BY DEF TypeOK
<1>2. CASE Touch(x)
  BY <1>1, <1>2 DEF Touch, Others, Forget
<1>3. CASE Forget(x)
  BY <1>1, <1>3 DEF Forget, Others
<1> QED BY <1>2, <1>3

\* The counters of a download, while it goes on and when it is over.
LEMMA CountersType ==
  ASSUME TypeOK, AttemptsBounded, UNCHANGED counters \/ FreshLocals
  PROVE  attempt' \in Nat /\ stalled' \in 0 .. MaxStalled /\ restarted' \in BOOLEAN /\ AttemptsBounded'
<1>1. CASE UNCHANGED counters
  BY <1>1 DEF TypeOK, DownloadTypeOK, counters, AttemptsBounded
<1>2. CASE FreshLocals
  <2>1. restarted' \in BOOLEAN
    BY <1>2, Zenon DEF FreshLocals
  <2>2. attempt' = 0 /\ stalled' = 0 /\ MaxStalled \in Nat /\ MaxAttempts \in Nat
    BY <1>2, AttemptAssumption DEF FreshLocals
  <2> QED BY <2>1, <2>2 DEF AttemptsBounded
<1> QED BY <1>1, <1>2

LEMMA FirstElement ==
  ASSUME NEW S, NEW s \in Seq(S), s # <<>>
  PROVE  1 \in 1 .. Len(s) /\ s[1] \in S
<1>1. 1 \in 1 .. Len(s)
  OBVIOUS
<1> QED BY <1>1

LEMMA ElementsAre ==
  ASSUME NEW S, NEW s \in Seq(S), NEW i \in 1 .. Len(s)
  PROVE  s[i] \in S
OBVIOUS

LEMMA FirstPiece ==
  ASSUME IInv, pc = "extract"
  PROVE  /\ file[1] \in Releases /\ (md5 => file[1] = sum)
         /\ Home(file[1]) \in Releases /\ Home(file[1]) <= latest
         /\ platform = "macos" => Home(file[1]) = 1
         /\ platform # "macos" => Home(file[1]) = file[1]
         /\ md5 => Home(file[1]) <= sum
<1>1. file \in Seq(Releases) /\ file # <<>> /\ sum \in Releases
  BY DEF IInv, TypeOK, DownloadTypeOK, DownloadInv
<1>2. 1 \in 1 .. Len(file) /\ file[1] \in Releases
  BY <1>1, FirstElement, Zenon
<1>3. md5 => file = Archive(sum)
  BY DEF IInv, SumInv, Checked
<1>5. file[1] <= latest
  BY <1>2 DEF IInv, PieceInv
<1>6. md5 => file[1] = sum
  BY <1>1, <1>3, ArchiveProperties
<1>7. 1 \in Releases /\ latest \in Releases /\ \A r \in Releases : r \in Nat /\ 1 <= r
  BY ReleaseAssumption DEF IInv, TypeOK, DownloadTypeOK
<1> QED BY <1>1, <1>2, <1>5, <1>6, <1>7 DEF Home

-----------------------------------------------------------------------------
(***************************************************************************)
(* The invariant.                                                          *)
(***************************************************************************)
LEMMA InvInit == Init => IInv
<1> SUFFICES ASSUME Init PROVE IInv
  OBVIOUS
<1>1. 1 \in Releases /\ MaxStalled \in Nat \ {0} /\ MaxAttempts \in Nat \ {0}
  BY ReleaseAssumption, AttemptAssumption
<1>2. DownloadTypeOK
  <2>1. file \in Seq(Releases)
    BY DEF Init
  <2>2. restarted \in BOOLEAN
    BY Zenon DEF Init
  <2> QED BY <1>1, <2>1, <2>2 DEF Init, DownloadTypeOK
<1>3. TypeOK
  BY <1>1, <1>2 DEF Init, TypeOK, PCs
<1>4. DownloadInv
  BY <1>1 DEF Init, DownloadInv, AttemptsBounded
<1>5. DirInv /\ PieceInv
  BY DEF Init, DirInv, PieceInv
<1>6. SumInv /\ ChosenInv
  BY LinkAssumption DEF Init, SumInv, ChosenInv, Checked, InstalledIsVerified
<1> QED BY <1>3, <1>4, <1>5, <1>6 DEF IInv

\* The torn directory that a stopped or failed command leaves.
LEMMA TornLeft ==
  ASSUME TypeOK, DirInv, UNCHANGED <<latest, machine>>, NEW d \in Releases, d <= latest,
         platform = "macos" => d = 1,
         NEW from \in SUBSET Releases, platform = "linux" => from \subseteq {d},
         LeavesTorn(d, from) \/ UNCHANGED <<dirVars, times>>
  PROVE  /\ dirs' \in [Releases -> SUBSET (Releases \cup {Torn})]
         /\ older' \in [Releases -> SUBSET Releases]
         /\ stamped' \in SUBSET (Releases \cup {TheFile})
         /\ earlier' \in SUBSET (stamped' \X stamped')
         /\ DirInv'
<1>1. CASE LeavesTorn(d, from)
  <2>1. /\ dirs \in [Releases -> SUBSET (Releases \cup {Torn})]
        /\ dirs' = [dirs EXCEPT ![d] = @ \cup from \cup {Torn}]
    BY <1>1 DEF LeavesTorn, TypeOK
  <2>2. /\ dirs' \in [Releases -> SUBSET (Releases \cup {Torn})]
        /\ \A e \in Releases : dirs'[e] = IF e = d THEN dirs[d] \cup from \cup {Torn} ELSE dirs[e]
    BY <2>1
  <2>3. /\ stamped' \in SUBSET (Releases \cup {TheFile})
        /\ earlier' \in SUBSET (stamped' \X stamped')
        /\ stamped' \subseteq stamped \cup {d}
    <3>1. CASE Touch(d)
      BY <3>1, TimesType
    <3>2. CASE UNCHANGED times
      BY <3>2 DEF TypeOK, times
    <3> QED BY <1>1, <3>1, <3>2 DEF LeavesTorn
  <2>4. older' \in [Releases -> SUBSET Releases]
    BY <1>1 DEF LeavesTorn, NotOlder, TypeOK
  <2>5. DirInv'
    BY <2>2, <2>3 DEF DirInv, machine
  <2> QED BY <2>2, <2>3, <2>4, <2>5
<1>2. CASE UNCHANGED <<dirVars, times>>
  BY <1>2 DEF TypeOK, DirInv, dirVars, times, machine
<1> QED BY <1>1, <1>2

\* A step that changes the file alone, outside of the verified part of a run.
LEMMA FileChanged ==
  ASSUME IInv, pc \in {"download", "reject"},
         UNCHANGED <<latest, machine, sum, dirVars, chosen, link, quiet>>,
         pc' \in PCs \ Checked, pc' # "validate",
         outcome' \in {"none", "running", "failed", "stopped"},
         DownloadTypeOK', DownloadInv', PieceInv',
         Touch(TheFile) \/ Forget(TheFile) \/ UNCHANGED times
  PROVE  IInv'
<1>1. TypeOK /\ DirInv /\ SumInv
  BY DEF IInv
<1>2. /\ stamped' \in SUBSET (Releases \cup {TheFile})
      /\ earlier' \in SUBSET (stamped' \X stamped')
      /\ stamped' \subseteq stamped \cup {TheFile}
  BY <1>1, TimesType DEF times, TypeOK
<1>3. TypeOK'
  BY <1>1, <1>2 DEF TypeOK, dirVars, machine
<1>4. DirInv'
  BY <1>1, <1>2, ReleaseAssumption DEF DirInv, dirVars, machine
<1>5. SumInv'
  BY <1>1 DEF SumInv, Checked, dirVars, machine
<1>6. ChosenInv'
  BY DEF ChosenInv, Checked, InstalledIsVerified
<1> QED BY <1>3, <1>4, <1>5, <1>6 DEF IInv

LEMMA AttemptInv ==
  ASSUME IInv, Attempt
  PROVE  IInv'
<1>1. /\ TypeOK /\ DownloadTypeOK /\ DownloadInv /\ PieceInv /\ pc = "download" /\ pc' = pc
      /\ Missing \in Nat /\ (file = <<>> => Missing > 0)
      /\ MaxAttempts \in Nat /\ MaxStalled \in Nat
      /\ attempt \in Nat /\ stalled \in 0 .. MaxStalled /\ restarted \in BOOLEAN
  BY MissingType, AttemptAssumption DEF IInv, Attempt, TypeOK, DownloadTypeOK
<1>2. outcome' \in {"none", "running", "failed", "stopped"}
  BY <1>1 DEF Attempt, IInv, ChosenInv, TypeOK
<1>3. UNCHANGED <<latest, machine, sum, dirVars, chosen, link, quiet>>
  BY DEF Attempt, Completes, Breaks, Refuses
<1>4. ASSUME NEW n \in Nat, n > 0 \/ file # <<>>, file' = file \o Pieces(latest, n)
      PROVE  file' \in Seq(Releases) /\ PieceInv' /\ file' # <<>>
  BY <1>1, <1>3, <1>4, ResumeProperties DEF PieceInv
<1>5. CASE Completes
  <2>1. file' \in Seq(Releases) /\ PieceInv' /\ file' # <<>>
    <3>1. Missing > 0 \/ file # <<>>
      BY <1>1
    <3> QED BY <1>1, <1>4, <1>5, <3>1 DEF Completes
  <2>2. DownloadTypeOK'
    BY <1>1, <1>5, <2>1 DEF Completes, DownloadTypeOK
  <2>3. DownloadInv'
    BY <1>1, <1>5, <2>1 DEF Completes, DownloadInv, AttemptsBounded
  <2> QED BY <1>1, <1>2, <1>3, <2>1, <2>2, <2>3, FileChanged DEF Attempt, PCs, Checked
<1>6. ASSUME NEW n \in 0 .. Missing, Breaks(n) PROVE IInv'
  <2>1. file' \in Seq(Releases) /\ PieceInv'
    <3>1. n \in Nat /\ file' = file \o Pieces(latest, n) /\ latest' = latest
      BY <1>1, <1>6 DEF Breaks
    <3> QED BY <1>1, <3>1, ResumeProperties DEF PieceInv
  <2>2. /\ dl = "on" /\ attempt' = attempt + 1 /\ UNCHANGED <<latest, restarted>>
        /\ stalled' = IF n > 0 THEN 0 ELSE stalled + 1
        /\ dl' = IF stalled' >= MaxStalled \/ attempt' >= MaxAttempts THEN "failed" ELSE "on"
        /\ stalled < MaxStalled /\ (attempt < MaxAttempts \/ (restarted /\ attempt <= MaxAttempts))
    BY <1>1, <1>6 DEF Breaks, DownloadInv
  <2>3. stalled' \in 0 .. MaxStalled /\ attempt' \in Nat
    BY <1>1, <2>2
  <2>4. DownloadTypeOK'
    BY <1>1, <2>1, <2>2, <2>3 DEF DownloadTypeOK
  <2>5. DownloadInv'
    <3>1. dl' # "ok" /\ pc' = "download"
      BY <1>1, <2>2
    <3>2. dl' = "on" => stalled' < MaxStalled /\ attempt' < MaxAttempts
      BY <1>1, <2>2, <2>3
    <3>3. AttemptsBounded'
      BY <1>1, <2>2 DEF AttemptsBounded
    <3> QED BY <3>1, <3>2, <3>3 DEF DownloadInv
  <2> QED BY <1>1, <1>2, <1>3, <2>1, <2>4, <2>5, FileChanged DEF Attempt, PCs, Checked
<1>7. CASE Refuses
  <2>1. /\ dl = "on" /\ attempt' = attempt + 1 /\ UNCHANGED stalled
        /\ stalled < MaxStalled /\ (attempt < MaxAttempts \/ (restarted /\ attempt <= MaxAttempts))
    BY <1>1, <1>7 DEF Refuses, DownloadInv
  <2>2. CASE restarted
    <3>1. dl' = "failed" /\ UNCHANGED <<file, restarted, latest>>
      BY <1>7, <2>2 DEF Refuses
    <3>2. DownloadTypeOK' /\ DownloadInv' /\ PieceInv'
      BY <1>1, <2>1, <3>1 DEF DownloadTypeOK, DownloadInv, AttemptsBounded, PieceInv
    <3> QED BY <1>1, <1>2, <1>3, <3>2, FileChanged DEF Attempt, PCs, Checked
  <2>3. CASE ~restarted
    <3>1. dl' = dl /\ file' = <<>> /\ restarted' = TRUE /\ latest' = latest
      BY <1>7, <2>3 DEF Refuses
    <3>2. attempt < MaxAttempts
      BY <2>1, <2>3
    <3>3. DownloadTypeOK'
      BY <1>1, <2>1, <3>1 DEF DownloadTypeOK
    <3>4. DownloadInv'
      BY <1>1, <2>1, <3>1, <3>2 DEF DownloadInv, AttemptsBounded
    <3>5. PieceInv'
      BY <3>1 DEF PieceInv
    <3> QED BY <1>1, <1>2, <1>3, <3>3, <3>4, <3>5, FileChanged DEF Attempt, PCs, Checked
  <2> QED BY <2>2, <2>3
<1> QED BY <1>5, <1>6, <1>7 DEF Attempt

\* A step that changes neither the file nor the directories.
LEMMA RunMoved ==
  ASSUME IInv, UNCHANGED <<latest, file, machine, dirVars, times, quiet>>, UNCHANGED counters \/ FreshLocals,
         dl' = "off", pc' \in PCs, sum' \in Releases, chosen' \in Releases, link' \in Releases \cup {NoLink},
         outcome' \in {"none", "running", "failed", "stopped", "installed"},
         pc' \in {"sum", "validate", "extract"} => file # <<>>,
         SumInv', ChosenInv'
  PROVE  IInv'
<1>0. attempt' \in Nat /\ stalled' \in 0 .. MaxStalled /\ restarted' \in BOOLEAN /\ AttemptsBounded'
  BY CountersType DEF IInv, DownloadInv
<1>1. TypeOK'
  BY <1>0 DEF IInv, TypeOK, DownloadTypeOK, machine, dirVars, times
<1>2. DownloadInv'
  BY <1>0 DEF IInv, DownloadInv
<1>3. DirInv' /\ PieceInv'
  BY DEF IInv, DirInv, PieceInv, machine, dirVars, times
<1> QED BY <1>1, <1>2, <1>3 DEF IInv

\* ... such as the end of a run without success.
LEMMA RunEnded ==
  ASSUME IInv, UNCHANGED <<latest, file, machine, sum, dirVars, times, chosen, link, quiet>>,
         Ends("failed") \/ Ends("stopped")
  PROVE  IInv'
<1>1. pc' = "idle" /\ dl' = "off" /\ FreshLocals /\ outcome' \in {"failed", "stopped"}
  BY DEF Ends, Return, Goto
<1>2. SumInv'
  BY <1>1 DEF IInv, SumInv, Checked, dirVars, machine
<1>3. ChosenInv'
  BY <1>1 DEF IInv, ChosenInv, InstalledIsVerified
<1>4. sum \in Releases /\ chosen \in Releases /\ link \in Releases \cup {NoLink}
  BY DEF IInv, TypeOK
<1> QED BY <1>1, <1>2, <1>3, <1>4, RunMoved DEF PCs

LEMMA StartInv ==
  ASSUME IInv, Start
  PROVE  IInv'
<1>1. /\ pc' = "download" /\ dl' = "on" /\ attempt' = 0 /\ stalled' = 0 /\ restarted' = FALSE
      /\ outcome' = "running" /\ MaxStalled \in Nat \ {0} /\ MaxAttempts \in Nat \ {0}
      /\ UNCHANGED <<latest, file, machine, sum, dirVars, times, chosen, link, quiet>>
  BY AttemptAssumption DEF Start, Call, FreshLocals, Goto
<1>2. DownloadTypeOK'
  <2>1. restarted' \in BOOLEAN
    BY <1>1, Zenon
  <2> QED BY <1>1, <2>1 DEF IInv, TypeOK, DownloadTypeOK
<1>3. TypeOK'
  BY <1>1, <1>2 DEF IInv, TypeOK, PCs, machine, dirVars, times
<1>4. DownloadInv'
  BY <1>1 DEF DownloadInv, AttemptsBounded
<1>5. DirInv' /\ PieceInv'
  BY <1>1 DEF IInv, DirInv, PieceInv, machine, dirVars, times
<1>6. SumInv' /\ ChosenInv'
  BY <1>1 DEF IInv, SumInv, ChosenInv, Checked, InstalledIsVerified, machine, dirVars
<1> QED BY <1>3, <1>4, <1>5, <1>6 DEF IInv

\* Up to the checksum, and from the checksum to the extraction.
LEMMA ChecksumInv ==
  ASSUME IInv, Downloaded \/ DownloadFails \/ FetchSum \/ FetchSumFails \/ FetchSumHangs \/ Validate \/ Reject
  PROVE  IInv'
<1>1. /\ TypeOK /\ DownloadInv /\ SumInv /\ ChosenInv /\ DirInv /\ dl \in {"off", "on", "ok", "failed"}
      /\ sum \in Releases /\ latest \in Releases /\ chosen \in Releases /\ link \in Releases \cup {NoLink}
      /\ outcome \in {"none", "running", "failed", "stopped", "installed"}
  BY DEF IInv, TypeOK, DownloadTypeOK
<1>2. CASE Downloaded
  <2>1. SumInv'
    BY <1>1, <1>2 DEF Downloaded, Goto, SumInv, Checked, dirVars, machine
  <2>2. ChosenInv'
    BY <1>1, <1>2 DEF Downloaded, Goto, ChosenInv, InstalledIsVerified
  <2>3. file # <<>>
    BY <1>1, <1>2 DEF Downloaded, DownloadInv
  <2> QED BY <1>1, <1>2, <2>1, <2>2, <2>3, RunMoved DEF Downloaded, Return, Goto, PCs
<1>3. CASE DownloadFails
  BY <1>3, RunEnded DEF DownloadFails
<1>4. CASE FetchSum
  <2>1. /\ pc = "sum" /\ sum' = latest /\ pc' = "validate" /\ dl' = dl
        /\ UNCHANGED <<latest, file, counters, machine, dirVars, times, chosen, link, outcome, quiet>>
    BY <1>4 DEF FetchSum, Goto, downloadVars
  <2>2. latest \in Nat
    BY <1>1, ReleaseAssumption
  <2>3. SumInv'
    BY <1>1, <2>1, <2>2 DEF SumInv, DirInv, Checked, dirVars, machine
  <2>4. ChosenInv'
    BY <1>1, <2>1 DEF ChosenInv, InstalledIsVerified
  <2>5. file # <<>>
    BY <1>1, <2>1 DEF DownloadInv
  <2>6. dl = "off"
    BY <1>1, <2>1 DEF DownloadInv
  <2> QED BY <1>1, <2>1, <2>3, <2>4, <2>5, <2>6, RunMoved DEF PCs
<1>5. CASE FetchSumFails
  BY <1>5, RunEnded DEF FetchSumFails
<1>6. CASE Validate
  <2>1. /\ pc = "validate" /\ pc' = IF md5 /\ file # Archive(sum) THEN "reject" ELSE "extract"
        /\ UNCHANGED <<latest, file, counters, dl, machine, sum, dirVars, times, chosen, link, outcome, quiet>>
    BY <1>6 DEF Validate, Goto, downloadVars
  <2>2. SumInv'
    BY <1>1, <2>1 DEF SumInv, Checked, dirVars, machine, Archive, Pieces
  <2>3. ChosenInv'
    BY <1>1, <2>1 DEF ChosenInv, InstalledIsVerified
  <2>4. file # <<>> /\ dl = "off"
    BY <1>1, <2>1 DEF DownloadInv
  <2> QED BY <1>1, <2>1, <2>2, <2>3, <2>4, RunMoved DEF PCs
<1>7. CASE Reject
  <2>1. /\ pc = "reject" /\ pc' = "idle" /\ outcome' = "failed" /\ dl' = "off" /\ file' = <<>>
        /\ Forget(TheFile) /\ FreshLocals
        /\ UNCHANGED <<latest, machine, sum, dirVars, chosen, link, quiet>>
    BY <1>7 DEF Reject, Ends, Return, Goto
  <2>0. attempt' \in Nat /\ stalled' \in 0 .. MaxStalled /\ restarted' \in BOOLEAN /\ AttemptsBounded'
    BY <1>1, <2>1, CountersType DEF DownloadInv
  <2>2. DownloadTypeOK'
    BY <1>1, <2>0, <2>1 DEF TypeOK, DownloadTypeOK
  <2>3. DownloadInv'
    BY <1>1, <2>0, <2>1 DEF DownloadInv
  <2>4. PieceInv'
    BY <2>1 DEF PieceInv
  <2> QED BY <1>1, <2>1, <2>2, <2>3, <2>4, FileChanged DEF PCs, Checked
<1>8. CASE FetchSumHangs
  <2>1. /\ pc = "sum" /\ pc' = "hung" /\ dl' = dl
        /\ UNCHANGED <<latest, file, counters, machine, sum, dirVars, times, chosen, link, outcome, quiet>>
    BY <1>8 DEF FetchSumHangs, Goto, downloadVars
  <2>2. SumInv' /\ ChosenInv' /\ dl = "off"
    BY <1>1, <2>1 DEF SumInv, Checked, ChosenInv, InstalledIsVerified, DownloadInv
  <2> QED BY <1>1, <2>1, <2>2, RunMoved DEF PCs
<1> QED BY <1>2, <1>3, <1>4, <1>5, <1>6, <1>7, <1>8

LEMMA ExtractInv ==
  ASSUME IInv, Extract
  PROVE  IInv'
<1> DEFINE r == file[1]
           d == Home(file[1])
<1>1. /\ pc = "extract" /\ pc' = "find" /\ dirs' = [dirs EXCEPT ![d] = (@ \ {Torn}) \cup {r}]
      /\ Forget(d) /\ older' = NotOlder(d)
      /\ UNCHANGED <<latest, file, counters, dl, machine, sum, chosen, link, outcome, quiet>>
  BY DEF Extract, Goto, downloadVars
<1>2. /\ r \in Releases /\ d \in Releases /\ d <= latest
      /\ md5 => r = sum /\ d <= sum /\ d = Home(sum)
      /\ platform = "macos" => d = 1
      /\ platform # "macos" => d = r
  BY <1>1, FirstPiece
<1>3. TypeOK /\ DirInv /\ SumInv /\ ChosenInv /\ DownloadInv /\ PieceInv
  BY DEF IInv
<1>. HIDE DEF r, d
<1>4. /\ stamped' \in SUBSET (Releases \cup {TheFile}) /\ earlier' \in SUBSET (stamped' \X stamped')
      /\ stamped' \subseteq stamped \cup {d} /\ d \notin stamped'
  BY <1>1, <1>2, <1>3, TimesType
<1>5. /\ dirs' \in [Releases -> SUBSET (Releases \cup {Torn})]
      /\ \A e \in Releases : dirs'[e] = IF e = d THEN (dirs[d] \ {Torn}) \cup {r} ELSE dirs[e]
  BY <1>1, <1>2, <1>3 DEF TypeOK
<1>6. TypeOK'
  <2>1. older' \in [Releases -> SUBSET Releases]
    BY <1>1, <1>3 DEF NotOlder, TypeOK
  <2>2. DownloadTypeOK'
    BY <1>1, <1>3 DEF TypeOK, DownloadTypeOK, counters
  <2> QED BY <1>1, <1>3, <1>4, <1>5, <2>1, <2>2 DEF TypeOK, PCs, machine
<1>7. DownloadInv' /\ PieceInv'
  BY <1>1, <1>3 DEF DownloadInv, PieceInv, AttemptsBounded, counters
<1>8. DirInv'
  BY <1>1, <1>2, <1>3, <1>4, <1>5 DEF DirInv, machine
<1>9. SumInv'
  <2>1. md5 => file = Archive(sum) /\ \A e \in Releases : dirs[e] # {} => e <= sum
    BY <1>1, <1>3 DEF SumInv, Checked
  <2>2. 0 \notin Releases
    BY ReleaseAssumption
  <2>3. md5 => sum \in dirs'[Home(sum)] /\ Torn \notin dirs'[Home(sum)]
    BY <1>2, <1>5, <2>2
  <2>4. md5 => \A e \in Releases : dirs'[e] # {} => e <= sum
    BY <1>2, <1>5, <2>1
  <2>5. Archive(sum)' = Archive(sum) /\ Home(sum)' = Home(sum)
    BY <1>1 DEF Archive, Pieces, Home, machine
  <2> QED BY <1>1, <1>3, <2>1, <2>3, <2>4, <2>5 DEF SumInv, Checked, machine
<1>10. ChosenInv'
  BY <1>1, <1>3 DEF ChosenInv, InstalledIsVerified
<1> QED BY <1>6, <1>7, <1>8, <1>9, <1>10 DEF IInv

\* The question of unzip on Windows, and the error after it.
LEMMA WindowsInv ==
  ASSUME IInv, UnzipKeeps \/ FindFails
  PROVE  IInv'
<1>1. CASE UnzipKeeps
  <2>1. /\ pc = "extract" /\ platform = "windows" /\ pc' = "find"
        /\ UNCHANGED <<latest, file, counters, dl, machine, sum, dirVars, times, chosen, link, outcome, quiet>>
    BY <1>1 DEF UnzipKeeps, Goto, downloadVars
  <2>2. Archive(sum)' = Archive(sum)
    BY <2>1 DEF Archive, Pieces
  <2>3. SumInv' /\ ChosenInv'
    BY <2>1, <2>2 DEF IInv, SumInv, Checked, ChosenInv, InstalledIsVerified, dirVars, machine
  <2>4. /\ dl = "off" /\ sum \in Releases /\ chosen \in Releases /\ link \in Releases \cup {NoLink}
        /\ outcome \in {"none", "running", "failed", "stopped", "installed"}
    BY <2>1 DEF IInv, TypeOK, DownloadInv
  <2> QED BY <2>1, <2>3, <2>4, RunMoved DEF PCs
<1>2. CASE FindFails
  BY <1>2, RunEnded DEF FindFails
<1> QED BY <1>1, <1>2

\* What find chooses is the release just extracted, or torn.
LEMMA FindInv ==
  ASSUME IInv, Find
  PROVE  IInv'
<1>1. /\ pc = "find" /\ pc' = "link" /\ chosen' \in IF NewerThanFile # {} THEN NewerThanFile ELSE MostRecent
      /\ UNCHANGED <<latest, file, counters, dl, machine, sum, dirVars, times, link, outcome, quiet>>
  BY DEF Find, Goto, downloadVars
<1>2. TypeOK /\ DirInv /\ SumInv /\ ChosenInv /\ DownloadInv /\ sum \in Releases /\ sum \in Nat
  BY ReleaseAssumption DEF IInv, TypeOK
<1>3. chosen' \in Releases /\ chosen' \in Found /\ chosen' \in Present /\ platform # "windows"
  BY <1>1 DEF NewerThanFile, MostRecent, Found, Present
<1>4. ASSUME md5 PROVE Verified(chosen')
  <2>1. /\ sum \in dirs[Home(sum)] /\ Torn \notin dirs[Home(sum)]
        /\ \A e \in Releases : dirs[e] # {} => e <= sum
    BY <1>1, <1>2, <1>3, <1>4 DEF SumInv, Checked
  <2>2. CASE platform = "macos"
    <3>1. chosen' = 1 /\ Home(sum) = 1
      BY <1>2, <1>3, <2>2 DEF DirInv, Home, Present
    <3> QED BY <2>1, <2>2, <3>1 DEF Verified
  <2>3. CASE platform = "linux" /\ chosen' \in stamped
    BY <1>2, <1>3, <2>3 DEF DirInv, Verified
  <2>4. CASE platform = "linux" /\ chosen' \notin stamped
    <3>1. Home(sum) = sum /\ sum \in Found /\ sum \notin stamped
      BY <1>2, <2>1, <2>4 DEF Home, Found, Present, DirInv
    <3>2. chosen' \notin NewerThanFile
      BY <1>2, <2>4 DEF NewerThanFile, TypeOK
    <3>3. chosen' \in MostRecent
      BY <1>1, <3>2
    <3>4. chosen' <= sum /\ chosen' \in Nat
      BY <1>3, <2>1, ReleaseAssumption DEF Present
    <3>5. chosen' = sum
      <4> SUFFICES ASSUME chosen' # sum PROVE FALSE
        OBVIOUS
      <4>1. ~MoreRecent(sum, chosen')
        BY <3>1, <3>3 DEF MostRecent
      <4>2. ~(sum > chosen')
        BY <2>4, <3>1, <4>1 DEF MoreRecent
      <4> QED BY <1>2, <3>4, <4>2
    <3>6. dirs[sum] = {sum}
      BY <1>2, <2>1, <2>4, <3>1 DEF DirInv
    <3> QED BY <2>4, <3>5, <3>6 DEF Verified
  <2> QED BY <1>2, <1>3, <2>2, <2>3, <2>4 DEF TypeOK, Platforms
<1>6. SumInv'
  <2>1. Archive(sum)' = Archive(sum)
    BY <1>1 DEF Archive, Pieces
  <2> QED BY <1>1, <1>2, <2>1 DEF SumInv, Checked, dirVars, machine
<1>7. ChosenInv'
  <2>1. (md5 => Verified(chosen))'
    BY <1>1, <1>4 DEF Verified, dirVars, machine
  <2> QED BY <1>1, <1>2, <2>1 DEF ChosenInv, InstalledIsVerified
<1>8. dl = "off" /\ link \in Releases \cup {NoLink} /\ outcome \in {"none", "running", "failed", "stopped", "installed"}
  BY <1>1, <1>2 DEF DownloadInv, TypeOK
<1> QED BY <1>1, <1>2, <1>3, <1>6, <1>7, <1>8, RunMoved DEF PCs

\* The exchange of the link.
LEMMA ExchangeInv ==
  ASSUME IInv, Compare \/ RemoveLink \/ MakeLink
  PROVE  IInv'
<1>1. /\ TypeOK /\ DownloadInv /\ SumInv /\ ChosenInv /\ pc \in {"link", "rmlink", "ln"} /\ pc' \in {"rmold", "rmlink", "ln", "cleanup"}
      /\ UNCHANGED <<latest, file, counters, dl, machine, sum, dirVars, times, chosen, outcome, quiet>>
  BY DEF IInv, Compare, RemoveLink, MakeLink, Goto, downloadVars
<1>2. dl = "off" /\ sum \in Releases /\ chosen \in Releases /\ link' \in Releases \cup {NoLink}
      /\ outcome \in {"none", "running", "failed", "stopped", "installed"}
  BY <1>1 DEF DownloadInv, TypeOK, Compare, RemoveLink, MakeLink
<1>3. SumInv'
  <2>1. Archive(sum)' = Archive(sum)
    BY <1>1 DEF Archive, Pieces
  <2> QED BY <1>1, <2>1 DEF SumInv, Checked, dirVars, machine
<1>4. ChosenInv'
  <2>1. (md5 => Verified(chosen))'
    BY <1>1 DEF Verified, dirVars, machine, ChosenInv
  <2>2. outcome' # "installed"
    BY <1>1 DEF ChosenInv
  <2>3. pc' = "rmold" => link' # chosen' /\ link' \in Present'
    BY <1>1 DEF Compare, RemoveLink, MakeLink, Goto, Present, dirVars
  <2>4. pc' = "cleanup" => link' = chosen'
    BY <1>1 DEF Compare, RemoveLink, MakeLink, Goto, Present
  <2> QED BY <2>1, <2>2, <2>3, <2>4 DEF ChosenInv, InstalledIsVerified
<1> QED BY <1>1, <1>2, <1>3, <1>4, RunMoved DEF PCs

LEMMA RemoveOldInv ==
  ASSUME IInv, RemoveOld
  PROVE  IInv'
<1>1. /\ pc = "rmold" /\ pc' = "rmlink" /\ dirs' = [dirs EXCEPT ![link] = {}]
      /\ Forget(link) /\ older' = NotOlder(link)
      /\ UNCHANGED <<latest, file, counters, dl, machine, sum, chosen, link, outcome, quiet>>
  BY DEF RemoveOld, Goto, downloadVars
<1>2. TypeOK /\ DirInv /\ SumInv /\ ChosenInv /\ DownloadInv /\ PieceInv
  BY DEF IInv
<1>3. link # chosen /\ link \in Releases /\ outcome # "installed" /\ chosen \in Releases
  BY <1>1, <1>2 DEF ChosenInv, TypeOK, Present
<1>4. /\ stamped' \in SUBSET (Releases \cup {TheFile}) /\ earlier' \in SUBSET (stamped' \X stamped')
      /\ stamped' \subseteq stamped \cup {link} /\ link \notin stamped'
  BY <1>1, <1>2, <1>3, TimesType
<1>5. dirs' \in [Releases -> SUBSET (Releases \cup {Torn})]
      /\ \A e \in Releases : dirs'[e] = IF e = link THEN {} ELSE dirs[e]
  BY <1>1, <1>2, <1>3 DEF TypeOK
<1>6. TypeOK'
  <2>1. older' \in [Releases -> SUBSET Releases]
    BY <1>1, <1>2 DEF NotOlder, TypeOK
  <2>2. DownloadTypeOK'
    BY <1>1, <1>2 DEF TypeOK, DownloadTypeOK, counters
  <2> QED BY <1>1, <1>2, <1>4, <1>5, <2>1, <2>2 DEF TypeOK, PCs, machine
<1>7. DownloadInv' /\ PieceInv'
  BY <1>1, <1>2 DEF DownloadInv, PieceInv, AttemptsBounded, counters
<1>8. DirInv'
  BY <1>1, <1>2, <1>4, <1>5 DEF DirInv, machine
<1>9. SumInv'
  <2>1. Archive(sum)' = Archive(sum)
    BY <1>1 DEF Archive, Pieces
  <2> QED BY <1>1, <1>2, <1>5, <2>1 DEF SumInv, Checked, machine
<1>10. ChosenInv'
  <2>1. (md5 => Verified(chosen))'
    BY <1>1, <1>2, <1>3, <1>5 DEF ChosenInv, Verified, machine
  <2> QED BY <1>1, <1>3, <2>1 DEF ChosenInv, InstalledIsVerified
<1> QED BY <1>6, <1>7, <1>8, <1>9, <1>10 DEF IInv

LEMMA CleanupInv ==
  ASSUME IInv, Cleanup
  PROVE  IInv'
<1>1. /\ pc = "cleanup" /\ pc' = "idle" /\ outcome' = "installed" /\ dl' = "off" /\ file' = <<>>
      /\ Forget(TheFile) /\ FreshLocals
      /\ UNCHANGED <<latest, machine, sum, dirVars, chosen, link, quiet>>
  BY DEF Cleanup, Ends, Return, Goto
<1>2. TypeOK /\ DirInv /\ SumInv /\ ChosenInv /\ DownloadInv
  BY DEF IInv
<1>3. /\ stamped' \in SUBSET (Releases \cup {TheFile}) /\ earlier' \in SUBSET (stamped' \X stamped')
      /\ stamped' \subseteq stamped \cup {TheFile}
  BY <1>1, <1>2, TimesType
<1>0. attempt' \in Nat /\ stalled' \in 0 .. MaxStalled /\ restarted' \in BOOLEAN /\ AttemptsBounded'
  BY <1>1, <1>2, CountersType DEF DownloadInv
<1>4. TypeOK'
  <2>1. DownloadTypeOK'
    BY <1>0, <1>1, <1>2 DEF TypeOK, DownloadTypeOK
  <2> QED BY <1>1, <1>2, <1>3, <2>1 DEF TypeOK, PCs, dirVars, machine
<1>5. DownloadInv' /\ PieceInv'
  BY <1>0, <1>1, <1>2 DEF DownloadInv, PieceInv
<1>6. DirInv'
  BY <1>1, <1>2, <1>3, ReleaseAssumption DEF DirInv, dirVars, machine
<1>7. SumInv'
  BY <1>1, <1>2 DEF SumInv, Checked, dirVars, machine
<1>8. ChosenInv'
  <2>1. link = chosen /\ chosen \in Releases /\ (md5 => Verified(chosen))
    BY <1>1, <1>2 DEF ChosenInv, TypeOK
  <2>2. (md5 => Verified(link))'
    BY <1>1, <2>1 DEF Verified, dirVars, machine
  <2> QED BY <1>1, <2>1, <2>2 DEF ChosenInv, InstalledIsVerified
<1> QED BY <1>4, <1>5, <1>6, <1>7, <1>8 DEF IInv

\* A run ends with a torn directory.
LEMMA TornEnd ==
  ASSUME IInv, NEW d \in Releases, d <= latest, platform = "macos" => d = 1,
         NEW from \in SUBSET Releases, platform = "linux" => from \subseteq {d},
         LeavesTorn(d, from) \/ UNCHANGED <<dirVars, times>>,
         Ends("failed") \/ Ends("stopped"),
         UNCHANGED <<latest, file, machine, sum, chosen, link, quiet>>
  PROVE  IInv'
<1>1. pc' = "idle" /\ dl' = "off" /\ FreshLocals /\ outcome' \in {"failed", "stopped"}
  BY DEF Ends, Return, Goto
<1>2. TypeOK /\ DirInv /\ SumInv /\ ChosenInv /\ DownloadInv /\ PieceInv
  BY DEF IInv
<1>3. /\ dirs' \in [Releases -> SUBSET (Releases \cup {Torn})]
      /\ older' \in [Releases -> SUBSET Releases]
      /\ stamped' \in SUBSET (Releases \cup {TheFile})
      /\ earlier' \in SUBSET (stamped' \X stamped')
      /\ DirInv'
  BY <1>2, TornLeft
<1>0. attempt' \in Nat /\ stalled' \in 0 .. MaxStalled /\ restarted' \in BOOLEAN /\ AttemptsBounded'
  BY <1>1, <1>2, CountersType DEF DownloadInv
<1>4. TypeOK'
  <2>1. DownloadTypeOK'
    BY <1>0, <1>1, <1>2 DEF TypeOK, DownloadTypeOK
  <2> QED BY <1>1, <1>2, <1>3, <2>1 DEF TypeOK, PCs, machine
<1>5. DownloadInv' /\ PieceInv'
  BY <1>0, <1>1, <1>2 DEF DownloadInv, PieceInv
<1>6. SumInv' /\ ChosenInv'
  BY <1>1, <1>2 DEF SumInv, ChosenInv, Checked, InstalledIsVerified
<1> QED BY <1>3, <1>4, <1>5, <1>6 DEF IInv

\* ... by an extraction.
LEMMA TornExtraction ==
  ASSUME IInv, pc = "extract",
         LeavesTorn(Home(file[1]), {file[1]}) \/ UNCHANGED <<dirVars, times>>,
         Ends("failed") \/ Ends("stopped"),
         UNCHANGED <<latest, file, machine, sum, chosen, link, quiet>>
  PROVE  IInv'
<1>1. /\ Home(file[1]) \in Releases /\ Home(file[1]) <= latest
      /\ platform = "macos" => Home(file[1]) = 1
      /\ {file[1]} \in SUBSET Releases
      /\ platform = "linux" => {file[1]} \subseteq {Home(file[1])}
  BY FirstPiece
<1> QED BY <1>1, TornEnd

LEMMA InterruptInv ==
  ASSUME IInv, Interrupt
  PROVE  IInv'
<1>1. /\ pc # "idle" /\ Ends("stopped") /\ UNCHANGED <<latest, machine, sum, chosen, link, quiet>>
  BY DEF Interrupt
<1>2. CASE pc = "download" /\ dl = "on"
  <2>1. PICK n \in 0 .. Missing : /\ file' = file \o Pieces(latest, n)
                                 /\ IF n = 0 THEN UNCHANGED times ELSE Touch(TheFile)
    BY <1>2 DEF Interrupt
  <2>2. dirs' = dirs /\ older' = older
    BY <1>2 DEF Interrupt, dirVars
  <2>3. n \in Nat /\ TypeOK /\ PieceInv /\ DownloadInv
    BY <2>1, MissingType DEF IInv
  <2>4. file' \in Seq(Releases) /\ PieceInv'
    BY <1>1, <2>1, <2>3, ResumeProperties DEF PieceInv
  <2>5. pc' = "idle" /\ dl' = "off" /\ FreshLocals /\ outcome' = "stopped"
    BY <1>1 DEF Ends, Return, Goto
  <2>8. attempt' \in Nat /\ stalled' \in 0 .. MaxStalled /\ restarted' \in BOOLEAN /\ AttemptsBounded'
    BY <2>3, <2>5, CountersType DEF DownloadInv
  <2>6. DownloadTypeOK'
    BY <1>1, <2>3, <2>4, <2>5, <2>8 DEF TypeOK, DownloadTypeOK
  <2>7. DownloadInv'
    BY <1>1, <2>3, <2>5, <2>8 DEF DownloadInv
  <2> QED BY <1>1, <1>2, <2>1, <2>2, <2>4, <2>5, <2>6, <2>7, FileChanged DEF dirVars, PCs, Checked
<1>3. CASE pc = "extract"
  <2>1. (LeavesTorn(Home(file[1]), {file[1]}) \/ UNCHANGED <<dirVars, times>>) /\ UNCHANGED file
    BY <1>3 DEF Interrupt
  <2> QED BY <1>1, <1>3, <2>1, TornExtraction
<1>4. CASE pc = "rmold"
  <2>1. (LeavesTorn(link, {}) \/ UNCHANGED <<dirVars, times>>) /\ UNCHANGED file
    BY <1>4 DEF Interrupt
  <2>2. link \in Releases /\ link <= latest /\ (platform = "macos" => link = 1)
    BY <1>4 DEF IInv, ChosenInv, DirInv, Present
  <2>3. {} \in SUBSET Releases /\ {} \subseteq {link}
    OBVIOUS
  <2> QED BY <1>1, <2>1, <2>2, <2>3, TornEnd
<1>5. CASE ~(pc = "download" /\ dl = "on") /\ pc # "extract" /\ pc # "rmold"
  BY <1>1, <1>5, RunEnded DEF Interrupt
<1> QED BY <1>2, <1>3, <1>4, <1>5

LEMMA PublishInv ==
  ASSUME IInv, NextRelease
  PROVE  IInv'
<1>1. /\ latest < MaxRelease /\ latest' = latest + 1
      /\ UNCHANGED <<file, counters, dl, pc, machine, sum, dirs, stamped, earlier, chosen, link, outcome, quiet>>
  BY DEF NextRelease, Publish, downloadVars, times
<1>2. PICK before \in SUBSET (stamped \ {TheFile}) : older' = [older EXCEPT ![latest + 1] = before]
  BY DEF NextRelease
<1>3. TypeOK /\ latest \in Releases /\ latest \in Nat /\ sum \in Nat /\ \A r \in Releases : r \in Nat
  BY ReleaseAssumption DEF IInv, TypeOK, DownloadTypeOK
<1>4. TypeOK'
  <2>1. before \in SUBSET Releases
    BY <1>2, <1>3 DEF TypeOK
  <2>2. latest' \in Releases
    BY <1>1, <1>3, ReleaseAssumption
  <2>3. older' \in [Releases -> SUBSET Releases]
    BY <1>2, <1>3, <2>1 DEF TypeOK
  <2>4. DownloadTypeOK'
    BY <1>1, <1>3, <2>2 DEF TypeOK, DownloadTypeOK, counters
  <2> QED BY <1>1, <1>3, <2>3, <2>4 DEF TypeOK, machine
<1>5. DownloadInv'
  BY <1>1 DEF IInv, DownloadInv, AttemptsBounded, counters
<1>6. DirInv'
  BY <1>1, <1>3 DEF IInv, DirInv, machine
<1>7. PieceInv'
  <2> SUFFICES ASSUME NEW i \in 1 .. Len(file) PROVE file[i] <= latest + 1
    BY <1>1 DEF PieceInv
  <2>0. file \in Seq(Releases)
    BY <1>3 DEF TypeOK, DownloadTypeOK
  <2>1. file[i] \in Nat
    BY <2>0, <1>3, ElementsAre, Zenon
  <2> QED BY <1>3, <2>1 DEF IInv, PieceInv
<1>8. SumInv'
  <2>1. Archive(sum)' = Archive(sum)
    BY <1>1 DEF Archive, Pieces
  <2> QED BY <1>1, <1>3, <2>1 DEF IInv, SumInv, Home, machine
<1>9. ChosenInv'
  BY <1>1 DEF IInv, ChosenInv, InstalledIsVerified, Verified, Present, machine
<1> QED BY <1>4, <1>5, <1>6, <1>7, <1>8, <1>9 DEF IInv

LEMMA NothingMoved ==
  ASSUME IInv, UNCHANGED <<latest, downloadVars, pc, machine, sum, dirVars, times, chosen, link, outcome>>,
         quiet' \in BOOLEAN
  PROVE  IInv'
BY DEF IInv, TypeOK, DownloadTypeOK, DownloadInv, AttemptsBounded, DirInv, PieceInv, SumInv, ChosenInv,
       InstalledIsVerified, Verified, Home, Present, Archive, Pieces, downloadVars, counters, machine, dirVars, times

LEMMA InvStep == IInv /\ [Next]_vars => IInv'
<1> SUFFICES ASSUME IInv, [Next]_vars PROVE IInv'
  OBVIOUS
<1>1. CASE Start
  BY <1>1, StartInv
<1>2. CASE Attempt
  BY <1>2, AttemptInv
<1>3. CASE Downloaded \/ DownloadFails \/ FetchSum \/ FetchSumFails \/ FetchSumHangs \/ Validate \/ Reject
  BY <1>3, ChecksumInv
<1>4. CASE Extract
  BY <1>4, ExtractInv
<1>5. CASE ExtractFails
  BY <1>5, TornExtraction DEF ExtractFails
<1>6. CASE Find
  BY <1>6, FindInv
<1>7. CASE Compare \/ RemoveLink \/ MakeLink
  BY <1>7, ExchangeInv
<1>8. CASE RemoveOld
  BY <1>8, RemoveOldInv
<1>9. CASE Cleanup
  BY <1>9, CleanupInv
<1>10. CASE Interrupt
  BY <1>10, InterruptInv
<1>11. CASE NextRelease
  BY <1>11, PublishInv
<1>12. CASE CalmDown
  <2>1. quiet' \in BOOLEAN
    BY <1>12, Zenon DEF CalmDown
  <2> QED BY <1>12, <2>1, NothingMoved DEF CalmDown
<1>14. CASE UnzipKeeps \/ FindFails
  BY <1>14, WindowsInv
<1>13. CASE UNCHANGED vars
  <2>1. quiet' \in BOOLEAN
    BY <1>13 DEF vars, IInv, TypeOK
  <2> QED BY <1>13, <2>1, NothingMoved DEF vars
<1> QED BY <1>1, <1>2, <1>3, <1>4, <1>5, <1>6, <1>7, <1>8, <1>9, <1>10, <1>11, <1>12, <1>13, <1>14
        DEF Next, RunStep

LEMMA InvHolds == Spec => []IInv
BY InvInit, InvStep, PTL DEF Spec

-----------------------------------------------------------------------------
(***************************************************************************)
(* Results.                                                                *)
(***************************************************************************)
\* Every variable keeps its type; a download never has more than
\* DOWNLOAD_MAX_STALLED_RETRIES attempts without a gain behind it.
THEOREM TypeCorrect == Spec => []TypeOK
<1>1. IInv => TypeOK
  BY DEF IInv
<1> QED BY <1>1, InvHolds, PTL

\* download_resumable makes at most one attempt more than its ceiling.
THEOREM AttemptsAreBounded == Spec => []AttemptsBounded
<1>1. IInv => AttemptsBounded
  BY DEF IInv, DownloadInv
<1> QED BY <1>1, InvHolds, PTL

\* A run of the installer that reports success has linked a directory with
\* every file of the release whose checksum it verified: on Linux with these
\* alone, or else one that an earlier run left torn; on macOS, where all
\* releases share one directory, with what older releases left there.
THEOREM VerifiedIsInstalled == Spec => []InstalledIsVerified
<1>1. IInv => InstalledIsVerified
  BY DEF IInv, ChosenInv
<1> QED BY <1>1, InvHolds, PTL

\* Files of a JDK in use go missing only with a verified archive in hand:
\* while it is extracted to the same directory, or after another directory was
\* chosen, which is the verified release, whole, or (on Linux) a torn one.
THEOREM InUseIsSafe == Spec => GivenUpForAnother
<1> DEFINE Cause == /\ file = Archive(sum)
                    /\ \/ link = Home(sum) /\ Torn \in dirs'[link]
                       \/ chosen # link /\ Verified(chosen)
           GivenUp == md5 /\ LinkedComplete /\ link' = link /\ ~LinkedComplete'
<1>1. ASSUME IInv, [Next]_vars, GivenUp PROVE Cause
  <2>1. /\ link \in Releases /\ dirs[link] # {} /\ Torn \notin dirs[link] /\ md5 /\ link' = link
        /\ dirs'[link] = {} \/ Torn \in dirs'[link]
        /\ dirs \in [Releases -> SUBSET (Releases \cup {Torn})]
    BY <1>1 DEF LinkedComplete, Present, IInv, TypeOK
  <2>2. ASSUME pc = "extract", LeavesTorn(Home(file[1]), {file[1]}) \/ UNCHANGED dirs PROVE Cause
    <3>1. file[1] = sum /\ file = Archive(sum) /\ Home(file[1]) \in Releases
      BY <1>1, <2>1, <2>2, FirstPiece DEF IInv, SumInv, Checked
    <3>2. dirs' = [dirs EXCEPT ![Home(sum)] = @ \cup {file[1]} \cup {Torn}]
      BY <2>1, <2>2, <3>1 DEF LeavesTorn
    <3>3. link = Home(sum) /\ Torn \in dirs'[link]
      BY <2>1, <3>1, <3>2
    <3> QED BY <3>1, <3>3
  <2>3. ASSUME pc = "rmold" PROVE Cause
    BY <1>1, <2>1, <2>3 DEF IInv, SumInv, ChosenInv, Checked
  <2>4. CASE RunStep
    <3>1. CASE ExtractFails
      BY <2>2, <3>1 DEF ExtractFails, dirVars
    <3>2. CASE RemoveOld
      BY <2>3, <3>2 DEF RemoveOld
    <3>3. CASE Extract
      <4>1. /\ dirs' = [dirs EXCEPT ![Home(file[1])] = (@ \ {Torn}) \cup {file[1]}]
            /\ file[1] \in Releases
        BY <1>1, <3>3, FirstPiece DEF Extract
      <4>2. 0 \notin Releases
        BY ReleaseAssumption
      <4>3. Torn \notin dirs'[link] /\ dirs'[link] # {}
        BY <2>1, <4>1, <4>2
      <4> QED BY <2>1, <4>3
    <3> QED BY <2>1, <2>4, <3>1, <3>2, <3>3 DEF RunStep, Attempt, Downloaded, DownloadFails,
          FetchSum, FetchSumFails, FetchSumHangs, Validate, Reject, UnzipKeeps, Find, FindFails,
          Compare, RemoveLink, MakeLink, Cleanup, dirVars
  <2>5. CASE Interrupt
    <3>1. CASE pc = "extract"
      BY <2>2, <2>5, <3>1 DEF Interrupt, dirVars
    <3>2. CASE pc = "rmold"
      BY <2>3, <3>2
    <3> QED BY <2>1, <2>5, <3>1, <3>2 DEF Interrupt, dirVars
  <2>6. CASE Start \/ NextRelease \/ CalmDown \/ UNCHANGED vars
    BY <2>1, <2>6 DEF Start, NextRelease, CalmDown, vars, dirVars
  <2> QED BY <1>1, <2>4, <2>5, <2>6 DEF Next
<1>2. IInv /\ [Next]_vars => [GivenUp => Cause]_vars
  BY <1>1
<1> QED BY <1>2, InvHolds, PTL DEF Spec, GivenUpForAnother
=============================================================================

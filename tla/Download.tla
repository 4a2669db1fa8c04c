------------------------------ MODULE Download ------------------------------
(***************************************************************************)
(* Resumable downloads (tools/setup/download_lib.sh): download_resumable   *)
(* of one file, whose address always leads to the latest release of it.    *)
(*                                                                         *)
(* A file is the sequence of its pieces, each named by the release it      *)
(* comes from, so that a partial that was resumed onto another release     *)
(* shows; a missing file is the empty one.                                 *)
(***************************************************************************)
EXTENDS Integers, Sequences

CONSTANTS
    MaxRelease,     \* releases that are ever published
    Size,           \* [1 .. MaxRelease -> pieces of the archive]
    MaxStalled,     \* DOWNLOAD_MAX_STALLED_RETRIES
    MaxAttempts     \* DOWNLOAD_MAX_ATTEMPTS

Releases == 1 .. MaxRelease

ASSUME ReleaseAssumption == MaxRelease \in Nat \ {0}
ASSUME SizeAssumption == Size \in [Releases -> Nat \ {0}]
ASSUME AttemptAssumption == MaxStalled \in Nat \ {0} /\ MaxAttempts \in Nat \ {0}

VARIABLES
    latest,     \* the release the address leads to
    file,       \* the file on disk
    attempt,    \* attempts of this call of download_resumable
    stalled,    \* the last of them that gained nothing
    restarted,  \* the partial was dropped once
    dl          \* "off", "on", "ok" or "failed"

counters == <<attempt, stalled, restarted>>
downloadVars == <<file, counters, dl>>

-----------------------------------------------------------------------------
\* n pieces of release r, and the archive of it.
Pieces(r, n) == [i \in 1 .. n |-> r]
Archive(r) == Pieces(r, Size[r])

\* What is left to fetch of the latest release after the bytes on disk; a
\* file that is long enough already is answered with 416.
Missing == IF Len(file) < Size[latest] THEN Size[latest] - Len(file) ELSE 0

\* The locals of a call begin with it, and go with it.
FreshLocals == attempt' = 0 /\ stalled' = 0 /\ restarted' = FALSE

Call ==
    /\ dl = "off"
    /\ dl' = "on"
    /\ FreshLocals
    /\ UNCHANGED <<latest, file>>

Return == dl' = "off" /\ FreshLocals

\* curl exits 0: it has fetched the rest, or nothing was left to fetch.
Completes ==
    /\ dl = "on"
    /\ attempt' = attempt + 1
    /\ file' = file \o Pieces(latest, Missing)
    /\ dl' = "ok"
    /\ UNCHANGED <<latest, stalled, restarted>>

\* Mutant: the budget of stalled attempts has no ceiling beside it.
BreaksUnbounded(n) ==
    /\ dl = "on"
    /\ attempt' = attempt + 1
    /\ file' = file \o Pieces(latest, n)
    /\ stalled' = IF n > 0 THEN 0 ELSE stalled + 1
    /\ dl' = IF stalled' >= MaxStalled THEN "failed" ELSE "on"
    /\ UNCHANGED <<latest, restarted>>

\* The transfer stalls, or there is none, after n new pieces.
Breaks(n) ==
    /\ dl = "on"
    /\ attempt' = attempt + 1
    /\ file' = file \o Pieces(latest, n)
    /\ stalled' = IF n > 0 THEN 0 ELSE stalled + 1
    /\ dl' = IF stalled' >= MaxStalled \/ attempt' >= MaxAttempts THEN "failed" ELSE "on"
    /\ UNCHANGED <<latest, restarted>>

\* Mutant: every refused range starts over, with a new budget.
RefusesAfresh ==
    /\ dl = "on" /\ file # <<>>
    /\ attempt' = 0
    /\ restarted' = TRUE /\ file' = <<>>
    /\ UNCHANGED <<latest, stalled, dl>>

\* A ranged request is refused (33, 36): one restart from byte 0, without a
\* look at the ceiling, then no more.
Refuses ==
    /\ dl = "on" /\ file # <<>>
    /\ attempt' = attempt + 1
    /\ IF restarted THEN dl' = "failed" /\ UNCHANGED <<file, restarted>>
       ELSE restarted' = TRUE /\ file' = <<>> /\ UNCHANGED dl
    /\ UNCHANGED <<latest, stalled>>

\* The vendor publishes a release.
Publish == latest < MaxRelease /\ latest' = latest + 1

DownloadTypeOK ==
    /\ latest \in Releases
    /\ file \in Seq(Releases)
    /\ attempt \in Nat /\ stalled \in 0 .. MaxStalled /\ restarted \in BOOLEAN
    /\ dl \in {"off", "on", "ok", "failed"}

\* The ceiling on attempts, which the one restart may exceed by one.
AttemptsBounded == attempt <= MaxAttempts + 1
=============================================================================

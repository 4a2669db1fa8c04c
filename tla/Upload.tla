-------------------------------- MODULE Upload --------------------------------
(***************************************************************************)
(* publish_artifact.sh: the upload that a publish target ends in.          *)
(*                                                                         *)
(* Several executions upload artifacts of one version, some of them the    *)
(* same one (a release that is tried again), each with the POM they share  *)
(* when the mode is maven.  A request may be lost, its answer may be lost  *)
(* or never come, and a gateway or the registry may report a failure for   *)
(* an upload that was stored.                                              *)
(***************************************************************************)
EXTENDS Naturals, FiniteSets

CONSTANTS
    Uploads,     \* executions of the script, one use each
    Artifacts,   \* artifacts of one version
    ArtifactOf,  \* [Uploads -> Artifacts]
    Pom,         \* the POM of that version
    Nobody,      \* "not in the registry"
    Maven,       \* the executions whose mode is maven (else generic or pypi)
    Immutable,   \* the files in a registry that refuses to replace
    Retries      \* PUBLISH_RETRIES

ASSUME ArtifactAssumption == ArtifactOf \in [Uploads -> Artifacts]
ASSUME NamesAssumption == Pom \notin Artifacts /\ Nobody \notin Uploads
ASSUME ModeAssumption == Maven \subseteq Uploads /\ Retries \in Nat

VARIABLES
    stored,     \* [Files -> who uploaded what the registry holds]
    taken,      \* the <<execution, file>> pairs the registry ever stored
    pc,         \* [Uploads -> where the execution is]
    attempt,    \* [Uploads -> number of the next request for the current file]
    code,       \* [Uploads -> class of UPLOAD_HTTP_CODE]
    acked       \* [Uploads -> an artifact request of it was answered with a 2xx]

vars == <<stored, taken, pc, attempt, code, acked>>

-----------------------------------------------------------------------------
Files == Artifacts \cup {Pom}

\* 2xx, another final answer, a transient one (408, 429, 5xx), and 000: no answer.
Codes == {"ok", "rejected", "transient", "none"}
_is_retryable(c) == c \in {"transient", "none"}

\* "failed" is the exit after an upload that was reported as failed, "aborted" that of
\* set -e on a local command, "dry" the exit of a dry run and "hung" a curl that waits.
PCs == {"start", "artifact", "pom", "done", "dry", "failed", "aborted", "hung", "killed"}
Uploading(u) == pc[u] \in {"artifact", "pom"}
FileOf(u) == IF pc[u] = "pom" THEN Pom ELSE ArtifactOf[u]

\* The registry: it refuses to replace a file, or takes the last one.
Refuses(f) == f \in Immutable /\ stored[f] # Nobody
Store(u, f) ==
    /\ ~Refuses(f)
    /\ stored' = [stored EXCEPT ![f] = u]
    /\ taken' = taken \cup {<<u, f>>}

Init ==
    /\ stored = [f \in Files |-> Nobody]
    /\ taken = {}
    /\ pc = [u \in Uploads |-> "start"]
    /\ attempt = [u \in Uploads |-> 1]
    /\ code = [u \in Uploads |-> "none"]
    /\ acked = [u \in Uploads |-> FALSE]

-----------------------------------------------------------------------------
\* The checks before the first request hold: a file, coordinates, a known platform.
Begin(u) ==
    /\ pc[u] = "start"
    /\ pc' = [pc EXCEPT ![u] = "artifact"]
    /\ UNCHANGED <<stored, taken, attempt, code, acked>>

\* DRY_RUN is set: the script says what it would do and succeeds.
DryRun(u) ==
    /\ pc[u] = "start"
    /\ pc' = [pc EXCEPT ![u] = "dry"]
    /\ UNCHANGED <<stored, taken, attempt, code, acked>>

\* A check or a local command before the first request fails.
Invalid(u) ==
    /\ pc[u] = "start"
    /\ pc' = [pc EXCEPT ![u] = "failed"]
    /\ UNCHANGED <<stored, taken, attempt, code, acked>>

\* Mutant: one attempt too many.
AgainOnceMore(u) == attempt[u] <= Retries + 1 /\ (attempt[u] > 1 => _is_retryable(code[u]))

\* Mutant: a final answer is tried again as well.
AgainAnyway(u) == attempt[u] <= Retries

\* curl_upload_with_retry: what the last answer and the number of attempts leave
\* to do.  The loop ends on a final answer, on an error of curl's own
\* configuration, or when the attempts are used up.
Again(u) == attempt[u] <= Retries /\ (attempt[u] > 1 => _is_retryable(code[u]))

\* Mutant: the attempt is only counted where the script waits for the next one.
AttemptForEver(u, c) ==
    /\ code' = [code EXCEPT ![u] = c]
    /\ attempt' = [attempt EXCEPT ![u] = IF @ < Retries THEN @ + 1 ELSE @]
    /\ acked' = [acked EXCEPT ![u] = @ \/ (pc[u] = "artifact" /\ c = "ok")]
    /\ UNCHANGED pc

Attempt(u, c) ==
    /\ code' = [code EXCEPT ![u] = c]
    /\ attempt' = [attempt EXCEPT ![u] = @ + 1]
    /\ acked' = [acked EXCEPT ![u] = @ \/ (pc[u] = "artifact" /\ c = "ok")]
    /\ UNCHANGED pc

\* The registry stores the file; its answer arrives, or something else does, which may
\* be a final refusal.
Delivered(u) ==
    /\ Uploading(u) /\ Again(u)
    /\ Store(u, FileOf(u))
    /\ \E c \in Codes : Attempt(u, c)

\* The registry refuses to replace a file.
Rejected(u) ==
    /\ Uploading(u) /\ Again(u)
    /\ Refuses(FileOf(u))
    /\ Attempt(u, "rejected")
    /\ UNCHANGED <<stored, taken>>

\* The request does not get there, or is turned down (credentials, overload).
Undelivered(u) ==
    /\ Uploading(u) /\ Again(u)
    /\ \E c \in {"rejected", "transient", "none"} : Attempt(u, c)
    /\ UNCHANGED <<stored, taken>>

\* A curl exit code that a retry cannot change: the loop returns at once.
ConfigError(u) ==
    /\ Uploading(u) /\ Again(u)
    /\ code' = [code EXCEPT ![u] = "none"]
    /\ attempt' = [attempt EXCEPT ![u] = Retries + 1]
    /\ UNCHANGED <<stored, taken, pc, acked>>
-----------------------------------------------------------------------------
\* Mutant: every answer is a success.
ArtifactUploadedAnyway(u) ==
    /\ pc[u] = "artifact" /\ ~Again(u)
    /\ pc' = [pc EXCEPT ![u] = IF u \in Maven THEN "pom" ELSE "done"]
    /\ attempt' = [attempt EXCEPT ![u] = 1]
    /\ code' = [code EXCEPT ![u] = "none"]
    /\ UNCHANGED <<stored, taken, acked>>

\* upload_maven, upload_pypi, upload_generic: after a 2xx, maven uploads the POM.
ArtifactUploaded(u) ==
    /\ pc[u] = "artifact" /\ ~Again(u)
    /\ code[u] = "ok"
    /\ pc' = [pc EXCEPT ![u] = IF u \in Maven THEN "pom" ELSE "done"]
    /\ attempt' = [attempt EXCEPT ![u] = 1]
    /\ code' = [code EXCEPT ![u] = "none"]
    /\ UNCHANGED <<stored, taken, acked>>

ArtifactFailed(u) ==
    /\ pc[u] = "artifact" /\ ~Again(u)
    /\ code[u] # "ok"
    /\ pc' = [pc EXCEPT ![u] = "failed"]
    /\ UNCHANGED <<stored, taken, attempt, code, acked>>

\* The POM: an upload that fails is a warning, the script succeeds either way.
PomEnds(u) ==
    /\ pc[u] = "pom" /\ ~Again(u)
    /\ pc' = [pc EXCEPT ![u] = "done"]
    /\ UNCHANGED <<stored, taken, attempt, code, acked>>

\* A local command around the POM fails (to write it, its checksum, to remove it):
\* set -e ends the script, although the artifact is there.
LocalCommandFails(u) ==
    /\ pc[u] = "pom"
    /\ attempt[u] = 1 \/ ~Again(u)
    /\ pc' = [pc EXCEPT ![u] = "aborted"]
    /\ UNCHANGED <<stored, taken, attempt, code, acked>>

\* A connection stalls, before or after the registry stored the file: curl has no
\* time limit.
Stall(u) ==
    /\ Uploading(u) /\ Again(u)
    /\ Store(u, FileOf(u)) \/ UNCHANGED <<stored, taken>>
    /\ pc' = [pc EXCEPT ![u] = "hung"]
    /\ UNCHANGED <<attempt, code, acked>>

Kill(u) ==
    /\ Uploading(u) \/ pc[u] = "hung"
    /\ pc' = [pc EXCEPT ![u] = "killed"]
    /\ UNCHANGED <<stored, taken, attempt, code, acked>>

UploadStep(u) ==
    \/ Begin(u) \/ DryRun(u) \/ Invalid(u)
    \/ Delivered(u) \/ Rejected(u) \/ Undelivered(u) \/ ConfigError(u)
    \/ ArtifactUploaded(u) \/ ArtifactFailed(u)
    \/ PomEnds(u) \/ LocalCommandFails(u)

Next == \E u \in Uploads : UploadStep(u) \/ Stall(u) \/ Kill(u)

Spec == Init /\ [][Next]_vars

\* Local commands return, and so does a curl that does not stall.
FairSpec == Spec /\ \A u \in Uploads : WF_vars(UploadStep(u))
-----------------------------------------------------------------------------
TypeOK ==
    /\ stored \in [Files -> Uploads \cup {Nobody}]
    /\ taken \subseteq Uploads \X Files
    /\ pc \in [Uploads -> PCs]
    /\ attempt \in [Uploads -> 1 .. Retries + 1]
    /\ code \in [Uploads -> Codes]
    /\ acked \in [Uploads -> BOOLEAN]

\* A success of the script, which mint takes for a published artifact, means that
\* the registry stored it, and an immutable one still holds it.  A dry run is the
\* success that means nothing.
Published(u) ==
    /\ <<u, ArtifactOf[u]>> \in taken
    /\ ArtifactOf[u] \in Immutable => stored[ArtifactOf[u]] = u
SuccessMeansStored == \A u \in Uploads : pc[u] \in {"pom", "done"} => Published(u)

\* A 2xx for the artifact is never thrown away: whatever is tried again after it, and
\* whatever happens to the POM, the upload is not reported as failed.  (The script may
\* still exit 1 when a local command around the POM fails: "aborted".)
SuccessIsKept == \A u \in Uploads : acked[u] => pc[u] # "failed"

\* The registry never shows a POM without an artifact of that version.
PomFollowsArtifact ==
    stored[Pom] # Nobody => \E a \in Artifacts : stored[a] # Nobody

\* The invariant behind them: what the registry took stays there, a 2xx comes from
\* the registry and is the last answer, and only an execution with one gets to the POM.
UploadInv ==
    /\ \A u \in Uploads, f \in Files : <<u, f>> \in taken => stored[f] # Nobody
    /\ \A u \in Uploads : pc[u] = "start" => code[u] = "none" /\ ~acked[u]
    /\ \A u \in Uploads : pc[u] = "artifact" /\ code[u] = "ok" => Published(u)
    /\ \A u \in Uploads :
          pc[u] = "artifact" /\ acked[u] => code[u] = "ok" /\ attempt[u] > 1

\* Every execution ends, however the registry answers, unless a connection stalls.
UploadsEnd ==
    \A u \in Uploads :
        Uploading(u) ~> pc[u] \in {"done", "failed", "aborted", "hung", "killed"}
=============================================================================

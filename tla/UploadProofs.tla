----------------------------- MODULE UploadProofs -----------------------------
(***************************************************************************)
(* Proofs about Upload, for any executions, artifacts and retries.         *)
(***************************************************************************)
EXTENDS Upload, TLAPS

USE ArtifactAssumption, NamesAssumption, ModeAssumption
-----------------------------------------------------------------------------
\* The initial states are typed.
LEMMA TypeInit == Init => TypeOK
BY DEF Init, TypeOK, PCs, Codes, Files

\* An attempt keeps the types: it is made while attempts are left.
LEMMA AttemptType ==
    ASSUME TypeOK, NEW u \in Uploads, NEW c \in Codes, attempt[u] <= Retries, Attempt(u, c)
    PROVE  /\ code' \in [Uploads -> Codes]
           /\ attempt' \in [Uploads -> 1 .. Retries + 1]
           /\ acked' \in [Uploads -> BOOLEAN]
           /\ pc' \in [Uploads -> PCs]
<1>1. attempt[u] + 1 \in 1 .. Retries + 1
  BY DEF TypeOK
<1>2. attempt' \in [Uploads -> 1 .. Retries + 1] /\ code' \in [Uploads -> Codes] /\ pc' = pc
  BY <1>1 DEF Attempt, TypeOK
<1>3. acked' \in [Uploads -> BOOLEAN]
  BY Zenon DEF Attempt, TypeOK
<1> QED
  BY <1>2, <1>3 DEF TypeOK

\* The file an execution uploads is a file of the version.
LEMMA FileType == \A u \in Uploads : FileOf(u) \in Files
BY DEF FileOf, Files

\* Every step keeps the types.
LEMMA TypeNext == TypeOK /\ [Next]_vars => TypeOK'
<1> SUFFICES ASSUME TypeOK, [Next]_vars PROVE TypeOK'
  OBVIOUS
<1>1. ASSUME NEW u \in Uploads,
             Begin(u) \/ DryRun(u) \/ Invalid(u) \/ ArtifactFailed(u) \/ PomEnds(u)
             \/ LocalCommandFails(u) \/ Kill(u)
      PROVE  TypeOK'
  BY <1>1 DEF TypeOK, Begin, DryRun, Invalid, ArtifactFailed, PomEnds, LocalCommandFails, Kill, PCs
<1>2. ASSUME NEW u \in Uploads, Delivered(u) PROVE TypeOK'
  <2>1. attempt[u] <= Retries
    BY <1>2 DEF Delivered, Again
  <2>2. PICK c \in Codes : Attempt(u, c)
    BY <1>2 DEF Delivered
  <2>4. stored' \in [Files -> Uploads \cup {Nobody}] /\ taken' \subseteq Uploads \X Files
    BY <1>2, FileType DEF Delivered, Store, TypeOK
  <2> QED
    BY <2>1, <2>2, <2>4, AttemptType DEF TypeOK
<1>7. ASSUME NEW u \in Uploads, Stall(u) PROVE TypeOK'
  <2>1. stored' \in [Files -> Uploads \cup {Nobody}] /\ taken' \subseteq Uploads \X Files
    BY <1>7, FileType DEF Stall, Store, TypeOK
  <2> QED
    BY <1>7, <2>1 DEF Stall, TypeOK, PCs
<1>3. ASSUME NEW u \in Uploads, Rejected(u) \/ Undelivered(u) PROVE TypeOK'
  <2>1. attempt[u] <= Retries
    BY <1>3 DEF Rejected, Undelivered, Again
  <2>2. PICK c \in {"rejected", "transient", "none"} : Attempt(u, c)
    BY <1>3 DEF Rejected, Undelivered
  <2>3. c \in Codes
    BY DEF Codes
  <2>4. stored' = stored /\ taken' = taken
    BY <1>3 DEF Rejected, Undelivered
  <2> QED
    BY <2>1, <2>2, <2>3, <2>4, AttemptType DEF TypeOK
<1>4. ASSUME NEW u \in Uploads, ConfigError(u) PROVE TypeOK'
  <2>1. Retries + 1 \in 1 .. Retries + 1
    OBVIOUS
  <2>2. "none" \in Codes
    BY DEF Codes
  <2> QED
    BY <1>4, <2>1, <2>2 DEF ConfigError, TypeOK
<1>5. ASSUME NEW u \in Uploads, ArtifactUploaded(u) PROVE TypeOK'
  <2>1. 1 \in 1 .. Retries + 1 /\ "none" \in Codes
    BY DEF Codes
  <2>2. (IF u \in Maven THEN "pom" ELSE "done") \in PCs
    BY DEF PCs
  <2> QED
    BY <1>5, <2>1, <2>2 DEF ArtifactUploaded, TypeOK
<1>6. CASE UNCHANGED vars
  BY <1>6 DEF vars, TypeOK
<1> QED
  BY <1>1, <1>2, <1>3, <1>4, <1>5, <1>6, <1>7 DEF Next, UploadStep

\* The registry, the executions and their counters have the declared types: in
\* particular no execution makes more requests for a file than PUBLISH_RETRIES.
THEOREM TypeCorrect == Spec => []TypeOK
<1> QED
  BY TypeInit, TypeNext, PTL DEF Spec
-----------------------------------------------------------------------------
\* What success and failure mean, together with what makes them inductive.
UploadFacts == UploadInv /\ SuccessMeansStored /\ SuccessIsKept /\ PomFollowsArtifact

\* It holds at first: nothing is stored.
LEMMA FactsInit == Init => UploadFacts
BY DEF Init, UploadFacts, UploadInv, SuccessMeansStored, SuccessIsKept, PomFollowsArtifact,
       Published, Files

\* What the registry took stays published while others store what it accepts.
LEMMA PublishedStays ==
    ASSUME TypeOK, NEW u \in Uploads, NEW w \in Uploads, Published(w), Store(u, FileOf(u))
    PROVE  Published(w)'
<1>1. <<w, ArtifactOf[w]>> \in taken'
  BY DEF Published, Store
<1>2. ASSUME ArtifactOf[w] \in Immutable PROVE stored'[ArtifactOf[w]] = w
  <2>1. stored[ArtifactOf[w]] = w /\ w # Nobody
    BY <1>2 DEF Published
  <2>2. FileOf(u) # ArtifactOf[w]
    BY <1>2, <2>1 DEF Store, Refuses
  <2>3. ArtifactOf[w] \in Files
    BY DEF Files
  <2> QED
    BY <2>1, <2>2, <2>3 DEF Store, TypeOK
<1> QED
  BY <1>1, <1>2 DEF Published

\* Every step keeps it.
LEMMA FactsNext == TypeOK /\ UploadFacts /\ [Next]_vars => UploadFacts'
<1> SUFFICES ASSUME TypeOK, UploadFacts, [Next]_vars PROVE UploadFacts'
  OBVIOUS
<1>0. /\ pc \in [Uploads -> PCs] /\ code \in [Uploads -> Codes]
      /\ acked \in [Uploads -> BOOLEAN] /\ attempt \in [Uploads -> 1 .. Retries + 1]
  BY DEF TypeOK
<1> USE DEF UploadFacts, UploadInv, SuccessMeansStored, SuccessIsKept, PomFollowsArtifact
<1>1. ASSUME NEW u \in Uploads, Begin(u) \/ DryRun(u) \/ Invalid(u) \/ PomEnds(u)
                                \/ LocalCommandFails(u) \/ Kill(u)
      PROVE  UploadFacts'
  <2>1. UNCHANGED <<stored, taken, code, acked, attempt>>
    BY <1>1 DEF Begin, DryRun, Invalid, PomEnds, LocalCommandFails, Kill
  <2>2. \A w \in Uploads : Published(w)' = Published(w)
    BY <2>1 DEF Published
  <2>3. PICK label \in {"artifact", "dry", "failed", "done", "aborted", "killed"} :
          /\ pc' = [pc EXCEPT ![u] = label]
          /\ label = "done" => pc[u] = "pom"
          /\ label \in {"artifact", "failed"} => pc[u] = "start"
    BY <1>1, Zenon DEF Begin, DryRun, Invalid, PomEnds, LocalCommandFails, Kill
  <2> QED
    BY <1>0, <2>1, <2>2, <2>3
<1>2. ASSUME NEW u \in Uploads, ArtifactFailed(u) PROVE UploadFacts'
  <2>1. UNCHANGED <<stored, taken, code, acked, attempt>>
    BY <1>2 DEF ArtifactFailed
  <2>2. \A w \in Uploads : Published(w)' = Published(w)
    BY <2>1 DEF Published
  <2> QED
    BY <1>0, <1>2, <2>1, <2>2 DEF ArtifactFailed
<1>3. ASSUME NEW u \in Uploads, ArtifactUploaded(u) PROVE UploadFacts'
  <2>1. UNCHANGED <<stored, taken, acked>>
    BY <1>3 DEF ArtifactUploaded
  <2>2. \A w \in Uploads : Published(w)' = Published(w)
    BY <2>1 DEF Published
  <2>3. Published(u) /\ pc[u] = "artifact"
    BY <1>3 DEF ArtifactUploaded
  <2>4. /\ \A w \in Uploads \ {u} : pc'[w] = pc[w] /\ code'[w] = code[w] /\ attempt'[w] = attempt[w]
        /\ pc'[u] \in {"pom", "done"}
    BY <1>0, <1>3 DEF ArtifactUploaded
  <2> QED
    BY <2>1, <2>2, <2>3, <2>4
<1>4. ASSUME NEW u \in Uploads, Uploading(u), Again(u) PROVE ~(pc[u] = "artifact" /\ acked[u])
  BY <1>4 DEF Again, _is_retryable
<1>5. ASSUME NEW u \in Uploads, ConfigError(u) PROVE UploadFacts'
  <2>1. UNCHANGED <<stored, taken, acked, pc>>
    BY <1>5 DEF ConfigError
  <2>2. \A w \in Uploads : Published(w)' = Published(w)
    BY <2>1 DEF Published
  <2>3. ~(pc[u] = "artifact" /\ acked[u]) /\ Uploading(u)
    BY <1>4, <1>5 DEF ConfigError
  <2>4. /\ \A w \in Uploads \ {u} : code'[w] = code[w] /\ attempt'[w] = attempt[w]
        /\ code'[u] = "none"
    BY <1>0, <1>5 DEF ConfigError
  <2> QED
    BY <1>0, <2>1, <2>2, <2>3, <2>4 DEF Uploading
<1>6. ASSUME NEW u \in Uploads, NEW c \in {"rejected", "transient", "none"}, Uploading(u), Again(u),
             Attempt(u, c), UNCHANGED <<stored, taken>>
      PROVE  UploadFacts'
  <2>1. pc' = pc /\ \A w \in Uploads : Published(w)' = Published(w)
    BY <1>6 DEF Published, Attempt
  <2>2. ~(pc[u] = "artifact" /\ acked[u])
    BY <1>4, <1>6
  <2>3. /\ \A w \in Uploads \ {u} : code'[w] = code[w] /\ attempt'[w] = attempt[w]
        /\ code'[u] = c
        /\ acked' = acked
    BY <1>0, <1>6 DEF Attempt
  <2> QED
    BY <1>0, <1>6, <2>1, <2>2, <2>3 DEF Uploading
\* A step that stores the file keeps everything but what its answer says.
<1>7. ASSUME NEW u \in Uploads, Uploading(u), Store(u, FileOf(u))
      PROVE  /\ \A w \in Uploads, f \in Files : <<w, f>> \in taken' => stored'[f] # Nobody
             /\ \A w \in Uploads : Published(w) => Published(w)'
             /\ pc[u] = "artifact" => Published(u)'
             /\ PomFollowsArtifact'
  <2>2. \A w \in Uploads : Published(w) => Published(w)'
    BY <1>7, PublishedStays
  <2>3. /\ FileOf(u) \in Files /\ u # Nobody
        /\ stored' = [stored EXCEPT ![FileOf(u)] = u] /\ taken' = taken \cup {<<u, FileOf(u)>>}
    BY <1>7, FileType DEF Store
  <2>5. stored \in [Files -> Uploads \cup {Nobody}]
    BY DEF TypeOK
  <2>6. \A f \in Files : stored[f] # Nobody => stored'[f] # Nobody
    BY <2>3, <2>5
  <2>7. \A w \in Uploads, f \in Files : <<w, f>> \in taken' => stored'[f] # Nobody
    BY <2>3, <2>5, <2>6
  <2>8. pc[u] = "artifact" => FileOf(u) = ArtifactOf[u] /\ Published(u)'
    <3> SUFFICES ASSUME pc[u] = "artifact" PROVE FileOf(u) = ArtifactOf[u] /\ Published(u)'
      OBVIOUS
    <3>1. FileOf(u) = ArtifactOf[u]
      BY DEF FileOf
    <3> QED
      BY <2>3, <2>5, <3>1 DEF Published
  <2>9. pc[u] # "artifact" => pc[u] = "pom" /\ FileOf(u) = Pom /\ Published(u)
    BY <1>7 DEF Uploading, FileOf
  <2>10. \A w \in Uploads : ArtifactOf[w] \in Files /\ ArtifactOf[w] \in Artifacts /\ ArtifactOf[w] # Pom
    BY DEF Files
  <2>12. PomFollowsArtifact'
    <3>1. CASE FileOf(u) = Pom
      <4>1. pc[u] = "pom"
        BY <2>8, <2>9, <2>10, <3>1
      <4>2. <<u, ArtifactOf[u]>> \in taken
        BY <4>1 DEF Published
      <4>3. stored'[ArtifactOf[u]] # Nobody
        BY <2>6, <2>10, <4>2
      <4> QED
        BY <2>10, <4>3
    <3>2. CASE FileOf(u) # Pom
      <4>1. stored'[Pom] = stored[Pom]
        BY <2>3, <2>5, <3>2 DEF Files
      <4>2. \A a \in Artifacts : stored[a] # Nobody => stored'[a] # Nobody
        BY <2>6 DEF Files
      <4> QED
        BY <4>1, <4>2
    <3> QED
      BY <3>1, <3>2
  <2> QED
    BY <2>2, <2>7, <2>8, <2>12
<1>8. ASSUME NEW u \in Uploads, Delivered(u) PROVE UploadFacts'
  <2>1. Store(u, FileOf(u)) /\ Uploading(u) /\ Again(u)
    BY <1>8 DEF Delivered
  <2>2. PICK c \in Codes : Attempt(u, c)
    BY <1>8 DEF Delivered
  <2>3. pc' = pc
    BY <2>2 DEF Attempt
  <2>4. /\ \A w \in Uploads \ {u} :
              code'[w] = code[w] /\ attempt'[w] = attempt[w] /\ acked'[w] = acked[w]
        /\ code'[u] = c /\ attempt'[u] = attempt[u] + 1
    BY <1>0, <2>2 DEF Attempt
  <2>5. acked'[u] => acked[u] \/ (pc[u] = "artifact" /\ c = "ok")
    BY <1>0, <2>2, Zenon DEF Attempt
  <2>6. ~(pc[u] = "artifact" /\ acked[u])
    BY <1>4, <2>1
  <2>7. /\ \A w \in Uploads, f \in Files : <<w, f>> \in taken' => stored'[f] # Nobody
        /\ \A w \in Uploads : Published(w) => Published(w)'
        /\ pc[u] = "artifact" => Published(u)'
        /\ PomFollowsArtifact'
    BY <1>7, <2>1
  <2>8. SuccessMeansStored' /\ SuccessIsKept'
    BY <2>1, <2>3, <2>4, <2>5, <2>7 DEF Uploading
  <2>9. UploadInv'
    BY <1>0, <2>1, <2>3, <2>4, <2>5, <2>6, <2>7 DEF Uploading
  <2> QED
    BY <2>7, <2>8, <2>9
<1>9. ASSUME NEW u \in Uploads, Stall(u) PROVE UploadFacts'
  <2>1. /\ pc' = [pc EXCEPT ![u] = "hung"] /\ Uploading(u)
        /\ UNCHANGED <<attempt, code, acked>>
    BY <1>9 DEF Stall
  <2>2. CASE UNCHANGED <<stored, taken>>
    <3>1. \A w \in Uploads : Published(w)' = Published(w)
      BY <2>2 DEF Published
    <3> QED
      BY <1>0, <2>1, <2>2, <3>1
  <2>3. CASE Store(u, FileOf(u))
    <3>1. /\ \A w \in Uploads, f \in Files : <<w, f>> \in taken' => stored'[f] # Nobody
          /\ \A w \in Uploads : Published(w) => Published(w)'
          /\ PomFollowsArtifact'
      BY <1>7, <2>1, <2>3
    <3> QED
      BY <1>0, <2>1, <3>1
  <2> QED
    BY <1>9, <2>2, <2>3 DEF Stall
<1>10. CASE UNCHANGED vars
  <2>1. \A w \in Uploads : Published(w)' = Published(w)
    BY <1>10 DEF Published, vars
  <2> QED
    BY <1>10, <2>1 DEF vars
<1>11. ASSUME NEW u \in Uploads, Rejected(u) \/ Undelivered(u) PROVE UploadFacts'
  BY <1>6, <1>11 DEF Rejected, Undelivered
<1> QED
  BY <1>1, <1>2, <1>3, <1>5, <1>8, <1>9, <1>10, <1>11 DEF Next, UploadStep

\* What success and failure mean holds in every reachable state.
LEMMA FactsInvariant == Spec => []UploadFacts
<1> QED
  BY FactsInit, TypeCorrect, FactsNext, PTL DEF Spec

\* A success of publish_artifact.sh, but for a dry run, means that the registry stored
\* the artifact.
THEOREM SuccessIsStored == Spec => []SuccessMeansStored
<1>1. UploadFacts => SuccessMeansStored
  BY DEF UploadFacts
<1> QED
  BY <1>1, FactsInvariant, PTL

\* An upload that was answered with a 2xx is not reported as failed.
THEOREM NoSuccessIsLost == Spec => []SuccessIsKept
<1>1. UploadFacts => SuccessIsKept
  BY DEF UploadFacts
<1> QED
  BY <1>1, FactsInvariant, PTL

\* The POM of a version is never in the registry before its first artifact.
THEOREM PomComesLater == Spec => []PomFollowsArtifact
<1>1. UploadFacts => PomFollowsArtifact
  BY DEF UploadFacts
<1> QED
  BY <1>1, FactsInvariant, PTL
=============================================================================

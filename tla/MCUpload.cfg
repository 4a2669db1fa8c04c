SPECIFICATION FairSpec
CONSTANTS
    u1 = u1
    u2 = u2
    u3 = u3
    a1 = a1
    a2 = a2
    Uploads = {u1, u2, u3}
    Artifacts = {a1, a2}
    ArtifactOf <- MCArtifactOf
    Pom = Pom
    Nobody = Nobody
    Maven = {u1, u2, u3}
    Immutable = {a1, a2, Pom}
    Retries = 2
CHECK_DEADLOCK FALSE
INVARIANTS
    TypeOK
    SuccessMeansStored
    SuccessIsKept
    PomFollowsArtifact
PROPERTY
    UploadsEnd

SPECIFICATION Spec
CONSTANTS
    old = old
    new = new
    alien = alien
    Mixed = Mixed
    Nothing = Nothing
    NoOffer = NoOffer
    Images <- MCImages
    SizeOf <- MCSizeOf
    VersionOf <- MCVersionOf
    OurImages <- MCOurImages
    Manifests <- MCRefusals
    Capacity = 2
    ConfirmTimeout = 2
    ReceiveTimeout = 1
    MaxLag = 1
    CountModulus = 1
    Totals = {0, 3, 4}
    FileSizes = {0, 1, 2}
    ChunkLens = {0, 1, 2}
    Sources <- MCSources
    ManifestCap = 3
    RebootDelay = 1
    StartupDeadline = 1
    SilentImages = {}
    Factory = old
INVARIANTS
    TypeOK
    PushMatchesSink
    ReadyAgain
    IndInv
    BackendFollowsPhase
    SinkFollowsSession
    NoSequenceGap
    AlwaysBootable
PROPERTIES
    NoEarlyTimeout
    PromiseKept

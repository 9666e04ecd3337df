SPECIFICATION FairSpec
CONSTANTS
    old = old
    new = new
    alien = alien
    Mixed = Mixed
    Nothing = Nothing
    NoOffer = NoOffer
    Images <- MCTwoImages
    SizeOf <- MCTwoSizes
    VersionOf <- MCTwoVersions
    OurImages <- MCTwoImages
    Manifests <- MCHonest
    Capacity = 2
    ConfirmTimeout = 2
    ReceiveTimeout = 1
    MaxLag = 1
    CountModulus = 2
    Totals = {3}
    FileSizes = {1, 2}
    ChunkLens = {1}
    Sources <- MCHonestSource
    ManifestCap = 2
    RebootDelay = 2
    StartupDeadline = 1
    SilentImages <- MCSilentImages
    Factory = old
PROPERTIES
    SessionEnds
    RebootFollows
    SilentImageRolledBack

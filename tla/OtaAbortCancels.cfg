SPECIFICATION Spec
CONSTANTS
    old = old
    new = new
    alien = alien
    Mixed = Mixed
    Nothing = Nothing
    NoOffer = NoOffer
    Images <- MCImages
    SizeOf <- MCSizeOf
    VersionOf <- MCVersionOf
    OurImages <- MCOurImages
    Manifests <- MCHonest
    Capacity = 2
    ConfirmTimeout = 2
    ReceiveTimeout = 1
    MaxLag = 1
    CountModulus = 2
    Totals = {3}
    FileSizes = {1, 2}
    ChunkLens = {1, 2}
    Sources <- MCSources
    ManifestCap = 2
    RebootDelay = 1
    StartupDeadline = 1
    SilentImages = {}
    Factory = old
PROPERTY
    AbortCancels

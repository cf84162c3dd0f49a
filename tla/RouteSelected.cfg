SPECIFICATION Spec
CONSTANTS
    None = None
    t1 = t1
    t2 = t2
    Requests <- QqRequests
    PolicyRows <- Allows
    Tracks = {t1}
    TrackRows <- Single
    LyricSheets <- NoSheets
    SecretHandles <- Known
    ProvidersWithUrl <- Qq
    ProviderBodies <- Plain
    ProviderAvailable = FALSE
    IamConfigured = FALSE
INVARIANTS
    SelectedPathFollowed
CHECK_DEADLOCK FALSE

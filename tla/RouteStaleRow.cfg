SPECIFICATION Spec
CONSTANTS
    None = None
    t1 = t1
    t2 = t2
    Requests <- StreamSelf
    PolicyRows <- Allows
    Tracks = {t1}
    TrackRows <- Two
    LyricSheets <- NoSheets
    SecretHandles <- Known
    ProvidersWithUrl <- Qq
    ProviderBodies <- Plain
    ProviderAvailable = TRUE
    IamConfigured = FALSE
INVARIANTS
    UnsupportedNotStreamed
CHECK_DEADLOCK FALSE

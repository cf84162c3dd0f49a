SPECIFICATION Spec
CONSTANTS
    None = None
    t1 = t1
    t2 = t2
    Requests <- CatalogueRequests
    PolicyRows <- DrmRows
    Tracks = {t1, t2}
    TrackRows <- Three
    LyricSheets <- Sheets
    SecretHandles <- Known
    ProvidersWithUrl <- Nobody
    ProviderBodies <- Plain
    ProviderAvailable = TRUE
    IamConfigured = FALSE
INVARIANTS
    TypeOK
    RestrictionHonoured
PROPERTIES
    RestrictedLyricsWithheld
CHECK_DEADLOCK FALSE

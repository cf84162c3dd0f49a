SPECIFICATION Spec
CONSTANTS
    None = None
    t1 = t1
    t2 = t2
    Requests <- ProviderRequests
    PolicyRows <- MixedRows
    Tracks = {t1}
    TrackRows <- Fine
    LyricSheets <- NoSheets
    SecretHandles <- Known
    ProvidersWithUrl <- Qq
    ProviderBodies <- Bodied
    ProviderAvailable = TRUE
    IamConfigured = TRUE
INVARIANTS
    FailClosed
    ServedIsAdmitted
    AuditTrail
    AnswerConsistent
CHECK_DEADLOCK FALSE

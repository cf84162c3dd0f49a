SPECIFICATION Spec
CONSTANTS
    i1 = i1
    i2 = i2
    t1 = t1
    t2 = t2
    r1 = r1
    r2 = r2
    r3 = r3
    isrc = isrc
    NoIsrc = NoIsrc
    Nobody = Nobody
    Seeded = Seeded
    NoTrack = NoTrack
    NoReq = NoReq
    NoState = NoState
    Ingests = {i1, i2}
    Tracks = {t1}
    Requests = {r1, r2, r3}
    TrackOf <- SharedTrackOf
    IsrcOf <- NoIsrcOf
    SeedTracks = {}
    RouteActions = {"approve", "reject", "revoke"}
    PoolSize = 2
SYMMETRY RequestSymmetry
INVARIANTS
    TypeOK
    Projection
    HistoryExplainsState
    AnswerMatchesTables
    AuditOnlyCommitted
    PoolConserved
    NoCircle
CHECK_DEADLOCK FALSE

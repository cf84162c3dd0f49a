SPECIFICATION FairSpec
CONSTANTS
    i1 = i1
    i2 = i2
    t1 = t1
    t2 = t2
    r1 = r1
    r2 = r2
    r3 = r3
    isrc = isrc
    NoIsrc = NoIsrc
    Nobody = Nobody
    Seeded = Seeded
    NoTrack = NoTrack
    NoReq = NoReq
    NoState = NoState
    Ingests = {i1, i2}
    Tracks = {t1, t2}
    Requests = {r1, r2}
    TrackOf <- TwoTrackOf
    IsrcOf <- SharedIsrcOf
    SeedTracks = {t1}
    RouteActions = {"approve", "reject", "revoke", "resubmit"}
    PoolSize = 2
INVARIANTS
    OneApprovedPerKey
PROPERTIES
    Atomic
    Answered
CHECK_DEADLOCK FALSE

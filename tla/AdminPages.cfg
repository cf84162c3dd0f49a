SPECIFICATION PagesSpec
CONSTANTS
    i1 = i1
    t1 = t1
    r1 = r1
    r2 = r2
    r3 = r3
    s1 = s1
    s2 = s2
    NoIsrc = NoIsrc
    Nobody = Nobody
    Seeded = Seeded
    NoSession = NoSession
    NoRow = NoRow
    Ingests = {i1}
    Tracks = {t1}
    Requests = {r1, r2, r3}
    TrackOf <- OneTrackOf
    IsrcOf <- NoIsrcOf
    SeedTracks = {}
    Sids = {s1, s2}
    Times <- Clock
    TTL = 0
    Routes = {"audio", "detail", "create", "approve", "reject", "revoke"}
SYMMETRY PageSymmetry
INVARIANTS
    PagesTypeOK
    ActedByRole
    PageCoherent
    OwnDecisionShown
    ConflictNamed
PROPERTIES
    RefusedForGood
CHECK_DEADLOCK FALSE

SPECIFICATION SeedingSpec
CONSTANTS
    i1 = i1
    i2 = i2
    i3 = i3
    t1 = t1
    t2 = t2
    t3 = t3
    r1 = r1
    r2 = r2
    r3 = r3
    x = x
    NoIsrc = NoIsrc
    Nobody = Nobody
    Seeded = Seeded
    NoRun = NoRun
    Ingests = {i1, i2, i3}
    Tracks = {t1, t2, t3}
    Requests = {r1, r2, r3}
    TrackOf <- TwoForOne
    IsrcOf <- SomeIsrcOf
    SeedTracks = {t1, t2, t3}
    Catalog <- TwoTracks
    Template <- OneTrack
    Sheet <- Sheets
    Files = 4
SYMMETRY SeedSymmetry
INVARIANTS
    SeedingTypeOK
    SeededPlayable
    FinishedStays
    SheetFromTop
PROPERTIES
    CompletesFromScratch
    Implements
CHECK_DEADLOCK FALSE

SPECIFICATION Spec
CONSTANTS
    App = {a1}
    InitApps = {a1}
    Req = {r1, r2, r3, r4}
    Name = {n1}
    Address = {i1}
    MaxTime = 1
    NoApp = NoApp
    OldLife = OldLife
    NoCall = NoCall
SYMMETRY Symmetry
INVARIANTS ResourceTypeOK LastWriteShows NothingOutlivesItsApp VersionsInOrder DeletedOnce ErrorMeansLifeEnded UpdatedSinceAsked
CHECK_DEADLOCK FALSE

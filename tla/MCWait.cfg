SPECIFICATION FairWaitSpec
CONSTANTS
    App = {a1}
    InitApps = {a1}
    Req = {r1, r2}
    Config = {"pullable", "unpullable"}
    ClientOp = {"create", "update", "delete", "deleteApp"}
    MaxTime = 0
    Waiter = {w1}
    WaitStates <- StartedOrDestroyed
    RawTimeout <- AnyTimeout
    Word = 8
    Second = 1
    MaxTimeout = 2
    NoTimeout = NoTimeout
    NotANumber = NotANumber
    NoMachine = NoMachine
    NoNonce = NoNonce
    KeepConfig = KeepConfig
    NoCall = NoCall
    AnyVersion = AnyVersion
    NoWant = NoWant
INVARIANTS WaitTypeOK StartedVersionBoots DestroyedStaysGone NoHastyTimeout
PROPERTIES DoneWaitsEnd LateWaitsEnd
CHECK_DEADLOCK FALSE

SPECIFICATION Spec
CONSTANTS
    App = {a1, a2}
    InitApps = {a1}
    Req = {r1, r2, r3, r4}
    Config = {"pullable"}
    ClientOp = {"createApp", "deleteApp", "create", "acquire", "release", "cordon", "delete"}
    MaxTime = 0
    NoMachine = NoMachine
    NoNonce = NoNonce
    KeepConfig = KeepConfig
    NoCall = NoCall
SYMMETRY Symmetry
INVARIANTS ForeignLeaseIsLater ClearedByDelete NoStrayMachine ErrorMeansAppDeleted
CHECK_DEADLOCK FALSE

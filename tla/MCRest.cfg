SPECIFICATION Spec
CONSTANTS
    App = {a1}
    InitApps = {a1}
    Req = {r1, r2}
    Config = {"pullable"}
    ClientOp = {"create", "stop"}
    MaxTime = 0
    NoMachine = NoMachine
    NoNonce = NoNonce
    KeepConfig = KeepConfig
    NoCall = NoCall
SYMMETRY Symmetry
PROPERTIES RestsUntilActedUpon
CHECK_DEADLOCK FALSE

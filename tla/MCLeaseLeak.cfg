SPECIFICATION Spec
CONSTANTS
    App = {a1}
    InitApps = {a1}
    Req = {r1, r2, r3}
    Config = {"pullable"}
    ClientOp = {"create", "acquire", "deleteApp"}
    MaxTime = 0
    NoMachine = NoMachine
    NoNonce = NoNonce
    KeepConfig = KeepConfig
    NoCall = NoCall
SYMMETRY Symmetry
PROPERTIES DropLeavesNoLease
CHECK_DEADLOCK FALSE

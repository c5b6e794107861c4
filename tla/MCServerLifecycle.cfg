SPECIFICATION Spec
CONSTANTS
    App = {a1}
    InitApps = {a1}
    Req = {r1, r2, r3, r4}
    Config = {"pullable", "unpullable"}
    ClientOp = {"create", "update", "restart", "stop", "delete", "deleteApp"}
    MaxTime = 0
    NoMachine = NoMachine
    NoNonce = NoNonce
    KeepConfig = KeepConfig
    NoCall = NoCall
SYMMETRY Symmetry
INVARIANTS TypeOK VersionHistory BootVerdict InStep TransientIsOwned StateWasAskedFor Reaped
PROPERTIES ImplementsMachineLife
CHECK_DEADLOCK FALSE

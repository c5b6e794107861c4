SPECIFICATION FairSpec
CONSTANTS
    App = {a1}
    InitApps = {a1}
    Req = {r1, r2, r3}
    Config = {"pullable"}
    ClientOp = {"create", "update", "suspend", "metadata", "delete", "deleteApp", "acquire"}
    MaxTime = 1
    NoMachine = NoMachine
    NoNonce = NoNonce
    KeepConfig = KeepConfig
    NoCall = NoCall
INVARIANTS UpdatedAtFresh
PROPERTIES EveryMachineSettles DeleteReaps UpdatedAtMonotone
CHECK_DEADLOCK FALSE

SPECIFICATION WaitSpec
CONSTANTS
    App = {a1}
    InitApps = {a1}
    Req = {r1, r2}
    Config = {"pullable"}
    ClientOp = {"create", "stop"}
    MaxTime = 0
    Waiter = {w1}
    WaitStates <- StoppedOrDestroyed
    RawTimeout <- OneSecond
    Word = 8
    Second = 1
    MaxTimeout = 2
    NoTimeout = NoTimeout
    NotANumber = NotANumber
    NoMachine = NoMachine
    NoNonce = NoNonce
    KeepConfig = KeepConfig
    NoCall = NoCall
    AnyVersion = AnyVersion
    NoWant = NoWant
INVARIANTS TimesOutUnreached
CHECK_DEADLOCK FALSE

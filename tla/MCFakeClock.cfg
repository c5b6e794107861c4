SPECIFICATION FairSpec
CONSTANTS
    Advancer = {t1}
    Handler = {h1, h2}
    Window = {1, 3}
    Delay = {0, 1, 2}
    NoChain = NoChain
    Free = Free
    MaxTime = 4
INVARIANTS FakeClockTypeOK FiresInOrder ChainsKeepPace
PROPERTIES ImplementsTimers EveryCallEnds DueTimersFire
CHECK_DEADLOCK FALSE

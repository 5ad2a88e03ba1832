SPECIFICATION LockSpec
CONSTANTS
    Procs = {p1, p2}
    NoLock = NoLock
    TimeoutTicks = 1
    StaleTicks = 2
    MaxHoldTicks = 2
    MaxFaults = 1
INVARIANT
    HoldsLockWhileRunning

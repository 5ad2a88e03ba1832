SPECIFICATION FairLockSpec
CONSTANTS
    Procs = {p1, p2}
    NoLock = NoLock
    TimeoutTicks = 1
    StaleTicks = 2
    MaxHoldTicks = 3
    MaxFaults = 2
INVARIANTS
    MutualExclusion
    HoldersAreNeverRobbed
PROPERTIES
    EveryCallEnds
    AbandonedLockIsReclaimed

SPECIFICATION ExclusiveSpec
CONSTANTS
    Procs = {p1, p2}
    NoLock = NoLock
    TimeoutTicks = 0
    StaleTicks = 1
    MaxHoldTicks = 1
    MaxFaults = 1
    Licenses = {lic1, lic2}
    Records = {r1}
    NoRecord = NoRecord
    EncryptionEnabled = FALSE
    Missing = Missing
    Torn = Torn
    NotLoaded = NotLoaded
SYMMETRY Symmetry
INVARIANT
    NeverTorn
PROPERTIES
    FormatOnlyImproves
    ImplementsAtomicStore

SPECIFICATION Spec
CONSTANTS
    Callers = {c1, c2}
    Machines = {m1, m2}
    Licenses = {lic1}
    NoRecord = NoRecord
    SharedDir = TRUE
    MaxCalls = 2
    MaxFaults = 0
PROPERTY
    ActivatedElsewhereIsRefused

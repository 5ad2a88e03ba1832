SPECIFICATION FairWebhookSpec
CONSTANTS
    lic1 = lic1
    revoked = revoked
    renewed = renewed
    Handlers = {h1, h2}
    Callers = {h1, h2, u1}
    Machines = {m1}
    Licenses = {lic1}
    NoRecord = NoRecord
    SharedDir = TRUE
    Events = {revoked, renewed}
    Revoking = {revoked}
    EventLicense <- EventsOfOneLicense
    MaxCalls = 1
    MaxFaults = 1
    MaxRestarts = 1
INVARIANTS
    MarkedMeansApplied
    AcceptedAtMostOnce
PROPERTIES
    RepeatedRevocationIsHarmless
    RevocationTakesEffect

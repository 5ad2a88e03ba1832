SPECIFICATION FairSpec
CONSTANTS
    Concurrency = 2
    MaxItems = 4
    MaxJobs = 4
    Ids = {"a", "b", "c", "d"}
INVARIANTS
    HandledOnce
    ResultsAreComplete
    EveryJobInOnePlace
    FirstComeFirstServed
PROPERTIES
    RunReturnsAllResults
    EveryJobIsReported

SPECIFICATION PluginSpec
CONSTANTS
    Blank = Blank
    Word = 16
    RoundedUp = {3}
    Instances = {i1, i2}
    Documents = {3, 4, 5}
    PageSize <- MCPageSize
    Dialogs <- MCDialogs
    MaxRuns = 2
    MaxFaults = 1
SYMMETRY Symmetry
INVARIANTS
    SavedSheetsArePlanned
    OwnPlanIsComposed
    EveryPageAsOften
    GridsReadInOrder
    FailsOnlyWithCause
CHECK_DEADLOCK FALSE

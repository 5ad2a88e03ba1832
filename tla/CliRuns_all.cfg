SPECIFICATION FairCliSpec
CONSTANTS
    Blank = Blank
    Word = 16
    RoundedUp = {}
    Precision = 100
    Units = {1, 10, 100}
    Tables <- MCTables
    SequenceFiles <- MCSequenceFiles
    Droppings <- MCDroppings
    Sessions <- MCSessions
INVARIANTS
    ReportAccounts
    OkJobsDeliver
    NothingOlderThanReport
    PresetRepeatsPlan
    PagesKeepTheirRecord
    SlotsHoldOnePage
PROPERTY
    DroppedPdfIsHandled
CHECK_DEADLOCK FALSE

SPECIFICATION FairTrimSpec
CONSTANTS
    Blank = Blank
    Word = 16
    RoundedUp = {}
    PageCounts = {0, 1, 2, 3, 4, 5, 8, 9, 12, 13, 17}
    OptionSets <- MCOptionSets
    PluginCreeps = {0, 1, 2}
    PluginTotals = {0, 1, 2, 3, 4, 8, 9}
INVARIANTS
    BookReadsInOrder
    PagesAsAsked
    LeavesStayAligned
    InnerSheetsMoveFurther
    ShiftStandsInForPlanner
PROPERTY
    EveryBuildEnds
CHECK_DEADLOCK FALSE

SPECIFICATION TrimSpec
CONSTANTS
    Blank = Blank
    Word = 16
    RoundedUp = {}
    PageCounts = {0, 1, 3, 4, 5, 8, 9, 13, 16, 17}
    OptionSets <- MCOneSignature
    PluginCreeps = {0, 1, 2}
    PluginTotals = {0, 1, 2, 3, 4, 8, 9}
INVARIANT
    CreepIsPerSheet
CHECK_DEADLOCK FALSE

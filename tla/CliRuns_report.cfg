SPECIFICATION CliSpec
CONSTANTS
    Blank = Blank
    Word = 16
    RoundedUp = {}
    Precision = 100
    Units = {1, 10, 100}
    Tables <- MCTables
    SequenceFiles <- MCSequenceFiles
    Droppings <- MCDroppings
    Sessions <- MCStoppedBatch
INVARIANT
    EveryRowIsRecorded
CHECK_DEADLOCK FALSE

SPECIFICATION Spec
CONSTANTS
    BatchSize = 2
    MaxUbatches = 5
    MaxFaults = 1
INVARIANTS RowsHoldTheirUbatch FlushedMeansPacked QueryOfThisTurn InputsAfterGraph
PROPERTIES HarvestReturns
CHECK_DEADLOCK FALSE

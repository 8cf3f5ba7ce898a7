SPECIFICATION Spec
CONSTANTS
    BatchSize = 2
    MaxUbatches = 3
    MaxFaults = 1
INVARIANTS FallbackHoldsItsUbatch
CHECK_DEADLOCK FALSE

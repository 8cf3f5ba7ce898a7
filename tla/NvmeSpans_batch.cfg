SPECIFICATION Spec
CONSTANTS
    NSlots = 3
    SlotBytes = 2
    BufferBytes = 5
    MaxSpans = 3
INVARIANTS EachSpanItsRecord
CHECK_DEADLOCK FALSE

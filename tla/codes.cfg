SPECIFICATION Spec
CONSTANTS
    Slots <- SomeSlots
    Bytes <- SomeBytes
    MaxLength = 3
INVARIANTS TypeOK RoundTrip SlipsRefused
CHECK_DEADLOCK FALSE

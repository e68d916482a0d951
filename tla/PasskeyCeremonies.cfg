SPECIFICATION FairSpec
CONSTANTS
    Device = {d1, d2}
    TabsPer = 1
    MaxCalls = 2
    MaxUnlocks = 2
    MaxEdits = 1
CHECK_DEADLOCK FALSE
INVARIANTS
    CountersNeverRepeat
    DeliveredIsStored
    OwnConsent
PROPERTIES
    CallsSettle

SPECIFICATION FairSpec
CONSTANTS
    Account = {"a", "b"}
    Item = {"old", "new"}
    Owner <- OwnerOf
    Stored = {"old"}
    MaxVersion = 4
    MaxEvents = 3
    None = None
CHECK_DEADLOCK FALSE
INVARIANTS
    NoStaleSave
    ViewMatchesRows
PROPERTIES
    VaultSettles

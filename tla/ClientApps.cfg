SPECIFICATION FairSpec
CONSTANTS
    Item = {"old", "new", "more"}
    Stored = {"old"}
    Device = {"cli"}
    Share = {"link"}
    ViewLimits = {1, 2}
    Files <- TwoExports
    Budgets <- Together
    MaxEvents = 4
    None = None
CHECK_DEADLOCK FALSE
INVARIANTS
    RowsAsServed
    ShownKitOpens
    RevocationHolds
    ViewsWithinLimit
    ImportTallies
    ImportKeepsTexts
PROPERTIES
    ClientsSettle

SPECIFICATION FairSpec
CONSTANTS
    Proc = {"p", "q"}
    File = {"env", "local"}
    Key = {"A", "B"}
    Extra = {}
    MaxCommands = 4
    None = None
CHECK_DEADLOCK FALSE
INVARIANTS
    RefsResolve
    ChildGetsSecrets
    NothingLeftBehind
PROPERTIES
    CommandsEnd

SPECIFICATION FairSpec
CONSTANTS
    Session = {s1, s2}
    Locker = {l1, l2}
    Page = {p1}
    MaxUses = 2
    MaxRestarts = 1
    NoSession = NoSession
CHECK_DEADLOCK FALSE
INVARIANTS
    LockHolds
    RestartKeepsSession
PROPERTIES
    IdleVaultLocks

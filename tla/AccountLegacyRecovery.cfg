SPECIFICATION Spec
CONSTANTS
    Password = {pw1, pw2}
    Proc = {p1, p2}
    Ops = {"srp_login", "login", "legacy_recovery"}
    InitKinds = {"migrated"}
    MaxPending = 2
    MaxNow = 5
    None = None
SYMMETRY Symmetry
INVARIANTS
    AccountOpens

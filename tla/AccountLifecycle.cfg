SPECIFICATION Spec
CONSTANTS
    Password = {pw1, pw2}
    Proc = {p1, p2}
    Ops = {"srp_login", "upgrade", "login", "account_key", "password_change", "recovery", "set_kit", "clear_kit"}
    InitKinds = {"srp", "opaque", "migrated"}
    MaxPending = 1
    MaxNow = 5
    None = None
SYMMETRY Symmetry
INVARIANTS
    AccountOpens
    KeysAgree
    MigrationProvesCurrent
    NothingPredatesChange
    SingleUse

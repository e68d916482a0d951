SPECIFICATION Spec
CONSTANTS
    Client = {c1, c2}
    Vault = {v1, v2}
    Item = {i1}
    Ops = {"save", "move", "delete", "new_vault", "delete_vault"}
    LoadMayFail = TRUE
    MaxText = 2
    MaxVersion = 2
    None = None
SYMMETRY Symmetry
CHECK_DEADLOCK FALSE
INVARIANTS
    NoLostUpdate
    NoFalseRollback
    RevisionNamesText

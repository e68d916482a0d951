SPECIFICATION Spec
CONSTANTS
    Client = {c1, c2}
    Vault = {v1}
    Item = {i1, i2}
    Ops = {"save", "create", "upgrade", "lock"}
    LoadMayFail = FALSE
    MaxText = 1
    MaxVersion = 2
    None = None
SYMMETRY Symmetry
INVARIANTS
    MarkerMeansV2

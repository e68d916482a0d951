SPECIFICATION Spec
CONSTANTS
    u1 = u1
    u2 = u2
    u3 = u3
    d1 = d1
    d2 = d2
    d3 = d3
    User = {u1, u2}
    Owner = u1
    Device = {d1, d2}
    UserOf <- OwnerTwice
    RolesFor <- TwoUsers
    Item = {"item"}
    Ops = {"rewrap", "rotate"}
    Legacy = TRUE
    MaxChain = 2
    MaxKey = 3
    None = None
SYMMETRY Symmetry
INVARIANTS
    RemovedCannotRead
    NeverOpensOlder
PROPERTIES
    ImplementsAccess

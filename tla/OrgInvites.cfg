SPECIFICATION Spec
CONSTANTS
    u1 = u1
    u2 = u2
    u3 = u3
    d1 = d1
    d2 = d2
    d3 = d3
    User = {u1, u2, u3}
    Owner = u1
    Device = {d1, d3}
    UserOf <- OwnerAndAdmin
    RolesFor <- FixedRoles
    Item = {"item"}
    Ops = {"invite", "rotate"}
    Legacy = FALSE
    MaxChain = 3
    MaxKey = 3
    None = None
INVARIANTS
    RemovedCannotRead
    MembersVerify
PROPERTIES
    ItemsSurvive
    ImplementsAccess

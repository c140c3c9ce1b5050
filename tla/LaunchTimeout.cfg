SPECIFICATION OrderlySpec
CONSTANTS
    u1 = u1
    Projects = {p1, p2}
    Users = {u1}
    Owner <- OneOwner
    Ids = {w1, w2}
    MaxSlots = 2
    Requests = {r1, r2}
    Keeper = keeper
    None = none
    Handlers = {"start"}
    Faults = {"hang"}
    IdleTimeout = FALSE
SYMMETRY Symmetry
INVARIANTS NoStrayRuntime

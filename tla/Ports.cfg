SPECIFICATION OrderlySpec
CONSTANTS
    u1 = u1
    Projects = {p1, p2}
    Users = {u1}
    Owner <- OneOwner
    Ids = {w1, w2}
    MaxSlots = 2
    Requests = {r1, r2}
    Keeper = keeper
    None = none
    Handlers = {"start", "stop", "delete", "stopall"}
    Faults = {"exit", "run", "unready", "reboot"}
    IdleTimeout = TRUE
SYMMETRY Symmetry
INVARIANTS PortOfLeasedSlot

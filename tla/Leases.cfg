SPECIFICATION OrderlySpec
CONSTANTS
    u1 = u1
    Projects = {p1, p2, p3}
    Users = {u1}
    Owner <- OneOwner
    Ids = {w1, w2, w3}
    MaxSlots = 1
    Requests = {r1, r2}
    Keeper = keeper
    None = none
    Handlers = {"start", "stop", "delete", "stopall"}
    Faults = {"exit", "rm", "hang", "inspect", "crash", "reboot", "disk"}
    IdleTimeout = TRUE
SYMMETRY Symmetry
INVARIANTS TypeOK LeaseExact RoutesToOwnRuntime
PROPERTIES RuntimeIsolation ImplementsPool LeaseKept BootLeavesRunning

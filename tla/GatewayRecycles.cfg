SPECIFICATION GatewaySpec
CONSTANTS
    p1 = p1
    p2 = p2
    u1 = u1
    u2 = u2
    Projects = {p1, p2}
    Users = {u1, u2}
    Owner <- OwnProject
    Ids = {w1, w2}
    MaxSlots = 2
    Requests = {r1, c1}
    Clients = {c1}
    Keys = {k1, k2, k3, k4}
    Keeper = keeper
    None = none
    Handlers = {"start", "stop", "delete"}
    Faults = {"exit", "run", "unready", "reboot"}
    IdleTimeout = FALSE
SYMMETRY GatewaySymmetry

PROPERTIES RecycleSparesLive

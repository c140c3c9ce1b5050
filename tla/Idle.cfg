SPECIFICATION IdleFairSpec
CONSTANTS
    u1 = u1
    Projects = {p1}
    Users = {u1}
    Owner <- OneOwner
    Ids = {w1}
    MaxSlots = 2
    Requests = {r1}
    Keeper = keeper
    None = none
    Handlers = {"start", "stop", "stopall"}
    Faults = {"exit", "run"}
    IdleTimeout = TRUE
    Timeout = 1
    MaxRound = 1
PROPERTIES IdleReclaimed RequestsFinish DeadRuntimeReleased

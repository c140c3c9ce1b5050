SPECIFICATION FairSpec
CONSTANTS
    Rows = {1, 2, 3}
    Accounts = {1, 2}
    MaxSlots = 2
    None = none
    MaxCrashes = 1
    MaxWrong = 1
INVARIANTS TypeOK SlotsAgree RolesSettled
PROPERTIES StartupEnds NeverRefused SparesWorking
CHECK_DEADLOCK FALSE

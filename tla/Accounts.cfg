SPECIFICATION Spec
CONSTANTS
    LocalUsers = {a1, a2}
    OidcUsers = {o1}
    OidcRole = "developer"
    Threads = {t1, t2}
    None = none
    Working = {a1}
SYMMETRY ThreadSymmetry
INVARIANTS TypeOK OwnerRemains
PROPERTIES BootstrapOnce OnlyUnlockedDisableEndsAdmins

SPECIFICATION Spec
CONSTANTS
    LocalUsers = {a1, a2}
    OidcUsers = {}
    OidcRole = "developer"
    Threads = {t1, t2}
    None = none
    Working = {a1, a2}
SYMMETRY AccountSymmetry
INVARIANTS DisabledHoldsNoWorkspace

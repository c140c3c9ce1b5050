SPECIFICATION FairSpec
CONSTANTS
    Versions = {v1, v2, v3}
    MetaVersions = {v3}
    Initial = v1
    Default = v2
    Workers = {k1, k2}
    Faults = {"hang"}
    None = none
PROPERTIES UpdateAlwaysEnds
CHECK_DEADLOCK FALSE

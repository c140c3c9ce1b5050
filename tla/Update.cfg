SPECIFICATION FairSpec
CONSTANTS
    Versions = {v1, v2, v3}
    MetaVersions = {v3}
    Initial = v1
    Default = v2
    Workers = {k1, k2}
    Faults = {"build", "wrong", "run", "tag", "persist", "hang", "crash", "thread"}
    None = none
INVARIANTS TypeOK LatestIsTested SuccessAgrees
PROPERTIES PartOnlyActivating UpdateEnds

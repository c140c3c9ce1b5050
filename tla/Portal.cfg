SPECIFICATION FairSpec
CONSTANTS
    Mine = {w1, w2}
    Tabs = {t1}
    None = none
INVARIANTS TypeOK
PROPERTIES NoticeTrue TabLeaves

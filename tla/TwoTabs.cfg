SPECIFICATION Spec
CONSTANTS
    Mine = {w1, w2}
    Tabs = {t1, t2}
    None = none

PROPERTIES StopsShown

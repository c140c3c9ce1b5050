SPECIFICATION Spec
CONSTANTS
    Mine = {w1, w2}
    Tabs = {t1}
    None = none

PROPERTIES PollKeepsLive

\* A link that is lost between a live event and the answer to an initTab.
CONSTANTS
    w1 = w1
    w2 = w2
    None = None
    NoAsk = NoAsk
    Webs = {w1}
    MaxBuffered = 2
    MaxEvents = 4
    MaxLosses = 0
SPECIFICATION Spec
INVARIANTS UnseenIsLarger
CHECK_DEADLOCK FALSE

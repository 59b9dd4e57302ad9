\* Two webs that come and go over a buffer of two events.
CONSTANTS
    w1 = w1
    w2 = w2
    None = None
    NoAsk = NoAsk
    Webs = {w1, w2}
    MaxBuffered = 2
    MaxEvents = 4
    MaxLosses = 1
SPECIFICATION Spec
SYMMETRY WebSymmetry
INVARIANTS GapsAreTears
CHECK_DEADLOCK FALSE

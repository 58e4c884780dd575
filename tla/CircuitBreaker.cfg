SPECIFICATION BreakerFairSpec
CONSTANTS
    Callers = {c1, c2, c3}
    Threshold = 2
    Recovery = 2
INVARIANTS SingleProbe
PROPERTIES ClosedByFreshProbe NeverWedged

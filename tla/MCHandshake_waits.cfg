CONSTANTS
    b1 = b1 b2 = b2 w1 = w1 c1 = c1 c2 = c2
    None = None
    Boards = {b1, b2}
    Workers = {w1}
    Host <- OneHost
    Callers = {c1, c2}
    Operations = {"reserve"}
    MaxCalls = 2
    MaxLosses = 1
    MaxNews = 1
SPECIFICATION FairSpec
PROPERTIES ReserveReturns WaiterWakes
CHECK_DEADLOCK FALSE

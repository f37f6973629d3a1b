CONSTANTS
    b1 = b1 b2 = b2 w1 = w1 c1 = c1 c2 = c2
    None = None
    Boards = {b1, b2}
    Workers = {w1}
    Host <- OneHost
    Callers = {c1, c2}
    Operations = {"reserve", "reserveSpecific", "reboot", "end"}
    MaxCalls = 3
    MaxLosses = 1
    MaxNews = 0
SPECIFICATION Spec
INVARIANTS TypeOK EndedIsRemoved 
PROPERTIES ReadyOnReturn
SYMMETRY Alike
CHECK_DEADLOCK FALSE

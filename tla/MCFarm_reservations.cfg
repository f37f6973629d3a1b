CONSTANTS
    w1 = w1  d1 = d1  d2 = d2  c1 = c1  c2 = c2
    NoClient = NoClient
    NoDevice = NoDevice
    Workers = {w1}
    Devices = {d1, d2}
    Clients = {c1}
    Host <- OneHost
    Faults = {"late_reserve", "deaf", "timeout", "hang"}
SPECIFICATION FairSpec
PROPERTIES BoardIsRecycled

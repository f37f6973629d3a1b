CONSTANTS
    exact = exact flat = flat short = short long = long
    None = None
    Files = {exact, flat, short, long}
    Length <- Lengths
    Size = 2
    Flat = {flat}
    MaxSlow = 1
SPECIFICATION FairSpec
INVARIANTS TypeOK
PROPERTIES RightImage EvaluatedInTheEnd

CONSTANTS
    s1 = s1 s2 = s2 e1 = e1 e2 = e2 e3 = e3
    None = None
    Serials <- TwoSerials
    Evaluations <- UnevenList
    SerialsOf <- UnevenSerials
    BatchSize = 1
    TargetBatches = 1
    Factory = "balanced"
    Losses = FALSE
SPECIFICATION Spec
INVARIANT Complete
CHECK_DEADLOCK FALSE

CONSTANTS
    s1 = s1 s2 = s2 e1 = e1 e2 = e2 e3 = e3
    None = None
    Serials <- TwoSerials
    Evaluations <- EvenList
    SerialsOf <- EvenSerials
    BatchSize = 1
    TargetBatches = 1
    Factory = "balanced"
    Losses = TRUE
SPECIFICATION FairSpec
INVARIANTS TypeOK YieldedOnce OnlyBundleIsLeft Balanced
PROPERTIES Answered
CHECK_DEADLOCK FALSE

SPECIFICATION Spec
CONSTANTS
    good = good
    off = off
    drop = drop
    accept = accept
    t1 = t1
    t2 = t2
    None = None
    Corrupt = Corrupt
    Absent = Absent
    Body <- GoodRule
    Disabled <- NoRule
    Refused <- NoRule
    Seeds <- GoodRule
    Policy <- TwoPolicies
    DefaultPolicy = drop
    Thread <- OneThread
    EnableOsBoot = FALSE
    IgnoreStateOnBoot = FALSE
PROPERTY SkippedBootIsHarmless

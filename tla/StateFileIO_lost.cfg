SPECIFICATION Spec
CONSTANTS
    s1 = s1
    s2 = s2
    t1 = t1
    t2 = t2
    None = None
    Corrupt = Corrupt
    Snapshot <- MCSnapshot
    Default = s1
    Immediate = FALSE
    Thread <- TwoThreads
    Calls <- SaveOnly
    BackupEnabled = FALSE
    BackupMayFail = TRUE
    FlushMayFail = FALSE
    MaxClock = 0
INVARIANT SavedMeansOnDisk

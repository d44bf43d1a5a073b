SPECIFICATION Spec
CONSTANTS
    s1 = s1
    s2 = s2
    t1 = t1
    t2 = t2
    None = None
    Corrupt = Corrupt
    Snapshot <- MCSnapshot
    Default = s1
    Immediate = TRUE
    Thread <- TwoThreads
    Calls <- SaveOnly
    BackupEnabled = FALSE
    BackupMayFail = TRUE
    FlushMayFail = TRUE
    MaxClock = 0
SYMMETRY TwoThreadSymmetry
INVARIANTS UncontendedSaveIsOnDisk UncontendedNeverPending
PROPERTY NeverTorn

SPECIFICATION NetSpec
CONSTANTS
    None = None
    t1 = t1
    t2 = t2
    Thread <- TwoThreads
    Name <- Names
    Subnet = {"lan"}
    Peer = {"key"}
    PeerData = {"endpoint"}
    Update <- Updates
    Route <- Routes
    System <- Systems
    Earlier <- NetEarlier
    MaxOps = 4
SYMMETRY ThreadSymmetry
INVARIANTS
    NetTypeOK  EditsPendAndPersist CommitIsRunning UnmanagedIsPruned
CHECK_DEADLOCK FALSE

SPECIFICATION FairSpec
CONSTANTS
    MaxStray = 1
    Errno = {1, 4}
    INT_MAX = 2147483647
    Hosts = {"linux", "apple"}
    HostErrno <- MCHostErrno
    HostENOTSUP = 95
    HostPF <- MCHostPF
INVARIANTS
    TypeOK
    ReplyReachesClient
    DeadlockByLossOnly
PROPERTY HangsByLossOnly
CHECK_DEADLOCK FALSE

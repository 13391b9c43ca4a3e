SPECIFICATION Spec
CONSTANTS
    INT_MAX = 2147483647
    Thread = {t1}
    MaxDepth = 1
    Host = "linux"
    Call <- AllCalls
    Errno <- AllErrnos
    Count = {0, 5, 8}
    Fd = {0, 3, 4}
    Address <- AllAddresses
    Linkage <- MCLinkage
    Junk <- MCJunk
    HostErrno <- LinuxErrno
    HostENOTSUP = 95
    HostPF <- LinuxPF
INVARIANT EveryFailureReported

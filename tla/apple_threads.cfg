SPECIFICATION FairSpec
CONSTANTS
    INT_MAX = 2147483647
    Thread = {t1, t2}
    MaxDepth = 1
    Host = "apple"
    Call <- SomeCalls
    Errno = {1, 57}
    Count = {0, 5}
    Fd = {3, 4}
    Address <- SomeAddresses
    Linkage <- MCLinkage
    Junk <- MCJunk
    HostErrno <- DarwinErrno
    HostENOTSUP = 45
    HostPF <- DarwinPF
INVARIANTS
    ArgumentsDelivered
    OutcomeFaithful
PROPERTIES
    ErrnoIsOwn
    ContractKept
    CallsGetThrough

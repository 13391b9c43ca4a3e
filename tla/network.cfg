SPECIFICATION Spec
CONSTANTS
    INT_MAX = 2147483647
    Family <- MCFamily
    Path = {0, 1, 102, 103, 104}
    Stale = {0, 1, 2, 103}
    Untranslated = 1
    HostErrno <- MCHostErrno
    HostENOTSUP = 45
    HostPF <- MCHostPF
INVARIANTS
    TypeOK
    LinuxSeesAddress
    AddressComesBack
    FlagsKeepTheirNames

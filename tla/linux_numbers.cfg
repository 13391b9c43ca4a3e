SPECIFICATION Spec
CONSTANTS
    INT_MAX = 2147483647
    SYS <- XnuNumber
    SYS_MAXSYSCALL <- XNU_MAXSYSCALL
    NR <- X86_64Number
INVARIANTS
    TypeOK
    HostRunsNamesake
    RefusedOrRun
    NumberSurvives

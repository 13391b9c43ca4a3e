SPECIFICATION Spec
CONSTANTS
    Stack <- MCStack
    Sysnum = 33554433
    Start <- MCStart
    StackArg <- MCStackArg
    Result = {0, 5}
    RedZone = 0
    Scrap = 7
INVARIANTS
    TypeOK
    HandsOver
    AlignedCalls
    ProgramResumes
    ScratchPreserved

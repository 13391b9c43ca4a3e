SPECIFICATION Spec
CONSTANTS
    Archs = {"x86_64", "i386"}
    Stack <- MCStack
    Top = {16, 17}
    Half = 1000
    Number = {1, 45, 293}
    Argument = 11
    Garbage = {0, 6}
    Result <- MCResult
    Scrap = 77
INVARIANTS
    TypeOK
    KernelAskedForCall
    CallerResumes

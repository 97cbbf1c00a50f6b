SPECIFICATION Spec
CONSTANTS
    Procs = {shell, prog}
    Shell = shell
    SmallSize = 0
    LowSize = 3
    UmbSize = 2
    Sizes = {1, 2, 9}
    Fits <- AllFits
    Highs <- AllHighs
INVARIANTS ChainOK DeadOwnNothing FailureIsReal
PROPERTY OthersUntouched

SPECIFICATION Spec
CONSTANTS
    Pages = 5
    Beyond = 1
    XmsBlocks = 2
    EmsHandles = 1
    EmsPage = 2
    SystemPages = 1
    XmsSizes = {5}
    XmsResizes = {0, 4, 12}
    EmsSizes = {0, 1, 2}
    LockMax = 1
    VcpiMax = 1
CHECK_DEADLOCK FALSE
INVARIANTS PagesOwned RightSize
PROPERTY LockedStay

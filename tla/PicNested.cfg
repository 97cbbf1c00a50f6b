SPECIFICATION FairSpec
CONSTANTS
    NL = 4
    Wired <- WiredAll
    Masks <- MasksTwo
    Modes = {}
    Icws = {}
    NmiLines = {}
INVARIANTS NoLostInterrupt ActiveIsHighest
PROPERTIES Nested PendingIsTaken ImplementsPriority

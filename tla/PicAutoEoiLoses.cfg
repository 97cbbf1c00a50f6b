SPECIFICATION Spec
CONSTANTS
    NL = 4
    Wired <- WiredPair
    Masks <- MasksTop
    Modes = {"auto eoi"}
    Icws <- IcwsLegal
    NmiLines = {}
INVARIANT NoLostInterrupt

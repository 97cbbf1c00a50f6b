SPECIFICATION Spec
CONSTANTS
    NL = 3
    Wired <- WiredPair
    Masks <- MasksFew
    Modes = {"auto eoi", "special mask"}
    Icws <- IcwsLegal
    NmiLines = {1}
INVARIANTS SoundSignals CascadeServed

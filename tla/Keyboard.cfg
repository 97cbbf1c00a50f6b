SPECIFICATION FairSpec
CONSTANTS
    KEYBUFSIZE = 3
    Plain = {a}
    Extended = {up}
    Rates <- OneRate
INVARIANTS TransferScheduled NeverStuck OnlyHeldRepeats
PROPERTIES NoOverrun FirstInFirstOut FrontMoves

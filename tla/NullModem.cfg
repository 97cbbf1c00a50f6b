SPECIFICATION Spec
CONSTANTS
    FifoSize = 2
    Word = 4
    RetryMax = 2
    Transparent = FALSE
    Peer <- NoLines
    Relisten = TRUE
    DrainClose = FALSE
    Iers <- IersAll
    Fcrs <- FcrsAll
    Mcrs <- McrsAll
    Msrs <- MsrsAll
    Reads = {"isr", "lsr", "msr"}
INVARIANTS DataIsAnnounced TransmitterBusy ReceiverRuns FifosOK CausesAreReal

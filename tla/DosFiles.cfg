SPECIFICATION Spec
CONSTANTS
    Procs = {shell, prog1, prog2}
    Shell = shell
    Slots = {0, 1, 2}
    Entries = {0, 1}
    Targets = {0, 1}
    Replies = {"open", "replace"}
SYMMETRY Programs
INVARIANT HandlesCounted
PROPERTIES OthersKeepFiles FailureChangesNothing

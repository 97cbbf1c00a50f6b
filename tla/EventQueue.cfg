SPECIFICATION FairSpec
CONSTANTS
    CycleMax = 4
    Unit = 2
    Kinds <- MCKinds
    Delays = {3, 9}
    Slots = 3
    Overshoot = 1
    MaxLate = 0
    Ops = {"irq", "stop"}
INVARIANTS QueueOK InOrder DeadlineKept
PROPERTIES TimeForward EventsAreServed

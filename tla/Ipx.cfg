SPECIFICATION FairSpec
CONSTANTS
    Ecbs = {e1, e2}
    Notified = {e1}
    Sockets <- Numbers
    Dynamic = 257
    LastDynamic = 260
    TableSize = 3
    MaxOpen = 2
    TimerSockets = {0}
    PingFails = FALSE
    MaxWaiting = 3
INVARIANTS EcbsAccounted SocketsOpen ConnectionOK
PROPERTY CompletedIsServed

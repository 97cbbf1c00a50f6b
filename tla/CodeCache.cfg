SPECIFICATION CacheSpec
CONSTANTS
    Headers = {1, 2, 3, 4, 5}
    Handlers = {1, 2}
    Links = {0}
    Pages = {0, 1, 2}
    PageSize = 2
    Jumps <- Code
    ActiveCount = 2
    Total = 3
    MaxSize = 2
    LastStart = 1
    Align = 1
    Written = {1, 2}
    Lengths = {1, 2}
    OwnWrites = {}
INVARIANTS CacheOK LinksLead RunsFresh

SPECIFICATION FairSpec
CONSTANTS
    c1 = c1  c2 = c2
    Client = {c1}
    QueueSize = 3
    BacklogLimit = 2
    MaxLines = 4
    MaxCasts = 2
    MaxRequeues = 1
    MaxConnects = 2
    MaxFaults = 1
INVARIANTS TypeOK InOrder NothingBetween EndIsQueued
PROPERTY StreamEnds

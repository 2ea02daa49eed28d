SPECIFICATION FairSpec
CONSTANTS
    parent = parent  child = child
    Session = {parent}
    ParentOf <- Alone
    MaxRetries = 1
    MaxTotal = 2
    Ends = {"stalled", "quota", "finished"}
    MaxRows = 3
    MaxStep = 2
    MaxServers = 0
    MaxRequests = 1
    MaxCrashes = 1
INVARIANT Budget
 
CHECK_DEADLOCK FALSE

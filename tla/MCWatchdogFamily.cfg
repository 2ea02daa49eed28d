SPECIFICATION Spec
CONSTANTS
    parent = parent  child = child
    Session = {parent, child}
    ParentOf <- Family
    MaxRetries = 1
    MaxTotal = 1
    Ends = {"stalled", "finished"}
    MaxRows = 2
    MaxStep = 0
    MaxServers = 1
    MaxRequests = 1
    MaxCrashes = 1
INVARIANTS TypeOK OneAtATime OncePerRestart
CHECK_DEADLOCK FALSE

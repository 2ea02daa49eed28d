SPECIFICATION Spec
CONSTANTS
    e1 = e1  e2 = e2  t1 = t1  t2 = t2  t3 = t3
    w1 = w1  w2 = w2  h1 = h1  None = None
    Event = {e1}
    Task = {t1}
    EventOf <- MCEventOf
    Worker = {w1}
    Handler = {h1}
    ClientMax = {0}
    MaxAutoRetries = 1
    Alert = {}
    Malformed = {}
    SyncAllowed = FALSE
    HasCli = FALSE
    MaxReruns = 1
    MaxFaults = 0
PROPERTY MarkedOnSuccess

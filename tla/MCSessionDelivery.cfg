SPECIFICATION FairSpec
CONSTANTS
    r1 = r1  r2 = r2  f1 = f1  f2 = f2
    Root = {r1}
    FollowUp = {f1}
    Nobody = Nobody
    MaxSteps = 3
    MaxCuts = 2
INVARIANTS TypeOK OneWatcher
PROPERTIES NoRepeat ReplyComes NothingLost
CHECK_DEADLOCK FALSE

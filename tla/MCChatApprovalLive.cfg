SPECIFICATION FairSpec
CONSTANTS
    s1 = s1
    s2 = s2
    k1 = k1
    Sessions = {s1, s2}
    Calls = {k1}
    NoCall = NoCall
    NoSession = NoSession
    MaxIterations = 2
    MaxRequests = 1
    MaxCrashes = 1
PROPERTY
    LoopReturns

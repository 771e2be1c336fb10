SPECIFICATION Spec
CONSTANTS
    s1 = s1
    s2 = s2
    k1 = k1
    Sessions = {s1}
    Calls = {k1}
    NoCall = NoCall
    NoSession = NoSession
    MaxIterations = 1
    MaxRequests = 1
    MaxCrashes = 1
INVARIANT
    ResumedWasApproved

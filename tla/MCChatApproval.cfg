SPECIFICATION Spec
CONSTANTS
    s1 = s1
    s2 = s2
    k1 = k1
    Sessions = {s1}
    Calls = {k1}
    NoCall = NoCall
    NoSession = NoSession
    MaxIterations = 2
    MaxRequests = 2
    MaxCrashes = 1
INVARIANTS
    TypeOK
    GrantedWasApproved
    MemoryFollowsStore
    ResumedWasAnswered
PROPERTY
    DecisionIsFinal

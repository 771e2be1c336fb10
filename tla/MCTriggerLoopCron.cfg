SPECIFICATION Spec
CONSTANTS
    k1 = k1
    k2 = k2
    f1 = f1
    dir = dir
    w1 = w1
    w2 = w2
    s1 = s1
    None = None
    CronRules = {k1, k2}
    WatchRules = {}
    Paths = {dir}
    PathOf <- MCPathOf
    Writers = {w1}
    Slots = {s1}
    TriggerCap = 1
    JobCap = 1
    MaxJobs = 2
INVARIANT OwnSchedule

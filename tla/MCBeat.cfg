CONSTANTS
    a1 = a1
    a2 = a2
    v1 = v1
    v2 = v2
    wipe = wipe
    poll = poll
    NoTask = NoTask
    Members = {a1, a2}
    Voters = {v1, v2}
    Tasks = {wipe, poll}
    Destructive = {wipe}
    Cap = 1
    MaxVotes = 3
SPECIFICATION Spec
SYMMETRY Symmetry
INVARIANTS TypeOK ActiveIsInFlight AwaitingHasVote InHandIsApproved
PROPERTIES KeepsPromise

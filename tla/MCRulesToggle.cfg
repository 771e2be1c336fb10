SPECIFICATION Spec
CONSTANTS
    r1 = r1
    r2 = r2
    kick = kick
    live = live
    p1 = p1
    p2 = p2
    Rules = {r1}
    Connectors = {kick}
    Events = {live}
    ListensTo <- MCListensTo
    Callers = {p1}
    NoRule = NoRule
    MaxSubs = 2
    MaxOps = 1
INVARIANT ToggledInBoth

SPECIFICATION Spec
CONSTANTS
    r1 = r1
    r2 = r2
    t1 = t1
    t2 = t2
    k1 = k1
    k2 = k2
    None = None
    Requests = {r1, r2}
    Tokens = {t1, t2}
    Tickets = {k1, k2}
    Persisted = {t1}
    MaxWorlds = 2
    MaxRequests = 5
SYMMETRY Symmetry
INVARIANTS TypeOK DeadStaysDead TicketOpensOne
PROPERTY ClearedIsFinal
CHECK_DEADLOCK FALSE

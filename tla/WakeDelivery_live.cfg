SPECIFICATION EnginesSpec
CONSTANTS
    a1 = a1
    o1 = o1
    w1 = w1
    w2 = w2
    v1 = v1
    v2 = v2
    m1 = m1
    NoTask = NoTask
    Agents <- MCAgents2
    Wakes <- MCWakes4
    Manual <- MCNone
    Target <- MCTarget2
    Engine <- MCEngines
    MaxConcurrentKicks = 1
    MaxWakesPerWindow = 3
    Faults <- MCNone
    SlowTurns = TRUE
INVARIANT PreClaimCarries
PROPERTY UnreadIsPickedUp
PROPERTY EveryWakeEnds
CHECK_DEADLOCK FALSE

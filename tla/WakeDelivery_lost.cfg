SPECIFICATION Spec
CONSTANTS
    a1 = a1
    w1 = w1
    w2 = w2
    m1 = m1
    NoTask = NoTask
    Agents <- MCAgents1
    Wakes <- MCWakes2
    Manual <- MCNone
    Target <- MCTarget1
    Engine <- MCKeys
    MaxConcurrentKicks = 1
    MaxWakesPerWindow = 3
    Faults <- MCNone
    SlowTurns = FALSE
INVARIANT ConsumedIsTold
CHECK_DEADLOCK FALSE

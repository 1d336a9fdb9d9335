SPECIFICATION Spec
CONSTANTS
    a1 = a1
    w1 = w1
    w2 = w2
    m1 = m1
    NoTask = NoTask
    Agents <- MCAgents1
    Wakes <- MCPair
    Manual <- MCManual
    Target <- MCTarget1
    Engine <- MCKeys
    MaxConcurrentKicks = 1
    MaxWakesPerWindow = 1
    Faults <- MCFaults
    SlowTurns = FALSE
INVARIANT TypeOK
INVARIANT SingleFlight
INVARIANT ComposerIntact
INVARIANT FailedKickKeepsMail
PROPERTY ImplementsMailbox
CHECK_DEADLOCK FALSE

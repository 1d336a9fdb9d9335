SPECIFICATION Spec
CONSTANTS
    w1 = w1
    m1 = m1
    Boot = Boot
    Wakes <- MCPair
    Manual <- MCManual
    Engines <- MCBoth
    Faults <- FaultKinds
INVARIANT ToldOnce
INVARIANT ClaimedIsPrompted
INVARIANT TurnsAreSerial
PROPERTY ImplementsMailbox
PROPERTY BusyIsReleased
 
CHECK_DEADLOCK FALSE

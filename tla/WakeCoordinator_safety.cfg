SPECIFICATION Spec
CONSTANTS
    L = L
    p = p
    kp = kp
    NoAgent = NoAgent
    NoKey = NoKey
    Agents <- MCTeam
    Keys <- MCKey
    Signal <- MCSignal
    Lead <- MCNoLead
    DependsOn <- MCNoDeps
    Gated <- MCGated
    Leftover <- MCKey
    BusCap = 1
    MaxWrites = 2
    MaxDeaths = 1
    Faults <- MCAll
INVARIANTS TypeOK AutoKillIsEarned DeliveredNotFailed
 
CHECK_DEADLOCK FALSE

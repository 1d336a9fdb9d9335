SPECIFICATION TeamsSpec
CONSTANTS
    L = L
    p = p
    kp = kp
    NoAgent = NoAgent
    NoKey = NoKey
    Agents <- MCTeam
    Keys <- MCKey
    Signal <- MCSignal
    Lead <- MCLead
    DependsOn <- MCNoDeps
    Gated <- MCNone
    Leftover <- MCNone
    BusCap = 1
    MaxWrites = 1
    MaxDeaths = 1
    Faults <- MCSoft
INVARIANT NoSilentDeath
PROPERTIES WaitersAreWoken EndsAreHandled
CHECK_DEADLOCK FALSE

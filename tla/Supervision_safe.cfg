SPECIFICATION SupervisionSpec
CONSTANTS
  Parts = {"budget", "life", "direction", "watchdog", "board"}
  k1 = k1  k2 = k2  v1 = v1  v2 = v2  c1 = c1  t1 = t1
  Keys <- MCKeys  Direction <- MCDirection  Contents <- MCContents
  Calls <- MCCalls  Tasks <- MCTasks  ListLimit = 2  OneShots = 1
  MaxRequests = 2  MaxEdits = 1  MaxBoardFaults = 1  MaxCrashes = 1  MaxBoardEvents = 3
  b1 = b1  b2 = b2  Crew <- MCCrew  Newcomers <- MCNewcomers  Caps <- MCCaps
  MaxSpend = 2  MaxPuts = 1  MaxStops = 1  MaxDbFaults = 1
  Captains <- MCTriple  MaxLive = 2  MaxKills = 0  MaxEnds = 0
  MaxLifeFaults = 1  MaxServerCrashes = 0
  d1 = d1  g1 = g1  h1 = h1  h2 = h2
  DirIds <- MCDirIds  Slugs <- MCSlugs  Requests <- MCRequests  Nil = Nil
  MaxDirTasks = 3  MaxDirRequests = 3  MaxDirFaults = 1  DirRestarts = 1
  NamesAreReused = FALSE
  Silence = 2  MaxWakes = 2  MaxWatchFaults = 1
  dep1 = dep1  dep2 = dep2  Deps <- MCDeps
  ReadyWait = 1  ShieldAfter = 2  FirstResponse = 3  MaxWait = 10  Horizon = 12
INVARIANTS SupervisionTypesOK  OneCaptainIsKept
PROPERTIES   SilenceIsTested
SYMMETRY Swaps
CHECK_DEADLOCK FALSE

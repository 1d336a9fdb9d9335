SPECIFICATION SupervisionLiveSpec
CONSTANTS
  Parts = {"life", "direction"}
  k1 = k1  k2 = k2  v1 = v1  v2 = v2  c1 = c1  t1 = t1
  Keys <- MCKeys  Direction <- MCDirection  Contents <- MCContents
  Calls <- MCCalls  Tasks <- MCTasks  ListLimit = 2  OneShots = 1
  MaxRequests = 2  MaxEdits = 1  MaxBoardFaults = 1  MaxCrashes = 1  MaxBoardEvents = 3
  b1 = b1  b2 = b2  Crew <- MCCrew  Newcomers <- MCNewcomers  Caps <- MCCaps
  MaxSpend = 2  MaxPuts = 1  MaxStops = 1  MaxDbFaults = 1
  Captains <- MCPair  MaxLive = 1  MaxKills = 1  MaxEnds = 1
  MaxLifeFaults = 0  MaxServerCrashes = 1
  d1 = d1  g1 = g1  h1 = h1  h2 = h2
  DirIds <- MCDirIds  Slugs <- MCSlugs  Requests <- MCRequests  Nil = Nil
  MaxDirTasks = 3  MaxDirRequests = 2  MaxDirFaults = 1  DirRestarts = 0
  NamesAreReused = FALSE
  Silence = 1  MaxWakes = 2  MaxWatchFaults = 1
  dep1 = dep1  dep2 = dep2  Deps <- MCDeps
  ReadyWait = 1  ShieldAfter = 2  FirstResponse = 3  MaxWait = 10  Horizon = 12
PROPERTIES CaptainsAreReaped CaptainMoves
CHECK_DEADLOCK FALSE

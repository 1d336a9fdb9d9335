SPECIFICATION FlowSpec
CONSTANTS
  Parts = {"messages", "fusion", "activity", "transcript", "cron", "schedule"}
  s1 = s1  a1 = a1  a2 = a2
  Sends <- MCSends  Agents <- MCAgents  FromUser <- MCFromUser  To <- MCTo
  MaxAttempts <- MCMaxAttempts  MaxDrops = 1  MaxWakeRows = 1  ListMax = 1
  f1 = f1  click = click  human = human
  Contestants <- MCOne  JudgeRequests <- MCClicks  Humans <- MCHumans
  MaxFusionFaults = 1  MaxRosterFaults = 0  FusionRestarts = 1  MaxDeletions = 0
  MaxSteps = 2  MaxAsks = 2  MaxReplies = 2  RingCap = 1  MaxSummary = 2
  LateWindow = 1  ActMishaps = 1
  Flavors = {"codex", "kimi"}  Tools = {t1}  MaxRead = 3  MaxLine = 2
  MaxRows = 3  MaxRotations = 0  MaxFaults = 1
  CronJobs = {"nightly", "hourly"}  RunClicks = {"click1"}
  CronHorizon = 2  CronMeddling = 1  CronFaults = 1
  HourLen = 2  Hours = 3  Window = 9  Walk = 3
  StartDays <- MCStartDays  Exprs <- MCExprs  Offsets <- MCOffsets
INVARIANTS FlowTypesOK SendsAreFaithful TranscriptIsReadOnce CronDelivers ScheduleIsRight
PROPERTIES BatchIsDecidedOnce ActivityIsKept
CHECK_DEADLOCK FALSE

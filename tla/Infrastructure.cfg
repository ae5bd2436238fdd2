\* Each infrastructure service by itself: small sets, two tasks or threads.
INIT MCInit
NEXT MCNext
CONSTANTS
  Parts = {"bus", "state", "plugins", "flags", "configuration",
           "container", "audit", "security", "observability",
           "stream", "event_store", "write_through",
           "gates", "pipeline", "evidence",
           "accounts", "rates", "records", "alerts",
           "console", "requests", "retention", "chat",
           "host", "board", "feed", "quota"}
  p1 = p1  p2 = p2  boss = boss  hand = hand  safety = safety  plain = plain
  u1 = u1  u2 = u2  top = top  leaf = leaf  alice = alice
  rally = rally  drop = drop  doji = doji  hammer = hammer  star = star
  Keys = {k}
  Publishers = {t1, t2}
  Handlers = {h1, h2}
  BusAttempts = 2
  AtMostOnce = FALSE
  MaxPublications = 2
  StateKeys = {e}
  Writers = {w1, w2}
  MaxVersion = 5
  Plugins = {p1, p2}
  Needs <- PluginNeeds
  Invalid = {}
  Admins = {boss, hand}
  Calls <- AdminCalls
  Required <- SafetyValues
  Flags = {safety, plain}
  Users = {u1, u2}
  Bucket <- Buckets
  Percentages = {0, 10, 60, 100}
  Settings = {s}
  Values = {good, bad}
  Good = {good}
  Loaders = {l1, l2}
  Services = {top, leaf}
  Uses <- ServiceUses
  Threads = {t1, t2}
  MaxRegistrations = 3
  RecordIds = {r1, r2, r3, r4}
  Bodies = {x, y}
  MaxRecords = 4
  Actors = {alice}
  Requests <- SignedRequests
  Verifiers = {v1, v2}
  Skew = 2
  MaxTime = 4
  MaxKeys = 2
  Metrics = {m1, m2}
  Labels = {n1, n2}
  MaxSeries = 3
  MaxKept = 2
  Replicas = {q1, q2}
  Hashes = {1, 2, 3, 4}
  Window = 3
  LoadAttempts = 2
  MaxStarts = 3
  MaxStoreFaults = 1
  EventKeys = {k1, k2}
  MaxAppends = 3
  Savers = {a1, a2}
  MaxChanges = 4
  HealthChecks = {c}
  Runners = {j1, j2}
  Voices = {"regime", "structure", "flow"}
  EvidenceScores = {500, 900}
  EntryPrice = 100
  Levels = {97, 107}
  Exposures <- Books
  Positions <- OpenPositions
  LossSteps = {0, 50, 100}
  Stages = 2
  BlockingStages = {2}
  RetryableStages = {1}
  TaskTries = 2
  MaxRuns = 3
  MaxPipelineFaults = 1
  LiveThreads = {x1, x2}
  MaxLiveRequests = 4
  MaxLiveFaults = 1
  RateLimit = 2
  RateWindow = 3
  PruneEvery = 3
  RateEnd = 8
  LedgerIds = {z}
  LedgerOwners = {o1, o2}
  LedgerLevels = {1, 2}
  AlertLimit = 2
  MaxAlerts = 3
  Clerks = {c1, c2}
  MaxOrders = 3
  MaxResets = 2
  ArmLimit = 2
  ConsoleEnd = 3
  BridgeHandlers = {h1, h2}
  SignedAt <- SignedTicks
  ClockSkew = 1
  HandlerDelay = 1
  NonceLife = 3
  Sweepers = {s1}
  BridgeEnd = 6
  MaxRewrites = 3
  Chatters = {x1, x2}
  MaxPresses = 4
  Hosts = {h1, h2}
  Migrations = 2
  MaxHostStarts = 3
  MaxHostFaults = 1
  FreshFor = 4
  AlertTexts = {y1}
  AlertEnd = 9
  Posts = {p1, p2}
  Monitors = {m1, m2}
  MaxReads = 3
  ScanShare <- DayShares
  ScanCost <- AnalysisCosts
  ScanCycles <- DayCycles
  DailyLimit = 40
  MaxExtraRuns = 2
  Shapes <- CandleShapes
  Histories <- CandleHistories
  Pools <- LiquidityPools
  MaxArrivals = 4
INVARIANTS ServicesTypeOK ServicesSafe
PROPERTIES ServicesSteps
CHECK_DEADLOCK FALSE

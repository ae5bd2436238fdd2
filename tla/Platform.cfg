SPECIFICATION MCSpec
CONSTANTS
  Parts = {"position", "evidence", "setup", "candles", "scan", "notice"}
  Troubles = 2
  Alloc <- TwoTargets
  Snapshots = {h1, h2}
  Desks = {d1}
  ManualOps = {"close"}
  Automatic = TRUE
  MaxStop = 1
  MaxOutside = 1
  MaxManual = 1
  MaxManagementFaults = 1
  MaxBucket = 2
  MaxCandle = 1
  Analysts = {a1, a2}
  Bundles = {s1}
  Evidence = {v1, v2}
  NoBundle = nobundle
  NoEvidence = noevidence
  MaxExpiry = 2
  MaxSetupWrites = 2
  Fetches = {f1, f2}
  Batches = {c1, c2}
  NoBatch = nobatch
  Accepts = {r1, r2}
  MaxAnswers = 3
  ScanRuns = {g1, g2}
  FoundSetups = {e1, e2}
  NoFound = nofound
  MaxScanStarts = 3
  MaxScanFaults = 1
  Watchers = {w1, w2}
  MaxReservations = 3
  MaxNoticeFaults = 1
INVARIANTS PlatformTypeOK PlatformSafe
PROPERTIES PlatformSteps
SYMMETRY HeartbeatSymmetry
CHECK_DEADLOCK FALSE

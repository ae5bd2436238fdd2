\* Two processes, two stops and one failed call.  A tick is 5 s: the lock lives
\* 30 s, is renewed every third of that, and renewal is late by up to 10 s.
SPECIFICATION FairSpec
CONSTANTS
  Procs = {p1, p2}
  TTL = 6
  Period = 2
  Late = 2
  MaxStops = 2
  MaxFaults = 1
INVARIANTS TypeOK OneLeader SchedulesUnderLock
PROPERTIES SchedulerRuns LoserStops

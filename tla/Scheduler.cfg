\* An interval job and one that runs once, both skipped when they are late; calls
\* that do not overlap a stop, one place at the semaphore.
SPECIFICATION FairSpec
CONSTANTS
  Jobs = {interval, once}
  Once = {once}
  Skip = {interval, once}
  Tasks = {t1, t2}
  Callers = {c1, c2}
  MaxConcurrency = 1
  MaxAttempts = 2
  MaxCalls = 5
  Overlapping = FALSE
INVARIANTS TypeOK OneExecution CancelledStays RunningIsTrue
PROPERTIES StopIsClean DueIsServed CallsReturn
CHECK_DEADLOCK FALSE

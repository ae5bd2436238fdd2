\* Two processes, two commands, two stops and one lost call.  Each limit is the
\* smallest at which both of its sides occur: the first failure requeues and the
\* second buries, a second dead letter drops the first, and two leases take more
\* than one batch.
SPECIFICATION FairSpec
CONSTANTS
  Updates = {u1, u2}
  Workers = {w1, w2}
  MaxAttempts = 2
  DlqLength = 1
  RecoverBatch = 1
  MaxReplies = 1
  MaxTokens = 4
  MaxStops = 2
  MaxFaults = 1
INVARIANTS TypeOK NothingLost AttemptsCounted OneSender
PROPERTIES LeasesAreFenced AcceptedSettles
CHECK_DEADLOCK FALSE

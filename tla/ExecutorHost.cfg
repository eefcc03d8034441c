SPECIFICATION FairSpec
CONSTANTS
  MaxConnections = 2
  MaxSessions = 2
  MaxFaults = 2
INVARIANTS OneJobRuns OrphanStopped LeaderFirst
PROPERTY JobSettles
CHECK_DEADLOCK FALSE

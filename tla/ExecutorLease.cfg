SPECIFICATION Spec
CONSTANTS
  MaxConnections = 2
  MaxSessions = 1
  MaxFaults = 1
INVARIANT LeaseHandedOn
CHECK_DEADLOCK FALSE

\* Three ports and datagrams that outlive up to two later attempts: the ports wrap
\* around, and a late answer meets the port range at its tightest.
CONSTANTS
  UDP_LOCAL_PORT_RANGE_START = 1
  UDP_LOCAL_PORT_RANGE_END = 3
  MEMP_NUM_UDP_PCB = 3
  NTP_TIMEOUT_CYCLES = 2
  Lifetime = 3
  MaxTime = 2
  MaxAttempts = 4
  MaxInFlight = 2
SPECIFICATION Spec
INVARIANTS AnswerIsFresh PcbAvailable
PROPERTY ImplementsService
CHECK_DEADLOCK FALSE

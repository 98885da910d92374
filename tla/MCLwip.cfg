\* ARP: more hosts than entries.  Reassembly: three datagrams compete for two entries
\* and four pbufs.  Timers: several turns of the clock.  Heap: up to five blocks, sizes
\* below, at and above the smallest, and two that wrap when they are rounded.
CONSTANTS
  Hosts = {"gateway", "h1", "h2"}
  ARP_TABLE_SIZE = 2
  ARP_QUEUE_LEN = 2
  MEMP_NUM_ARP_QUEUE = 2
  ARP_MAXAGE = 3
  ARP_MAXPENDING = 2
  ARP_AGE_REREQUEST_USED_UNICAST = 1
  ARP_AGE_REREQUEST_USED_BROADCAST = 2
  MaxPackets = 3
  Fragments <- MCFragments
  MaxPbufs = 4
  MaxData = 2
  MaxAge = 3
  MaxLen = 8
  Timers <- MCTimers
  interval_ms <- MCInterval
  Order <- MCOrder
  Wrap = 12
  MaxLate = 2
  MEM_SIZE_ALIGNED = 104
  Word = 256
  Wanted = {0, 1, 13, 20, 48, 253}
SPECIFICATION MCSpec
INVARIANTS
  ArpSound
  ReassSound
  TimersPaced
  MemSound
PROPERTIES
  LeaveInOrder
  NothingWaitsForever
  NothingMissed

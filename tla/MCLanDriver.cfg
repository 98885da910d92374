\* Frames received in no, one and two pbufs, with and without padding, FIFOs that
\* fill up, and frames sent: fragments of one or two datagrams, and lone pbufs.
CONSTANTS
  RawLengths = {0, 4, 9, 16}
  PoolBufSize = 8
  StatusSize = 2
  DataSize = 6
  DrainLimit = 3
  MaxFrames = 4
  Mtu = 36
  Datagrams <- MCDatagrams
  Frames = {42, 60}
SPECIFICATION MCSpec
INVARIANTS
  FifosInStep
  FramesWhole
  FragmentsTrue
  LonePbufsIntact
PROPERTY EveryFrameTaken
CHECK_DEADLOCK FALSE

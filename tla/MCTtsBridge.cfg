\* Two announcements and three keys: an exit can meet any point of either.
CONSTANTS
  TokensPer = 2
  MaxAnnouncements = 2
  Keys = {"t", "x", "ctrlA", "ctrlC"}
  MaxKeys = 3
  WordsPer = 1
  MaxSpoken = 0
  MaxKeyLines = 0
  MaxNtpLines = 0
  MaxPipe = 1
SPECIFICATION BridgeSpec
INVARIANTS SentencesWhole ForwardedInOrder
PROPERTIES AnnouncementSpoken BridgeEnds
CHECK_DEADLOCK FALSE

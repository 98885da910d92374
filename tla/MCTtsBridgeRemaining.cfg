\* Whether the words spoken at the end were not spoken before.
CONSTANTS
  TokensPer = 2
  MaxAnnouncements = 2
  Keys = {"t", "x", "ctrlA", "ctrlC"}
  MaxKeys = 3
  WordsPer = 1
  MaxSpoken = 0
  MaxKeyLines = 0
  MaxNtpLines = 0
  MaxPipe = 1
SPECIFICATION BridgeSpec
INVARIANT OnlyRemainingSpoken
CHECK_DEADLOCK FALSE

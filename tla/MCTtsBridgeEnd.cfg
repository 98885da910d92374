\* Whether each announcement that QEMU wrote is spoken, though QEMU ends.
CONSTANTS
  TokensPer = 2
  MaxAnnouncements = 1
  Keys = {}
  MaxKeys = 0
  WordsPer = 1
  MaxSpoken = 0
  MaxKeyLines = 0
  MaxNtpLines = 0
  MaxPipe = 1
SPECIFICATION BridgeSpec
PROPERTY EndSpeaks
CHECK_DEADLOCK FALSE

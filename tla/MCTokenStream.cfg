\* Two announcements of two words, disturbed by one line of KEY and one of NTP.
CONSTANTS
  WordsPer = 2
  MaxSpoken = 2
  MaxKeyLines = 1
  MaxNtpLines = 1
  MaxPipe = 1
  TokensPer = 1
  MaxAnnouncements = 0
  Keys = {}
  MaxKeys = 0
SPECIFICATION StreamSpec
CHECK_DEADLOCK FALSE
INVARIANTS
  UndisturbedIsSpoken
  DamageBounded
  

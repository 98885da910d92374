\* Every instant of a clock that wraps around after two and a half days:
\* 2^32 = 23296 and 2208988800 = 0 modulo 86400, and so are these.
\* Texts that fit, that fill the buffer exactly and that are truncated.
CONSTANTS
  Modulus = 196096
  NTP_UNIX_EPOCH_DIFF = 86400
  Tasks <- MCTasks
  Priority <- MCPriority
  BufSize = 5
  MaxText = 6
SPECIFICATION MCSpec
INVARIANTS MsgIsIst TokensTellTime ReadsStayInBuffer TopTextIntact
PROPERTY PrintfReturns
CHECK_DEADLOCK FALSE

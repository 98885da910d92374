\* Two answers under way; identifiers are drawn again soon.
CONSTANTS
  Addrs = {1}
  Leases <- MCLeases
  Word = 256
  MaxMinutes = 6
  Secs = 4
  RequestTries = 1
  Xids = {0, 1, 2}
  MaxNet = 2
SPECIFICATION Spec
INVARIANTS
  LeaseRespected
PROPERTIES
  StuckOnlyEndless
  FreshAnswers

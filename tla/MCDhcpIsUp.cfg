\* network_is_up after the lease is lost.
CONSTANTS
  Addrs = {1}
  Leases <- MCLeases
  Word = 256
  MaxMinutes = 6
  Secs = 4
  RequestTries = 1
  Xids = {0, 1, 2}
  MaxNet = 2
SPECIFICATION Spec
INVARIANT NetworkIsUp

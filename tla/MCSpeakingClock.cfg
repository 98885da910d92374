\* Three presses can be under way at once: one spoken, one queued, one in a query.
CONSTANTS
  QueueLength = 1
  Retries = 2
  MaxPresses = 3
  MaxTime = 2
SPECIFICATION Spec
INVARIANTS AnnouncedInOrder AnnouncedAfterRequest RequestIsSignalled
PROPERTIES EveryPressServed EveryMessageSpoken

\* The firmware's tasks across two turns of the tick count; every start; two small
\* heaps that are not aligned, with five sizes of request, one refused.
CONSTANTS
  Tasks <- MCTasks
  uxPriority <- MCPriority
  Queues <- MCQueues
  uxLength <- MCLength
  Semaphores <- MCSemaphores
  Items = {1, 2}
  Token = 0
  Calls <- MCCalls
  Ticks = 5
  MaxTime = 9
  MaxPended = 2
  ucHeap = 101
  HeapSizes <- MCHeapSizes
  Wanted = {0, 1, 9, 24, 40}
  Sizes <- MCSizes
SPECIFICATION MCSpec
INVARIANTS
  NoLostWakeup
  WokenOnTime
  HeapSound
  StartSound
PROPERTY ImplementsQueue
CHECK_DEADLOCK FALSE

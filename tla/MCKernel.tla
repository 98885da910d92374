------------------------------ MODULE MCKernel ------------------------------
(* The kernel under this firmware: its queues, with the calls of            *)
(* src/src/*_task.c scaled down; the start, with the stacks of main.c and   *)
(* FreeRTOSConfig.h in bytes and sizes like those of the build for the      *)
(* kernel's structures, on heaps from one too small for the semaphore to    *)
(* configTOTAL_HEAP_SIZE; and its heap under any use.  The queues run when  *)
(* the start is over and take nothing from the heap, so a behaviour follows *)
(* one of the three.                                                        *)
EXTENDS KernelQueue

CONSTANTS ucHeap, HeapSizes, Wanted, Sizes

VARIABLES
  side,   \* "queue", "start" or "heap"
  total, free, used, xFreeBytesRemaining, xMinimumEverFreeBytesRemaining,
  step, stack, made, boot, refused

memory == <<total, free, used, xFreeBytesRemaining, xMinimumEverFreeBytesRemaining,
            step, stack, made, boot, refused>>

Start == INSTANCE Boot WITH Heap <- ucHeap, Totals <- HeapSizes

ASSUME StartAssumption == Start!BootAssumption /\ Start!HeapAssumption

MCTasks == {"KEY", "NTP", "SPEECH"}
MCPriority == [KEY |-> 1, NTP |-> 2, SPEECH |-> 1]
MCQueues == {"time_request_sem", "time_queue"}
MCLength == [q \in MCQueues |-> 1]
MCSemaphores == {"time_request_sem"}

MCCalls ==
  [KEY |-> {[op |-> "send", q |-> "time_request_sem", wait |-> 0, item |-> Token],
            [op |-> "delay", wait |-> 2]},
   NTP |-> {[op |-> "receive", q |-> "time_request_sem", wait |-> 2],
            [op |-> "delay", wait |-> 3]}
             \cup {[op |-> "send", q |-> "time_queue", wait |-> 3, item |-> i] :
                     i \in Items},
   SPEECH |-> {[op |-> "receive", q |-> "time_queue", wait |-> portMAX_DELAY]}]

MCSizes ==
  [sem |-> 80, queue |-> 104, timerq |-> 240, tcb |-> 100,
   KEY |-> 256 * 4, NTP |-> 1024 * 4, SPEECH |-> 512 * 4, IDLE |-> 128 * 4, TIMER |-> 256 * 4]

(* The heaps that any use is tried on. *)
SmallHeaps == {140, 147}

MCHeapSizes == {32 + 40 * i : i \in 0..260} \cup {64 * 1024} \cup SmallHeaps

MCInit ==
  /\ side \in {"queue", "start", "heap"}
  /\ Init /\ Start!Init
  /\ CASE side = "queue" -> total = 64 * 1024
       [] side = "heap" -> total \in SmallHeaps
       [] OTHER -> TRUE

MCNext ==
  \/ side = "queue" /\ Next /\ UNCHANGED <<side, memory>>
  \/ side = "start" /\ Start!Next /\ UNCHANGED <<side, vars>>
  \/ side = "heap" /\ Start!HeapNext
     /\ UNCHANGED <<side, vars, step, stack, made, boot, refused>>

MCSpec == MCInit /\ [][MCNext]_<<side, vars, memory>>

(* Whatever was allocated and freed, in whatever order, the blocks of       *)
(* heap_4 tile the heap, no two free ones touch, and the count of free      *)
(* bytes by which pvPortMalloc decides is exact.                            *)
HeapSound ==
  side # "queue" =>
    Start!HeapTypeOK /\ Start!Tiled /\ Start!Coalesced /\ Start!FreeBytesExact

(* However small the heap, the scheduler runs only with the objects that    *)
(* the tasks use unchecked, and a task that could not be made has left      *)
(* nothing behind.                                                          *)
StartSound == side = "start" => Start!RunsComplete /\ Start!NoLeak

(* main.c says of vApplicationMallocFailedHook: "called if pvPortMalloc()   *)
(* fails"; it never returns.                                                *)
MallocFailureHalts == Start!MallocFailureHalts
=============================================================================

-------------------------------- MODULE Boot ---------------------------------
(***************************************************************************)
(* The start of the firmware, main.c: the semaphore, the queue and the     *)
(* tasks are taken from the heap one after another, then the scheduler     *)
(* takes what it needs itself.  main looks at the results of the first     *)
(* two; those of xTaskCreate are ignored.  Nothing else runs yet.          *)
(***************************************************************************)
EXTENDS Heap4

CONSTANTS
  Sizes   \* bytes of "sem", "queue", "timerq", "tcb" and of each task's stack

BootTasks == {"KEY", "NTP", "SPEECH", "IDLE", "TIMER"}

(* A queue and a TCB hold two lists each, and the smallest stack is of      *)
(* configMINIMAL_STACK_SIZE words: all are larger than a block's header.    *)
BootAssumption ==
  Sizes \in [{"sem", "queue", "timerq", "tcb"} \cup BootTasks -> Nat \ (0..xHeapStructSize)]

(* main, prvCreateIdleTasks and xTimerCreateTimerTask, in their order. *)
Order == <<"sem", "queue", "KEY", "NTP", "SPEECH", "IDLE", "timerq", "TIMER">>

VARIABLES
  step,   \* position in Order
  stack,  \* the stack prvCreateTask holds while it asks for the TCB
  made,   \* the objects that exist, each with the blocks it owns
  boot,   \* "main", "running", "FATAL" (main's loop) or "ASSERT" (vAssertCalled)
  refused \* ghost: pvPortMalloc has returned NULL

vars == <<heap, step, stack, made, boot, refused>>

None == Block(0, 0)

Init ==
  /\ HeapInit
  /\ step = 1 /\ stack = None /\ made = << >> /\ boot = "main" /\ refused = 0

Made(name) == \E i \in 1..Len(made) : made[i].name = name
Own(name, blocks) == Append(made, [name |-> name, blocks |-> blocks])

(* Mutant: no failure stops the start. *)
FailedIgnored(name) == "main"

(* What follows when the object could not be made: main stops, main goes    *)
(* on, or a configASSERT of the kernel fails.                               *)
Failed(name) ==
  CASE name \in {"sem", "queue"} -> "FATAL"
    [] name \in {"KEY", "NTP", "SPEECH"} -> "main"
    [] OTHER -> "ASSERT"

Continue(outcome) ==
  /\ step' = step + 1
  /\ boot' = IF outcome = "main" /\ step = Len(Order) THEN "running" ELSE outcome

(* xSemaphoreCreateBinary, xQueueCreate and the queue of the timer task. *)
xQueueGenericCreate ==
  LET name == Order[step]
  IN  /\ boot = "main" /\ name \notin BootTasks
      /\ pvPortMalloc(Sizes[name])
      /\ IF CanMalloc(Sizes[name])
         THEN made' = Own(name, {Found(Sizes[name])}) /\ Continue("main") /\ UNCHANGED refused
         ELSE Continue(Failed(name)) /\ refused' = 1 /\ UNCHANGED made
      /\ UNCHANGED stack

(* prvCreateTask: the stack first. *)
MallocStack ==
  LET name == Order[step]
  IN  /\ boot = "main" /\ name \in BootTasks /\ stack = None
      /\ pvPortMalloc(Sizes[name])
      /\ IF CanMalloc(Sizes[name])
         THEN stack' = Found(Sizes[name]) /\ UNCHANGED <<step, boot, refused>>
         ELSE Continue(Failed(name)) /\ refused' = 1 /\ UNCHANGED stack
      /\ UNCHANGED made

MallocTcb ==
  LET name == Order[step]
  IN  /\ boot = "main" /\ stack # None /\ CanMalloc(Sizes["tcb"])
      /\ Malloc(Sizes["tcb"])
      /\ made' = Own(name, {stack, Found(Sizes["tcb"])})
      /\ stack' = None
      /\ Continue("main")
      /\ UNCHANGED refused

(* Mutant: the stack is forgotten. *)
StackLost(b) == UNCHANGED heap

FreeStack(b) == vPortFree(b)

(* No memory for the TCB: the stack is given back. *)
TcbRefused ==
  /\ boot = "main" /\ stack # None /\ ~CanMalloc(Sizes["tcb"])
  /\ FreeStack(stack)
  /\ stack' = None
  /\ Continue(Failed(Order[step]))
  /\ refused' = 1
  /\ UNCHANGED made

Next == xQueueGenericCreate \/ MallocStack \/ MallocTcb \/ TcbRefused

Spec == Init /\ [][Next]_vars

-----------------------------------------------------------------------------
(* All blocks that Order takes from a heap that is large enough. *)
Needed ==
  LET size(name) == BlockSize(Sizes[name])
  IN  size("sem") + size("queue") + size("timerq") + size("KEY") + size("NTP") + size("SPEECH")
        + size("IDLE") + size("TIMER") + 5 * size("tcb")

TypeOK ==
  /\ HeapTypeOK
  /\ step \in 1..(Len(Order) + 1)
  /\ boot \in {"main", "running", "FATAL", "ASSERT"}
  /\ refused \in {0, 1}
  /\ stack = None \/ stack.n >= Sizes[Order[step]] + xHeapStructSize
  /\ \A i \in 1..Len(made) : made[i].name \in Range(Order)

(* However small the heap, the scheduler runs only with all that the tasks  *)
(* use without looking: the semaphore, the queue, the idle task and the     *)
(* timer task; and with the three tasks of the application when the heap    *)
(* holds them all.                                                          *)
RunsComplete ==
  /\ boot = "running" => \A name \in {"sem", "queue", "IDLE", "timerq", "TIMER"} : Made(name)
  /\ pxEnd(total) - uxStartAddress >= Needed =>
       boot \notin {"FATAL", "ASSERT"} /\ (boot = "running" => \A name \in Range(Order) : Made(name))

(* A task that could not be made has left nothing behind: the blocks in use *)
(* are those of the objects that exist, each of one object, and the stack   *)
(* of the task being made.                                                  *)
NoLeak ==
  /\ used = (UNION {made[i].blocks : i \in 1..Len(made)}) \cup ({stack} \ {None})
  /\ \A i, j \in 1..Len(made) : i # j => made[i].blocks \cap made[j].blocks = {}

(* main.c says of vApplicationMallocFailedHook: "called if pvPortMalloc()   *)
(* fails"; it never returns.                                                *)
MallocFailureHalts == refused = 1 => boot # "running"
=============================================================================

----------------------------- MODULE KernelQueue -----------------------------
(***************************************************************************)
(* FreeRTOS's queues and its clock, as the firmware's tasks use them:      *)
(* xQueueGenericSend, xQueueReceive, xQueueSemaphoreTake                   *)
(* (src/freertos/queue.c), vTaskDelay, the delayed lists, the tick and the *)
(* time-out arithmetic (src/freertos/tasks.c), and the sorted lists of     *)
(* src/freertos/list.c.                                                    *)
(*                                                                         *)
(* A call that finds the queue full (or empty) leaves its critical section *)
(* before it suspends the scheduler to put itself on the waiting list:     *)
(* other tasks and ticks come in between.  While the scheduler is          *)
(* suspended no other task runs and ticks are only counted.  The tick      *)
(* count has the width of TickType_t, scaled to Ticks values, and wraps.   *)
(*                                                                         *)
(* Mutexes, queue sets, the FromISR functions and queueOVERWRITE are not   *)
(* used by the firmware.  Without FromISR calls nothing happens to a       *)
(* locked queue, and xPendingReadyList stays empty.                        *)
(***************************************************************************)
EXTENDS Integers, Sequences, SequencesExt

CONSTANTS
  Tasks,
  uxPriority,    \* of each task
  Queues,
  uxLength,      \* of each queue
  Semaphores,    \* the queues with uxItemSize 0
  Items,
  Token,         \* stands for the item of a semaphore
  Calls,         \* the calls that each task makes
  Ticks,         \* the number of values of TickType_t
  MaxTime,       \* bound on the ticks since the start
  MaxPended      \* bound on xPendedTicks

portMAX_DELAY == Ticks - 1

AllCalls ==
  [op: {"send"}, q: Queues, wait: 0..portMAX_DELAY, item: Items \cup {Token}]
    \cup [op: {"receive"}, q: Queues, wait: 1..portMAX_DELAY]
    \cup [op: {"delay"}, wait: 1..(portMAX_DELAY - 1)]

ASSUME KernelAssumption ==
  /\ Ticks \in Nat \ {0, 1}
  /\ MaxTime \in Nat /\ MaxPended \in Nat
  /\ uxPriority \in [Tasks -> Nat]
  /\ uxLength \in [Queues -> Nat \ {0}]
  /\ Semaphores \subseteq Queues
  /\ IsFiniteSet(Tasks) /\ "none" \notin Tasks
  /\ \A t \in Tasks : \A c \in Calls[t] :
       /\ c \in AllCalls
       /\ c.op = "send" => (c.q \in Semaphores => c.item = Token)

VARIABLES
  xTickCount, xNumOfOverflows, xNextTaskUnblockTime,
  pxDelayedTaskList, pxOverflowDelayedTaskList,
  xSuspendedTaskList,
  xPendedTicks,
  suspender,     \* the task that suspended the scheduler, or "none"
  queue,         \* the queues' control blocks and storage
  pc, call,      \* where each task is, in which call
  xTicksToWait, xEntryTimeSet, xTimeOut,  \* locals of the call
  due            \* ghost: the true time at which the wait is over

clock == <<xTickCount, xNumOfOverflows>>
lists == <<xNextTaskUnblockTime, pxDelayedTaskList, pxOverflowDelayedTaskList,
           xSuspendedTaskList>>
locals == <<pc, call, xTicksToWait, xEntryTimeSet, xTimeOut, due>>
vars == <<clock, lists, xPendedTicks, suspender, queue, locals>>

(* The time since the scheduler started, which the kernel does not know. *)
Now == xNumOfOverflows * Ticks + xTickCount

(* The items of a list carry a value, by which the list is sorted, and are  *)
(* owned by a task.                                                         *)
Item(value, t) == [xItemValue |-> value, pvOwner |-> t]
Owners(s) == {s[i].pvOwner : i \in DOMAIN s}

Sleeping == Owners(pxDelayedTaskList) \cup Owners(pxOverflowDelayedTaskList)
Ready == Tasks \ (Sleeping \cup xSuspendedTaskList)

ListItem(values) == [xItemValue : values, pvOwner : Tasks]

QueueDefinition(q) ==
  [uxMessagesWaiting : 0..uxLength[q],
   pcWriteTo : 0..(uxLength[q] - 1), pcReadFrom : 0..(uxLength[q] - 1),
   pcHead : [0..(uxLength[q] - 1) -> Items \cup {Token}],
   xTasksWaitingToSend : Seq(ListItem(Int)),
   xTasksWaitingToReceive : Seq(ListItem(Int))]

TypeOK ==
  /\ xTickCount \in 0..portMAX_DELAY
  /\ xNumOfOverflows \in Nat
  /\ xNextTaskUnblockTime \in 0..portMAX_DELAY
  /\ pxDelayedTaskList \in Seq(ListItem(0..portMAX_DELAY))
  /\ pxOverflowDelayedTaskList \in Seq(ListItem(0..portMAX_DELAY))
  /\ xSuspendedTaskList \subseteq Tasks \ Sleeping
  /\ xPendedTicks \in 0..MaxPended
  /\ suspender \in Tasks \cup {"none"}
  /\ DOMAIN queue = Queues
  /\ \A q \in Queues : queue[q] \in QueueDefinition(q)
  /\ pc \in [Tasks -> {"user", "try", "check", "resume", "expired", "last",
                       "delay", "asleep", "delayed"}]
  /\ DOMAIN call = Tasks
  /\ \A t \in Tasks :
       IF pc[t] = "user" THEN call[t] = [op |-> "none"] ELSE call[t] \in Calls[t]
  /\ xEntryTimeSet \in [Tasks -> BOOLEAN]
  /\ xTimeOut \in [Tasks -> [xOverflowCount: Nat,
                             xTimeOnEntering: 0..portMAX_DELAY]]
  /\ xTicksToWait \in [Tasks -> 0..portMAX_DELAY]
  /\ due \in [Tasks -> Nat]

Init ==
  /\ xTickCount = 0 /\ xNumOfOverflows = 0
  /\ xNextTaskUnblockTime = portMAX_DELAY
  /\ pxDelayedTaskList = <<>> /\ pxOverflowDelayedTaskList = <<>>
  /\ xSuspendedTaskList = {}
  /\ xPendedTicks = 0
  /\ suspender = "none"
  /\ queue = [q \in Queues |->
       [uxMessagesWaiting |-> 0, pcWriteTo |-> 0, pcReadFrom |-> uxLength[q] - 1,
        pcHead |-> [i \in 0..(uxLength[q] - 1) |-> Token],
        xTasksWaitingToSend |-> <<>>, xTasksWaitingToReceive |-> <<>>]]
  /\ pc = [t \in Tasks |-> "user"]
  /\ call = [t \in Tasks |-> [op |-> "none"]]
  /\ xTicksToWait = [t \in Tasks |-> 0]
  /\ xEntryTimeSet = [t \in Tasks |-> FALSE]
  /\ xTimeOut = [t \in Tasks |-> [xOverflowCount |-> 0, xTimeOnEntering |-> 0]]
  /\ due = [t \in Tasks |-> 0]

-----------------------------------------------------------------------------
(* The ready task with the highest priority runs, tasks of equal priority   *)
(* in turns.  While the scheduler is suspended only the suspender runs.     *)
Runs(t) ==
  IF suspender # "none" THEN t = suspender
  ELSE t \in Ready /\ \A u \in Ready : uxPriority[u] <= uxPriority[t]

(* The position of the first item above a value; the end of the list if     *)
(* there is none.                                                           *)
FirstAbove(s, value) ==
  Min({i \in 1..Len(s) : s[i].xItemValue > value} \cup {Len(s) + 1})

(* Sorted by ascending value, behind the items of equal value. *)
vListInsert(s, item) == InsertAt(s, FirstAbove(s, item.xItemValue), item)

(* uxListRemove of the items of the tasks in T. *)
Without(s, T) ==
  LET kept[i \in 0..Len(s)] ==
        IF i = 0 THEN <<>>
        ELSE IF s[i].pvOwner \in T THEN kept[i - 1] ELSE Append(kept[i - 1], s[i])
  IN kept[Len(s)]

(* An event list is in order of priority. *)
EventList(s, t) == vListInsert(s, Item(-uxPriority[t], t))

BeyondWrap(at) == at < xTickCount

TimeToWake(ticks) == (xTickCount + ticks) % Ticks

prvAddCurrentTaskToDelayedList(t, ticks, forever) ==
  IF ticks = portMAX_DELAY /\ forever
  THEN /\ xSuspendedTaskList' = xSuspendedTaskList \cup {t}
       /\ UNCHANGED <<xNextTaskUnblockTime, pxDelayedTaskList,
                      pxOverflowDelayedTaskList>>
  ELSE LET at == TimeToWake(ticks)
       IN /\ IF BeyondWrap(at)
             THEN /\ pxOverflowDelayedTaskList' =
                       vListInsert(pxOverflowDelayedTaskList, Item(at, t))
                  /\ UNCHANGED <<xNextTaskUnblockTime, pxDelayedTaskList>>
             ELSE /\ pxDelayedTaskList' =
                       vListInsert(pxDelayedTaskList, Item(at, t))
                  /\ xNextTaskUnblockTime' = IF at < xNextTaskUnblockTime
                                             THEN at ELSE xNextTaskUnblockTime
                  /\ UNCHANGED pxOverflowDelayedTaskList
          /\ UNCHANGED xSuspendedTaskList

(* The first of an event list becomes ready.  xNextTaskUnblockTime is not   *)
(* recalculated: it may be too early now, which costs one useless look.     *)
xTaskRemoveFromEventList(s) ==
  LET first == IF s = <<>> THEN {} ELSE {Head(s).pvOwner}
  IN /\ pxDelayedTaskList' = Without(pxDelayedTaskList, first)
     /\ pxOverflowDelayedTaskList' = Without(pxOverflowDelayedTaskList, first)
     /\ xSuspendedTaskList' = xSuspendedTaskList \ first
     /\ UNCHANGED xNextTaskUnblockTime

Rest(s) == IF s = <<>> THEN <<>> ELSE Tail(s)

-----------------------------------------------------------------------------
(* The tick *)

HeadTime(s) == IF s = <<>> THEN portMAX_DELAY ELSE Head(s).xItemValue

(* Mutant: the next time to unblock a task is not recalculated. *)
SwitchWithoutReset(k) ==
  [k EXCEPT !.over = @ + 1, !.delayed = k.later, !.later = k.delayed]

(* When the count wraps, the lists change places. *)
taskSWITCH_DELAYED_LISTS(k) ==
  [k EXCEPT !.over = @ + 1, !.delayed = k.later, !.later = k.delayed,
            !.next = HeadTime(k.later)]

(* If a time may have come, takes the tasks whose time has come from the    *)
(* head of the delayed list, up to the first that has time left.            *)
Unblock(k) ==
  IF k.tick < k.next THEN k
  ELSE LET left == SubSeq(k.delayed, FirstAbove(k.delayed, k.tick), Len(k.delayed))
       IN [k EXCEPT !.delayed = left, !.next = HeadTime(left)]

xTaskIncrementTick(k) ==
  LET n == [k EXCEPT !.tick = (@ + 1) % Ticks]
  IN Unblock(IF n.tick = 0 THEN taskSWITCH_DELAYED_LISTS(n) ELSE n)

(* n ticks are processed; the tasks woken leave the event lists as well. *)
Advance(n) ==
  LET after[i \in 0..n] ==
        IF i = 0
        THEN [tick |-> xTickCount, over |-> xNumOfOverflows,
              next |-> xNextTaskUnblockTime, delayed |-> pxDelayedTaskList,
              later |-> pxOverflowDelayedTaskList]
        ELSE xTaskIncrementTick(after[i - 1])
      k == after[n]
      woken == Sleeping \ (Owners(k.delayed) \cup Owners(k.later))
  IN /\ xTickCount' = k.tick
     /\ xNumOfOverflows' = k.over
     /\ xNextTaskUnblockTime' = k.next
     /\ pxDelayedTaskList' = k.delayed
     /\ pxOverflowDelayedTaskList' = k.later
     /\ queue' = [q \in Queues |->
          [queue[q] EXCEPT
             !.xTasksWaitingToSend = Without(@, woken),
             !.xTasksWaitingToReceive = Without(@, woken)]]
     /\ UNCHANGED xSuspendedTaskList

(* Bounds on time.  The second is what the arithmetic of the code relies    *)
(* on: a task in a timed call is kept from its next look at the clock for   *)
(* at most a full turn of the count (2^32 ms, almost 50 days).              *)
MayPass(n) ==
  /\ Now + n <= MaxTime
  /\ \A t \in Tasks :
       pc[t] # "user" /\ call[t].wait # portMAX_DELAY /\ xEntryTimeSet[t] =>
         Now + n <= xTimeOut[t].xOverflowCount * Ticks
                      + xTimeOut[t].xTimeOnEntering + Ticks

(* The interrupt.  With the scheduler suspended the tick is only counted. *)
Tick ==
  /\ MayPass(xPendedTicks + 1)
  /\ \/ /\ suspender = "none"
        /\ Advance(1)
        /\ UNCHANGED xPendedTicks
     \/ /\ suspender # "none"
        /\ xPendedTicks < MaxPended
        /\ xPendedTicks' = xPendedTicks + 1
        /\ UNCHANGED <<clock, lists, queue>>
  /\ UNCHANGED <<suspender, locals>>

-----------------------------------------------------------------------------
(* The calls *)

At(t, l) == pc' = [pc EXCEPT ![t] = l]

(* The call returns and its locals are gone. *)
Return(t) ==
  /\ At(t, "user")
  /\ call' = [call EXCEPT ![t] = [op |-> "none"]]
  /\ xTicksToWait' = [xTicksToWait EXCEPT ![t] = 0]
  /\ xEntryTimeSet' = [xEntryTimeSet EXCEPT ![t] = FALSE]
  /\ xTimeOut' = [xTimeOut EXCEPT ![t] = [xOverflowCount |-> 0,
                                          xTimeOnEntering |-> 0]]
  /\ due' = [due EXCEPT ![t] = 0]

Full(q) == queue[q].uxMessagesWaiting = uxLength[q]
Empty(q) == queue[q].uxMessagesWaiting = 0

Call(t, c) ==
  /\ Runs(t) /\ pc[t] = "user"
  /\ At(t, IF c.op = "delay" THEN "delay" ELSE "try")
  /\ call' = [call EXCEPT ![t] = c]
  /\ xTicksToWait' = [xTicksToWait EXCEPT ![t] = c.wait]
  /\ UNCHANGED <<clock, lists, xPendedTicks, suspender, queue, xEntryTimeSet,
                 xTimeOut, due>>

(* The item goes to the back of the ring; a semaphore has no item. *)
prvCopyDataToQueue(q, item) ==
  LET after == IF queue[q].pcWriteTo + 1 = uxLength[q] THEN 0
               ELSE queue[q].pcWriteTo + 1
      full == [queue[q] EXCEPT !.uxMessagesWaiting = @ + 1]
  IN IF q \in Semaphores THEN full
     ELSE [full EXCEPT !.pcHead[queue[q].pcWriteTo] = item, !.pcWriteTo = after]

prvCopyDataFromQueue(q) ==
  LET less == [queue[q] EXCEPT !.uxMessagesWaiting = @ - 1]
  IN IF q \in Semaphores THEN less
     ELSE [less EXCEPT !.pcReadFrom = IF @ + 1 = uxLength[q] THEN 0 ELSE @ + 1]

(* First critical section, success: the item is copied and the first task   *)
(* that waits at the other end is made ready.                               *)
SendNow(t, q) ==
  /\ ~Full(q)
  /\ queue' = [queue EXCEPT ![q] =
       [prvCopyDataToQueue(q, call[t].item) EXCEPT
          !.xTasksWaitingToReceive = Rest(@)]]
  /\ xTaskRemoveFromEventList(queue[q].xTasksWaitingToReceive)

ReceiveNow(t, q) ==
  /\ ~Empty(q)
  /\ queue' = [queue EXCEPT ![q] =
       [prvCopyDataFromQueue(q) EXCEPT !.xTasksWaitingToSend = Rest(@)]]
  /\ xTaskRemoveFromEventList(queue[q].xTasksWaitingToSend)

(* The time of the first failure is the start of the wait. *)
vTaskInternalSetTimeOutState(t) ==
  xTimeOut' = [xTimeOut EXCEPT ![t] = [xOverflowCount |-> xNumOfOverflows,
                                       xTimeOnEntering |-> xTickCount]]

Try(t) ==
  LET q == call[t].q
      blocked == IF call[t].op = "send" THEN Full(q) ELSE Empty(q)
  IN /\ Runs(t) /\ pc[t] = "try"
     /\ \/ /\ IF call[t].op = "send" THEN SendNow(t, q) ELSE ReceiveNow(t, q)
           /\ Return(t)
        \/ /\ blocked /\ xTicksToWait[t] = 0
           /\ Return(t)
           /\ UNCHANGED <<queue, lists>>
        \/ /\ blocked /\ xTicksToWait[t] # 0
           /\ At(t, "check")
           /\ IF ~xEntryTimeSet[t]
              THEN /\ xEntryTimeSet' = [xEntryTimeSet EXCEPT ![t] = TRUE]
                   /\ vTaskInternalSetTimeOutState(t)
                   /\ due' = [due EXCEPT ![t] = Now + xTicksToWait[t]]
              ELSE UNCHANGED <<xEntryTimeSet, xTimeOut, due>>
           /\ UNCHANGED <<queue, lists, call, xTicksToWait>>
     /\ UNCHANGED <<clock, xPendedTicks, suspender>>

Elapsed(t) == (xTickCount - xTimeOut[t].xTimeOnEntering) % Ticks

(* Mutant: any wrap since the entry time counts as a time-out. *)
WrappedAtAll(t) == xNumOfOverflows # xTimeOut[t].xOverflowCount

(* The count may have gone all the way round since the entry time. *)
Wrapped(t) ==
  /\ xNumOfOverflows # xTimeOut[t].xOverflowCount
  /\ xTickCount >= xTimeOut[t].xTimeOnEntering

TimedOut(t) ==
  /\ xTicksToWait[t] # portMAX_DELAY
  /\ Wrapped(t) \/ Elapsed(t) >= xTicksToWait[t]

(* Not a time-out: the time left, counted from now. *)
TimeLeft(t) == IF xTicksToWait[t] = portMAX_DELAY THEN portMAX_DELAY
               ELSE xTicksToWait[t] - Elapsed(t)

Restarted(t) == IF xTicksToWait[t] = portMAX_DELAY THEN UNCHANGED xTimeOut
                ELSE vTaskInternalSetTimeOutState(t)

(* Mutant: the queue is not looked at again. *)
BlockedAnyway(t) == TRUE

(* prvIsQueueFull, prvIsQueueEmpty. *)
StillBlocked(t) ==
  IF call[t].op = "send" THEN Full(call[t].q) ELSE Empty(call[t].q)

(* vTaskSuspendAll, prvLockQueue, xTaskCheckForTimeOut and, if the queue is *)
(* still full or empty, vTaskPlaceOnEventList.                              *)
Check(t) ==
  LET q == call[t].q
  IN /\ Runs(t) /\ pc[t] = "check"
     /\ suspender' = t
     /\ \/ /\ TimedOut(t)
           /\ At(t, "expired")
           /\ xTicksToWait' = [xTicksToWait EXCEPT ![t] = 0]
           /\ UNCHANGED <<xTimeOut, queue, lists>>
        \/ /\ ~TimedOut(t)
           /\ At(t, "resume")
           /\ xTicksToWait' = [xTicksToWait EXCEPT ![t] = TimeLeft(t)]
           /\ Restarted(t)
           /\ IF StillBlocked(t)
              THEN /\ queue' =
                        IF call[t].op = "send"
                        THEN [queue EXCEPT ![q].xTasksWaitingToSend = EventList(@, t)]
                        ELSE [queue EXCEPT ![q].xTasksWaitingToReceive = EventList(@, t)]
                   /\ prvAddCurrentTaskToDelayedList(t, TimeLeft(t), TRUE)
              ELSE UNCHANGED <<queue, lists>>
     /\ UNCHANGED <<clock, xPendedTicks, call, xEntryTimeSet, due>>

(* prvUnlockQueue and xTaskResumeAll: the ticks counted meanwhile are       *)
(* processed.                                                               *)
xTaskResumeAll(t) ==
  /\ Runs(t) /\ suspender = t
  /\ suspender' = "none"
  /\ Advance(xPendedTicks)
  /\ xPendedTicks' = 0
  /\ At(t, CASE pc[t] = "resume" -> "try"
             [] pc[t] = "expired" -> "last"
             [] pc[t] = "asleep" -> "delayed")
  /\ UNCHANGED <<call, xTicksToWait, xEntryTimeSet, xTimeOut, due>>

(* A sender that timed out returns, a receiver only if the queue is empty. *)
Expire(t) ==
  /\ Runs(t) /\ pc[t] = "last"
  /\ IF call[t].op = "send" \/ Empty(call[t].q) THEN Return(t)
     ELSE /\ At(t, "try")
          /\ UNCHANGED <<call, xTicksToWait, xEntryTimeSet, xTimeOut, due>>
  /\ UNCHANGED <<clock, lists, xPendedTicks, suspender, queue>>

vTaskDelay(t) ==
  /\ Runs(t) /\ pc[t] = "delay"
  /\ suspender' = t
  /\ prvAddCurrentTaskToDelayedList(t, call[t].wait, FALSE)
  /\ due' = [due EXCEPT ![t] = Now + call[t].wait]
  /\ At(t, "asleep")
  /\ UNCHANGED <<clock, xPendedTicks, queue, call, xTicksToWait,
                 xEntryTimeSet, xTimeOut>>

Delayed(t) ==
  /\ Runs(t) /\ pc[t] = "delayed"
  /\ Return(t)
  /\ UNCHANGED <<clock, lists, xPendedTicks, suspender, queue>>

Step(t) ==
  \/ Try(t) \/ Check(t) \/ xTaskResumeAll(t) \/ Expire(t)
  \/ vTaskDelay(t) \/ Delayed(t)

Next == Tick \/ \E t \in Tasks : Step(t) \/ \E c \in Calls[t] : Call(t, c)

Spec == Init /\ [][Next]_vars

-----------------------------------------------------------------------------
(* The queue as its readers and writers see it. *)
Contents(q) ==
  [i \in 1..queue[q].uxMessagesWaiting |->
     queue[q].pcHead[(queue[q].pcReadFrom + i) % uxLength[q]]]

InQueueCall(t) == pc[t] # "user" /\ call[t].op # "delay"

Abstract == INSTANCE MessageQueue WITH
  Calls <- [t \in Tasks |-> {c \in Calls[t] : c.op # "delay"}],
  contents <- [q \in Queues |-> Contents(q)],
  pending <- [t \in Tasks |-> IF InQueueCall(t) THEN {call[t]} ELSE {}],
  late <- {t \in Tasks : /\ InQueueCall(t) /\ xEntryTimeSet[t]
                         /\ call[t].wait # portMAX_DELAY
                         /\ due[t] <= Now}

(* The kernel's many steps amount to queue operations that each take place  *)
(* at one moment: first in, first out across the wrap of the ring, nothing  *)
(* lost or duplicated, and no call gives up before its time: the remaining  *)
(* time survives being woken, losing the item to another task and waiting   *)
(* again, and the wrap of the tick count (xTaskCheckForTimeOut).            *)
ImplementsQueue == Abstract!Spec

(* No wake-up is lost: when a task waits for an item (for room) that is     *)
(* there, a ready task is on its way to fetch it (to fill it).  A task that *)
(* saw the queue empty, left the critical section and was overtaken by the  *)
(* sender must not go to sleep.                                             *)
NoLostWakeup ==
  \A q \in Queues :
    /\ queue[q].xTasksWaitingToReceive # <<>> /\ ~Empty(q) =>
         \E t \in Ready : InQueueCall(t) /\ call[t].q = q /\ call[t].op = "receive"
    /\ queue[q].xTasksWaitingToSend # <<>> /\ ~Full(q) =>
         \E t \in Ready : InQueueCall(t) /\ call[t].q = q /\ call[t].op = "send"

(* Whoever sleeps for a limited time is woken at that very tick, also when  *)
(* the count wraps before, when other tasks sleep on either list, and when  *)
(* the ticks came while the scheduler was suspended: a task asleep has time *)
(* left, and a task whose delay is over is ready, never before it.          *)
WokenOnTime ==
  \A t \in Tasks :
    /\ t \in Sleeping => due[t] > Now
    /\ pc[t] = "delayed" /\ t \in Ready => due[t] <= Now
=============================================================================

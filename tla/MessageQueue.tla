---------------------------- MODULE MessageQueue ----------------------------
(***************************************************************************)
(* What FreeRTOS's queues and semaphores promise the tasks (the API of     *)
(* src/freertos/include/queue.h and semphr.h as this firmware calls it):   *)
(* bounded FIFO queues, each operation on which takes place in one step at *)
(* some moment between the call and its return.  A call that may wait for  *)
(* a limited time gives up only once that time is over.  SpeakingClock     *)
(* composes the tasks over this contract; KernelQueue shows that the       *)
(* kernel's many steps implement it.                                       *)
(***************************************************************************)
EXTENDS Sequences, Integers

CONSTANTS Tasks, Queues, uxLength, Calls, Items

VARIABLES
  contents,  \* the items of each queue, the oldest first
  pending,   \* the call that each task is in, at most one
  late       \* the tasks whose time to wait is over

vars == <<contents, pending, late>>

Init ==
  /\ contents = [q \in Queues |-> <<>>]
  /\ pending = [t \in Tasks |-> {}]
  /\ late = {}

Return(t) ==
  /\ pending' = [pending EXCEPT ![t] = {}]
  /\ late' = late \ {t}

Call(t, c) ==
  /\ pending[t] = {}
  /\ pending' = [pending EXCEPT ![t] = {c}]
  /\ UNCHANGED <<contents, late>>

Send(t) ==
  \E c \in pending[t] :
    /\ c.op = "send"
    /\ Len(contents[c.q]) < uxLength[c.q]
    /\ contents' = [contents EXCEPT ![c.q] = Append(@, c.item)]
    /\ Return(t)

Receive(t) ==
  \E c \in pending[t] :
    /\ c.op = "receive"
    /\ contents[c.q] # <<>>
    /\ contents' = [contents EXCEPT ![c.q] = Tail(@)]
    /\ Return(t)

(* Time passes: the time of some waiting calls is over. *)
Pass ==
  /\ \E S \in SUBSET {t \in Tasks : pending[t] # {}} : late' = late \cup S
  /\ UNCHANGED <<contents, pending>>

(* A sender without room gives up when it may not wait (any more): as the   *)
(* kernel does not look again, there may be room by then.  A receiver gives *)
(* up only on an empty queue.  A delay returns when it is over.             *)
GiveUp(t) ==
  /\ \E c \in pending[t] :
       /\ \/ t \in late
          \/ c.wait = 0 /\ c.op = "send" /\ Len(contents[c.q]) = uxLength[c.q]
       /\ c.op = "receive" => contents[c.q] = <<>>
  /\ Return(t)
  /\ UNCHANGED contents

Next ==
  \/ Pass
  \/ \E t \in Tasks :
       \/ \E c \in Calls[t] : Call(t, c)
       \/ Send(t)
       \/ Receive(t)
       \/ GiveUp(t)

Spec == Init /\ [][Next]_vars
=============================================================================

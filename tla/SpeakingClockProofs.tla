------------------------ MODULE SpeakingClockProofs ------------------------
(***************************************************************************)
(* Proofs about SpeakingClock, for every queue length, number of retries   *)
(* and bound.                                                              *)
(***************************************************************************)
EXTENDS SpeakingClock, TLAPS

-----------------------------------------------------------------------------
(* The inductive invariant. *)

(* Every press has become a request, or is still on its way to be one. *)
PressesCounted ==
  pressed = Len(given) + (IF keypc = "give" THEN 1 ELSE 0) + (IF rx = "t" THEN 1 ELSE 0)

GivenInThePast == \A i \in 1..Len(given) : given[i] <= now

Querying == ntppc \in {"call", "get", "retry"}

(* ntp_task serves at least one request, and a pending call of ntp_get_time *)
(* was made after the latest request that it serves.                        *)
QueryServesRequest ==
  /\ Querying => retries > 0
  /\ Querying \/ ntppc = "send" => started >= 1
  /\ Querying => given[started] <= now
  /\ ntppc = "get" => given[started] <= callTime

(* P holds of every message that has been sent to time_queue and not lost. *)
EveryMessage(P(_)) ==
  /\ \A i \in 1..Len(announced) : P(announced[i])
  /\ sppc = "speak" => P(smsg)
  /\ \A i \in 1..Len(queue) : P(queue[i])

Sound(m) == m.req \in 1..started /\ given[m.req] <= m.time /\ m.time <= now

Before(m, n) == m.req < n.req /\ m.time <= n.time

InOrder(s) == \A i, j \in 1..Len(s) : i < j => Before(s[i], s[j])

StreamInOrder ==
  /\ InOrder(announced)
  /\ InOrder(queue)
  /\ \A i \in 1..Len(announced), j \in 1..Len(queue) : Before(announced[i], queue[j])
  /\ sppc = "speak" => /\ \A i \in 1..Len(announced) : Before(announced[i], smsg)
                       /\ \A j \in 1..Len(queue) : Before(smsg, queue[j])

(* The answer that ntp_task is fetching or sending is newer than them all. *)
NewestLast ==
  /\ Querying => EveryMessage(LAMBDA m : m.req < started)
  /\ ntppc = "get" => EveryMessage(LAMBDA m : m.time <= callTime)
  /\ ntppc = "send" => Sound(msg) /\ EveryMessage(LAMBDA m : Before(m, msg))

IInv ==
  /\ TypeOK
  /\ PressesCounted
  /\ RequestIsSignalled
  /\ GivenInThePast
  /\ QueryServesRequest
  /\ EveryMessage(Sound)
  /\ StreamInOrder
  /\ NewestLast

-----------------------------------------------------------------------------
(* The invariant is inductive.  The groups of variables that the actions    *)
(* leave unchanged are expanded throughout.                                 *)
USE DEF key, ntp, speech, service

(* The numbers that requests and results carry are natural numbers. *)
LEMMA NumbersTyped ==
  ASSUME TypeOK
  PROVE  /\ EveryMessage(LAMBDA m : m.req \in Nat /\ m.time \in Nat)
         /\ \A i \in 1..Len(queue) : queue[i].req \in Nat /\ queue[i].time \in Nat
         /\ \A i \in 1..Len(given) : given[i] \in Nat
         /\ now \in Nat /\ callTime \in Nat /\ started \in 0..Len(given)
         /\ Len(given) \in Nat /\ Len(queue) \in Nat
<1>1. \A m \in Messages : m.req \in Nat /\ m.time \in Nat
  BY ClockAssumption DEF Messages
<1>2. /\ \A i \in 1..Len(announced) : announced[i] \in Messages
      /\ \A i \in 1..Len(queue) : queue[i] \in Messages
      /\ smsg \in Messages
  BY DEF TypeOK
<1>3. \A i \in 1..Len(given) : given[i] \in Nat
  BY ClockAssumption DEF TypeOK
<1>4. /\ now \in Nat /\ callTime \in Nat /\ started \in 0..Len(given)
      /\ Len(given) \in Nat /\ Len(queue) \in Nat
  BY ClockAssumption DEF TypeOK
<1> QED
  BY <1>1, <1>2, <1>3, <1>4 DEF EveryMessage

(* The tasks start in the invariant. *)
LEMMA InitIInv == Init => IInv
BY ClockAssumption
   DEF Init, NoMessage, Svc!Init, Svc!FAILED, IInv, TypeOK, Messages, PressesCounted,
       RequestIsSignalled, GivenInThePast, QueryServesRequest, Querying, EveryMessage,
       StreamInOrder, InOrder, NewestLast

(* Steps of ntp_task that change only where it is. *)
Control == NtpInit \/ DhcpPoll \/ SemTimeout \/ RetryDelayOver \/ SendTimeout \/ LwipPoll

(* The steps that only move control keep the invariant. *)
LEMMA ControlIInv == IInv /\ Control => IInv'
<1> SUFFICES ASSUME IInv, Control PROVE IInv'
  OBVIOUS
<1> USE DEF Control, NtpInit, DhcpPoll, SemTimeout, RetryDelayOver, SendTimeout, LwipPoll,
    lwip_periodic_handle
<1>1. TypeOK'
  BY ClockAssumption DEF IInv, TypeOK
<1>2. PressesCounted' /\ RequestIsSignalled' /\ GivenInThePast'
  BY DEF IInv, TypeOK, PressesCounted, RequestIsSignalled, GivenInThePast
<1>3. QueryServesRequest'
  BY DEF IInv, TypeOK, GivenInThePast, QueryServesRequest, Querying
<1>4. EveryMessage(Sound)'
  BY DEF IInv, EveryMessage, Sound
<1>5. StreamInOrder'
  BY DEF IInv, StreamInOrder, InOrder, Before
<1>6. NewestLast'
  BY DEF IInv, NewestLast, Querying, EveryMessage, Sound, Before
<1> QED
  BY <1>1, <1>2, <1>3, <1>4, <1>5, <1>6 DEF IInv

(* A key typed on the console keeps the invariant. *)
LEMMA TypeIInv == IInv /\ Type => IInv'
<1> SUFFICES ASSUME IInv, Type PROVE IInv'
  OBVIOUS
<1>1. TypeOK'
  BY ClockAssumption DEF IInv, TypeOK, Type
<1>2. PressesCounted' /\ RequestIsSignalled' /\ GivenInThePast'
  <2>1. PressesCounted'
    <3>1. pressed = Len(given) + (IF keypc = "give" THEN 1 ELSE 0) /\ Len(given) \in Nat
      BY DEF IInv, TypeOK, PressesCounted, Type
    <3>2. CASE rx' = "t" /\ pressed' = pressed + 1
      BY <3>1, <3>2 DEF PressesCounted, Type
    <3>3. CASE rx' = "other" /\ pressed' = pressed
      BY <3>1, <3>3 DEF PressesCounted, Type
    <3> QED
      BY <3>2, <3>3 DEF Type
  <2>2. RequestIsSignalled' /\ GivenInThePast'
    BY DEF IInv, RequestIsSignalled, GivenInThePast, Type
  <2> QED
    BY <2>1, <2>2
<1>3. QueryServesRequest'
  BY DEF IInv, TypeOK, GivenInThePast, QueryServesRequest, Querying, Type
<1>4. EveryMessage(Sound)'
  BY DEF IInv, EveryMessage, Sound, Type
<1>5. StreamInOrder'
  BY DEF IInv, StreamInOrder, InOrder, Before, Type
<1>6. NewestLast'
  BY DEF IInv, NewestLast, Querying, EveryMessage, Sound, Before, Type
<1> QED
  BY <1>1, <1>2, <1>3, <1>4, <1>5, <1>6 DEF IInv

(* A poll of the UART by the key task keeps the invariant. *)
LEMMA KeyPollIInv == IInv /\ KeyPoll => IInv'
<1> SUFFICES ASSUME IInv, KeyPoll PROVE IInv'
  OBVIOUS
<1>1. TypeOK'
  BY ClockAssumption DEF IInv, TypeOK, KeyPoll
<1>2. PressesCounted' /\ RequestIsSignalled' /\ GivenInThePast'
  BY DEF IInv, TypeOK, PressesCounted, RequestIsSignalled, GivenInThePast, KeyPoll
<1>3. QueryServesRequest'
  BY DEF IInv, TypeOK, GivenInThePast, QueryServesRequest, Querying, KeyPoll
<1>4. EveryMessage(Sound)'
  BY DEF IInv, EveryMessage, Sound, KeyPoll
<1>5. StreamInOrder'
  BY DEF IInv, StreamInOrder, InOrder, Before, KeyPoll
<1>6. NewestLast'
  BY DEF IInv, NewestLast, Querying, EveryMessage, Sound, Before, KeyPoll
<1> QED
  BY <1>1, <1>2, <1>3, <1>4, <1>5, <1>6 DEF IInv

(* xSemaphoreGive in the key task keeps the invariant. *)
LEMMA KeyGiveIInv == IInv /\ KeyGive => IInv'
<1> SUFFICES ASSUME IInv, KeyGive PROVE IInv'
  OBVIOUS
<1>0. \A i \in 1..started : given'[i] = given[i]
  BY DEF IInv, TypeOK, KeyGive
<1>1. TypeOK'
  <2>1. Len(given') = Len(given) + 1 /\ given' \in Seq(0..MaxTime)
    BY DEF IInv, TypeOK, KeyGive
  <2>2. Len(given') <= pressed'
    BY <2>1 DEF IInv, TypeOK, PressesCounted, KeyGive
  <2> QED
    BY <2>1, <2>2 DEF IInv, TypeOK, KeyGive
<1>2. PressesCounted' /\ RequestIsSignalled' /\ GivenInThePast'
  BY DEF IInv, TypeOK, PressesCounted, RequestIsSignalled, GivenInThePast, KeyGive
<1>3. QueryServesRequest'
  BY DEF IInv, TypeOK, GivenInThePast, QueryServesRequest, Querying, KeyGive
<1>4. EveryMessage(Sound)'
  BY <1>0 DEF IInv, EveryMessage, Sound, KeyGive
<1>5. StreamInOrder'
  BY DEF IInv, StreamInOrder, InOrder, Before, KeyGive
<1>6. NewestLast'
  BY <1>0 DEF IInv, NewestLast, Querying, EveryMessage, Sound, Before, KeyGive
<1> QED
  BY <1>1, <1>2, <1>3, <1>4, <1>5, <1>6 DEF IInv

(* xSemaphoreTake in the NTP task keeps the invariant. *)
LEMMA SemTakeIInv == IInv /\ SemTake => IInv'
<1> SUFFICES ASSUME IInv, SemTake PROVE IInv'
  OBVIOUS
<1>0. started < started' /\ started' = Len(given) /\ started \in Nat
  BY DEF IInv, TypeOK, RequestIsSignalled, SemTake
<1>1. TypeOK'
  BY ClockAssumption DEF IInv, TypeOK, SemTake
<1>2. PressesCounted' /\ RequestIsSignalled' /\ GivenInThePast'
  BY DEF IInv, TypeOK, PressesCounted, RequestIsSignalled, GivenInThePast, SemTake
<1>3. QueryServesRequest'
  <2>1. given[started'] <= now
    BY <1>0 DEF IInv, TypeOK, GivenInThePast
  <2> QED
    BY <1>0, <2>1, ClockAssumption DEF QueryServesRequest, Querying, SemTake
<1>4. EveryMessage(Sound)'
  BY <1>0 DEF IInv, TypeOK, EveryMessage, Sound, SemTake
<1>5. StreamInOrder'
  BY DEF IInv, StreamInOrder, InOrder, Before, SemTake
<1>6. NewestLast'
  BY <1>0 DEF IInv, TypeOK, NewestLast, Querying, EveryMessage, Sound, SemTake
<1> QED
  BY <1>1, <1>2, <1>3, <1>4, <1>5, <1>6 DEF IInv

(* The call of the NTP client keeps the invariant. *)
LEMMA CallNtpIInv == IInv /\ CallNtp => IInv'
<1> SUFFICES ASSUME IInv, CallNtp PROVE IInv'
  OBVIOUS
<1>1. TypeOK'
  BY ClockAssumption DEF IInv, TypeOK, CallNtp, Svc!Call
<1>2. PressesCounted' /\ RequestIsSignalled' /\ GivenInThePast'
  BY DEF IInv, TypeOK, PressesCounted, RequestIsSignalled, GivenInThePast, CallNtp, Svc!Call
<1>3. QueryServesRequest'
  BY DEF IInv, TypeOK, GivenInThePast, QueryServesRequest, Querying, CallNtp, Svc!Call
<1>4. EveryMessage(Sound)'
  BY DEF IInv, EveryMessage, Sound, CallNtp, Svc!Call
<1>5. StreamInOrder'
  BY DEF IInv, StreamInOrder, InOrder, Before, CallNtp, Svc!Call
<1>6. NewestLast'
  BY DEF IInv, NewestLast, Querying, EveryMessage, Sound, Before, CallNtp, Svc!Call
<1> QED
  BY <1>1, <1>2, <1>3, <1>4, <1>5, <1>6 DEF IInv

(* A successful return of the NTP client keeps the invariant. *)
LEMMA GetSucceedsIInv == IInv /\ GetSucceeds => IInv'
<1> SUFFICES ASSUME IInv, GetSucceeds PROVE IInv'
  OBVIOUS
<1>1. TypeOK'
  BY ClockAssumption DEF IInv, TypeOK, GetSucceeds, Svc!Succeed, Messages
<1>2. PressesCounted' /\ RequestIsSignalled' /\ GivenInThePast'
  BY DEF IInv, TypeOK, PressesCounted, RequestIsSignalled, GivenInThePast, GetSucceeds, Svc!Succeed, Messages
<1>3. QueryServesRequest'
  BY DEF IInv, TypeOK, GivenInThePast, QueryServesRequest, Querying, GetSucceeds, Svc!Succeed, Messages
<1>4. EveryMessage(Sound)'
  BY DEF IInv, EveryMessage, Sound, GetSucceeds, Svc!Succeed, Messages
<1>5. StreamInOrder'
  BY DEF IInv, StreamInOrder, InOrder, Before, GetSucceeds, Svc!Succeed, Messages
<1>6. NewestLast'
  <2>1. msg'.req = started /\ msg'.time = result' /\ result' \in callTime..now
    BY DEF GetSucceeds, Svc!Succeed
  <2>2. Sound(msg)'
    <3>1. started \in 1..Len(given) /\ given[started] <= callTime
      BY NumbersTyped DEF IInv, QueryServesRequest, Querying, GetSucceeds
    <3>2. given[started] <= result' /\ result' <= now
      BY <2>1, <3>1, NumbersTyped DEF IInv
    <3> QED
      BY <2>1, <3>1, <3>2 DEF Sound, GetSucceeds, Svc!Succeed
  <2>3. EveryMessage(LAMBDA m : m.req < started /\ m.time <= result')
    BY <2>1, NumbersTyped DEF IInv, NewestLast, Querying, EveryMessage, GetSucceeds
  <2>4. EveryMessage(LAMBDA m : Before(m, msg))'
    BY <2>1, <2>3 DEF EveryMessage, Before, GetSucceeds
  <2> QED
    BY <2>2, <2>4 DEF NewestLast, Querying, GetSucceeds
<1> QED
  BY <1>1, <1>2, <1>3, <1>4, <1>5, <1>6 DEF IInv

(* A failed return of the NTP client keeps the invariant. *)
LEMMA GetFailsIInv == IInv /\ GetFails => IInv'
<1> SUFFICES ASSUME IInv, GetFails PROVE IInv'
  OBVIOUS
<1>1. TypeOK'
  BY ClockAssumption
     DEF IInv, TypeOK, QueryServesRequest, Querying, GetFails, Svc!Fail, Svc!FAILED
<1>2. PressesCounted' /\ RequestIsSignalled' /\ GivenInThePast'
  BY DEF IInv, TypeOK, PressesCounted, RequestIsSignalled, GivenInThePast, GetFails, Svc!Fail, Svc!FAILED
<1>3. QueryServesRequest'
  BY DEF IInv, TypeOK, GivenInThePast, QueryServesRequest, Querying, GetFails, Svc!Fail, Svc!FAILED
<1>4. EveryMessage(Sound)'
  BY DEF IInv, EveryMessage, Sound, GetFails, Svc!Fail, Svc!FAILED
<1>5. StreamInOrder'
  BY DEF IInv, StreamInOrder, InOrder, Before, GetFails, Svc!Fail, Svc!FAILED
<1>6. NewestLast'
  BY DEF IInv, NewestLast, Querying, EveryMessage, Sound, Before, GetFails, Svc!Fail, Svc!FAILED
<1> QED
  BY <1>1, <1>2, <1>3, <1>4, <1>5, <1>6 DEF IInv

(* xQueueSend in the NTP task keeps the invariant. *)
LEMMA QueueSendIInv == IInv /\ QueueSend => IInv'
<1> SUFFICES ASSUME IInv, QueueSend PROVE IInv'
  OBVIOUS
<1>1. TypeOK'
  BY ClockAssumption DEF IInv, TypeOK, QueueSend
<1>2. PressesCounted' /\ RequestIsSignalled' /\ GivenInThePast'
  BY DEF IInv, TypeOK, PressesCounted, RequestIsSignalled, GivenInThePast, QueueSend
<1>3. QueryServesRequest'
  BY DEF IInv, TypeOK, GivenInThePast, QueryServesRequest, Querying, QueueSend
<1>4. EveryMessage(Sound)'
  BY DEF IInv, TypeOK, EveryMessage, Sound, NewestLast, QueueSend
<1>5. StreamInOrder'
  <2>1. /\ Len(queue') = Len(queue) + 1
        /\ \A i \in 1..Len(queue) : queue'[i] = queue[i]
        /\ queue'[Len(queue) + 1] = msg
    BY DEF IInv, TypeOK, QueueSend
  <2>2. EveryMessage(LAMBDA m : Before(m, msg))
    BY DEF IInv, NewestLast, QueueSend
  <2>3. InOrder(queue')
    <3> SUFFICES ASSUME NEW i \in 1..Len(queue'), NEW j \in 1..Len(queue'), i < j
                 PROVE  Before(queue'[i], queue'[j])
      BY DEF InOrder
    <3>1. Len(queue) \in Nat /\ i \in 1..Len(queue) /\ (j \in 1..Len(queue) \/ j = Len(queue) + 1)
      BY <2>1, NumbersTyped DEF IInv
    <3> QED
      BY <2>1, <2>2, <3>1 DEF IInv, StreamInOrder, InOrder, EveryMessage
  <2> QED
    BY <2>1, <2>2, <2>3 DEF IInv, TypeOK, StreamInOrder, InOrder, EveryMessage, Before, QueueSend
<1>6. NewestLast'
  BY DEF IInv, NewestLast, Querying, EveryMessage, Sound, Before, QueueSend
<1> QED
  BY <1>1, <1>2, <1>3, <1>4, <1>5, <1>6 DEF IInv

(* xQueueReceive in the speech task keeps the invariant. *)
LEMMA QueueReceiveIInv == IInv /\ QueueReceive => IInv'
<1> SUFFICES ASSUME IInv, QueueReceive PROVE IInv'
  OBVIOUS
<1>0. /\ Len(queue) >= 1
      /\ Len(queue') = Len(queue) - 1
      /\ smsg' = queue[1]
      /\ \A i \in 1..Len(queue') : i + 1 \in 1..Len(queue) /\ queue'[i] = queue[i + 1]
  BY DEF IInv, TypeOK, QueueReceive
<1>1. TypeOK'
  BY ClockAssumption DEF IInv, TypeOK, QueueReceive
<1>2. PressesCounted' /\ RequestIsSignalled' /\ GivenInThePast'
  BY DEF IInv, TypeOK, PressesCounted, RequestIsSignalled, GivenInThePast, QueueReceive
<1>3. QueryServesRequest'
  BY DEF IInv, TypeOK, GivenInThePast, QueryServesRequest, Querying, QueueReceive
<1>4. EveryMessage(Sound)'
  BY <1>0 DEF IInv, TypeOK, EveryMessage, Sound, QueueReceive
<1>5. StreamInOrder'
  <2>1. InOrder(queue')
    <3> SUFFICES ASSUME NEW i \in 1..Len(queue'), NEW j \in 1..Len(queue'), i < j
                 PROVE  Before(queue'[i], queue'[j])
      BY DEF InOrder
    <3>1. Before(queue[i + 1], queue[j + 1])
      BY <1>0 DEF IInv, StreamInOrder, InOrder
    <3> QED
      BY <1>0, <3>1
  <2>2. \A j \in 1..Len(queue') : Before(smsg', queue'[j])
    <3> TAKE j \in 1..Len(queue')
    <3>1. 1 \in 1..Len(queue) /\ j + 1 \in 1..Len(queue) /\ 1 < j + 1
      BY <1>0
    <3>2. Before(queue[1], queue[j + 1])
      BY <3>1 DEF IInv, StreamInOrder, InOrder
    <3> QED
      BY <1>0, <3>2
  <2> QED
    BY <1>0, <2>1, <2>2 DEF IInv, TypeOK, StreamInOrder, InOrder, Before, QueueReceive
<1>6. NewestLast'
  BY <1>0 DEF IInv, TypeOK, NewestLast, Querying, EveryMessage, Sound, Before, QueueReceive
<1> QED
  BY <1>1, <1>2, <1>3, <1>4, <1>5, <1>6 DEF IInv

(* speak_time keeps the invariant. *)
LEMMA speak_timeIInv == IInv /\ speak_time => IInv'
<1> SUFFICES ASSUME IInv, speak_time PROVE IInv'
  OBVIOUS
<1>0. /\ Len(announced') = Len(announced) + 1
      /\ \A i \in 1..Len(announced) : announced'[i] = announced[i]
      /\ announced'[Len(announced) + 1] = smsg
      /\ Len(announced) \in Nat
  BY DEF IInv, TypeOK, speak_time
<1>1. TypeOK'
  BY ClockAssumption DEF IInv, TypeOK, speak_time
<1>2. PressesCounted' /\ RequestIsSignalled' /\ GivenInThePast'
  BY DEF IInv, TypeOK, PressesCounted, RequestIsSignalled, GivenInThePast, speak_time
<1>3. QueryServesRequest'
  BY DEF IInv, TypeOK, GivenInThePast, QueryServesRequest, Querying, speak_time
<1>4. EveryMessage(Sound)'
  BY <1>0 DEF IInv, TypeOK, EveryMessage, Sound, speak_time
<1>5. StreamInOrder'
  <2>1. InOrder(announced')
    BY <1>0 DEF IInv, StreamInOrder, InOrder, speak_time
  <2> QED
    BY <1>0, <2>1 DEF IInv, StreamInOrder, InOrder, Before, speak_time
<1>6. NewestLast'
  <2>1. \A i \in 1..Len(announced') :
          announced'[i] = smsg \/ \E k \in 1..Len(announced) : announced'[i] = announced[k]
    BY <1>0
  <2> QED
    BY <2>1 DEF IInv, NewestLast, Querying, EveryMessage, Sound, speak_time
<1> QED
  BY <1>1, <1>2, <1>3, <1>4, <1>5, <1>6 DEF IInv

(* A tick of the kernel keeps the invariant. *)
LEMMA TickIInv == IInv /\ Tick => IInv'
<1> SUFFICES ASSUME IInv, Tick PROVE IInv'
  OBVIOUS
<1>1. TypeOK'
  BY ClockAssumption DEF IInv, TypeOK, Tick, Svc!Tick
<1>2. PressesCounted' /\ RequestIsSignalled' /\ GivenInThePast'
  <2>1. PressesCounted' /\ RequestIsSignalled'
    BY DEF IInv, PressesCounted, RequestIsSignalled, Tick
  <2>2. GivenInThePast'
    BY NumbersTyped DEF IInv, GivenInThePast, Tick, Svc!Tick
  <2> QED
    BY <2>1, <2>2
<1>3. QueryServesRequest'
  <2>1. Querying => given[started] <= now + 1
    BY NumbersTyped DEF IInv, QueryServesRequest, Querying
  <2> QED
    BY <2>1 DEF IInv, TypeOK, QueryServesRequest, Querying, Tick, Svc!Tick
<1>4. EveryMessage(Sound)'
  <2>1. EveryMessage(LAMBDA m : m.time <= now + 1)
    BY NumbersTyped DEF IInv, EveryMessage, Sound
  <2> QED
    BY <2>1 DEF IInv, EveryMessage, Sound, Tick, Svc!Tick
<1>5. StreamInOrder'
  BY DEF IInv, StreamInOrder, InOrder, Before, Tick, Svc!Tick
<1>6. NewestLast'
  <2>1. ntppc = "send" => msg.time <= now + 1
    BY NumbersTyped DEF IInv, TypeOK, Messages, NewestLast, Sound
  <2> QED
    BY <2>1 DEF IInv, NewestLast, Querying, EveryMessage, Sound, Before, Tick, Svc!Tick
<1> QED
  BY <1>1, <1>2, <1>3, <1>4, <1>5, <1>6 DEF IInv

(* Every reachable state satisfies the inductive invariant. *)
THEOREM IInvHolds == Spec => []IInv
<1>1. IInv /\ [Next]_vars => IInv'
  <2> SUFFICES ASSUME IInv, [Next]_vars PROVE IInv'
    OBVIOUS
  <2>1. CASE Type
    BY <2>1, TypeIInv
  <2>2. CASE KeyPoll
    BY <2>2, KeyPollIInv
  <2>3. CASE KeyGive
    BY <2>3, KeyGiveIInv
  <2>4. CASE Control
    BY <2>4, ControlIInv
  <2>5. CASE SemTake
    BY <2>5, SemTakeIInv
  <2>6. CASE CallNtp
    BY <2>6, CallNtpIInv
  <2>7. CASE GetSucceeds
    BY <2>7, GetSucceedsIInv
  <2>8. CASE GetFails
    BY <2>8, GetFailsIInv
  <2>9. CASE QueueSend
    BY <2>9, QueueSendIInv
  <2>10. CASE QueueReceive
    BY <2>10, QueueReceiveIInv
  <2>11. CASE speak_time
    BY <2>11, speak_timeIInv
  <2>12. CASE Tick
    BY <2>12, TickIInv
  <2>13. CASE UNCHANGED vars
    <3>1. TypeOK' /\ PressesCounted' /\ RequestIsSignalled' /\ GivenInThePast'
      BY <2>13 DEF vars, IInv, TypeOK, PressesCounted, RequestIsSignalled, GivenInThePast
    <3>2. QueryServesRequest' /\ EveryMessage(Sound)'
      BY <2>13 DEF vars, IInv, QueryServesRequest, Querying, EveryMessage, Sound
    <3>3. StreamInOrder'
      BY <2>13 DEF vars, IInv, StreamInOrder, InOrder, Before
    <3>4. NewestLast'
      BY <2>13 DEF vars, IInv, NewestLast, Querying, EveryMessage, Sound, Before
    <3> QED
      BY <3>1, <3>2, <3>3, <3>4 DEF IInv
  <2> QED
    BY <2>1, <2>2, <2>3, <2>4, <2>5, <2>6, <2>7, <2>8, <2>9, <2>10, <2>11, <2>12, <2>13
       DEF Next, key_task, ntp_task, speech_task, Control
<1> QED
  BY InitIInv, <1>1, PTL DEF Spec

-----------------------------------------------------------------------------
(* What the invariant gives. *)

(* The tasks' variables, the semaphore and the queue always have their      *)
(* types: in particular time_queue never exceeds its length, and there are  *)
(* never more requests than presses of 't'.                                 *)
THEOREM TypeCorrect == Spec => []TypeOK
BY IInvHolds, PTL DEF IInv

(* speech_task speaks the answers in the order of the requests, none twice, *)
(* and never goes back in time.                                             *)
THEOREM SpeaksInOrder == Spec => []AnnouncedInOrder
<1>1. IInv => AnnouncedInOrder
  <2> SUFFICES ASSUME IInv PROVE AnnouncedInOrder
    OBVIOUS
  <2>1. \A i \in 1..Len(announced) : announced[i].req \in 1..started
    BY DEF IInv, EveryMessage, Sound
  <2>2. 1..started \subseteq 1..Len(given)
    BY NumbersTyped DEF IInv
  <2> QED
    BY <2>1, <2>2 DEF IInv, StreamInOrder, InOrder, Before, AnnouncedInOrder
<1> QED
  BY <1>1, IInvHolds, PTL

(* No time is spoken that the server gave before the request it answers. *)
THEOREM SpeaksFreshTimes == Spec => []AnnouncedAfterRequest
<1>1. IInv => AnnouncedAfterRequest
  BY DEF IInv, EveryMessage, Sound, AnnouncedAfterRequest
<1> QED
  BY <1>1, IInvHolds, PTL

(* time_request_sem is given exactly while a request waits to be served. *)
THEOREM RequestsAreSignalled == Spec => []RequestIsSignalled
BY IInvHolds, PTL DEF IInv
=============================================================================

---------------------------- MODULE SpeakingClock ----------------------------
(***************************************************************************)
(* The three tasks that main (src/src/main.c) creates and what they share: *)
(*                                                                         *)
(*   UART -> key_task --time_request_sem--> ntp_task --time_queue-->       *)
(*           speech_task -> UART                                           *)
(*                                                                         *)
(* ntp_get_time is represented by the service it implements (NtpService,   *)
(* see NtpClient).  The tasks run under FreeRTOS's preemptive priorities:  *)
(* KEY and SPEECH (priority 1) run only while NTP (priority 2) is blocked. *)
(* A blocking call with a time limit ends either way, in any order with    *)
(* the steps of the other tasks.                                           *)
(***************************************************************************)
EXTENDS Integers, Sequences

CONSTANTS
  QueueLength,  \* first argument of xQueueCreate
  Retries,      \* attempts per request
  MaxPresses,   \* bound on how often 't' is typed
  MaxTime       \* bound on the server's clock

ASSUME ClockAssumption ==
  /\ QueueLength \in Nat \ {0}
  /\ Retries \in Nat \ {0}
  /\ MaxPresses \in Nat
  /\ MaxTime \in Nat

VARIABLES
  rx,         \* the UART's receive register: "empty", "t" or "other"
  keypc,      \* key_task: "poll" or about to "give" the semaphore
  sem,        \* time_request_sem
  dhcp_done,
  ntppc,      \* where ntp_task is
  retries,
  msg,        \* ntp_task's message
  queue,      \* time_queue
  sppc,       \* speech_task: about to "receive" or "speak"
  smsg,       \* speech_task's message
  now, callTime, result,  \* of NtpService
  pressed,    \* ghost: how often 't' was typed
  given,      \* ghost: the time of each xSemaphoreGive, that is, request
  started,    \* ghost: requests made when the semaphore was last taken
  announced   \* ghost: the messages spoken, in order

key == <<rx, keypc, pressed>>
ntp == <<dhcp_done, ntppc, retries, msg, started>>
speech == <<sppc, smsg, announced>>
service == <<now, callTime, result>>
vars == <<key, sem, given, ntp, queue, speech, service>>

(* A message is the time of day and, as a ghost, the latest of the requests *)
(* that it answers.                                                         *)
Messages == [time: 0..MaxTime, req: 0..MaxPresses]

TypeOK ==
  /\ rx \in {"empty", "t", "other"}
  /\ keypc \in {"poll", "give"}
  /\ sem \in {0, 1}
  /\ dhcp_done \in {0, 1}
  /\ ntppc \in {"init", "dhcp", "take", "call", "get", "send", "retry", "poll"}
  /\ retries \in 0..Retries
  /\ msg \in Messages
  /\ queue \in Seq(Messages) /\ Len(queue) <= QueueLength
  /\ sppc \in {"receive", "speak"}
  /\ smsg \in Messages
  /\ now \in 0..MaxTime
  /\ callTime \in 0..now
  /\ result \in -1..now
  /\ pressed \in 0..MaxPresses
  /\ given \in Seq(0..MaxTime) /\ Len(given) <= pressed
  /\ started \in 0..Len(given)
  /\ announced \in Seq(Messages)

(* ntp_get_time is pending while ntp_task is at "get". *)
Svc == INSTANCE NtpService WITH pending <- (ntppc = "get")

-----------------------------------------------------------------------------
(* The scheduler: ntp_task is blocked in vTaskDelay ("dhcp", "retry"), in   *)
(* xSemaphoreTake with the semaphore not given or in xQueueSend with the    *)
(* queue full.                                                              *)
NtpBlocked ==
  \/ ntppc \in {"dhcp", "retry"}
  \/ ntppc = "take" /\ sem = 0
  \/ ntppc = "send" /\ Len(queue) = QueueLength

-----------------------------------------------------------------------------
(* key_task *)

(* A character arrives.  QEMU's UART takes none while RXFULL is set. *)
Type ==
  /\ rx = "empty"
  /\ \/ rx' = "t" /\ pressed < MaxPresses /\ pressed' = pressed + 1
     \/ rx' = "other" /\ UNCHANGED pressed
  /\ UNCHANGED <<keypc, sem, given, ntp, queue, speech, service>>

(* Every 50 ms: read a character if there is one. *)
KeyPoll ==
  /\ NtpBlocked
  /\ keypc = "poll"
  /\ rx # "empty"
  /\ rx' = "empty"
  /\ keypc' = IF rx = "t" THEN "give" ELSE "poll"
  /\ UNCHANGED <<pressed, sem, given, ntp, queue, speech, service>>

(* xSemaphoreGive.  It fails, and key_task does not care, when the binary   *)
(* semaphore is already given.                                              *)
KeyGive ==
  /\ NtpBlocked
  /\ keypc = "give"
  /\ keypc' = "poll"
  /\ sem' = 1
  /\ given' = Append(given, now)
  /\ UNCHANGED <<rx, pressed, ntp, queue, speech, service>>

-----------------------------------------------------------------------------
(* ntp_task *)

(* DHCP's answer is processed in some call, or in none; its callback sets   *)
(* dhcp_done and nothing ever resets it.                                    *)
lwip_periodic_handle == dhcp_done' \in {dhcp_done, 1}

(* network_init, then the first round of the DHCP loop. *)
NtpInit ==
  /\ ntppc = "init"
  /\ ntppc' = "dhcp"
  /\ lwip_periodic_handle
  /\ UNCHANGED <<key, sem, given, retries, msg, started, queue, speech, service>>

(* A round of the DHCP loop, when vTaskDelay is over. *)
DhcpPoll ==
  /\ ntppc = "dhcp"
  /\ IF dhcp_done = 1
     THEN ntppc' = "take" /\ UNCHANGED dhcp_done
     ELSE lwip_periodic_handle /\ UNCHANGED ntppc
  /\ UNCHANGED <<key, sem, given, retries, msg, started, queue, speech, service>>

(* xSemaphoreTake gives pdTRUE. *)
SemTake ==
  /\ ntppc = "take"
  /\ sem = 1
  /\ sem' = 0
  /\ ntppc' = "call"
  /\ retries' = Retries
  /\ started' = Len(given)
  /\ UNCHANGED <<key, given, dhcp_done, msg, queue, speech, service>>

(* xSemaphoreTake gives pdFALSE after 100 ms. *)
SemTimeout ==
  /\ ntppc = "take"
  /\ sem = 0
  /\ ntppc' = "poll"
  /\ UNCHANGED <<key, sem, given, dhcp_done, retries, msg, started, queue, speech, service>>

CallNtp ==
  /\ ntppc = "call"
  /\ ntppc' = "get"
  /\ Svc!Call
  /\ UNCHANGED <<key, sem, given, dhcp_done, retries, msg, started, queue, speech>>

(* ntp_get_time gives 0 and the time. *)
GetSucceeds ==
  /\ ntppc = "get"
  /\ ntppc' = "send"
  /\ Svc!Succeed
  /\ msg' = [time |-> result', req |-> started]
  /\ UNCHANGED <<key, sem, given, dhcp_done, retries, started, queue, speech>>

(* Mutant: retries is not decremented. *)
GetFailsForever ==
  /\ ntppc = "get"
  /\ ntppc' = "retry"
  /\ Svc!Fail
  /\ UNCHANGED <<key, sem, given, dhcp_done, retries, msg, started, queue, speech>>

(* Mutant: when all attempts have failed, msg is sent as it is. *)
GetFailsThenSends ==
  /\ ntppc = "get"
  /\ retries' = retries - 1
  /\ ntppc' = IF retries' > 0 THEN "retry" ELSE "send"
  /\ Svc!Fail
  /\ msg' = [msg EXCEPT !.req = started]
  /\ UNCHANGED <<key, sem, given, dhcp_done, started, queue, speech>>

(* ntp_get_time gives -1. *)
GetFails ==
  /\ ntppc = "get"
  /\ retries' = retries - 1
  /\ ntppc' = IF retries' > 0 THEN "retry" ELSE "poll"
  /\ Svc!Fail
  /\ UNCHANGED <<key, sem, given, dhcp_done, msg, started, queue, speech>>

(* vTaskDelay(1000) between two attempts is over. *)
RetryDelayOver ==
  /\ ntppc = "retry"
  /\ ntppc' = "call"
  /\ UNCHANGED <<key, sem, given, dhcp_done, retries, msg, started, queue, speech, service>>

QueueSend ==
  /\ ntppc = "send"
  /\ Len(queue) < QueueLength
  /\ queue' = Append(queue, msg)
  /\ ntppc' = "poll"
  /\ UNCHANGED <<key, sem, given, dhcp_done, retries, msg, started, speech, service>>

(* The queue stayed full for 1000 ms: the time is lost. *)
SendTimeout ==
  /\ ntppc = "send"
  /\ Len(queue) = QueueLength
  /\ ntppc' = "poll"
  /\ UNCHANGED <<key, sem, given, dhcp_done, retries, msg, started, queue, speech, service>>

(* Mutant: requests made during the query are discarded. *)
LwipPollClears ==
  /\ ntppc = "poll"
  /\ ntppc' = "take"
  /\ sem' = 0
  /\ UNCHANGED <<key, given, dhcp_done, retries, msg, started, queue, speech, service>>

(* The end of the loop. *)
LwipPoll ==
  /\ ntppc = "poll"
  /\ ntppc' = "take"
  /\ lwip_periodic_handle
  /\ UNCHANGED <<key, sem, given, retries, msg, started, queue, speech, service>>

-----------------------------------------------------------------------------
(* speech_task *)

(* Mutant: xQueuePeek, which leaves the message in the queue. *)
QueuePeek ==
  /\ NtpBlocked
  /\ sppc = "receive"
  /\ queue # <<>>
  /\ smsg' = Head(queue)
  /\ sppc' = "speak"
  /\ UNCHANGED <<key, sem, given, ntp, queue, announced, service>>

(* Mutant: the message is received and not spoken. *)
QueueReceiveDrops ==
  /\ NtpBlocked
  /\ sppc = "receive"
  /\ queue # <<>>
  /\ smsg' = Head(queue)
  /\ queue' = Tail(queue)
  /\ UNCHANGED <<key, sem, given, ntp, sppc, announced, service>>

QueueReceive ==
  /\ NtpBlocked
  /\ sppc = "receive"
  /\ queue # <<>>
  /\ smsg' = Head(queue)
  /\ queue' = Tail(queue)
  /\ sppc' = "speak"
  /\ UNCHANGED <<key, sem, given, ntp, announced, service>>

speak_time ==
  /\ NtpBlocked
  /\ sppc = "speak"
  /\ announced' = Append(announced, smsg)
  /\ sppc' = "receive"
  /\ UNCHANGED <<key, sem, given, ntp, queue, smsg, service>>

-----------------------------------------------------------------------------
Tick == UNCHANGED <<key, sem, given, ntp, queue, speech>> /\ Svc!Tick

key_task == KeyPoll \/ KeyGive

ntp_task ==
  \/ NtpInit \/ DhcpPoll
  \/ SemTake \/ SemTimeout
  \/ CallNtp \/ GetSucceeds \/ GetFails \/ RetryDelayOver
  \/ QueueSend \/ SendTimeout
  \/ LwipPoll

speech_task == QueueReceive \/ speak_time

NoMessage == [time |-> 0, req |-> 0]

Init ==
  /\ rx = "empty" /\ keypc = "poll" /\ pressed = 0
  /\ sem = 0 /\ given = <<>>
  /\ ntppc = "init" /\ dhcp_done = 0 /\ retries = 0 /\ msg = NoMessage /\ started = 0
  /\ queue = <<>>
  /\ sppc = "receive" /\ smsg = NoMessage /\ announced = <<>>
  /\ Svc!Init

Next == Type \/ key_task \/ ntp_task \/ speech_task \/ Tick

(* NTP has the highest priority, and each of its waits has a time limit.    *)
(* KEY and SPEECH share what it leaves: it blocks in every round of its     *)
(* loop, and FreeRTOS time-slices tasks of equal priority, so a task that   *)
(* can run again and again does run.                                        *)
Fairness == WF_vars(ntp_task) /\ SF_vars(key_task) /\ SF_vars(speech_task)

Spec == Init /\ [][Next]_vars /\ Fairness

-----------------------------------------------------------------------------
(* The times are announced in the order of the requests they answer, no     *)
(* request is answered twice, and the clock never goes back from one        *)
(* announcement to the next.                                                *)
AnnouncedInOrder ==
  /\ \A i \in 1..Len(announced) : announced[i].req \in 1..Len(given)
  /\ \A i, j \in 1..Len(announced) :
       i < j => /\ announced[i].req < announced[j].req
                /\ announced[i].time <= announced[j].time

(* A time announced is no older than the requests it answers, those that    *)
(* the binary semaphore merged included: what the server said before the    *)
(* key was pressed is never spoken, whatever failed or timed out before.    *)
AnnouncedAfterRequest ==
  \A i \in 1..Len(announced) : given[announced[i].req] <= announced[i].time

(* The semaphore is given exactly while there is a request that ntp_task    *)
(* has not begun to serve: a request made during a query is never forgotten *)
(* and never served twice.                                                  *)
RequestIsSignalled == sem = 1 <=> started < Len(given)

(* Once the network is up every press of 't' is served: ntp_task gets back  *)
(* to its loop after a query that began after the press.                    *)
EveryPressServed ==
  <>(dhcp_done = 1) =>
    \A n \in 1..MaxPresses :
      pressed >= n ~> started >= n /\ ntppc \in {"poll", "take"}

(* A message that time_queue has accepted is spoken. *)
EveryMessageSpoken ==
  \A n \in 1..MaxPresses :
    (\E i \in 1..Len(queue) : queue[i].req = n) ~>
      (\E i \in 1..Len(announced) : announced[i].req = n)
=============================================================================

----------------------------- MODULE NtpService -----------------------------
(***************************************************************************)
(* What ntp_get_time (src/network/ntp_client.c) promises to the task that  *)
(* calls it: a call either fails or yields the time that an NTP server     *)
(* sent while that call was pending, and every call returns.  NtpClient is *)
(* the detailed specification that implements this one; SpeakingClock is   *)
(* the client that relies on it.                                           *)
(***************************************************************************)
EXTENDS Integers

CONSTANT MaxTime  \* bound on the server's clock

VARIABLES
  now,       \* the server's clock
  pending,   \* TRUE while a call of ntp_get_time has not returned
  callTime,  \* the server's clock when the latest call was made
  result     \* what the latest call that returned gave: a time, or FAILED

vars == <<now, pending, callTime, result>>

FAILED == -1

Init ==
  /\ now = 0
  /\ pending = FALSE
  /\ callTime = 0
  /\ result = FAILED

Tick ==
  /\ now < MaxTime
  /\ now' = now + 1
  /\ UNCHANGED <<pending, callTime, result>>

Call ==
  /\ ~pending
  /\ pending' = TRUE
  /\ callTime' = now
  /\ UNCHANGED <<now, result>>

Succeed ==
  /\ pending
  /\ pending' = FALSE
  /\ result' \in callTime..now
  /\ UNCHANGED <<now, callTime>>

Fail ==
  /\ pending
  /\ pending' = FALSE
  /\ result' = FAILED
  /\ UNCHANGED <<now, callTime>>

Return == Succeed \/ Fail

Next == Tick \/ Call \/ Return

Safety == Init /\ [][Next]_vars

Spec == Safety /\ WF_vars(Return)
=============================================================================

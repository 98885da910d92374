------------------------------ MODULE ClockTime ------------------------------
(***************************************************************************)
(* How an instant becomes the words that are spoken: the server's NTP      *)
(* timestamp, the arithmetic at the end of ntp_get_time                    *)
(* (src/network/ntp_client.c) and the tokens that speak_time               *)
(* (src/src/speech_task.c) emits.  A behaviour follows one instant.        *)
(*                                                                         *)
(* uint32_t arithmetic is modulo Modulus.  The code has Modulus = 2^32 and *)
(* NTP_UNIX_EPOCH_DIFF = 2208988800; TLC, whose integers are smaller, gets *)
(* values with the same remainders modulo a day.                           *)
(***************************************************************************)
EXTENDS Integers, Sequences

CONSTANTS Modulus, NTP_UNIX_EPOCH_DIFF

IST_OFFSET_SECONDS == 19800

ASSUME WidthAssumption ==
  /\ Modulus \in Nat /\ Modulus > IST_OFFSET_SECONDS
  /\ NTP_UNIX_EPOCH_DIFF \in 0..(Modulus - 1)

VARIABLES
  utc,            \* the instant, in seconds since 1970
  pc,             \* "stamp", "convert", "speak" or "done"
  ntp_timestamp,
  msg,            \* the time_msg
  tokens          \* what speak_time has emitted

vars == <<utc, pc, ntp_timestamp, msg, tokens>>

TypeOK ==
  /\ utc \in 0..(Modulus - 1)
  /\ pc \in {"stamp", "convert", "speak", "done"}
  /\ ntp_timestamp \in 0..(Modulus - 1)
  /\ msg \in [hour: 0..23, minute: 0..59, second: 0..59]

(* The server's transmit timestamp: the low word of the seconds since 1900, *)
(* which starts again from 0 in 2036.                                       *)
Stamp ==
  /\ pc = "stamp"
  /\ pc' = "convert"
  /\ ntp_timestamp' = (utc + NTP_UNIX_EPOCH_DIFF) % Modulus
  /\ UNCHANGED <<utc, msg, tokens>>

(* Mutant: a timestamp of the next NTP era counts as before 1970. *)
unix_time_OneEra(timestamp) ==
  IF timestamp < NTP_UNIX_EPOCH_DIFF THEN 0 ELSE timestamp - NTP_UNIX_EPOCH_DIFF

(* unix_time and ist_time of ntp_get_time, for a timestamp. *)
unix_time(timestamp) == (timestamp - NTP_UNIX_EPOCH_DIFF) % Modulus

ist_time(timestamp) == (unix_time(timestamp) + IST_OFFSET_SECONDS) % Modulus

(* The time_msg that it fills in. *)
TimeMsg(timestamp) ==
  LET seconds_of_day == ist_time(timestamp) % 86400
  IN  [hour   |-> seconds_of_day \div 3600,
       minute |-> (seconds_of_day % 3600) \div 60,
       second |-> seconds_of_day % 60]

Convert ==
  /\ pc = "convert"
  /\ pc' = "speak"
  /\ msg' = TimeMsg(ntp_timestamp)
  /\ UNCHANGED <<utc, ntp_timestamp, tokens>>

(* Mutant: 59 is taken to have no word. *)
NumberBelow59(n) == IF n < 59 THEN <<n>> ELSE <<>>

(* speak_time's tokens; number_words[n] is represented by n.  A number of   *)
(* 60 or more has no word and is left out.                                  *)
Number(n) == IF n < 60 THEN <<n>> ELSE <<>>

Unit(n, one, many) == IF n = 1 THEN <<one>> ELSE <<many>>

TokensOf(m) ==
  <<"THE", "TIME", "IS">>
    \o Number(m.hour) \o Unit(m.hour, "HOUR", "HOURS")
    \o Number(m.minute) \o Unit(m.minute, "MINUTE", "MINUTES")
    \o <<"AND">>
    \o Number(m.second) \o Unit(m.second, "SECOND", "SECONDS")

speak_time ==
  /\ pc = "speak"
  /\ pc' = "done"
  /\ tokens' = TokensOf(msg)
  /\ UNCHANGED <<utc, ntp_timestamp, msg>>

Init ==
  /\ utc \in 0..(Modulus - 1)
  /\ pc = "stamp"
  /\ ntp_timestamp = 0
  /\ msg = [hour |-> 0, minute |-> 0, second |-> 0]
  /\ tokens = <<>>

Next == Stamp \/ Convert \/ speak_time

Spec == Init /\ [][Next]_vars

-----------------------------------------------------------------------------
(* The seconds since midnight in India, five and a half hours ahead of UTC. *)
IstSecondsOfDay == (utc + 19800) % 86400

(* time_msg holds the time of day in India at the instant of the timestamp, *)
(* for every instant that leaves room for the offset in 32 bits: also after *)
(* 2036, when the NTP timestamp has wrapped around and is smaller than the  *)
(* difference of the epochs.                                                *)
MsgIsIst ==
  pc \in {"speak", "done"} /\ utc + IST_OFFSET_SECONDS < Modulus =>
    msg.hour * 3600 + msg.minute * 60 + msg.second = IstSecondsOfDay

(* The tokens tell that time to a listener who knows only their order:      *)
(* no number is left out, and a unit is singular exactly when it counts 1.  *)
TokensTellTime ==
  pc = "done" /\ utc + IST_OFFSET_SECONDS < Modulus =>
    LET hour == tokens[4]  minute == tokens[6]  second == tokens[9]
    IN  /\ Len(tokens) = 10
        /\ hour * 3600 + minute * 60 + second = IstSecondsOfDay
        /\ tokens[5] = IF hour = 1 THEN "HOUR" ELSE "HOURS"
        /\ tokens[7] = IF minute = 1 THEN "MINUTE" ELSE "MINUTES"
        /\ tokens[10] = IF second = 1 THEN "SECOND" ELSE "SECONDS"
=============================================================================

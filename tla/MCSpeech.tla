------------------------------ MODULE MCSpeech ------------------------------
(* What is said and how it is printed: ClockTime and UartPrintf, which      *)
(* share no state.                                                          *)
EXTENDS ClockTime

CONSTANTS Tasks, Priority, BufSize, MaxText

VARIABLES buf, printing, pos, len

printf == <<buf, printing, pos, len>>

Printf == INSTANCE UartPrintf WITH pc <- printing

ASSUME PrintfConstants == Printf!PrintfAssumption

(* The two tasks that call uart_printf, with the priorities main gives them. *)
MCTasks == {"NTP", "SPEECH"}
MCPriority == [t \in MCTasks |-> IF t = "NTP" THEN 2 ELSE 1]

ClockNext == Next /\ UNCHANGED printf
PrintfNext == Printf!Next /\ UNCHANGED vars

MCInit == Init /\ Printf!Init

(* Every instant is converted and spoken; beside the conversion of the      *)
(* first one the tasks print.  The parts are independent, so one instant is *)
(* enough for the printing.                                                 *)
MCNext == ClockNext \/ (utc = 0 /\ PrintfNext)

(* A task that prints goes on when it can run again and again. *)
MCSpec ==
  /\ MCInit /\ [][MCNext]_<<vars, printf>>
  /\ \A t \in Tasks :
       SF_<<vars, printf>>(utc = 0 /\ Printf!uart_printf(t) /\ UNCHANGED vars)

-----------------------------------------------------------------------------
(* uart_puts never reads past the end of the buffer, although the text may  *)
(* change under it.                                                         *)
ReadsStayInBuffer == Printf!ReadsStayInBuffer

(* The task of the highest priority prints the text that it formatted. *)
TopTextIntact == Printf!TopTextIntact

(* Every call of uart_printf returns, however often it is interrupted. *)
PrintfReturns == Printf!PrintfReturns

(* main.c: "not reentrant, but fine for our single-writer usage". *)
SingleWriter == Printf!SingleWriter
=============================================================================

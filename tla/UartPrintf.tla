----------------------------- MODULE UartPrintf -----------------------------
(***************************************************************************)
(* uart_printf (src/src/main.c) and the static buffer that its callers,    *)
(* ntp_task and speech_task, share: vsnprintf fills the buffer, then       *)
(* uart_puts sends it one character at a time until it meets the NUL.  A   *)
(* task of a higher priority may take over between any two characters.     *)
(* A character is represented by the task that formatted it.               *)
(***************************************************************************)
EXTENDS Integers, FiniteSets

CONSTANTS
  Tasks,      \* the tasks that call uart_printf
  Priority,   \* the priority each was created with
  BufSize,    \* sizeof(buf)
  MaxText     \* bound on the length of a text before truncation

NUL == "NUL"

PrintfAssumption ==
  /\ NUL \notin Tasks
  /\ Priority \in [Tasks -> Nat]
  /\ BufSize \in Nat \ {0}
  /\ MaxText \in Nat

VARIABLES
  buf,
  pc,    \* for each task: "idle", "format" (in vsnprintf) or "puts"
  pos,   \* for each task: the index it writes or reads next
  len    \* for each task: length of its text after truncation

vars == <<buf, pc, pos, len>>

Indices == 0..(BufSize - 1)

TypeOK ==
  /\ buf \in [Indices -> Tasks \cup {NUL}]
  /\ pc \in [Tasks -> {"idle", "format", "puts"}]
  /\ pos \in [Tasks -> Indices]
  /\ len \in [Tasks -> Indices]

Active == {t \in Tasks : pc[t] # "idle"}

(* Mutant: the tasks have the same priority and share the time. *)
CanRunSliced(t) == t \in Tasks

(* The scheduler runs no task while one of a higher priority wants to. *)
CanRun(t) == \A u \in Active : Priority[u] <= Priority[t]

(* vsnprintf stores at most size - 1 characters of a text of length n. *)
Truncated(n) == IF n < BufSize THEN n ELSE BufSize - 1

Call(t) ==
  /\ pc[t] = "idle"
  /\ CanRun(t)
  /\ pc' = [pc EXCEPT ![t] = "format"]
  /\ pos' = [pos EXCEPT ![t] = 0]
  /\ \E n \in 0..MaxText : len' = [len EXCEPT ![t] = Truncated(n)]
  /\ UNCHANGED buf

FormatChar(t) ==
  /\ pc[t] = "format"
  /\ CanRun(t)
  /\ pos[t] < len[t]
  /\ buf' = [buf EXCEPT ![pos[t]] = t]
  /\ pos' = [pos EXCEPT ![t] = @ + 1]
  /\ UNCHANGED <<pc, len>>

(* Mutant: a text that fills the buffer gets no NUL. *)
FormatEndUnterminated(t) ==
  /\ pc[t] = "format"
  /\ CanRun(t)
  /\ pos[t] = len[t]
  /\ buf' = [buf EXCEPT ![pos[t]] = IF pos[t] = BufSize - 1 THEN t ELSE NUL]
  /\ pos' = [pos EXCEPT ![t] = 0]
  /\ pc' = [pc EXCEPT ![t] = "puts"]
  /\ UNCHANGED len

FormatEnd(t) ==
  /\ pc[t] = "format"
  /\ CanRun(t)
  /\ pos[t] = len[t]
  /\ buf' = [buf EXCEPT ![pos[t]] = NUL]
  /\ pos' = [pos EXCEPT ![t] = 0]
  /\ pc' = [pc EXCEPT ![t] = "puts"]
  /\ UNCHANGED len

(* Mutant: s is not incremented. *)
PutCharInPlace(t) ==
  /\ pc[t] = "puts"
  /\ CanRun(t)
  /\ buf[pos[t]] # NUL
  /\ UNCHANGED vars

(* while ( *s ) uart_putc( *s++ ); *)
PutChar(t) ==
  /\ pc[t] = "puts"
  /\ CanRun(t)
  /\ buf[pos[t]] # NUL
  /\ pos' = [pos EXCEPT ![t] = @ + 1]
  /\ UNCHANGED <<buf, pc, len>>

Return(t) ==
  /\ pc[t] = "puts"
  /\ CanRun(t)
  /\ buf[pos[t]] = NUL
  /\ pc' = [pc EXCEPT ![t] = "idle"]
  /\ UNCHANGED <<buf, pos, len>>

uart_printf(t) == FormatChar(t) \/ FormatEnd(t) \/ PutChar(t) \/ Return(t)

Init ==
  /\ buf = [i \in Indices |-> NUL]
  /\ pc = [t \in Tasks |-> "idle"]
  /\ pos = [t \in Tasks |-> 0]
  /\ len = [t \in Tasks |-> 0]

Next == \E t \in Tasks : Call(t) \/ uart_printf(t)

(* A task that can run again and again does run: see SpeakingClock. *)
Spec == Init /\ [][Next]_vars /\ \A t \in Tasks : SF_vars(uart_printf(t))

-----------------------------------------------------------------------------
(* uart_puts, although the text may change under it, never reads past the   *)
(* end of the buffer: there is always a NUL at or after its place.          *)
ReadsStayInBuffer ==
  \A t \in Tasks : pc[t] = "puts" => \E z \in Indices : z >= pos[t] /\ buf[z] = NUL

(* The task of the highest priority prints the text that it formatted. *)
TopTextIntact ==
  \A t \in Tasks :
    /\ \A u \in Tasks \ {t} : Priority[u] < Priority[t]
    /\ pc[t] = "puts"
    => /\ pos[t] <= len[t]
       /\ \A i \in Indices : i < len[t] => buf[i] = t
       /\ buf[len[t]] = NUL

(* Every call of uart_printf returns, however often it is interrupted and   *)
(* whatever the interrupting calls leave in the buffer.                     *)
PrintfReturns == \A t \in Tasks : pc[t] # "idle" ~> pc[t] = "idle"

(* "not reentrant, but fine for our single-writer usage": no task enters    *)
(* uart_printf while another is in it.                                      *)
SingleWriter == Cardinality(Active) <= 1
=============================================================================

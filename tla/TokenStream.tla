----------------------------- MODULE TokenStream -----------------------------
(***************************************************************************)
(* The announcement on its way to the loudspeaker: uart_puts of three      *)
(* tasks on one UART, and the host's tts_bridge.py at the other end of the *)
(* line.  uart_puts takes no lock.  SPEECH and KEY have the same priority  *)
(* and are time-sliced, so either may continue between two characters of   *)
(* the other; NTP has a higher one, so its lines come in one piece but     *)
(* anywhere.  A pipe holds what the bridge has not read yet: it loses and  *)
(* reorders nothing, but what is in it when the bridge stops reading is    *)
(* never heard.                                                            *)
(*                                                                         *)
(* A piece <<kind, w>> stands for as many characters as no property needs  *)
(* to cut: "TOK", "EN ", the two halves of word w, "END", "\r", "\n", and  *)
(* the text of any other line (a line cut in its text or just before its   *)
(* "\r" is torn alike).  Word <<a, i>> is the i-th of announcement a.       *)
(***************************************************************************)
EXTENDS Integers, Sequences, FiniteSets, SequencesExt

CONSTANTS
  WordsPer,     \* words (TOKEN lines) in one announcement
  MaxSpoken,    \* bound on the announcements SPEECH makes
  MaxKeyLines,  \* bound on the lines KEY prints
  MaxNtpLines,  \* bound on the lines NTP prints
  MaxPipe       \* bound on what is in the pipe

StreamAssumption ==
  /\ WordsPer \in Nat \ {0}
  /\ MaxSpoken \in Nat /\ MaxKeyLines \in Nat /\ MaxNtpLines \in Nat
  /\ MaxPipe \in Nat \ {0}

VARIABLES
  mode,      \* how the bridge was started: "interactive" or "pipe"
  pipe,      \* what was put on the UART and not read: the writer of each piece
             \* (of each line, for NTP), oldest first
  pos,       \* what was read of SPEECH and of KEY: texts, then lines of the
             \* next text, then pieces of the next line
  ntp,       \* lines of NTP that were read
  bridge,    \* the bridge: line in progress, tokens, sentences spoken
  writer,    \* ghost: who wrote what was read last
  switches,  \* ghost: how often the writer changed in what was read
  noisy,     \* ghost: announcements during which the writer changed
  over       \* the bridge has stopped reading

vars == <<mode, pipe, pos, ntp, bridge, writer, switches, noisy, over>>

None == <<0, 0>>
CR == <<"cr", None>>
LF == <<"lf", None>>
Text == <<<<"text", None>>>>
Prefix == <<<<"tok", None>>, <<"en", None>>>>
End == <<<<"end", None>>>>
Word(w) == <<<<"head", w>>, <<"tail", w>>>>
Line(s) == s \o <<CR, LF>>

uart_send_token(w) == Prefix \o Word(w)

(* The lines of an announcement. *)
speak_time(a) ==
  <<<<>>, Text>> \o [i \in 1..WordsPer |-> uart_send_token(<<a, i>>)] \o <<End, Text, <<>>>>

speech_task(a) == <<Text>> \o speak_time(a)

key_task == <<Text>>

Tasks == {"SPEECH", "KEY"}
Limit(t) == IF t = "SPEECH" THEN MaxSpoken ELSE MaxKeyLines

(* At place p of what a task prints: the text, its line, its next piece. *)
Lines(t, p) == IF t = "SPEECH" THEN speech_task(p.text + 1) ELSE key_task
Current(t, p) == Lines(t, p)[p.line + 1]
NextPiece(t, p) == Line(Current(t, p))[p.col + 1]

(* The place after that piece. *)
Advanced(t, p) ==
  IF p.col <= Len(Current(t, p))
  THEN [p EXCEPT !.col = @ + 1]
  ELSE IF p.line + 1 < Len(Lines(t, p))
  THEN [p EXCEPT !.line = @ + 1, !.col = 0]
  ELSE [text |-> p.text + 1, line |-> 0, col |-> 0]

(* Where the task itself is: its pieces in the pipe are out, too. *)
Printed(t) ==
  FoldLeft(LAMBDA p, w : IF w = t THEN Advanced(t, p) ELSE p, pos[t], pipe)

(* The announcement in the middle of which the reading is. *)
Underway ==
  LET p == pos["SPEECH"] IN IF p.line = 0 /\ p.col = 0 THEN {} ELSE {p.text + 1}

-----------------------------------------------------------------------------
(* tts_bridge.py. *)

(* Mutant: the tokens are spoken and kept. *)
TokensKept(b) == b

tokens_clear(b) == [b EXCEPT !.tokens = <<>>]

speak(b) == tokens_clear([b EXCEPT !.spoken = Append(@, b.tokens)])

SpeakTokens(b) == IF b.tokens # <<>> THEN speak(b) ELSE b

(* Mutant: the line is processed and kept. *)
LineKept(b) == b

(* The line in progress begins anew. *)
line_reset(b) == [b EXCEPT !.line = <<>>]

process_line(b) ==
  LET rest == line_reset(b)
  IN  IF IsPrefix(Prefix, b.line) /\ b.line # Prefix
      THEN [rest EXCEPT !.tokens = Append(@, SubSeq(b.line, Len(Prefix) + 1, Len(b.line)))]
      ELSE IF b.line = End THEN SpeakTokens(rest)
      ELSE rest

(* read_output removes every "\r". *)
replace_cr(b) == b

(* One character.  read_output ends a line at "\n"; sys.stdin of           *)
(* pipe_mode takes "\r", "\n" and "\r\n" for the end of a line. *)
Feed(b, p) ==
  IF p = LF
  THEN IF mode = "pipe" /\ b.cr THEN [b EXCEPT !.cr = FALSE] ELSE process_line(b)
  ELSE IF p = CR
  THEN IF mode = "pipe" THEN [process_line(b) EXCEPT !.cr = TRUE] ELSE replace_cr(b)
  ELSE [b EXCEPT !.line = Append(@, p), !.cr = FALSE]

-----------------------------------------------------------------------------
Init ==
  /\ mode \in {"interactive", "pipe"}
  /\ pipe = <<>>
  /\ pos = [t \in Tasks |-> [text |-> 0, line |-> 0, col |-> 0]]
  /\ ntp = 0
  /\ bridge = [line |-> <<>>, cr |-> FALSE, tokens |-> <<>>, spoken |-> <<>>]
  /\ writer = "SPEECH"
  /\ switches = 0
  /\ noisy = {}
  /\ over = FALSE

Switch(t) ==
  /\ writer' = t
  /\ switches' = switches + (IF t = writer THEN 0 ELSE 1)
  /\ noisy' = noisy \cup (IF t = writer THEN {} ELSE Underway)

(* One piece of a text of SPEECH or KEY. *)
uart_puts(t) ==
  /\ ~over
  /\ Len(pipe) < MaxPipe
  /\ Printed(t).text < Limit(t)
  /\ pipe' = Append(pipe, t)
  /\ UNCHANGED <<mode, pos, ntp, bridge, writer, switches, noisy, over>>

(* A whole line of NTP. *)
NtpPuts ==
  /\ ~over
  /\ Len(pipe) < MaxPipe
  /\ ntp + Len(SelectSeq(pipe, LAMBDA w : w = "NTP")) < MaxNtpLines
  /\ pipe' = Append(pipe, "NTP")
  /\ UNCHANGED <<mode, pos, ntp, bridge, writer, switches, noisy, over>>

(* The bridge reads what w wrote. *)
Take(w) ==
  /\ ~over
  /\ pipe # <<>>
  /\ w = Head(pipe)
  /\ pipe' = Tail(pipe)
  /\ Switch(w)
  /\ UNCHANGED <<mode, over>>

(* A piece of SPEECH or KEY is read.  (The bound is kept by uart_puts.) *)
ReadPiece(t) ==
  /\ Take(t)
  /\ pos[t].text < Limit(t)
  /\ pos' = [pos EXCEPT ![t] = Advanced(t, pos[t])]
  /\ bridge' = Feed(bridge, NextPiece(t, pos[t]))
  /\ UNCHANGED ntp

(* A line of NTP is read.  (To stop within it leaves what to stop before or *)
(* after it leaves.)                                                        *)
ReadNtp ==
  /\ Take("NTP")
  /\ ntp < MaxNtpLines
  /\ ntp' = ntp + 1
  /\ bridge' = Feed(Feed(Feed(bridge, Text[1]), CR), LF)
  /\ UNCHANGED pos

Read == (\E t \in Tasks : ReadPiece(t)) \/ ReadNtp

(* read_output ends when QEMU has ended or `running` is false, whatever the *)
(* pipe holds.  The line in progress is dropped, and interactive_mode       *)
(* speaks the tokens that remain.  (An end while process_line speaks is in  *)
(* TtsBridge.)                                                              *)
StopReading ==
  /\ ~over
  /\ mode = "interactive"
  /\ over' = TRUE
  /\ bridge' = SpeakTokens(bridge)
  /\ UNCHANGED <<mode, pipe, pos, ntp, writer, switches, noisy>>

(* The input of pipe_mode ends when all of it was read; the last line,      *)
(* though not ended, is a line.                                             *)
Eof ==
  /\ ~over
  /\ mode = "pipe"
  /\ pipe = <<>>
  /\ over' = TRUE
  /\ bridge' = SpeakTokens(process_line(bridge))
  /\ UNCHANGED <<mode, pipe, pos, ntp, writer, switches, noisy>>

(* KeyboardInterrupt in pipe_mode: neither the line in progress nor what is *)
(* unread is processed.                                                     *)
Interrupt ==
  /\ ~over
  /\ mode = "pipe"
  /\ over' = TRUE
  /\ bridge' = SpeakTokens(bridge)
  /\ UNCHANGED <<mode, pipe, pos, ntp, writer, switches, noisy>>

Next ==
  \/ (\E t \in Tasks : uart_puts(t)) \/ NtpPuts
  \/ Read \/ StopReading \/ Eof \/ Interrupt

Spec == Init /\ [][Next]_vars

-----------------------------------------------------------------------------
Ids == (1..MaxSpoken) \X (1..WordsPer)
Pieces == ({"text", "tok", "en", "end"} \X {None}) \cup ({"head", "tail"} \X Ids)

TypeOK ==
  /\ mode \in {"interactive", "pipe"}
  /\ pipe \in Seq(Tasks \cup {"NTP"}) /\ Len(pipe) <= MaxPipe
  /\ pos \in [Tasks -> [text : Nat, line : Nat, col : Nat]]
  /\ \A t \in Tasks :
       \/ /\ pos[t].text < Limit(t)
          /\ pos[t].line < Len(Lines(t, pos[t]))
          /\ pos[t].col <= Len(Current(t, pos[t])) + 1
       \/ pos[t] = [text |-> Limit(t), line |-> 0, col |-> 0]
  /\ ntp \in 0..MaxNtpLines
  /\ bridge \in [line : Seq(Pieces), cr : BOOLEAN, tokens : Seq(Seq(Pieces)),
                 spoken : Seq(Seq(Seq(Pieces)) \ {<<>>})]
  /\ writer \in Tasks \cup {"NTP"}
  /\ switches \in Nat
  /\ noisy \subseteq 1..MaxSpoken
  /\ over \in BOOLEAN

(* The announcements that were read to their end. *)
Finished == 1..pos["SPEECH"].text

Sentence(a) == [i \in 1..WordsPer |-> Word(<<a, i>>)]

(* The last elements of s are those of t. *)
EndsWith(s, t) ==
  /\ Len(t) <= Len(s)
  /\ \A i \in 1..Len(t) : s[Len(s) - Len(t) + i] = t[i]

(* An announcement that the bridge read to its end, and during which no     *)
(* other task printed, is spoken: its words, whole and in order, end a      *)
(* sentence; and they are the whole sentence when every announcement before *)
(* it was undisturbed too.  (After a disturbed one whose END was torn, its  *)
(* words come first.)  One left in the pipe is lost: EndSpeaks of TtsBridge. *)
UndisturbedIsSpoken ==
  \A a \in Finished \ noisy :
    \E i \in 1..Len(bridge.spoken) :
      /\ EndsWith(bridge.spoken[i], Sentence(a))
      /\ (1..a) \cap noisy = {} => bridge.spoken[i] = Sentence(a)

(* What is heard: the sentences, and the tokens that wait for an END.  A    *)
(* place in it is a sentence and a place in that.                           *)
Sentences == Append(bridge.spoken, bridge.tokens)
Places == UNION {{i} \X (1..Len(Sentences[i])) : i \in 1..Len(Sentences)}
At(x) == Sentences[x[1]][x[2]]

(* Places and words are in the order of their first components, then of     *)
(* their second ones.                                                       *)
Sooner(x, y) == x[1] < y[1] \/ (x[1] = y[1] /\ x[2] < y[2])

(* Damage is bounded: every word of an announcement that the bridge read to *)
(* its end and that is not heard as it was sent, and every word heard that  *)
(* was not sent, costs a change of the writer (the end of the input may cut *)
(* one more); a disturbance never spreads to the lines after it.            *)
DamageBounded ==
  LET lost == {w \in Finished \X (1..WordsPer) : \A x \in Places : At(x) # Word(w)}
      noise == {x \in Places : \A w \in Ids : At(x) # Word(w)}
  IN  /\ Cardinality(lost) <= switches
      /\ Cardinality(noise) <= switches + (IF over THEN 1 ELSE 0)

(* No word is spoken twice and none is overtaken: the words that arrive     *)
(* whole are heard in the order in which they were sent.                    *)
HeardInOrder ==
  \A x, y \in Places : \A v, w \in Ids :
    Sooner(x, y) /\ At(x) = Word(v) /\ At(y) = Word(w) => Sooner(v, w)

(* What the headers of speech_task.c and tts_bridge.py promise: the         *)
(* sentences spoken before the input ends are announcements.                *)
SentencesAreAnnouncements ==
  ~over => \A i \in 1..Len(bridge.spoken) :
             \E a \in 1..MaxSpoken : bridge.spoken[i] = Sentence(a)
=============================================================================

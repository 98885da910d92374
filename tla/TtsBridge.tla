------------------------------ MODULE TtsBridge ------------------------------
(***************************************************************************)
(* interactive_mode of src/scripts/tts_bridge.py: the main thread forwards *)
(* the keyboard to QEMU, a daemon thread (read_output) reads QEMU's output *)
(* line by line (process_line) and speaks.  They share the list `tokens`   *)
(* and the flag `running`.                                                 *)
(*                                                                         *)
(* QEMU emits announcements of TokensPer TOKEN lines and an END line.  The *)
(* lines in between, which process_line only prints, are left out.         *)
(***************************************************************************)
EXTENDS Integers, Sequences, SequencesExt

CONSTANTS
  TokensPer,         \* TOKEN lines in one announcement
  MaxAnnouncements,  \* bound on the announcements
  Keys,              \* what the user may type
  MaxKeys            \* bound on how much the user types

ASSUME BridgeAssumption ==
  /\ TokensPer \in Nat \ {0}
  /\ MaxAnnouncements \in Nat
  /\ Keys \subseteq {"t", "x", "ctrlA", "ctrlC"}
  /\ MaxKeys \in Nat

VARIABLES
  alive,      \* proc.poll() is None
  emitted,    \* lines of announcements that QEMU has written
  consumed,   \* and that the reader has read
  running,
  tokens,
  rpc,        \* the reader thread: "check", "read", "speak" or "done"
  mpc,        \* the main thread
  kbd,        \* bytes in the terminal's queue
  inbuf,      \* bytes in sys.stdin.buffer
  typed,      \* ghost: what the user typed, in order
  forwarded,  \* what was written to QEMU's stdin, in order
  spoken      \* ghost: sentences handed to espeak, in order, and by whom

reader == <<consumed, tokens, rpc>>
keyboard == <<kbd, inbuf, typed, forwarded>>
vars == <<alive, emitted, running, reader, mpc, keyboard, spoken>>

(* The n-th line: END after every TokensPer words.  A word is represented   *)
(* by its number and so is never the same in two places.                    *)
IsEnd(n) == n % (TokensPer + 1) = 0

Announcement(a) == [i \in 1..TokensPer |-> (a - 1) * (TokensPer + 1) + i]

TypeOK ==
  /\ alive \in BOOLEAN
  /\ emitted \in 0..(MaxAnnouncements * (TokensPer + 1))
  /\ consumed \in 0..emitted
  /\ running \in BOOLEAN
  /\ tokens \in Seq(Nat)
  /\ rpc \in {"check", "read", "speak", "done"}
  /\ mpc \in {"loop", "read", "read2", "cleanup", "final", "join", "say", "done"}
  /\ typed \in Seq(Keys) /\ Len(typed) <= MaxKeys
  /\ \A s \in {kbd, inbuf, forwarded} : s \in Seq(Keys)
  /\ spoken \in Seq([words : Seq(Nat), by : {"reader", "main"}])

-----------------------------------------------------------------------------
(* QEMU and the user. *)

Emit ==
  /\ alive
  /\ emitted < MaxAnnouncements * (TokensPer + 1)
  /\ emitted' = emitted + 1
  /\ UNCHANGED <<alive, running, reader, mpc, keyboard, spoken>>

QemuExit ==
  /\ alive
  /\ alive' = FALSE
  /\ UNCHANGED <<emitted, running, reader, mpc, keyboard, spoken>>

TypeKey ==
  /\ Len(typed) < MaxKeys
  /\ mpc # "done"
  /\ \E k \in Keys : typed' = Append(typed, k) /\ kbd' = Append(kbd, k)
  /\ UNCHANGED <<alive, emitted, running, reader, mpc, inbuf, forwarded, spoken>>

(* handle_sigint: a signal from outside; raw mode makes Ctrl+C a character. *)
handle_sigint ==
  /\ running
  /\ mpc # "done"
  /\ running' = FALSE
  /\ UNCHANGED <<alive, emitted, reader, mpc, keyboard, spoken>>

-----------------------------------------------------------------------------
(* read_output.  The thread is a daemon: it ends with the main thread. *)

CheckRunning ==
  /\ rpc = "check"
  /\ mpc # "done"
  /\ rpc' = IF running /\ alive THEN "read" ELSE "done"
  /\ UNCHANGED <<alive, emitted, running, consumed, tokens, mpc, keyboard, spoken>>

(* proc.stdout.read until a line is complete, then process_line. *)
ReadLine ==
  /\ rpc = "read"
  /\ mpc # "done"
  /\ consumed < emitted
  /\ consumed' = consumed + 1
  /\ IF ~IsEnd(consumed')
     THEN tokens' = Append(tokens, consumed') /\ rpc' = "check" /\ UNCHANGED spoken
     ELSE /\ UNCHANGED tokens
          /\ IF tokens # <<>>
             THEN rpc' = "speak" /\ spoken' = Append(spoken, [words |-> tokens, by |-> "reader"])
             ELSE rpc' = "check" /\ UNCHANGED spoken
  /\ UNCHANGED <<alive, emitted, running, mpc, keyboard>>

(* read gives b"": the pipe is empty and QEMU is gone. *)
ReadEof ==
  /\ rpc = "read"
  /\ mpc # "done"
  /\ consumed = emitted
  /\ ~alive
  /\ rpc' = "done"
  /\ UNCHANGED <<alive, emitted, running, consumed, tokens, mpc, keyboard, spoken>>

(* Mutant: the tokens are not cleared. *)
SpeakEndsWithoutClear ==
  /\ rpc = "speak"
  /\ mpc # "done"
  /\ rpc' = "check"
  /\ UNCHANGED <<alive, emitted, running, consumed, tokens, mpc, keyboard, spoken>>

(* Mutant: espeak's time limit is not caught in speak and ends the thread. *)
SpeakEndsThread ==
  /\ rpc = "speak"
  /\ mpc # "done"
  /\ rpc' = "done"
  /\ UNCHANGED <<alive, emitted, running, consumed, tokens, mpc, keyboard, spoken>>

(* espeak has ended, or failed, or run for 10 s: tokens.clear(). *)
SpeakEnds ==
  /\ rpc = "speak"
  /\ mpc # "done"
  /\ tokens' = <<>>
  /\ rpc' = "check"
  /\ UNCHANGED <<alive, emitted, running, consumed, mpc, keyboard, spoken>>

read_output == CheckRunning \/ ReadLine \/ ReadEof \/ SpeakEnds

-----------------------------------------------------------------------------
(* The main thread. *)

(* Mutant: the loop does not look at QEMU. *)
SelectIgnoringQemu ==
  /\ mpc = "loop"
  /\ \/ ~running /\ mpc' = "cleanup"
     \/ running /\ kbd # <<>> /\ mpc' = "read"
  /\ UNCHANGED <<alive, emitted, running, reader, keyboard, spoken>>

(* The loop's condition, and select on the terminal. *)
Select ==
  /\ mpc = "loop"
  /\ \/ ~(running /\ alive) /\ mpc' = "cleanup"
     \/ running /\ alive /\ kbd # <<>> /\ mpc' = "read"
  /\ UNCHANGED <<alive, emitted, running, reader, keyboard, spoken>>

(* Mutant: what the terminal had beyond the byte is discarded. *)
ReadByteDiscarding(c) ==
  /\ kbd # <<>>
  /\ c = Head(kbd)
  /\ kbd' = <<>>
  /\ UNCHANGED <<inbuf, typed>>

(* sys.stdin.buffer.read(1): when its buffer is empty it takes all that the *)
(* terminal has, and blocks if that is nothing.  c is the byte it gives.    *)
ReadByte(c) ==
  LET available == IF inbuf # <<>> THEN inbuf ELSE kbd
  IN  /\ available # <<>>
      /\ c = Head(available)
      /\ inbuf' = Tail(available)
      /\ kbd' = IF inbuf # <<>> THEN kbd ELSE <<>>
      /\ UNCHANGED typed

(* Writing to the stdin of a QEMU that is gone raises BrokenPipeError, and  *)
(* the loop ends.                                                           *)
Forward(bytes) ==
  /\ IF alive
     THEN forwarded' = forwarded \o bytes /\ mpc' = "loop"
     ELSE mpc' = "cleanup" /\ UNCHANGED forwarded
  /\ UNCHANGED running

Exit == mpc' = "cleanup" /\ running' = FALSE /\ UNCHANGED forwarded

ReadKey ==
  /\ mpc = "read"
  /\ \E c \in Keys :
       /\ ReadByte(c)
       /\ CASE c = "ctrlA" -> mpc' = "read2" /\ UNCHANGED <<running, forwarded>>
            [] c = "ctrlC" -> Exit
            [] OTHER -> Forward(<<c>>)
  /\ UNCHANGED <<alive, emitted, reader, spoken>>

(* The byte after Ctrl+A. *)
ReadKey2 ==
  /\ mpc = "read2"
  /\ \E c \in Keys :
       /\ ReadByte(c)
       /\ IF c = "x" THEN Exit ELSE Forward(<<"ctrlA", c>>)
  /\ UNCHANGED <<alive, emitted, reader, spoken>>

(* proc.terminate, or proc.kill after 3 s. *)
Cleanup ==
  /\ mpc = "cleanup"
  /\ alive' = FALSE
  /\ mpc' = "final"
  /\ UNCHANGED <<emitted, running, reader, keyboard, spoken>>

(* if tokens: *)
AnyTokens ==
  /\ mpc = "final"
  /\ mpc' = IF tokens # <<>> THEN "join" ELSE "done"
  /\ UNCHANGED <<alive, emitted, running, reader, keyboard, spoken>>

(* speak(' '.join(tokens)), during which the reader may go on. *)
SpeakRemaining ==
  /\ mpc = "join"
  /\ spoken' = Append(spoken, [words |-> tokens, by |-> "main"])
  /\ mpc' = "say"
  /\ UNCHANGED <<alive, emitted, running, reader, keyboard>>

(* espeak has ended, and the program ends. *)
SpeakRemainingEnds ==
  /\ mpc = "say"
  /\ mpc' = "done"
  /\ UNCHANGED <<alive, emitted, running, reader, keyboard, spoken>>

main ==
  \/ Select \/ ReadKey \/ ReadKey2 \/ Cleanup
  \/ AnyTokens \/ SpeakRemaining \/ SpeakRemainingEnds

-----------------------------------------------------------------------------
Init ==
  /\ alive = TRUE /\ running = TRUE
  /\ emitted = 0 /\ consumed = 0
  /\ tokens = <<>> /\ spoken = <<>>
  /\ rpc = "check" /\ mpc = "loop"
  /\ kbd = <<>> /\ inbuf = <<>> /\ typed = <<>> /\ forwarded = <<>>

Next == Emit \/ QemuExit \/ TypeKey \/ handle_sigint \/ read_output \/ main

(* Both threads keep running, select times out after 100 ms, and speak ends *)
(* after 10 s at the latest.                                                *)
Spec == Init /\ [][Next]_vars /\ WF_vars(read_output) /\ WF_vars(main)

-----------------------------------------------------------------------------
(* What the reader speaks is always one whole announcement, each at most    *)
(* once and in order; what the main thread speaks at the end is the start   *)
(* of one.                                                                  *)
SentencesWhole ==
  /\ \A i \in 1..Len(spoken) :
       \E a \in 1..MaxAnnouncements :
         IF spoken[i].by = "reader"
         THEN spoken[i].words = Announcement(a)
         ELSE IsPrefix(spoken[i].words, Announcement(a))
  /\ \A i, j \in 1..Len(spoken) :
       i < j /\ spoken[i].by = "reader" /\ spoken[j].by = "reader" =>
         spoken[i].words[1] < spoken[j].words[1]

(* QEMU gets what the user typed, in that order and none of it twice; a     *)
(* Ctrl+A and the byte after it arrive together or not at all.              *)
ForwardedInOrder ==
  /\ IsPrefix(forwarded, typed)
  /\ mpc = "read2" => Len(forwarded) + 1 + Len(inbuf) + Len(kbd) = Len(typed)

(* As long as nobody ends the program each complete announcement is spoken. *)
AnnouncementSpoken ==
  \A a \in 1..MaxAnnouncements :
    emitted >= a * (TokensPer + 1) ~>
      \/ ~running \/ ~alive
      \/ \E i \in 1..Len(spoken) : spoken[i].words = Announcement(a)

(* The program ends once QEMU has ended or it was told to, unless the main  *)
(* thread waits for the byte after a Ctrl+A, when it notices neither.       *)
BridgeEnds == ~running \/ ~alive ~> mpc \in {"done", "read2"}

(* "END - synthesize and speak the accumulated sentence": unless the user   *)
(* ends the bridge each complete announcement is spoken, though QEMU ends.  *)
EndSpeaks ==
  \A a \in 1..MaxAnnouncements :
    emitted >= a * (TokensPer + 1) ~>
      ~running \/ \E i \in 1..Len(spoken) : spoken[i].words = Announcement(a)

(* "Press Ctrl+C to exit": once Ctrl+C has cleared `running`, as a byte or  *)
(* as the signal of handle_sigint, the program ends.                        *)
CtrlCExits == ~running ~> mpc = "done"

(* "Speak any remaining tokens": at the end only words are spoken that were *)
(* not spoken before.                                                       *)
OnlyRemainingSpoken ==
  \A i, j \in 1..Len(spoken) :
    i # j => ToSet(spoken[i].words) \cap ToSet(spoken[j].words) = {}

(* "User keyboard input is forwarded to QEMU so you can press 't' to        *)
(* request the time": each 't' gets there, unless the program ends.         *)
KeysForwarded ==
  \A n \in 1..MaxKeys :
    Len(typed) >= n ~> Len(forwarded) >= n \/ ~running \/ ~alive
=============================================================================

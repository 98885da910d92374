---------------------------- MODULE MCTtsBridge ----------------------------
(* The bridge, seen as two threads that exchange lines and keys (TtsBridge) *)
(* and as the reader of characters (TokenStream).  The two share no state:  *)
(* a behaviour follows one of them while the other rests.                   *)
EXTENDS TtsBridge

CONSTANTS WordsPer, MaxSpoken, MaxKeyLines, MaxNtpLines, MaxPipe

VARIABLES mode, pipe, pos, ntp, bridge, writer, switches, noisy, over

Ts == INSTANCE TokenStream

stream == <<mode, pipe, pos, ntp, bridge, writer, switches, noisy, over>>

ASSUME StreamConstants == Ts!StreamAssumption

BridgeInit == Init /\ Ts!Init /\ mode = "pipe"
BridgeNext == Next /\ UNCHANGED stream
StreamInit == Init /\ Ts!Init
StreamNext == Ts!Next /\ UNCHANGED vars

(* The two threads; they run as TtsBridge says. *)
BridgeSpec ==
  /\ BridgeInit /\ [][BridgeNext]_<<vars, stream>>
  /\ WF_<<vars, stream>>(read_output /\ UNCHANGED stream)
  /\ WF_<<vars, stream>>(main /\ UNCHANGED stream)

(* The characters on the UART and what is heard of them. *)
StreamSpec == StreamInit /\ [][StreamNext]_<<vars, stream>>

-----------------------------------------------------------------------------
(* An announcement that the bridge read to its end, and during which no     *)
(* other task printed, is spoken, whole and in order, and alone if those    *)
(* before it were undisturbed too.                                          *)
UndisturbedIsSpoken == Ts!UndisturbedIsSpoken

(* Of the announcements that the bridge read, every word lost, and every    *)
(* word heard that was not sent, costs a change of the writer on the UART.  *)
DamageBounded == Ts!DamageBounded

(* No word is spoken twice and none is overtaken. *)
HeardInOrder == Ts!HeardInOrder

(* The promise of the headers of speech_task.c and tts_bridge.py: what is   *)
(* spoken before the input ends are announcements.                          *)
SentencesAreAnnouncements == Ts!SentencesAreAnnouncements
=============================================================================

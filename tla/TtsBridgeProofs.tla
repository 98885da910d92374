-------------------------- MODULE TtsBridgeProofs --------------------------
(***************************************************************************)
(* Proofs about TtsBridge, for every length and number of announcements    *)
(* and every input from the keyboard, and about TokenStream, for every     *)
(* length and number of announcements, any number of lines of the other    *)
(* tasks, every interleaving of the characters and any backlog of them in  *)
(* the pipe.                                                               *)
(***************************************************************************)
EXTENDS MCTtsBridge, FiniteSetTheorems, SequenceTheorems, TLAPS

-----------------------------------------------------------------------------
(* The inductive invariant of the two threads. *)

(* The lines of an announcement with its END. *)
Lines == TokensPer + 1

(* The first word of an announcement. *)
First(a) == (a - 1) * Lines + 1

(* The reader is r lines into the announcement after the a-th, and tokens   *)
(* holds these words; while it speaks, tokens is the a-th announcement.     *)
ReaderAt(a, r) ==
  /\ consumed = a * Lines + r
  /\ rpc = "speak" => r = 0 /\ a >= 1 /\ tokens = Announcement(a)
  /\ rpc # "speak" => Len(tokens) = r /\ \A i \in 1..r : tokens[i] = a * Lines + i
  /\ \A i \in 1..Len(spoken) : spoken[i].by = "reader" => spoken[i].words[1] <= First(a)

TokensInStep == \E a \in Nat, r \in 0..TokensPer : ReaderAt(a, r)

SomethingRead == mpc = "join" => consumed >= 1

(* What was typed is in QEMU, in the main thread's hand (held), in Python's *)
(* buffer and in the terminal, in this order.                               *)
TypedIs(held) ==
  /\ Len(typed) = Len(forwarded) + held + Len(inbuf) + Len(kbd)
  /\ \A i \in 1..Len(forwarded) : typed[i] = forwarded[i]
  /\ held = 1 => typed[Len(forwarded) + 1] = "ctrlA"
  /\ \A i \in 1..Len(inbuf) : typed[Len(forwarded) + held + i] = inbuf[i]
  /\ \A i \in 1..Len(kbd) : typed[Len(forwarded) + held + Len(inbuf) + i] = kbd[i]

(* After the loop a byte may be lost, but nothing is forwarded any more. *)
NothingReordered ==
  /\ mpc \in {"loop", "read"} => TypedIs(0)
  /\ mpc = "read2" => TypedIs(1)
  /\ Len(forwarded) <= Len(typed) /\ \A i \in 1..Len(forwarded) : typed[i] = forwarded[i]

IInv ==
  /\ TypeOK
  /\ TokensInStep
  /\ SomethingRead
  /\ SentencesWhole
  /\ NothingReordered

USE DEF reader, keyboard

-----------------------------------------------------------------------------
(* Arithmetic of lines, and prefixes. *)

(* An announcement has a token and END. *)
LEMMA LinesPositive == Lines \in Nat /\ Lines > 1
BY BridgeAssumption DEF Lines

(* END is where one announcement is over and the next has not begun. *)
LEMMA EndOfAnnouncement ==
  ASSUME NEW a \in Nat, NEW r \in 0..TokensPer
  PROVE  /\ a * Lines + r \in Nat
         /\ IsEnd(a * Lines + r) <=> r = 0
<1>1. a * Lines + r \in Nat
  BY LinesPositive, BridgeAssumption
<1>2. (a * Lines + r) % Lines = r
  BY LinesPositive, BridgeAssumption DEF Lines
<1> QED
  BY <1>1, <1>2 DEF IsEnd, Lines

(* A token that was emitted belongs to an announcement within the bound. *)
LEMMA AnnouncementInBound ==
  ASSUME NEW a \in Nat, NEW r \in 0..TokensPer, a * Lines + r <= MaxAnnouncements * Lines
  PROVE  a <= MaxAnnouncements /\ (r > 0 => a + 1 <= MaxAnnouncements)
<1>1. \A b, c \in Nat : b < c => b * Lines + Lines <= c * Lines
  BY LinesPositive
<1>2. a * Lines \in Nat /\ MaxAnnouncements * Lines \in Nat
  BY LinesPositive, BridgeAssumption
<1>3. a <= MaxAnnouncements
  BY <1>1, <1>2, LinesPositive, BridgeAssumption
<1>4. r > 0 => a # MaxAnnouncements
  BY <1>2, LinesPositive, BridgeAssumption
<1> QED
  BY <1>3, <1>4, BridgeAssumption

(* A prefix, element by element. *)
LEMMA PrefixByElements ==
  ASSUME NEW S, NEW s \in Seq(S), NEW t \in Seq(S), Len(s) <= Len(t),
         \A i \in 1..Len(s) : s[i] = t[i]
  PROVE  IsPrefix(s, t)
BY DEF IsPrefix

(* The tokens of an announcement, one by one. *)
LEMMA AnnouncementSeq ==
  ASSUME NEW a \in Nat \ {0}
  PROVE  /\ Announcement(a) \in Seq(Nat) /\ Len(Announcement(a)) = TokensPer
         /\ \A i \in 1..TokensPer : Announcement(a)[i] = (a - 1) * Lines + i
         /\ Announcement(a)[1] = First(a)
<1>1. (a - 1) * Lines \in Nat
  BY LinesPositive
<1>2. \A i \in 1..TokensPer : (a - 1) * Lines + i \in Nat
  BY <1>1, BridgeAssumption
<1>3. Announcement(a) = [i \in 1..TokensPer |-> (a - 1) * Lines + i]
  BY DEF Announcement, Lines
<1> QED
  BY <1>2, <1>3, BridgeAssumption DEF First
-----------------------------------------------------------------------------
(* The actions. *)

(* The invariant holds at the start. *)
LEMMA InitIInv == Init => IInv
<1> SUFFICES ASSUME Init PROVE IInv
  OBVIOUS
<1>1. TypeOK
  BY BridgeAssumption DEF Init, TypeOK
<1>2. ReaderAt(0, 0)
  BY LinesPositive DEF Init, ReaderAt
<1>3. TokensInStep
  BY <1>2, BridgeAssumption DEF TokensInStep
<1> QED
  BY <1>1, <1>3 DEF Init, IInv, SomethingRead, SentencesWhole, NothingReordered, TypedIs

(* Steps that touch neither the reader's words nor what was spoken. *)
LEMMA ReaderFrame ==
  ASSUME IInv, UNCHANGED <<consumed, tokens, spoken>>, rpc' = "speak" <=> rpc = "speak"
  PROVE  TokensInStep' /\ SentencesWhole'
<1>1. TokensInStep'
  BY DEF IInv, TokensInStep, ReaderAt
<1> QED
  BY <1>1 DEF IInv, SentencesWhole

(* Steps that move no byte. *)
LEMMA KeyboardFrame ==
  ASSUME IInv, UNCHANGED keyboard,
         \/ mpc' = mpc
         \/ mpc = "loop" /\ mpc' = "read"
         \/ mpc' \notin {"loop", "read", "read2"}
  PROVE  NothingReordered'
BY DEF IInv, NothingReordered, TypedIs

(* A step that neither reads, speaks nor forwards keeps it. *)
LEMMA QuietIInv ==
  ASSUME IInv,
         \/ Emit \/ QemuExit \/ handle_sigint \/ CheckRunning \/ ReadEof
         \/ Select \/ Cleanup \/ SpeakRemainingEnds
  PROVE  IInv'
<1> USE DEF Emit, QemuExit, handle_sigint, CheckRunning, ReadEof, Select, Cleanup,
           SpeakRemainingEnds
<1>1. TypeOK'
  <2>1. CASE Emit
    <3>1. MaxAnnouncements * (TokensPer + 1) \in Nat
      BY BridgeAssumption
    <3> QED
      BY <2>1, <3>1 DEF IInv, TypeOK
  <2>2. CASE QemuExit \/ Cleanup \/ handle_sigint
    BY <2>2 DEF IInv, TypeOK
  <2>3. CASE CheckRunning \/ ReadEof \/ Select \/ SpeakRemainingEnds
    BY <2>3 DEF IInv, TypeOK
  <2> QED
    BY <2>1, <2>2, <2>3
<1>2. TokensInStep' /\ SentencesWhole'
  BY ReaderFrame
<1>3. NothingReordered'
  BY KeyboardFrame
<1>4. SomethingRead'
  BY DEF IInv, SomethingRead
<1> QED
  BY <1>1, <1>2, <1>3, <1>4 DEF IInv

(* The look at what is left at the end keeps it. *)
LEMMA AnyTokensIInv == ASSUME IInv, AnyTokens PROVE IInv'
<1> USE DEF AnyTokens
<1>1. TypeOK'
  BY DEF IInv, TypeOK
<1>2. TokensInStep' /\ SentencesWhole'
  BY ReaderFrame
<1>3. NothingReordered'
  BY KeyboardFrame
<1>4. SomethingRead'
  <2> SUFFICES ASSUME tokens # <<>> PROVE consumed >= 1
    BY DEF SomethingRead
  <2>1. PICK a \in Nat, r \in 0..TokensPer : ReaderAt(a, r)
    BY DEF IInv, TokensInStep
  <2>2. Len(tokens) # 0
    BY DEF IInv, TypeOK
  <2>3. CASE rpc = "speak"
    <3>1. a * Lines >= 1
      BY <2>1, <2>3, LinesPositive DEF ReaderAt
    <3> QED
      BY <2>1, <2>3, <3>1, LinesPositive DEF ReaderAt
  <2>4. CASE rpc # "speak"
    <3>1. a * Lines \in Nat
      BY LinesPositive
    <3> QED
      BY <2>1, <2>2, <2>4, <3>1, BridgeAssumption DEF ReaderAt
  <2> QED
    BY <2>3, <2>4
<1> QED
  BY <1>1, <1>2, <1>3, <1>4 DEF IInv

(* A key that is typed keeps it. *)
LEMMA TypeKeyIInv == ASSUME IInv, TypeKey PROVE IInv'
<1>1. PICK k \in Keys : typed' = Append(typed, k) /\ kbd' = Append(kbd, k)
  BY DEF TypeKey
<1>2. TypeOK'
  BY <1>1, BridgeAssumption DEF IInv, TypeOK, TypeKey
<1>3. TokensInStep' /\ SentencesWhole'
  BY ReaderFrame DEF TypeKey
<1>4. NothingReordered'
  <2>1. forwarded' = forwarded /\ inbuf' = inbuf /\ mpc' = mpc
    BY DEF TypeKey
  <2>2. /\ Len(typed') = Len(typed) + 1 /\ Len(kbd') = Len(kbd) + 1
        /\ \A i \in 1..Len(typed) : typed'[i] = typed[i]
        /\ typed'[Len(typed) + 1] = k
        /\ \A i \in 1..Len(kbd) : kbd'[i] = kbd[i]
        /\ kbd'[Len(kbd) + 1] = k
    BY <1>1 DEF IInv, TypeOK
  <2>3. Len(typed) \in Nat /\ Len(kbd) \in Nat /\ Len(inbuf) \in Nat /\ Len(forwarded) \in Nat
    BY DEF IInv, TypeOK
  <2>4. ASSUME NEW held \in {0, 1}, TypedIs(held) PROVE TypedIs(held)'
    <3>1. Len(typed') = Len(forwarded') + held + Len(inbuf') + Len(kbd')
      BY <2>1, <2>2, <2>3, <2>4 DEF TypedIs
    <3>2. /\ \A i \in 1..Len(forwarded) : i \in 1..Len(typed)
          /\ held = 1 => Len(forwarded) + 1 \in 1..Len(typed)
          /\ \A i \in 1..Len(inbuf) : Len(forwarded) + held + i \in 1..Len(typed)
      BY <2>3, <2>4 DEF TypedIs
    <3>3. ASSUME NEW i \in 1..Len(kbd')
          PROVE  typed'[Len(forwarded) + held + Len(inbuf) + i] = kbd'[i]
      <4>1. CASE i = Len(kbd) + 1
        <5>1. Len(forwarded) + held + Len(inbuf) + i = Len(typed) + 1
          BY <2>3, <2>4, <4>1 DEF TypedIs
        <5> QED
          BY <2>2, <4>1, <5>1
      <4>2. CASE i \in 1..Len(kbd)
        <5>1. Len(forwarded) + held + Len(inbuf) + i \in 1..Len(typed)
          BY <2>3, <2>4, <4>2 DEF TypedIs
        <5> QED
          BY <2>2, <2>4, <4>2, <5>1 DEF TypedIs
      <4> QED
        BY <2>2, <2>3, <4>1, <4>2
    <3> QED
      BY <2>1, <2>2, <2>4, <3>1, <3>2, <3>3 DEF TypedIs
  <2> QED
    BY <2>1, <2>2, <2>3, <2>4 DEF IInv, NothingReordered
<1> QED
  BY <1>2, <1>3, <1>4 DEF IInv, TypeKey, SomethingRead
(* What read(1) gives is the next byte typed, and the rest stays in order. *)
LEMMA ReadByteInOrder ==
  ASSUME IInv, NEW held \in {0, 1}, TypedIs(held), NEW c \in Keys, ReadByte(c)
  PROVE  LET f == Len(forwarded) + held + 1
         IN  /\ inbuf' \in Seq(Keys) /\ kbd' \in Seq(Keys) /\ typed' = typed
             /\ f <= Len(typed) /\ typed[f] = c
             /\ Len(typed) = f + Len(inbuf') + Len(kbd')
             /\ \A i \in 1..Len(inbuf') : typed[f + i] = inbuf'[i]
             /\ \A i \in 1..Len(kbd') : typed[f + Len(inbuf') + i] = kbd'[i]
<1> DEFINE f == Len(forwarded) + held + 1
<1>0. /\ inbuf \in Seq(Keys) /\ kbd \in Seq(Keys) /\ typed' = typed
      /\ Len(forwarded) \in Nat /\ Len(inbuf) \in Nat /\ Len(kbd) \in Nat
  BY DEF IInv, TypeOK, ReadByte
<1>1. CASE inbuf # <<>>
  <2>1. c = Head(inbuf) /\ inbuf' = Tail(inbuf) /\ kbd' = kbd
    BY <1>1 DEF ReadByte
  <2>2. /\ inbuf' \in Seq(Keys) /\ Len(inbuf') = Len(inbuf) - 1 /\ Len(inbuf) > 0
        /\ inbuf[1] = c /\ \A i \in 1..Len(inbuf') : inbuf'[i] = inbuf[i + 1]
    BY <1>0, <1>1, <2>1
  <2>3. f <= Len(typed) /\ typed[f] = c /\ Len(typed) = f + Len(inbuf') + Len(kbd')
    BY <1>0, <2>1, <2>2 DEF TypedIs
  <2>4. \A i \in 1..Len(inbuf') : typed[f + i] = inbuf'[i]
    <3> SUFFICES ASSUME NEW i \in 1..Len(inbuf') PROVE typed[f + i] = inbuf'[i]
      OBVIOUS
    <3>1. i + 1 \in 1..Len(inbuf) /\ f + i = Len(forwarded) + held + (i + 1)
      BY <1>0, <2>2
    <3> QED
      BY <2>2, <3>1 DEF TypedIs
  <2>5. \A i \in 1..Len(kbd') : typed[f + Len(inbuf') + i] = kbd'[i]
    <3> SUFFICES ASSUME NEW i \in 1..Len(kbd) PROVE typed[f + Len(inbuf') + i] = kbd[i]
      BY <2>1
    <3>1. f + Len(inbuf') + i = Len(forwarded) + held + Len(inbuf) + i
      BY <1>0, <2>2
    <3> QED
      BY <3>1 DEF TypedIs
  <2> QED
    BY <1>0, <2>1, <2>2, <2>3, <2>4, <2>5
<1>2. CASE inbuf = <<>>
  <2>1. kbd # <<>> /\ c = Head(kbd) /\ inbuf' = Tail(kbd) /\ kbd' = <<>>
    BY <1>2 DEF ReadByte
  <2>2. /\ inbuf' \in Seq(Keys) /\ Len(inbuf') = Len(kbd) - 1 /\ Len(kbd) > 0
        /\ kbd[1] = c /\ \A i \in 1..Len(inbuf') : inbuf'[i] = kbd[i + 1]
        /\ Len(inbuf) = 0 /\ Len(kbd') = 0 /\ kbd' \in Seq(Keys)
    BY <1>0, <1>2, <2>1
  <2>3. f <= Len(typed) /\ typed[f] = c /\ Len(typed) = f + Len(inbuf') + Len(kbd')
    BY <1>0, <2>1, <2>2 DEF TypedIs
  <2>4. \A i \in 1..Len(inbuf') : typed[f + i] = inbuf'[i]
    <3> SUFFICES ASSUME NEW i \in 1..Len(inbuf') PROVE typed[f + i] = inbuf'[i]
      OBVIOUS
    <3>1. i + 1 \in 1..Len(kbd)
      BY <1>0, <2>2
    <3>2. f + i = Len(forwarded) + held + Len(inbuf) + (i + 1)
      BY <1>0, <2>2, <3>1
    <3> QED
      BY <2>2, <3>1, <3>2 DEF TypedIs
  <2> QED
    BY <1>0, <2>2, <2>3, <2>4
<1> QED
  BY <1>1, <1>2

(* The bytes that go to QEMU together are those that were typed next. *)
LEMMA ForwardInOrder ==
  ASSUME IInv, NEW held \in {0, 1}, TypedIs(held), NEW c \in Keys, ReadByte(c),
         NEW bytes \in Seq(Keys), Len(bytes) = held + 1, bytes[held + 1] = c,
         held = 1 => bytes[1] = "ctrlA", Forward(bytes)
  PROVE  /\ NothingReordered' /\ forwarded' \in Seq(Keys) /\ mpc' \in {"loop", "cleanup"}
         /\ running' = running
<1> DEFINE f == Len(forwarded) + held + 1
<1>1. /\ inbuf' \in Seq(Keys) /\ kbd' \in Seq(Keys) /\ typed' = typed
      /\ f <= Len(typed) /\ typed[f] = c
      /\ Len(typed) = f + Len(inbuf') + Len(kbd')
      /\ \A i \in 1..Len(inbuf') : typed[f + i] = inbuf'[i]
      /\ \A i \in 1..Len(kbd') : typed[f + Len(inbuf') + i] = kbd'[i]
  BY ReadByteInOrder
<1>2. forwarded \in Seq(Keys) /\ Len(forwarded) \in Nat
  BY DEF IInv, TypeOK
<1>3. CASE alive
  <2>1. forwarded' = forwarded \o bytes /\ mpc' = "loop"
    BY <1>3 DEF Forward
  <2>2. /\ forwarded' \in Seq(Keys) /\ Len(forwarded') = f
        /\ \A i \in 1..Len(forwarded) : forwarded'[i] = forwarded[i]
        /\ \A i \in 1..(held + 1) : forwarded'[Len(forwarded) + i] = bytes[i]
    BY <1>2, <2>1
  <2>3. \A i \in 1..f : typed[i] = forwarded'[i]
    <3> SUFFICES ASSUME NEW i \in 1..f PROVE typed[i] = forwarded'[i]
      OBVIOUS
    <3>1. CASE i \in 1..Len(forwarded)
      BY <2>2, <3>1 DEF TypedIs
    <3>2. CASE i = f
      <4>1. held + 1 \in 1..(held + 1) /\ f = Len(forwarded) + (held + 1)
        BY <1>2
      <4> QED
        BY <1>1, <2>2, <3>2, <4>1
    <3>3. CASE held = 1 /\ i = Len(forwarded) + 1
      <4>1. 1 \in 1..(held + 1)
        BY <3>3
      <4> QED
        BY <2>2, <3>3, <4>1 DEF TypedIs
    <3> QED
      BY <1>2, <3>1, <3>2, <3>3
  <2>4. TypedIs(0)'
    <3>1. f \in Nat /\ f + 0 = f
      BY <1>2
    <3> HIDE DEF f
    <3>2. /\ Len(typed') = Len(forwarded') + 0 + Len(inbuf') + Len(kbd')
          /\ \A i \in 1..Len(inbuf') : typed'[Len(forwarded') + 0 + i] = inbuf'[i]
          /\ \A i \in 1..Len(kbd') : typed'[Len(forwarded') + 0 + Len(inbuf') + i] = kbd'[i]
      BY <1>1, <2>2, <3>1
    <3> QED
      BY <1>1, <2>2, <2>3, <3>2 DEF TypedIs
  <2> QED
    BY <1>1, <1>2, <2>1, <2>2, <2>3, <2>4 DEF NothingReordered, Forward
<1>4. CASE ~alive
  BY <1>1, <1>2, <1>4 DEF Forward, NothingReordered, IInv
<1> QED
  BY <1>3, <1>4

(* Steps that only end the loop, or keep the byte Ctrl+A in hand. *)
LEMMA ReadKeyIInv == ASSUME IInv, ReadKey \/ ReadKey2 PROVE IInv'
<1>1. PICK c \in Keys : /\ ReadByte(c)
                        /\ \/ mpc = "read" /\ c = "ctrlA" /\ mpc' = "read2"
                              /\ UNCHANGED <<running, forwarded>>
                           \/ Exit
                           \/ mpc = "read" /\ Forward(<<c>>)
                           \/ mpc = "read2" /\ Forward(<<"ctrlA", c>>)
  BY DEF ReadKey, ReadKey2
<1>2. mpc \in {"read", "read2"} /\ UNCHANGED <<alive, emitted, reader, spoken>>
  BY DEF ReadKey, ReadKey2
<1> DEFINE held == IF mpc = "read2" THEN 1 ELSE 0
<1>3. held \in {0, 1} /\ TypedIs(held)
  BY <1>2 DEF IInv, NothingReordered
<1>4. /\ inbuf' \in Seq(Keys) /\ kbd' \in Seq(Keys) /\ typed' = typed
      /\ typed[Len(forwarded) + held + 1] = c
      /\ Len(typed) = Len(forwarded) + held + 1 + Len(inbuf') + Len(kbd')
      /\ \A i \in 1..Len(inbuf') : typed[Len(forwarded) + held + 1 + i] = inbuf'[i]
      /\ \A i \in 1..Len(kbd') : typed[Len(forwarded) + held + 1 + Len(inbuf') + i] = kbd'[i]
  <2> HIDE DEF held
  <2> QED
    BY <1>1, <1>3, ReadByteInOrder
<1>5. /\ NothingReordered' /\ forwarded' \in Seq(Keys)
      /\ mpc' \in {"loop", "cleanup", "read2"} /\ running' \in BOOLEAN
  <2>0. /\ forwarded \in Seq(Keys) /\ running \in BOOLEAN
        /\ Len(forwarded) <= Len(typed) /\ \A i \in 1..Len(forwarded) : typed[i] = forwarded[i]
    BY DEF IInv, TypeOK, NothingReordered
  <2>1. CASE mpc = "read" /\ c = "ctrlA" /\ mpc' = "read2" /\ UNCHANGED <<running, forwarded>>
    <3>1. TypedIs(1)'
      BY <1>4, <2>0, <2>1 DEF TypedIs
    <3> QED
      BY <1>4, <2>0, <2>1, <3>1 DEF NothingReordered
  <2>2. CASE Exit
    BY <1>4, <2>0, <2>2 DEF Exit, NothingReordered
  <2>3. CASE mpc = "read" /\ Forward(<<c>>)
    <3> DEFINE bytes == <<c>>
    <3>1. bytes \in Seq(Keys) /\ Len(bytes) = 0 + 1 /\ bytes[0 + 1] = c
      OBVIOUS
    <3>2. TypedIs(0) /\ Forward(bytes)
      BY <1>3, <2>3
    <3> HIDE DEF bytes
    <3> QED
      BY <1>1, <2>0, <3>1, <3>2, ForwardInOrder
  <2>4. CASE mpc = "read2" /\ Forward(<<"ctrlA", c>>)
    <3>0. typed \in Seq(Keys) /\ Len(forwarded) + 1 \in 1..Len(typed)
          /\ typed[Len(forwarded) + 1] = "ctrlA"
      BY <1>2, <1>3, <1>4, <2>4 DEF IInv, TypeOK, TypedIs
    <3>1. "ctrlA" \in Keys
      BY <3>0
    <3> DEFINE bytes == <<"ctrlA", c>>
    <3>2. /\ bytes \in Seq(Keys) /\ Len(bytes) = 1 + 1
          /\ bytes[1] = "ctrlA" /\ bytes[1 + 1] = c
      BY <3>1
    <3>3. TypedIs(1) /\ Forward(bytes)
      BY <1>3, <2>4
    <3> HIDE DEF bytes
    <3> QED
      BY <1>1, <2>0, <3>2, <3>3, ForwardInOrder
  <2> QED
    BY <1>1, <2>1, <2>2, <2>3, <2>4
<1>6. TypeOK'
  BY <1>2, <1>4, <1>5 DEF IInv, TypeOK
<1>7. TokensInStep' /\ SentencesWhole'
  BY <1>2, ReaderFrame
<1> QED
  BY <1>5, <1>6, <1>7 DEF IInv, SomethingRead
-----------------------------------------------------------------------------
(* The reader. *)

(* One more sentence: whole if it is the reader's, which then is later than *)
(* all that it spoke before; the start of an announcement if it is main's.  *)
LEMMA SpokenIsWhole ==
  ASSUME IInv, NEW words \in Seq(Nat), NEW who \in {"reader", "main"}, NEW a \in 1..MaxAnnouncements,
         spoken' = Append(spoken, [words |-> words, by |-> who]),
         IF who = "reader" THEN words = Announcement(a) ELSE IsPrefix(words, Announcement(a)),
         who = "reader" =>
           \A i \in 1..Len(spoken) : spoken[i].by = "reader" => spoken[i].words[1] < words[1]
  PROVE  SentencesWhole' /\ spoken' \in Seq([words : Seq(Nat), by : {"reader", "main"}])
<1> DEFINE e == [words |-> words, by |-> who]
<1>1. e \in [words : Seq(Nat), by : {"reader", "main"}] /\ e.words = words /\ e.by = who
  OBVIOUS
<1> HIDE DEF e
<1>2. /\ spoken' \in Seq([words : Seq(Nat), by : {"reader", "main"}])
      /\ Len(spoken') = Len(spoken) + 1 /\ Len(spoken) \in Nat
      /\ \A i \in 1..Len(spoken) : spoken'[i] = spoken[i]
      /\ spoken'[Len(spoken) + 1] = e
  <2>1. spoken' = Append(spoken, e)
    BY DEF e
  <2> QED
    BY <1>1, <2>1 DEF IInv, TypeOK
<1>3. ASSUME NEW i \in 1..Len(spoken')
      PROVE  \E b \in 1..MaxAnnouncements :
               IF spoken'[i].by = "reader" THEN spoken'[i].words = Announcement(b)
               ELSE IsPrefix(spoken'[i].words, Announcement(b))
  <2>1. CASE i = Len(spoken) + 1
    BY <1>1, <1>2, <2>1
  <2>2. CASE i \in 1..Len(spoken)
    BY <1>2, <2>2 DEF IInv, SentencesWhole
  <2> QED
    BY <1>2, <2>1, <2>2
<1>4. ASSUME NEW i \in 1..Len(spoken'), NEW j \in 1..Len(spoken'), i < j,
             spoken'[i].by = "reader", spoken'[j].by = "reader"
      PROVE  spoken'[i].words[1] < spoken'[j].words[1]
  <2>1. CASE j = Len(spoken) + 1
    <3>1. i \in 1..Len(spoken)
      BY <1>2, <1>4, <2>1
    <3> QED
      BY <1>1, <1>2, <1>4, <2>1, <3>1
  <2>2. CASE j \in 1..Len(spoken)
    <3>1. i \in 1..Len(spoken)
      BY <1>2, <1>4, <2>2
    <3> QED
      BY <1>2, <1>4, <2>2, <3>1 DEF IInv, SentencesWhole
  <2> QED
    BY <1>2, <2>1, <2>2
<1> QED
  BY <1>2, <1>3, <1>4 DEF SentencesWhole

(* A line that the reader takes keeps it: what is spoken at END is one      *)
(* announcement.                                                            *)
LEMMA ReadLineIInv == ASSUME IInv, ReadLine PROVE IInv'
<1>0. PICK a \in Nat, r \in 0..TokensPer : ReaderAt(a, r)
  BY DEF IInv, TokensInStep
<1>1. /\ rpc = "read" /\ consumed < emitted /\ consumed' = consumed + 1
      /\ UNCHANGED <<alive, emitted, running, mpc, keyboard>>
  BY DEF ReadLine
<1>2. /\ consumed = a * Lines + r /\ a * Lines \in Nat /\ consumed \in Nat
      /\ Len(tokens) = r /\ \A i \in 1..r : tokens[i] = a * Lines + i
      /\ tokens \in Seq(Nat)
      /\ \A i \in 1..Len(spoken) : spoken[i].by = "reader" => spoken[i].words[1] <= First(a)
  BY <1>0, <1>1, LinesPositive DEF ReaderAt, IInv, TypeOK
<1>3. NothingReordered' /\ SomethingRead'
  BY <1>1, <1>2, KeyboardFrame DEF IInv, SomethingRead
<1>4. emitted \in Nat /\ consumed' \in 0..emitted' /\ emitted <= MaxAnnouncements * Lines
  <2>1. MaxAnnouncements * Lines \in Nat
    BY LinesPositive, BridgeAssumption
  <2>2. emitted \in 0..(MaxAnnouncements * Lines) /\ emitted' = emitted
    BY <1>1 DEF IInv, TypeOK, Lines
  <2> QED
    BY <1>1, <1>2, <2>1, <2>2
<1>5. CASE r < TokensPer
  <2>1. r + 1 \in 0..TokensPer /\ r + 1 # 0 /\ consumed' = a * Lines + (r + 1)
    BY <1>1, <1>2, <1>5, BridgeAssumption
  <2>2. ~IsEnd(consumed')
    BY <2>1, EndOfAnnouncement
  <2>3. tokens' = Append(tokens, consumed') /\ rpc' = "check" /\ spoken' = spoken
    BY <2>2 DEF ReadLine
  <2>4. /\ tokens' \in Seq(Nat) /\ Len(tokens') = r + 1
        /\ \A i \in 1..(r + 1) : tokens'[i] = a * Lines + i
    BY <1>1, <1>2, <2>1, <2>3
  <2>5. ReaderAt(a, r + 1)'
    BY <1>2, <2>1, <2>3, <2>4 DEF ReaderAt
  <2>6. TokensInStep'
    BY <2>1, <2>5 DEF TokensInStep
  <2>7. TypeOK' /\ SentencesWhole'
    BY <1>1, <1>4, <2>3, <2>4 DEF IInv, TypeOK, SentencesWhole
  <2> QED
    BY <1>3, <2>6, <2>7 DEF IInv
<1>6. CASE r = TokensPer
  <2>1. consumed' = (a + 1) * Lines + 0 /\ a + 1 \in Nat \ {0} /\ 0 \in 0..TokensPer
    BY <1>1, <1>2, <1>6, BridgeAssumption DEF Lines
  <2>2. IsEnd(consumed')
    BY <2>1, EndOfAnnouncement
  <2>3. a + 1 \in 1..MaxAnnouncements
    <3>1. (a + 1) * Lines + 0 <= MaxAnnouncements * Lines
      <4>1. MaxAnnouncements * Lines \in Int
        BY LinesPositive, BridgeAssumption
      <4>2. PICK m : m = MaxAnnouncements * Lines
        OBVIOUS
      <4>3. consumed' <= m
        BY <1>1, <1>2, <1>4, <4>1, <4>2
      <4> QED
        BY <2>1, <4>2, <4>3, Zenon
    <3>2. a + 1 <= MaxAnnouncements
      BY <2>1, <3>1, AnnouncementInBound
    <3> QED
      BY <3>2, BridgeAssumption
  <2>4. tokens # <<>>
    BY <1>2, <1>6, BridgeAssumption
  <2>5. /\ tokens' = tokens /\ rpc' = "speak"
        /\ spoken' = Append(spoken, [words |-> tokens, by |-> "reader"])
    BY <2>2, <2>4 DEF ReadLine
  <2>6. tokens = Announcement(a + 1)
    <3>1. /\ Announcement(a + 1) \in Seq(Nat) /\ Len(Announcement(a + 1)) = TokensPer
          /\ \A i \in 1..TokensPer : Announcement(a + 1)[i] = a * Lines + i
      BY <2>1, AnnouncementSeq
    <3> QED
      BY <1>2, <1>6, <3>1, SeqEqual
  <2>7. First(a + 1) = First(a) + Lines /\ tokens[1] = First(a + 1) /\ First(a) \in Int
        /\ First(a + 1) \in Nat
    <3>1. a + 1 \in Nat \ {0} /\ (a + 1) - 1 = a /\ a - 1 \in Int /\ Lines \in Nat
      BY <1>2, LinesPositive
    <3>2. (a - 1) * Lines \in Int /\ a * Lines = (a - 1) * Lines + Lines /\ a * Lines \in Nat
      BY <1>2, <3>1
    <3>3. tokens[1] = First(a + 1)
      BY <2>6, <3>1, AnnouncementSeq
    <3> QED
      BY <3>1, <3>2, <3>3 DEF First
  <2>8. \A i \in 1..Len(spoken) : spoken[i].by = "reader" =>
          spoken[i].words[1] \in Nat /\ spoken[i].words[1] < tokens[1]
    <3> SUFFICES ASSUME NEW i \in 1..Len(spoken), spoken[i].by = "reader"
                 PROVE  spoken[i].words[1] \in Nat /\ spoken[i].words[1] < tokens[1]
      OBVIOUS
    <3>1. PICK b \in 1..MaxAnnouncements : spoken[i].words = Announcement(b)
      BY DEF IInv, SentencesWhole
    <3>2. spoken[i].words[1] \in Nat
      <4>1. b \in Nat \ {0} /\ 1 \in 1..TokensPer
        BY BridgeAssumption
      <4>2. Announcement(b) \in Seq(Nat) /\ Len(Announcement(b)) = TokensPer
        BY <4>1, AnnouncementSeq
      <4>3. Announcement(b)[1] \in Nat
        BY <4>1, <4>2
      <4> QED
        BY <3>1, <4>3
    <3>3. PICK w, x, y : w = spoken[i].words[1] /\ x = First(a) /\ y = First(a + 1)
      OBVIOUS
    <3>4. w <= x /\ w \in Nat /\ x \in Int /\ y = x + Lines /\ tokens[1] = y
      BY <1>2, <2>7, <3>2, <3>3, Zenon
    <3>5. w < y
      BY <3>4, LinesPositive
    <3> QED
      BY <3>2, <3>3, <3>4, <3>5, Zenon
  <2>9. SentencesWhole' /\ spoken' \in Seq([words : Seq(Nat), by : {"reader", "main"}])
    BY <1>2, <2>3, <2>5, <2>6, <2>8, SpokenIsWhole
  <2>10. ReaderAt(a + 1, 0)'
    <3>1. \A i \in 1..Len(spoken') : spoken'[i].by = "reader" =>
            spoken'[i].words[1] <= First(a + 1)
      <4>1. spoken \in Seq([words : Seq(Nat), by : {"reader", "main"}])
        BY DEF IInv, TypeOK
      <4>2. /\ Len(spoken') = Len(spoken) + 1 /\ Len(spoken) \in Nat
            /\ \A i \in 1..Len(spoken) : spoken'[i] = spoken[i]
            /\ spoken'[Len(spoken) + 1].words = tokens
        BY <1>2, <2>5, <4>1
      <4>3. ASSUME NEW i \in 1..Len(spoken), spoken'[i].by = "reader"
            PROVE  spoken'[i].words[1] <= First(a + 1)
        <5>1. PICK w, y : w = spoken[i].words[1] /\ y = First(a + 1)
          OBVIOUS
        <5>2. w \in Nat /\ y \in Nat /\ w < y
          BY <2>7, <2>8, <4>2, <4>3, <5>1, Zenon
        <5>3. w <= y
          BY <5>2
        <5> QED
          BY <4>2, <5>1, <5>3, Zenon
      <4>4. spoken'[Len(spoken) + 1].words[1] <= First(a + 1)
        BY <2>7, <4>2
      <4>5. 1..Len(spoken') = 1..Len(spoken) \cup {Len(spoken) + 1}
        BY <4>2
      <4> QED
        BY <4>3, <4>4, <4>5, Zenon
    <3> QED
      BY <2>1, <2>5, <2>6, <3>1 DEF ReaderAt
  <2>11. TokensInStep'
    BY <2>1, <2>10 DEF TokensInStep
  <2>12. TypeOK'
    BY <1>1, <1>4, <2>5, <2>9 DEF IInv, TypeOK
  <2> QED
    BY <1>3, <2>9, <2>11, <2>12 DEF IInv
<1> QED
  BY <1>5, <1>6, BridgeAssumption

(* The reader goes on after it has spoken. *)
LEMMA SpeakEndsIInv == ASSUME IInv, SpeakEnds PROVE IInv'
<1> USE DEF SpeakEnds
<1>0. PICK a \in Nat, r \in 0..TokensPer : ReaderAt(a, r)
  BY DEF IInv, TokensInStep
<1>1. r = 0 /\ tokens' = <<>>
  BY <1>0 DEF ReaderAt
<1>2. ReaderAt(a, 0)'
  BY <1>0, <1>1 DEF ReaderAt
<1>3. TokensInStep'
  BY <1>1, <1>2 DEF TokensInStep
<1>4. NothingReordered'
  BY KeyboardFrame
<1>5. TypeOK'
  BY <1>1 DEF IInv, TypeOK
<1> QED
  BY <1>3, <1>4, <1>5 DEF IInv, SomethingRead, SentencesWhole

(* Whatever tokens holds when main reads it, while the reader may be in the *)
(* midst of a sentence or have cleared it, is the start of an announcement. *)
LEMMA SpeakRemainingIInv == ASSUME IInv, SpeakRemaining PROVE IInv'
<1> USE DEF SpeakRemaining
<1>0. PICK a \in Nat, r \in 0..TokensPer : ReaderAt(a, r)
  BY DEF IInv, TokensInStep
<1>1. /\ tokens \in Seq(Nat) /\ a * Lines \in Nat /\ consumed >= 1
      /\ consumed <= MaxAnnouncements * Lines
  <2>1. MaxAnnouncements * Lines \in Nat
    BY LinesPositive, BridgeAssumption
  <2> QED
    BY <2>1, LinesPositive DEF IInv, TypeOK, SomethingRead, Lines
<1>2. a <= MaxAnnouncements /\ (r > 0 => a + 1 <= MaxAnnouncements)
  BY <1>0, <1>1, AnnouncementInBound DEF ReaderAt
<1>3. r = 0 => a >= 1
  BY <1>0, <1>1, LinesPositive DEF ReaderAt
<1>4. \E b \in 1..MaxAnnouncements : IsPrefix(tokens, Announcement(b))
  <2>1. CASE rpc = "speak"
    <3>1. a \in 1..MaxAnnouncements /\ tokens = Announcement(a)
      BY <1>0, <1>2, <2>1, BridgeAssumption DEF ReaderAt
    <3>2. IsPrefix(tokens, Announcement(a))
      BY <1>1, <3>1, PrefixByElements
    <3> QED
      BY <3>1, <3>2
  <2>2. CASE rpc # "speak" /\ r = 0
    <3>1. a \in 1..MaxAnnouncements /\ Len(tokens) = 0
      BY <1>0, <1>2, <1>3, <2>2, BridgeAssumption DEF ReaderAt
    <3>2. Announcement(a) \in Seq(Nat) /\ Len(tokens) <= Len(Announcement(a))
      BY <3>1, AnnouncementSeq, BridgeAssumption
    <3>3. \A i \in 1..Len(tokens) : tokens[i] = Announcement(a)[i]
      BY <3>1
    <3>4. IsPrefix(tokens, Announcement(a))
      BY <1>1, <3>2, <3>3, PrefixByElements
    <3> QED
      BY <3>1, <3>4
  <2>3. CASE rpc # "speak" /\ r > 0
    <3>1. /\ a + 1 \in 1..MaxAnnouncements /\ Len(tokens) = r
          /\ \A i \in 1..r : tokens[i] = a * Lines + i
      BY <1>0, <1>2, <2>3, BridgeAssumption DEF ReaderAt
    <3>2. /\ Announcement(a + 1) \in Seq(Nat) /\ Len(Announcement(a + 1)) = TokensPer
          /\ \A i \in 1..TokensPer : Announcement(a + 1)[i] = a * Lines + i
      <4>1. a + 1 \in Nat \ {0} /\ (a + 1) - 1 = a
        OBVIOUS
      <4> QED
        BY <4>1, AnnouncementSeq
    <3>3. /\ Len(tokens) <= Len(Announcement(a + 1))
          /\ \A i \in 1..Len(tokens) : tokens[i] = Announcement(a + 1)[i]
      BY <3>1, <3>2, BridgeAssumption
    <3>4. IsPrefix(tokens, Announcement(a + 1))
      BY <1>1, <3>2, <3>3, PrefixByElements
    <3> QED
      BY <3>1, <3>4
  <2> QED
    BY <2>1, <2>2, <2>3, BridgeAssumption
<1>5. SentencesWhole' /\ spoken' \in Seq([words : Seq(Nat), by : {"reader", "main"}])
  BY <1>1, <1>4, SpokenIsWhole
<1>6. TokensInStep'
  <2>1. spoken \in Seq([words : Seq(Nat), by : {"reader", "main"}])
    BY DEF IInv, TypeOK
  <2>2. /\ Len(spoken') = Len(spoken) + 1 /\ Len(spoken) \in Nat
        /\ \A i \in 1..Len(spoken) : spoken'[i] = spoken[i]
        /\ spoken'[Len(spoken) + 1].by = "main"
    BY <1>1, <2>1
  <2>3. ReaderAt(a, r)'
    BY <1>0, <2>2 DEF ReaderAt
  <2> QED
    BY <2>3 DEF TokensInStep
<1>7. NothingReordered'
  BY KeyboardFrame
<1>8. TypeOK'
  BY <1>5 DEF IInv, TypeOK
<1> QED
  BY <1>5, <1>6, <1>7, <1>8 DEF IInv, SomethingRead

-----------------------------------------------------------------------------
(* Every reachable state satisfies the inductive invariant. *)
THEOREM IInvHolds == BridgeSpec => []IInv
<1>1. IInv /\ [Next]_vars => IInv'
  <2> SUFFICES ASSUME IInv, [Next]_vars PROVE IInv'
    OBVIOUS
  <2>1. CASE Next
    BY <2>1, QuietIInv, AnyTokensIInv, TypeKeyIInv, ReadKeyIInv, ReadLineIInv, SpeakEndsIInv,
       SpeakRemainingIInv DEF Next, read_output, main
  <2>2. CASE UNCHANGED vars
    <3>1. TokensInStep' /\ SentencesWhole' /\ NothingReordered'
      BY <2>2, ReaderFrame, KeyboardFrame DEF vars
    <3> QED
      BY <2>2, <3>1 DEF vars, IInv, TypeOK, SomethingRead
  <2> QED
    BY <2>1, <2>2
<1>2. [BridgeNext]_<<vars, stream>> => [Next]_vars
  BY DEF BridgeNext
<1>3. BridgeInit => IInv
  BY InitIInv DEF BridgeInit
<1> QED
  BY <1>1, <1>2, <1>3, PTL DEF BridgeSpec

(* The reader speaks whole announcements, each once and in their order, and *)
(* what the main thread finds in the list it shares with the reader is the  *)
(* start of one, wherever the reader is.                                    *)
THEOREM SentencesAreWhole == BridgeSpec => []SentencesWhole
BY IInvHolds, PTL DEF IInv

(* QEMU's input is a prefix of what was typed: no key is reordered or       *)
(* repeated between the terminal, Python's buffer and the pipe.             *)
THEOREM KeysInOrder == BridgeSpec => []ForwardedInOrder
<1>1. IInv => ForwardedInOrder
  <2> SUFFICES ASSUME IInv PROVE ForwardedInOrder
    OBVIOUS
  <2>1. forwarded \in Seq(Keys) /\ typed \in Seq(Keys)
    BY DEF IInv, TypeOK
  <2>2. IsPrefix(forwarded, typed)
    BY <2>1, PrefixByElements DEF IInv, NothingReordered
  <2> QED
    BY <2>2 DEF IInv, NothingReordered, TypedIs, ForwardedInOrder
<1> QED
  BY <1>1, IInvHolds, PTL

-----------------------------------------------------------------------------
HIDE DEF reader, keyboard

(* The stream of characters.                                               *)
(*                                                                         *)
(* The kinds of pieces. *)
tok == <<"tok", Ts!None>>
en == <<"en", Ts!None>>
fin == <<"end", Ts!None>>
text == <<"text", Ts!None>>
head(w) == <<"head", w>>
tail(w) == <<"tail", w>>

(* Where SPEECH is.  Below, m is the mode, t the writer, s the number of    *)
(* its changes, ns the noisy announcements, p the position of SPEECH and b  *)
(* the bridge; q and c are the latter two after a step.                     *)
sp == pos["SPEECH"]

(* The line at p. *)
LineAt(p) == Ts!speech_task(p.text + 1)[p.line + 1]

(* SPEECH can be at p: within a line of an announcement, or done. *)
PosOK(p) ==
  /\ p \in [text : Nat, line : Nat, col : Nat]
  /\ p.text <= MaxSpoken /\ p.line <= WordsPer + 5 /\ p.col <= Len(LineAt(p)) + 1
  /\ p.text = MaxSpoken => p.line = 0 /\ p.col = 0

(* SPEECH is in the middle of an announcement. *)
Begun(p) == p.line > 0 \/ p.col > 0

(* The states of the bridge. *)
BridgeType ==
  [line : Seq(Ts!Pieces), cr : BOOLEAN, tokens : Seq(Seq(Ts!Pieces)),
   spoken : Seq(Seq(Seq(Ts!Pieces)) \ {<<>>})]

(* The places of what is heard, and what is heard there. *)
PlacesOf(b) ==
  LET S == Append(b.spoken, b.tokens) IN UNION {{i} \X (1..Len(S[i])) : i \in 1..Len(S)}
AtOf(b, x) == Append(b.spoken, b.tokens)[x[1]][x[2]]

(* Word w is heard; the places of what is heard and was not sent; the words *)
(* that are heard come in their order.                                      *)
Heard(b, w) == \E x \in PlacesOf(b) : AtOf(b, x) = Ts!Word(w)
NoiseOf(b) == {x \in PlacesOf(b) : \A w \in Ts!Ids : AtOf(b, x) # Ts!Word(w)}
OrderOf(b) ==
  \A x, y \in PlacesOf(b) : \A v, w \in Ts!Ids :
    Ts!Sooner(x, y) /\ AtOf(b, x) = Ts!Word(v) /\ AtOf(b, y) = Ts!Word(w) => Ts!Sooner(v, w)

(* The line l is what SPEECH, at p, has put of its line. *)
Got(p) == IF p.col <= Len(LineAt(p)) THEN p.col ELSE Len(LineAt(p))
Holds(l, p) == Len(l) = Got(p) /\ \A i \in 1..Len(l) : l[i] = LineAt(p)[i]

(* A word whose line is out; one whose line is being printed; one whose     *)
(* first half is out.                                                       *)
Past(p, w) == w[1] <= p.text \/ (w[1] = p.text + 1 /\ w[2] + 3 <= p.line)
Open(p, w) == w[1] = p.text + 1 /\ w[2] + 3 = p.line + 1
Put(p, w) == Past(p, w) \/ (Open(p, w) /\ p.col >= 3)

(* A "\r" alone is only remembered where pipe_mode has taken the line. *)
CrAlone(m, b) == b.cr => b.line = <<>> /\ m = "pipe"

(* SPEECH begins a line after its own with nothing before it. *)
BoundaryEmpty(t, p, b) == t = "SPEECH" /\ p.col = 0 => b.line = <<>>

(* The words that are lost: out and not heard, or being printed and cut. *)
Intact(m, t, p, b) ==
  t = "SPEECH" /\ Holds(b.line, p) /\ (m = "pipe" => p.col <= Len(LineAt(p)))
Bad(m, t, p, b) ==
  {w \in Ts!Ids :
     (Past(p, w) \/ (Open(p, w) /\ p.col > 0 /\ ~Intact(m, t, p, b))) /\ ~Heard(b, w)}
LostBound(m, t, p, b, s) == IsFiniteSet(Bad(m, t, p, b)) /\ Cardinality(Bad(m, t, p, b)) <= s

(* The line in progress may become a token that nobody sent. *)
Threat(t, p, b) ==
  b.line # <<>> /\ b.line[1] = tok /\ ~(t = "SPEECH" /\ p.col > 0 /\ Holds(b.line, p))
NoiseBound(t, p, b, s) ==
  IsFiniteSet(NoiseOf(b)) /\ Cardinality(NoiseOf(b)) + (IF Threat(t, p, b) THEN 1 ELSE 0) <= s

(* What is heard was put, and what may be heard next was put later. *)
HeadsOut(p, b) ==
  /\ \A w \in Ts!Ids : Heard(b, w) => Put(p, w)
  /\ \A w \in Ts!Ids : \A k \in 1..Len(b.line) : b.line[k] = head(w) =>
       Put(p, w) /\ \A v \in Ts!Ids : Heard(b, v) => Ts!Sooner(v, w)

(* The lines of the announcement that the bridge has taken, if it got all. *)
Taken(m, p) == p.line + (IF m = "pipe" /\ p.col = Len(LineAt(p)) + 1 THEN 1 ELSE 0)

(* Nothing disturbed announcement a or one before it; a is spoken, alone if *)
(* that is so.                                                              *)
Quiet(ns, a) == (1..a) \cap ns = {}
SpokenAs(b, a, ns) ==
  \E i \in 1..Len(b.spoken) :
      /\ Ts!EndsWith(b.spoken[i], Ts!Sentence(a))
      /\ Quiet(ns, a) => b.spoken[i] = Ts!Sentence(a)

(* The last k tokens are the first k words of announcement a. *)
LastWords(ts, a, k) ==
  Len(ts) >= k /\ \A i \in 1..k : ts[Len(ts) - k + i] = Ts!Word(<<a, i>>)

(* The bridge after n lines of announcement a; and if all was quiet. *)
Stood(n, b, a, ns) ==
  /\ n \in 3..(WordsPer + 3) => LastWords(b.tokens, a, n - 3)
  /\ n >= WordsPer + 4 => b.tokens = <<>> /\ SpokenAs(b, a, ns)
Still(n, b) ==
  /\ n <= 3 => b.tokens = <<>>
  /\ n \in 3..(WordsPer + 3) => Len(b.tokens) = n - 3

(* In an announcement that is not disturbed the bridge keeps pace; if none  *)
(* was, it holds nothing else.                                              *)
Stage(m, t, ns, p, b) ==
  Begun(p) /\ p.text + 1 \notin ns =>
    LET n == Taken(m, p)
    IN  /\ t = "SPEECH"
        /\ n >= 1 => IF n > p.line THEN b.line = <<>> ELSE Holds(b.line, p)
        /\ Stood(n, b, p.text + 1, ns)
Calm(m, ns, p, b) ==
  Quiet(ns, p.text + 1) =>
    /\ Taken(m, p) = 0 => b.line = <<>> \/ b.line[1] = text
    /\ Still(Taken(m, p), b)

(* The announcements that are out and were not disturbed are spoken. *)
Said(ns, p, b) == \A a \in 1..p.text : a \notin ns => SpokenAs(b, a, ns)
-----------------------------------------------------------------------------
(* The pieces and the lines of SPEECH. *)

(* The constants of the stream. *)
LEMMA StreamConst ==
  /\ WordsPer \in Nat \ {0} /\ MaxSpoken \in Nat /\ MaxKeyLines \in Nat /\ MaxNtpLines \in Nat
  /\ MaxPipe \in Nat
BY StreamConstants DEF Ts!StreamAssumption

(* The pieces are what they look like, and differ. *)
LEMMA PiecesDiffer ==
  /\ tok \in Ts!Pieces /\ en \in Ts!Pieces /\ text \in Ts!Pieces /\ fin \in Ts!Pieces
  /\ \A w \in Ts!Ids : head(w) \in Ts!Pieces /\ tail(w) \in Ts!Pieces
  /\ Ts!CR \notin Ts!Pieces /\ Ts!LF \notin Ts!Pieces /\ Ts!CR # Ts!LF
  /\ text # tok /\ text # fin /\ tok # fin /\ tok # en
  /\ \A w \in Ts!Ids : tok # head(w) /\ text # head(w) /\ fin # head(w) /\ en # head(w)
  /\ \A v \in Ts!Ids, w \in Ts!Ids : tail(v) # head(w) /\ (head(v) = head(w) => v = w)
  /\ \A w \in Ts!Ids : tok # tail(w)
BY DEF tok, en, text, fin, head, tail, Ts!Pieces, Ts!CR, Ts!LF, Ts!None

(* Words, by their halves. *)
LEMMA WordIs ==
  ASSUME NEW w \in Ts!Ids
  PROVE  /\ Ts!Word(w) \in Seq(Ts!Pieces) /\ Len(Ts!Word(w)) = 2
         /\ Ts!Word(w)[1] = head(w) /\ Ts!Word(w)[2] = tail(w)
<1>1. head(w) \in Ts!Pieces /\ tail(w) \in Ts!Pieces
  BY PiecesDiffer
<1>2. Ts!Word(w) = <<head(w), tail(w)>>
  BY DEF Ts!Word, head, tail
<1> HIDE DEF Ts!Word
<1> QED
  BY <1>1, <1>2

(* The lines that are not words. *)
LEMMA PlainLines ==
  /\ Ts!Text \in Seq(Ts!Pieces) /\ Len(Ts!Text) = 1 /\ Ts!Text[1] = text
  /\ Ts!End \in Seq(Ts!Pieces) /\ Len(Ts!End) = 1 /\ Ts!End[1] = fin
  /\ Ts!Prefix \in Seq(Ts!Pieces) /\ Len(Ts!Prefix) = 2 /\ Ts!Prefix[1] = tok /\ Ts!Prefix[2] = en
<1>1. Ts!Text = <<text>> /\ Ts!End = <<fin>> /\ Ts!Prefix = <<tok, en>>
  BY DEF Ts!Text, Ts!End, Ts!Prefix, text, fin, tok, en
<1>2. tok \in Ts!Pieces /\ en \in Ts!Pieces /\ text \in Ts!Pieces /\ fin \in Ts!Pieces
  BY PiecesDiffer
<1> QED
  BY <1>1, <1>2

(* A TOKEN line. *)
LEMMA TokenLine ==
  ASSUME NEW w \in Ts!Ids, NEW l, l = Ts!uart_send_token(w)
  PROVE  /\ l \in Seq(Ts!Pieces) /\ Len(l) = 4
         /\ l[1] = tok /\ l[2] = en /\ l[3] = head(w) /\ l[4] = tail(w)
<1>1. PICK p \in Seq(Ts!Pieces), q \in Seq(Ts!Pieces) :
        /\ l = p \o q /\ Len(p) = 2 /\ p[1] = tok /\ p[2] = en
        /\ Len(q) = 2 /\ q[1] = head(w) /\ q[2] = tail(w)
  BY WordIs, PlainLines DEF Ts!uart_send_token
<1>2. /\ p \o q \in Seq(Ts!Pieces)
      /\ Len(p \o q) = Len(p) + Len(q)
      /\ \A i \in 1 .. Len(p) + Len(q) : (p \o q)[i] = IF i <= Len(p) THEN p[i] ELSE q[i - Len(p)]
  BY ConcatProperties
<1> QED
  BY <1>1, <1>2

(* Concatenation, by its parts. *)
Joined(T, s, t, u) ==
  /\ u \in Seq(T) /\ Len(u) = Len(s) + Len(t)
  /\ \A i \in 1..Len(s) : u[i] = s[i]
  /\ \A i \in 1..Len(t) : u[Len(s) + i] = t[i]

(* Concatenation is that. *)
LEMMA ConcatIs ==
  ASSUME NEW T, NEW s \in Seq(T), NEW t \in Seq(T)
  PROVE  Joined(T, s, t, s \o t)
<1>0. PICK m \in Nat, n \in Nat : m = Len(s) /\ n = Len(t)
  OBVIOUS
<1>1. /\ s \o t \in Seq(T) /\ Len(s \o t) = m + n
      /\ \A i \in 1 .. m + n : (s \o t)[i] = IF i <= m THEN s[i] ELSE t[i - m]
  BY <1>0, ConcatProperties
<1>2. ASSUME NEW i \in 1..m PROVE (s \o t)[i] = s[i]
  BY <1>1
<1>3. ASSUME NEW i \in 1..n PROVE (s \o t)[m + i] = t[i]
  <2>1. m + i \in 1..(m + n) /\ ~(m + i <= m) /\ (m + i) - m = i
    OBVIOUS
  <2> QED
    BY <1>1, <2>1
<1> QED
  BY <1>0, <1>1, <1>2, <1>3 DEF Joined

(* Short sequences, by their elements. *)
LEMMA TupleIs ==
  ASSUME NEW T, NEW x \in T, NEW y \in T, NEW z \in T
  PROVE  /\ <<x>> \in Seq(T) /\ Len(<<x>>) = 1 /\ <<x>>[1] = x
         /\ <<z, x>> \in Seq(T) /\ Len(<<z, x>>) = 2 /\ <<z, x>>[1] = z /\ <<z, x>>[2] = x
         /\ <<y, x, z>> \in Seq(T) /\ Len(<<y, x, z>>) = 3
         /\ <<y, x, z>>[1] = y /\ <<y, x, z>>[2] = x /\ <<y, x, z>>[3] = z
OBVIOUS

(* The lines of an announcement, in their order. *)
LEMMA SpeechLines ==
  ASSUME NEW a \in Nat, NEW ls, ls = Ts!speech_task(a)
  PROVE  /\ Len(ls) = WordsPer + 6
         /\ ls[1] = Ts!Text /\ ls[2] = <<>> /\ ls[3] = Ts!Text
         /\ \A i \in 1..WordsPer : ls[3 + i] = Ts!uart_send_token(<<a, i>>)
         /\ ls[WordsPer + 4] = Ts!End /\ ls[WordsPer + 5] = Ts!Text /\ ls[WordsPer + 6] = <<>>
<1>0. PICK T : T = Seq(Ts!Pieces) \cup {Ts!uart_send_token(<<a, i>>) : i \in 1..WordsPer}
  OBVIOUS
<1>1. Ts!Text \in T /\ Ts!End \in T /\ <<>> \in T
  BY <1>0, PlainLines, EmptySeq
<1>2. PICK f \in Seq(T) : /\ f = [i \in 1..WordsPer |-> Ts!uart_send_token(<<a, i>>)]
                          /\ Len(f) = WordsPer /\ \A i \in 1..WordsPer : f[i] = Ts!uart_send_token(<<a, i>>)
  <2> DEFINE F == [i \in 1..WordsPer |-> Ts!uart_send_token(<<a, i>>)]
  <2>2. \A i \in 1..WordsPer : Ts!uart_send_token(<<a, i>>) \in T
    BY <1>0
  <2>3. F \in Seq(T) /\ Len(F) = WordsPer /\ \A i \in 1..WordsPer : F[i] = Ts!uart_send_token(<<a, i>>)
    BY <2>2, StreamConst
  <2> QED
    BY <2>3
<1>3. PICK x \in T, y \in T, z \in T : x = Ts!Text /\ y = Ts!End /\ z = <<>>
  BY <1>1
<1> DEFINE p == <<x>>
           q == <<z, x>>
           r == <<y, x, z>>
           u == q \o f
           v == u \o r
<1>4. p \in Seq(T) /\ Len(p) = 1 /\ p[1] = x
  BY TupleIs
<1>5. q \in Seq(T) /\ Len(q) = 2 /\ q[1] = z /\ q[2] = x
  BY TupleIs
<1>6. r \in Seq(T) /\ Len(r) = 3 /\ r[1] = y /\ r[2] = x /\ r[3] = z
  BY TupleIs
<1>7. ls = p \o v
  BY <1>2, <1>3 DEF Ts!speech_task, Ts!speak_time
<1>8. PICK m \in Nat : m = WordsPer
  BY StreamConst
<1> HIDE DEF p, q, r
<1>9. /\ u \in Seq(T) /\ Len(u) = 2 + m
      /\ \A i \in 1..2 : u[i] = q[i]
      /\ \A i \in 1..m : u[2 + i] = f[i]
  <2>1. 2 \in Nat /\ 2 = Len(q) /\ m = Len(f)
    BY <1>2, <1>5, <1>8
  <2>2. Joined(T, q, f, q \o f)
    BY <1>5, ConcatIs, Zenon
  <2> QED
    BY <2>1, <2>2 DEF Joined
<1> HIDE DEF u
<1>10. /\ v \in Seq(T) /\ Len(v) = (2 + m) + 3
       /\ \A i \in 1..(2 + m) : v[i] = u[i]
       /\ \A i \in 1..3 : v[(2 + m) + i] = r[i]
  <2>1. 2 + m \in Nat /\ 3 \in Nat /\ 2 + m = Len(u) /\ 3 = Len(r)
    BY <1>6, <1>9
  <2>2. Joined(T, u, r, u \o r)
    BY <1>6, <1>9, ConcatIs, Zenon
  <2> QED
    BY <2>1, <2>2 DEF Joined
<1> HIDE DEF v
<1>11. /\ ls \in Seq(T) /\ Len(ls) = 1 + ((2 + m) + 3)
       /\ \A i \in 1..1 : ls[i] = p[i]
       /\ \A i \in 1..((2 + m) + 3) : ls[1 + i] = v[i]
  <2>1. (2 + m) + 3 \in Nat /\ 1 \in Nat /\ (2 + m) + 3 = Len(v) /\ 1 = Len(p)
    BY <1>4, <1>10
  <2>2. Joined(T, p, v, p \o v)
    BY <1>4, <1>10, ConcatIs, Zenon
  <2> QED
    BY <1>7, <2>1, <2>2 DEF Joined
<1>12. ls[1] = x
  BY <1>4, <1>11
<1>13. ls[2] = z /\ ls[3] = x
  <2>1. ls[1 + 1] = v[1] /\ ls[1 + 2] = v[2]
    BY <1>11
  <2>2. v[1] = u[1] /\ v[2] = u[2]
    BY <1>10
  <2> QED
    BY <1>5, <1>9, <2>1, <2>2
<1>14. ASSUME NEW i \in 1..m PROVE ls[3 + i] = f[i]
  <2>1. 2 + i \in 1..((2 + m) + 3) /\ 2 + i \in 1..(2 + m) /\ 1 + (2 + i) = 3 + i
    OBVIOUS
  <2>2. ls[3 + i] = v[2 + i]
    BY <1>11, <2>1
  <2>3. v[2 + i] = u[2 + i]
    BY <1>10, <2>1
  <2>4. u[2 + i] = f[i]
    BY <1>9
  <2> QED
    BY <2>2, <2>3, <2>4, Zenon
<1>15. ls[m + 4] = y /\ ls[m + 5] = x /\ ls[m + 6] = z
  <2>1. ASSUME NEW i \in 1..3 PROVE ls[(m + 3) + i] = r[i]
    <3>1. (2 + m) + i \in 1..((2 + m) + 3) /\ 1 + ((2 + m) + i) = (m + 3) + i
      OBVIOUS
    <3> QED
      BY <1>10, <1>11, <3>1
  <2>2. m + 4 = (m + 3) + 1 /\ m + 5 = (m + 3) + 2 /\ m + 6 = (m + 3) + 3
    OBVIOUS
  <2> QED
    BY <1>6, <2>1, <2>2
<1>16. Len(ls) = m + 6
  BY <1>11
<1> QED
  BY <1>2, <1>3, <1>8, <1>11, <1>12, <1>13, <1>14, <1>15, <1>16

(* The pieces of a line, with those that end it. *)
LEMMA LineIs ==
  ASSUME NEW s \in Seq(Ts!Pieces), NEW c \in 0..(Len(s) + 1)
  PROVE  Ts!Line(s)[c + 1] = IF c < Len(s) THEN s[c + 1] ELSE IF c = Len(s) THEN Ts!CR ELSE Ts!LF
<1> DEFINE T == Ts!Pieces \cup {Ts!CR, Ts!LF}
<1>1. s \in Seq(T)
  BY SeqMonotonic
<1>2. PICK e \in Seq(T) : e = <<Ts!CR, Ts!LF>> /\ Len(e) = 2 /\ e[1] = Ts!CR /\ e[2] = Ts!LF
  <2>1. <<Ts!CR, Ts!LF>> \in Seq(T) /\ Len(<<Ts!CR, Ts!LF>>) = 2
    OBVIOUS
  <2> HIDE DEF T
  <2> QED
    BY <2>1
<1> HIDE DEF T
<1>3. \A i \in 1 .. Len(s) + Len(e) : (s \o e)[i] = IF i <= Len(s) THEN s[i] ELSE e[i - Len(s)]
  BY <1>1, ConcatProperties
<1>4. Ts!Line(s) = s \o e /\ Len(s) \in Nat
  BY <1>2 DEF Ts!Line
<1> QED
  BY <1>2, <1>3, <1>4
-----------------------------------------------------------------------------
(* The bridge takes pieces. *)

(* The line is a TOKEN line with something in it. *)
IsToken(l) == Len(l) >= 3 /\ l[1] = tok /\ l[2] = en

(* What follows "TOKEN " in it. *)
Rest(l) == SubSeq(l, 3, Len(l))

(* Nothing is heard. *)
Same(b, c) == c.tokens = b.tokens /\ c.spoken = b.spoken

(* The bridge takes the line l. *)
Handled(l, b, c) ==
  /\ c.line = <<>>
  /\ IsToken(l) => c.tokens = Append(b.tokens, Rest(l)) /\ c.spoken = b.spoken
  /\ l = Ts!End /\ b.tokens # <<>> => c.tokens = <<>> /\ c.spoken = Append(b.spoken, b.tokens)
  /\ ~IsToken(l) /\ ~(l = Ts!End /\ b.tokens # <<>>) => Same(b, c)

(* The fields of what the bridge keeps. *)
LEMMA BridgeFields ==
  ASSUME NEW b \in BridgeType
  PROVE  /\ b.line \in Seq(Ts!Pieces) /\ b.cr \in BOOLEAN /\ b.tokens \in Seq(Seq(Ts!Pieces))
         /\ b.spoken \in Seq(Seq(Seq(Ts!Pieces)) \ {<<>>})
         /\ Len(b.line) \in Nat /\ Len(b.tokens) \in Nat /\ Len(b.spoken) \in Nat
<1>1. /\ b.line \in Seq(Ts!Pieces) /\ b.cr \in BOOLEAN /\ b.tokens \in Seq(Seq(Ts!Pieces))
      /\ b.spoken \in Seq(Seq(Seq(Ts!Pieces)) \ {<<>>})
  BY DEF BridgeType
<1> QED
  BY <1>1, LenProperties

(* process_line looks for "TOKEN " in front. *)
LEMMA PrefixIs ==
  ASSUME NEW l \in Seq(Ts!Pieces)
  PROVE  (Ts!IsPrefix(Ts!Prefix, l) /\ l # Ts!Prefix) <=> IsToken(l)
<1>1. PICK p \in Seq(Ts!Pieces) : p = Ts!Prefix /\ Len(p) = 2 /\ p[1] = tok /\ p[2] = en
  BY PlainLines
<1>2. PICK n \in Nat : n = Len(l)
  BY LenProperties
<1>3. Ts!IsPrefix(p, l) <=> n >= 2 /\ l[1] = tok /\ l[2] = en
  <2>1. CASE n >= 2
    <3>1. /\ SubSeq(p, 1, 2) \in Seq(Ts!Pieces) /\ Len(SubSeq(p, 1, 2)) = 2
          /\ SubSeq(p, 1, 2)[1] = p[1] /\ SubSeq(p, 1, 2)[2] = p[2]
      <4>1. PICK k \in Nat : k = Len(p) /\ k >= 2
        BY <1>1
      <4> QED
        BY <4>1
    <3>2. /\ SubSeq(l, 1, 2) \in Seq(Ts!Pieces) /\ Len(SubSeq(l, 1, 2)) = 2
          /\ SubSeq(l, 1, 2)[1] = l[1] /\ SubSeq(l, 1, 2)[2] = l[2]
      BY <1>2, <2>1
    <3>3. SubSeq(p, 1, 2) = SubSeq(l, 1, 2) <=> l[1] = tok /\ l[2] = en
      BY <1>1, <3>1, <3>2
    <3> QED
      BY <1>1, <1>2, <2>1, <3>3 DEF Ts!IsPrefix
  <2>2. CASE ~(n >= 2)
    BY <1>1, <1>2, <2>2 DEF Ts!IsPrefix
  <2> QED
    BY <2>1, <2>2
<1>4. n = 2 /\ l[1] = tok /\ l[2] = en => l = p
  <2> SUFFICES ASSUME n = 2, l[1] = tok, l[2] = en PROVE l = p
    OBVIOUS
  <2>1. Len(l) = Len(p)
    BY <1>1, <1>2
  <2>2. \A i \in 1..Len(l) : l[i] = p[i]
    <3>1. \A i \in 1..2 : i = 1 \/ i = 2
      OBVIOUS
    <3> QED
      BY <1>1, <1>2, <3>1
  <2> QED
    BY <2>1, <2>2, SeqEqual, Zenon
<1>5. l = p => n = 2
  BY <1>1, <1>2
<1> QED
  BY <1>1, <1>2, <1>3, <1>4, <1>5 DEF IsToken

(* What follows "TOKEN ". *)
LEMMA RestIs ==
  ASSUME NEW l \in Seq(Ts!Pieces), IsToken(l)
  PROVE  /\ Rest(l) \in Seq(Ts!Pieces) /\ Len(Rest(l)) = Len(l) - 2
         /\ \A i \in 1..(Len(l) - 2) : Rest(l)[i] = l[i + 2]
BY DEF Rest, IsToken

(* process_line takes the line. *)
LEMMA ProcessIs ==
  ASSUME NEW b \in BridgeType
  PROVE  /\ Ts!process_line(b) \in BridgeType
         /\ Handled(b.line, b, Ts!process_line(b))
         /\ Ts!process_line(b).cr = b.cr
<1> DEFINE c == Ts!process_line(b)
           rest == Ts!line_reset(b)
<1>0. /\ b.line \in Seq(Ts!Pieces) /\ b.cr \in BOOLEAN /\ b.tokens \in Seq(Seq(Ts!Pieces))
      /\ b.spoken \in Seq(Seq(Seq(Ts!Pieces)) \ {<<>>})
  BY BridgeFields
<1>1. /\ rest \in BridgeType /\ rest.line = <<>> /\ rest.cr = b.cr
      /\ rest.tokens = b.tokens /\ rest.spoken = b.spoken
  <2>1. <<>> \in Seq(Ts!Pieces)
    BY EmptySeq
  <2> QED
    BY <1>0, <2>1 DEF Ts!line_reset, BridgeType
<1>2. Ts!IsPrefix(Ts!Prefix, b.line) /\ b.line # Ts!Prefix <=> IsToken(b.line)
  BY <1>0, PrefixIs
<1> HIDE DEF rest
<1>3. CASE IsToken(b.line)
  <2>1. Len(Ts!Prefix) + 1 = 3
    BY PlainLines
  <2>2. c = [rest EXCEPT !.tokens = Append(@, Rest(b.line))]
    BY <1>2, <1>3, <2>1, Zenon DEF Ts!process_line, Rest, rest
  <2>3. Rest(b.line) \in Seq(Ts!Pieces)
    BY <1>0, <1>3, RestIs
  <2>4. Append(rest.tokens, Rest(b.line)) \in Seq(Seq(Ts!Pieces))
    BY <1>0, <1>1, <2>3, AppendProperties
  <2>5. /\ c \in BridgeType /\ c.line = <<>> /\ c.cr = b.cr
        /\ c.tokens = Append(b.tokens, Rest(b.line)) /\ c.spoken = b.spoken
    BY <1>1, <2>2, <2>4 DEF BridgeType
  <2>6. b.line # Ts!End
    BY <1>3, PlainLines DEF IsToken
  <2> QED
    BY <1>3, <2>5, <2>6 DEF Handled
<1>4. CASE ~IsToken(b.line) /\ b.line = Ts!End /\ b.tokens # <<>>
  <2>1. c = Ts!speak(rest)
    BY <1>1, <1>2, <1>4, Zenon DEF Ts!process_line, Ts!SpeakTokens, rest
  <2>2. Append(rest.spoken, rest.tokens) \in Seq(Seq(Seq(Ts!Pieces)) \ {<<>>})
    <3>1. b.tokens \in Seq(Seq(Ts!Pieces)) \ {<<>>}
      BY <1>0, <1>4
    <3> QED
      BY <1>0, <1>1, <3>1, AppendProperties
  <2>3. <<>> \in Seq(Seq(Ts!Pieces))
    BY EmptySeq
  <2>4. /\ c \in BridgeType /\ c.line = <<>> /\ c.cr = b.cr
        /\ c.tokens = <<>> /\ c.spoken = Append(b.spoken, b.tokens)
    BY <1>1, <2>1, <2>2, <2>3 DEF Ts!speak, Ts!tokens_clear, BridgeType
  <2> QED
    BY <1>4, <2>4 DEF Handled
<1>5. CASE ~IsToken(b.line) /\ ~(b.line = Ts!End /\ b.tokens # <<>>)
  <2>1. c = rest
    BY <1>1, <1>2, <1>5, Zenon DEF Ts!process_line, Ts!SpeakTokens, rest
  <2> QED
    BY <1>1, <1>5, <2>1 DEF Handled, Same
<1> QED
  BY <1>3, <1>4, <1>5

(* A piece that does not end a line. *)
LEMMA FeedPiece ==
  ASSUME NEW b \in BridgeType, NEW p \in Ts!Pieces
  PROVE  /\ Ts!Feed(b, p) \in BridgeType
         /\ Ts!Feed(b, p).line = Append(b.line, p) /\ Ts!Feed(b, p).cr = FALSE
         /\ Same(b, Ts!Feed(b, p))
<1>1. p # Ts!CR /\ p # Ts!LF
  BY PiecesDiffer
<1>2. Append(b.line, p) \in Seq(Ts!Pieces)
  BY BridgeFields, AppendProperties
<1>3. Ts!Feed(b, p) = [b EXCEPT !.line = Append(@, p), !.cr = FALSE]
  BY <1>1 DEF Ts!Feed
<1> QED
  BY <1>2, <1>3 DEF BridgeType, Same

(* "\r" is nothing to read_output and ends a line of pipe_mode. *)
LEMMA FeedCR ==
  ASSUME NEW b \in BridgeType, mode \in {"interactive", "pipe"}
  PROVE  /\ Ts!Feed(b, Ts!CR) \in BridgeType
         /\ mode = "interactive" => Ts!Feed(b, Ts!CR) = b
         /\ mode = "pipe" => Handled(b.line, b, Ts!Feed(b, Ts!CR)) /\ Ts!Feed(b, Ts!CR).cr = TRUE
<1>1. Ts!CR # Ts!LF
  BY PiecesDiffer
<1>2. CASE mode = "interactive"
  BY <1>1, <1>2 DEF Ts!Feed, Ts!replace_cr
<1>3. CASE mode = "pipe"
  <2>1. PICK c \in BridgeType : c = Ts!process_line(b) /\ Handled(b.line, b, c)
    BY ProcessIs
  <2>2. Ts!Feed(b, Ts!CR) = [c EXCEPT !.cr = TRUE]
    BY <1>1, <1>3, <2>1 DEF Ts!Feed
  <2>3. PICK e \in BridgeType : /\ e = [c EXCEPT !.cr = TRUE] /\ e.cr = TRUE /\ e.line = c.line
                                /\ e.tokens = c.tokens /\ e.spoken = c.spoken
    <3> DEFINE d == [c EXCEPT !.cr = TRUE]
    <3>1. /\ d \in BridgeType /\ d.cr = TRUE /\ d.line = c.line
          /\ d.tokens = c.tokens /\ d.spoken = c.spoken
      BY DEF BridgeType
    <3> HIDE DEF d
    <3>2. d = [c EXCEPT !.cr = TRUE]
      BY DEF d
    <3> QED
      BY <3>1, <3>2, Zenon
  <2>4. Handled(b.line, b, e)
    BY <2>1, <2>3 DEF Handled, Same
  <2> QED
    BY <1>3, <2>2, <2>3, <2>4
<1> QED
  BY <1>2, <1>3

(* "\n" ends a line, except that of a "\r\n" whose line pipe_mode has taken. *)
LEMMA FeedLF ==
  ASSUME NEW b \in BridgeType, b.cr => b.line = <<>> /\ mode = "pipe"
  PROVE  /\ Ts!Feed(b, Ts!LF) \in BridgeType
         /\ Handled(b.line, b, Ts!Feed(b, Ts!LF)) /\ Ts!Feed(b, Ts!LF).cr = FALSE
<1>1. CASE b.cr
  <2>1. Ts!Feed(b, Ts!LF) = [b EXCEPT !.cr = FALSE]
    BY <1>1 DEF Ts!Feed
  <2>2. PICK e \in BridgeType : /\ e = [b EXCEPT !.cr = FALSE] /\ e.cr = FALSE /\ e.line = b.line
                                /\ e.tokens = b.tokens /\ e.spoken = b.spoken
    <3> DEFINE d == [b EXCEPT !.cr = FALSE]
    <3>1. /\ d \in BridgeType /\ d.cr = FALSE /\ d.line = b.line
          /\ d.tokens = b.tokens /\ d.spoken = b.spoken
      BY DEF BridgeType
    <3> HIDE DEF d
    <3>2. d = [b EXCEPT !.cr = FALSE]
      BY DEF d
    <3> QED
      BY <3>1, <3>2, Zenon
  <2>3. ~IsToken(<<>>) /\ <<>> # Ts!End
    <3>1. Len(<<>>) = 0 /\ ~(0 >= 3) /\ 0 # 1
      OBVIOUS
    <3> QED
      BY <3>1, PlainLines, Zenon DEF IsToken
  <2> QED
    BY <1>1, <2>1, <2>2, <2>3 DEF Handled, Same
<1>2. CASE ~b.cr
  <2>1. Ts!Feed(b, Ts!LF) = Ts!process_line(b)
    BY <1>2 DEF Ts!Feed
  <2> QED
    BY <1>2, <2>1, ProcessIs, BridgeFields
<1> QED
  BY <1>1, <1>2
-----------------------------------------------------------------------------
(* What is heard. *)

(* The bridge heard t after all that it had heard before. *)
Hears(b, c, t) ==
  \E new \in PlacesOf(c) :
    /\ PlacesOf(c) = PlacesOf(b) \cup {new} /\ new \notin PlacesOf(b)
    /\ AtOf(c, new) = t
    /\ \A x \in PlacesOf(b) : AtOf(c, x) = AtOf(b, x) /\ ~Ts!Sooner(new, x)
    /\ ~Ts!Sooner(new, new)

(* It heard nothing. *)
Hushed(b, c) ==
  PlacesOf(c) = PlacesOf(b) /\ \A x \in PlacesOf(b) : AtOf(c, x) = AtOf(b, x)

(* The places are those in the sentences and those in the tokens. *)
LEMMA PlacesAre ==
  ASSUME NEW b \in BridgeType
  PROVE  /\ \A i, k : <<i, k>> \in PlacesOf(b) <=>
              \/ i \in 1..Len(b.spoken) /\ k \in 1..Len(b.spoken[i])
              \/ i = Len(b.spoken) + 1 /\ k \in 1..Len(b.tokens)
         /\ \A x \in PlacesOf(b) : \E i, k \in Nat : x = <<i, k>>
         /\ \A i, k : i \in 1..Len(b.spoken) => AtOf(b, <<i, k>>) = b.spoken[i][k]
         /\ \A k : AtOf(b, <<Len(b.spoken) + 1, k>>) = b.tokens[k]
<1>1. PICK n \in Nat, m \in Nat : n = Len(b.spoken) /\ m = Len(b.tokens)
  BY BridgeFields
<1>2. PICK S : /\ S = Append(b.spoken, b.tokens) /\ Len(S) = n + 1 /\ S[n + 1] = b.tokens
               /\ \A i \in 1..n : S[i] = b.spoken[i]
  <2>1. b.spoken \in Seq(Seq(Seq(Ts!Pieces))) /\ b.tokens \in Seq(Seq(Ts!Pieces))
    <3>1. b.spoken \in Seq(Seq(Seq(Ts!Pieces)) \ {<<>>}) /\ b.tokens \in Seq(Seq(Ts!Pieces))
      BY BridgeFields
    <3> QED
      BY <3>1, SeqMonotonic
  <2>2. /\ Len(Append(b.spoken, b.tokens)) = n + 1 /\ Append(b.spoken, b.tokens)[n + 1] = b.tokens
        /\ \A i \in 1..n : Append(b.spoken, b.tokens)[i] = b.spoken[i]
    BY <1>1, <2>1, AppendProperties
  <2> QED
    BY <2>2, Zenon
<1>3. PlacesOf(b) = UNION {{i} \X (1..Len(S[i])) : i \in 1..(n + 1)}
  BY <1>2 DEF PlacesOf
<1>4. \A i, k : <<i, k>> \in PlacesOf(b) <=> i \in 1..(n + 1) /\ k \in 1..Len(S[i])
  BY <1>3
<1>5. \A i : i \in 1..(n + 1) <=> i \in 1..n \/ i = n + 1
  OBVIOUS
<1>6. \A x \in PlacesOf(b) : \E i, k \in Nat : x = <<i, k>>
  <2> SUFFICES ASSUME NEW x \in PlacesOf(b) PROVE \E i, k \in Nat : x = <<i, k>>
    OBVIOUS
  <2>1. PICK i \in 1..(n + 1) : x \in {i} \X (1..Len(S[i]))
    BY <1>3
  <2> QED
    BY <2>1
<1>7. \A x : AtOf(b, x) = S[x[1]][x[2]]
  BY <1>2 DEF AtOf
<1>8. \A i, k : AtOf(b, <<i, k>>) = S[i][k]
  BY <1>7
<1> QED
  BY <1>1, <1>2, <1>4, <1>5, <1>6, <1>8

(* What is heard in a sentence. *)
LEMMA AtSpoken ==
  ASSUME NEW b \in BridgeType, NEW i \in 1..Len(b.spoken), NEW k
  PROVE  AtOf(b, <<i, k>>) = b.spoken[i][k]
BY PlacesAre

(* When the tokens are as before. *)
LEMMA SameHushes ==
  ASSUME NEW b, NEW c, Same(b, c)
  PROVE  Hushed(b, c)
BY DEF Same, Hushed, PlacesOf, AtOf

(* When the tokens become a sentence. *)
LEMMA SpokenHushes ==
  ASSUME NEW b \in BridgeType, NEW c \in BridgeType,
         c.tokens = <<>>, c.spoken = Append(b.spoken, b.tokens)
  PROVE  Hushed(b, c)
<1>1. PICK n \in Nat : n = Len(b.spoken)
  BY BridgeFields
<1>2. Len(c.spoken) = n + 1 /\ c.spoken[n + 1] = b.tokens /\ \A i \in 1..n : c.spoken[i] = b.spoken[i]
  <2>1. b.spoken \in Seq(Seq(Seq(Ts!Pieces))) /\ b.tokens \in Seq(Seq(Ts!Pieces))
    <3>1. b.spoken \in Seq(Seq(Seq(Ts!Pieces)) \ {<<>>}) /\ b.tokens \in Seq(Seq(Ts!Pieces))
      BY BridgeFields
    <3> QED
      BY <3>1, SeqMonotonic
  <2> QED
    BY <1>1, <2>1, AppendProperties
<1>3. \A i : i \in 1..(n + 1) <=> i \in 1..n \/ i = n + 1
  OBVIOUS
<1>4. Len(c.tokens) = 0 /\ \A k : ~(k \in 1..0)
  OBVIOUS
<1>5. \A i, k : <<i, k>> \in PlacesOf(b) <=> <<i, k>> \in PlacesOf(c)
  <2>1. \A i, k : <<i, k>> \in PlacesOf(b) <=>
              \/ i \in 1..n /\ k \in 1..Len(b.spoken[i])
              \/ i = n + 1 /\ k \in 1..Len(b.tokens)
    BY <1>1, PlacesAre
  <2>2. \A i, k : <<i, k>> \in PlacesOf(c) <=> i \in 1..(n + 1) /\ k \in 1..Len(c.spoken[i])
    BY <1>2, <1>4, PlacesAre
  <2> QED
    BY <1>2, <1>3, <2>1, <2>2, Zenon
<1>6. PlacesOf(c) = PlacesOf(b)
  <2>1. /\ \A x \in PlacesOf(b) : \E i, k \in Nat : x = <<i, k>>
        /\ \A x \in PlacesOf(c) : \E i, k \in Nat : x = <<i, k>>
    BY PlacesAre
  <2>2. ASSUME NEW x \in PlacesOf(b) PROVE x \in PlacesOf(c)
    <3>1. PICK i \in Nat, k \in Nat : x = <<i, k>>
      BY <2>1, Zenon
    <3> QED
      BY <1>5, <3>1, Zenon
  <2>3. ASSUME NEW x \in PlacesOf(c) PROVE x \in PlacesOf(b)
    <3>1. PICK i \in Nat, k \in Nat : x = <<i, k>>
      BY <2>1, Zenon
    <3> QED
      BY <1>5, <3>1, Zenon
  <2> QED
    BY <2>2, <2>3, Zenon
<1>7. ASSUME NEW x \in PlacesOf(b) PROVE AtOf(c, x) = AtOf(b, x)
  <2>1. PICK i \in Nat, k \in Nat : x = <<i, k>>
    BY PlacesAre
  <2>2. i \in 1..n \/ i = n + 1
    BY <1>1, <2>1, PlacesAre
  <2>3. CASE i \in 1..n
    <3>1. AtOf(b, <<i, k>>) = b.spoken[i][k]
      BY <1>1, <2>3, PlacesAre
    <3>2. AtOf(c, <<i, k>>) = c.spoken[i][k]
      <4>1. i \in 1..Len(c.spoken)
        BY <1>2, <1>3, <2>3
      <4> QED
        BY <4>1, AtSpoken, Zenon
    <3> QED
      BY <1>2, <2>1, <2>3, <3>1, <3>2, Zenon
  <2>4. CASE i = n + 1
    <3>1. AtOf(b, <<i, k>>) = b.tokens[k]
      BY <1>1, <2>4, PlacesAre
    <3>2. AtOf(c, <<i, k>>) = c.spoken[i][k]
      <4>1. i \in 1..Len(c.spoken)
        BY <1>2, <1>3, <2>4
      <4> QED
        BY <4>1, AtSpoken, Zenon
    <3> QED
      BY <1>2, <2>1, <2>4, <3>1, <3>2, Zenon
  <2> QED
    BY <2>2, <2>3, <2>4
<1> QED
  BY <1>6, <1>7 DEF Hushed

(* When there is one more token. *)
LEMMA TokenIsHeard ==
  ASSUME NEW b \in BridgeType, NEW c \in BridgeType, NEW t \in Seq(Ts!Pieces),
         c.tokens = Append(b.tokens, t), c.spoken = b.spoken
  PROVE  Hears(b, c, t)
<1>1. PICK n \in Nat, m \in Nat : n = Len(b.spoken) /\ m = Len(b.tokens)
  BY BridgeFields
<1>2. Len(c.tokens) = m + 1 /\ c.tokens[m + 1] = t /\ \A k \in 1..m : c.tokens[k] = b.tokens[k]
  <2>1. b.tokens \in Seq(Seq(Ts!Pieces))
    BY BridgeFields
  <2> QED
    BY <1>1, <2>1, AppendProperties
<1> DEFINE new == <<n + 1, m + 1>>
<1>3. \A k : k \in 1..(m + 1) <=> k \in 1..m \/ k = m + 1
  OBVIOUS
<1>4. \A i, k : <<i, k>> \in PlacesOf(b) <=>
              \/ i \in 1..n /\ k \in 1..Len(b.spoken[i])
              \/ i = n + 1 /\ k \in 1..m
  BY <1>1, PlacesAre
<1>5. \A i, k : <<i, k>> \in PlacesOf(c) <=>
              \/ i \in 1..n /\ k \in 1..Len(b.spoken[i])
              \/ i = n + 1 /\ k \in 1..(m + 1)
  <2>1. Len(c.spoken) = n /\ Len(c.tokens) = m + 1 /\ c.spoken = b.spoken
    BY <1>1, <1>2
  <2>2. \A i, k : <<i, k>> \in PlacesOf(c) <=>
              \/ i \in 1..Len(c.spoken) /\ k \in 1..Len(c.spoken[i])
              \/ i = Len(c.spoken) + 1 /\ k \in 1..Len(c.tokens)
    BY PlacesAre, Zenon
  <2> QED
    BY <2>1, <2>2, Zenon
<1>6. new \in PlacesOf(c) /\ new \notin PlacesOf(b)
  <2>1. n + 1 \notin 1..n /\ m + 1 \in 1..(m + 1) /\ m + 1 \notin 1..m
    OBVIOUS
  <2> QED
    BY <1>4, <1>5, <2>1, Zenon
<1>7. PlacesOf(c) = PlacesOf(b) \cup {new}
  <2>1. /\ \A x \in PlacesOf(b) : \E i, k \in Nat : x = <<i, k>>
        /\ \A x \in PlacesOf(c) : \E i, k \in Nat : x = <<i, k>>
    BY PlacesAre
  <2>2. ASSUME NEW x \in PlacesOf(b) PROVE x \in PlacesOf(c)
    <3>1. PICK i \in Nat, k \in Nat : x = <<i, k>>
      BY <2>1, Zenon
    <3> QED
      BY <1>3, <1>4, <1>5, <3>1, Zenon
  <2>3. ASSUME NEW x \in PlacesOf(c) PROVE x \in PlacesOf(b) \/ x = new
    <3>1. PICK i \in Nat, k \in Nat : x = <<i, k>>
      BY <2>1, Zenon
    <3> QED
      BY <1>3, <1>4, <1>5, <3>1, Zenon
  <2> QED
    BY <1>6, <2>2, <2>3, Zenon
<1>8. AtOf(c, new) = t
  <2>1. AtOf(c, <<n + 1, m + 1>>) = c.tokens[m + 1]
    BY <1>1, PlacesAre
  <2> QED
    BY <1>2, <2>1
<1>9. ASSUME NEW x \in PlacesOf(b) PROVE AtOf(c, x) = AtOf(b, x) /\ ~Ts!Sooner(new, x)
  <2>1. PICK i \in Nat, k \in Nat : x = <<i, k>>
    BY PlacesAre
  <2>2. (i \in 1..n /\ k \in 1..Len(b.spoken[i])) \/ (i = n + 1 /\ k \in 1..m)
    BY <1>4, <2>1
  <2>3. CASE i \in 1..n
    <3>0. i \in 1..Len(b.spoken) /\ i \in 1..Len(c.spoken)
      BY <1>1, <2>3
    <3>1. AtOf(b, <<i, k>>) = b.spoken[i][k]
      BY <3>0, PlacesAre
    <3>2. AtOf(c, <<i, k>>) = b.spoken[i][k]
      <4>1. AtOf(c, <<i, k>>) = c.spoken[i][k]
        <5>1. \A j, e : j \in 1..Len(c.spoken) => AtOf(c, <<j, e>>) = c.spoken[j][e]
          BY PlacesAre, Zenon
        <5> QED
          BY <3>0, <5>1, Zenon
      <4> QED
        BY <1>1, <4>1
    <3>3. ~Ts!Sooner(new, <<i, k>>)
      <4>1. ~(n + 1 < i) /\ n + 1 # i
        BY <2>3
      <4>2. new[1] = n + 1 /\ <<i, k>>[1] = i
        OBVIOUS
      <4> QED
        BY <4>1, <4>2, Zenon DEF Ts!Sooner
    <3> QED
      BY <2>1, <3>1, <3>2, <3>3, Zenon
  <2>4. CASE i = n + 1 /\ k \in 1..m
    <3>0. i = Len(b.spoken) + 1 /\ i = Len(c.spoken) + 1
      BY <1>1, <2>4
    <3>1. AtOf(b, <<i, k>>) = b.tokens[k]
      BY <3>0, PlacesAre
    <3>2. AtOf(c, <<i, k>>) = c.tokens[k]
      BY <3>0, PlacesAre
    <3>3. ~Ts!Sooner(new, <<i, k>>)
      <4>1. ~(n + 1 < i) /\ ~(m + 1 < k)
        BY <2>4
      <4>2. new[1] = n + 1 /\ <<i, k>>[1] = i /\ new[2] = m + 1 /\ <<i, k>>[2] = k
        OBVIOUS
      <4> QED
        BY <4>1, <4>2, Zenon DEF Ts!Sooner
    <3> QED
      BY <1>2, <2>1, <2>4, <3>1, <3>2, <3>3, Zenon
  <2> QED
    BY <2>2, <2>3, <2>4
<1>10. ~Ts!Sooner(new, new)
  <2>1. ~(n + 1 < n + 1) /\ ~(m + 1 < m + 1) /\ new[1] = n + 1 /\ new[2] = m + 1
    OBVIOUS
  <2> QED
    BY <2>1, Zenon DEF Ts!Sooner
<1> HIDE DEF new
<1> QED
  BY <1>6, <1>7, <1>8, <1>9, <1>10, Zenon DEF Hears

(* A line that is taken is heard if it is a TOKEN line. *)
LEMMA HandledIsHeard ==
  ASSUME NEW b \in BridgeType, NEW c \in BridgeType, NEW l \in Seq(Ts!Pieces), Handled(l, b, c)
  PROVE  IF IsToken(l) THEN Hears(b, c, Rest(l)) ELSE Hushed(b, c)
<1>1. CASE IsToken(l)
  BY <1>1, RestIs, TokenIsHeard, Zenon DEF Handled
<1>2. CASE ~IsToken(l) /\ l = Ts!End /\ b.tokens # <<>>
  BY <1>2, SpokenHushes, Zenon DEF Handled
<1>3. CASE ~IsToken(l) /\ ~(l = Ts!End /\ b.tokens # <<>>)
  BY <1>3, SameHushes, Zenon DEF Handled
<1> QED
  BY <1>1, <1>2, <1>3

(* Nothing heard, nothing changed. *)
LEMMA HushedKeeps ==
  ASSUME NEW b, NEW c, Hushed(b, c)
  PROVE  /\ \A w : Heard(c, w) <=> Heard(b, w)
         /\ NoiseOf(c) = NoiseOf(b)
         /\ OrderOf(b) => OrderOf(c)
<1>1. \A w : Heard(c, w) <=> Heard(b, w)
  BY Zenon DEF Hushed, Heard
<1>2. NoiseOf(c) = NoiseOf(b)
  <2>1. \A x : x \in NoiseOf(c) <=> x \in NoiseOf(b)
    BY Zenon DEF Hushed, NoiseOf
  <2> QED
    BY <2>1, Zenon
<1>3. OrderOf(b) => OrderOf(c)
  BY Zenon DEF Hushed, OrderOf
<1> QED
  BY <1>1, <1>2, <1>3

(* One more token. *)
LEMMA HearsAdds ==
  ASSUME NEW b, NEW c, NEW t, Hears(b, c, t)
  PROVE  /\ \A w : Heard(c, w) <=> Heard(b, w) \/ t = Ts!Word(w)
         /\ (\E w \in Ts!Ids : t = Ts!Word(w)) => NoiseOf(c) = NoiseOf(b)
         /\ \E x : NoiseOf(c) \subseteq NoiseOf(b) \cup {x}
         /\ OrderOf(b) /\ (\A v, w \in Ts!Ids : Heard(b, v) /\ t = Ts!Word(w) => Ts!Sooner(v, w))
              => OrderOf(c)
<1>1. PICK new \in PlacesOf(c) :
        /\ PlacesOf(c) = PlacesOf(b) \cup {new} /\ new \notin PlacesOf(b)
        /\ AtOf(c, new) = t
        /\ \A x \in PlacesOf(b) : AtOf(c, x) = AtOf(b, x) /\ ~Ts!Sooner(new, x)
        /\ ~Ts!Sooner(new, new)
  BY Zenon DEF Hears
<1>2. \A x : x \in PlacesOf(c) <=> x \in PlacesOf(b) \/ x = new
  BY <1>1, Zenon
<1>3. \A w : Heard(c, w) <=> Heard(b, w) \/ t = Ts!Word(w)
  BY <1>1, <1>2, Zenon DEF Heard
<1>4. \A x : x \in NoiseOf(c) <=> x \in NoiseOf(b) \/ (x = new /\ \A w \in Ts!Ids : t # Ts!Word(w))
  BY <1>1, <1>2, Zenon DEF NoiseOf
<1>5. ASSUME OrderOf(b), \A v, w \in Ts!Ids : Heard(b, v) /\ t = Ts!Word(w) => Ts!Sooner(v, w)
      PROVE  OrderOf(c)
  <2> SUFFICES ASSUME NEW x \in PlacesOf(c), NEW y \in PlacesOf(c), NEW v \in Ts!Ids, NEW w \in Ts!Ids,
                      Ts!Sooner(x, y), AtOf(c, x) = Ts!Word(v), AtOf(c, y) = Ts!Word(w)
               PROVE  Ts!Sooner(v, w)
    BY Zenon DEF OrderOf
  <2>1. x \in PlacesOf(b)
    BY <1>1, <1>2, Zenon
  <2>2. CASE y = new
    BY <1>1, <1>5, <2>1, <2>2, Zenon DEF Heard
  <2>3. CASE y \in PlacesOf(b)
    BY <1>1, <1>5, <2>1, <2>3, Zenon DEF OrderOf
  <2> QED
    BY <1>2, <2>2, <2>3, Zenon
<1> QED
  BY <1>3, <1>4, <1>5, Zenon
-----------------------------------------------------------------------------
(* Where SPEECH is. *)

(* A position, by its fields. *)
LEMMA PosFields ==
  ASSUME NEW p, PosOK(p)
  PROVE  /\ p.text \in Nat /\ p.line \in Nat /\ p.col \in Nat
         /\ p.text \in 0..MaxSpoken /\ p.line \in 0..(WordsPer + 5)
         /\ p.col <= Len(LineAt(p)) + 1
         /\ p.line > 0 \/ p.col > 0 => p.text + 1 \in 1..MaxSpoken
BY StreamConst DEF PosOK

(* The line at p. *)
LEMMA LineAtIs ==
  ASSUME NEW p, PosOK(p)
  PROVE  /\ p.line = 0 \/ p.line = 2 \/ p.line = WordsPer + 4 => LineAt(p) = Ts!Text
         /\ p.line = 1 \/ p.line = WordsPer + 5 => LineAt(p) = <<>>
         /\ p.line \in 3..(WordsPer + 2) =>
              /\ LineAt(p) = Ts!uart_send_token(<<p.text + 1, p.line - 2>>)
              /\ <<p.text + 1, p.line - 2>> \in Ts!Ids
         /\ p.line = WordsPer + 3 => LineAt(p) = Ts!End
         /\ LineAt(p) \in Seq(Ts!Pieces) /\ Len(LineAt(p)) \in 0..4
<1>1. PICK ls : ls = Ts!speech_task(p.text + 1)
  OBVIOUS
<1>2. /\ p.text + 1 \in Nat /\ p.line \in 0..(WordsPer + 5) /\ WordsPer \in Nat \ {0}
      /\ p.line > 0 \/ p.col > 0 => p.text + 1 \in 1..MaxSpoken
  BY PosFields, StreamConst
<1>3. /\ ls[1] = Ts!Text /\ ls[2] = <<>> /\ ls[3] = Ts!Text
      /\ \A i \in 1..WordsPer : ls[3 + i] = Ts!uart_send_token(<<p.text + 1, i>>)
      /\ ls[WordsPer + 4] = Ts!End /\ ls[WordsPer + 5] = Ts!Text /\ ls[WordsPer + 6] = <<>>
  BY <1>1, <1>2, SpeechLines
<1>4. LineAt(p) = ls[p.line + 1]
  BY <1>1 DEF LineAt
<1>5. ASSUME p.line = 0 \/ p.line = 2 \/ p.line = WordsPer + 4 PROVE LineAt(p) = Ts!Text
  BY <1>2, <1>3, <1>4, <1>5
<1>6. ASSUME p.line = 1 \/ p.line = WordsPer + 5 PROVE LineAt(p) = <<>>
  BY <1>2, <1>3, <1>4, <1>6
<1>7. ASSUME p.line \in 3..(WordsPer + 2)
      PROVE  /\ LineAt(p) = Ts!uart_send_token(<<p.text + 1, p.line - 2>>)
             /\ <<p.text + 1, p.line - 2>> \in Ts!Ids
  <2>1. p.line - 2 \in 1..WordsPer /\ 3 + (p.line - 2) = p.line + 1 /\ p.text + 1 \in 1..MaxSpoken
    BY <1>2, <1>7
  <2>2. ls[3 + (p.line - 2)] = Ts!uart_send_token(<<p.text + 1, p.line - 2>>)
    BY <1>3, <2>1
  <2>3. <<p.text + 1, p.line - 2>> \in Ts!Ids
    BY <2>1 DEF Ts!Ids
  <2> QED
    BY <1>4, <2>1, <2>2, <2>3
<1>8. ASSUME p.line = WordsPer + 3 PROVE LineAt(p) = Ts!End
  BY <1>2, <1>3, <1>4, <1>8
<1>9. LineAt(p) \in Seq(Ts!Pieces) /\ Len(LineAt(p)) \in 0..4
  <2>1. \/ p.line = 0 \/ p.line = 2 \/ p.line = WordsPer + 4
        \/ p.line = 1 \/ p.line = WordsPer + 5
        \/ p.line \in 3..(WordsPer + 2) \/ p.line = WordsPer + 3
    BY <1>2
  <2>2. <<>> \in Seq(Ts!Pieces) /\ Len(<<>>) \in 0..4
    OBVIOUS
  <2>3. CASE p.line \in 3..(WordsPer + 2)
    BY <1>7, <2>3, TokenLine
  <2>4. CASE p.line = 1 \/ p.line = WordsPer + 5
    BY <1>6, <2>2, <2>4, Zenon
  <2>5. CASE p.line = 0 \/ p.line = 2 \/ p.line = WordsPer + 4
    BY <1>5, <2>5, PlainLines
  <2>6. CASE p.line = WordsPer + 3
    BY <1>8, <2>6, PlainLines
  <2> QED
    BY <2>1, <2>3, <2>4, <2>5, <2>6, Zenon
<1> QED
  BY <1>5, <1>6, <1>7, <1>8, <1>9

(* It has a length, and SPEECH is in it. *)
LEMMA LineLen ==
  ASSUME NEW p, PosOK(p)
  PROVE  p.col \in Nat /\ Len(LineAt(p)) \in Nat /\ LineAt(p) \in Seq(Ts!Pieces)
<1>1. LineAt(p) \in Seq(Ts!Pieces)
  BY LineAtIs, Zenon
<1>2. p.col \in Nat
  BY PosFields, Zenon
<1> QED
  BY <1>1, <1>2, LenProperties

(* TOKEN lines and their words. *)
LEMMA TokenAt ==
  ASSUME NEW p, PosOK(p)
  PROVE  /\ \A w \in Ts!Ids : Open(p, w) => LineAt(p) = Ts!uart_send_token(w) /\ w = <<p.text + 1, p.line - 2>>
         /\ \A k \in 1..Len(LineAt(p)) : LineAt(p)[k] = tok =>
              k = 1 /\ \E w \in Ts!Ids : Open(p, w) /\ LineAt(p) = Ts!uart_send_token(w)
         /\ \A k \in 1..Len(LineAt(p)) : \A w \in Ts!Ids : LineAt(p)[k] = head(w) => k = 3 /\ Open(p, w)
<1> DEFINE u == <<p.text + 1, p.line - 2>>
<1>0. p.text \in Nat /\ p.line \in 0..(WordsPer + 5) /\ WordsPer \in Nat \ {0}
  BY PosFields, StreamConst
<1>1. ASSUME NEW w \in Ts!Ids, Open(p, w)
      PROVE  LineAt(p) = Ts!uart_send_token(w) /\ w = u
  <2>1. PICK a \in 1..MaxSpoken, i \in 1..WordsPer : w = <<a, i>>
    BY DEF Ts!Ids
  <2>2. w[1] = a /\ w[2] = i
    BY <2>1
  <2>3. a = p.text + 1 /\ i + 3 = p.line + 1
    BY <1>1, <2>2 DEF Open
  <2>4. p.line \in 3..(WordsPer + 2) /\ i = p.line - 2
    BY <1>0, <2>3
  <2> QED
    BY <2>1, <2>3, <2>4, LineAtIs
<1>2. CASE p.line \in 3..(WordsPer + 2)
  <2>1. u \in Ts!Ids /\ LineAt(p) = Ts!uart_send_token(u)
    BY <1>2, LineAtIs
  <2>2. Open(p, u)
    <3>1. u[1] = p.text + 1 /\ u[2] = p.line - 2
      OBVIOUS
    <3> HIDE DEF u
    <3> QED
      BY <1>0, <3>1 DEF Open
  <2> HIDE DEF u
  <2>3. /\ Len(LineAt(p)) = 4 /\ LineAt(p)[1] = tok /\ LineAt(p)[2] = en
        /\ LineAt(p)[3] = head(u) /\ LineAt(p)[4] = tail(u)
    BY <2>1, TokenLine
  <2>4. \A k \in 1..4 : k = 1 \/ k = 2 \/ k = 3 \/ k = 4
    OBVIOUS
  <2>5. ASSUME NEW k \in 1..Len(LineAt(p)), LineAt(p)[k] = tok PROVE k = 1
    <3>1. k = 1 \/ k = 2 \/ k = 3 \/ k = 4
      BY <2>3, <2>4
    <3> QED
      BY <2>1, <2>3, <2>5, <3>1, PiecesDiffer, Zenon
  <2>6. ASSUME NEW k \in 1..Len(LineAt(p)), NEW w \in Ts!Ids, LineAt(p)[k] = head(w)
        PROVE  k = 3 /\ Open(p, w)
    <3>1. k = 1 \/ k = 2 \/ k = 3 \/ k = 4
      BY <2>3, <2>4
    <3> QED
      BY <2>1, <2>2, <2>3, <2>6, <3>1, PiecesDiffer, Zenon
  <2> QED
    BY <1>1, <2>1, <2>2, <2>5, <2>6, Zenon DEF u
<1>3. CASE ~(p.line \in 3..(WordsPer + 2))
  <2>1. \/ p.line = 0 \/ p.line = 2 \/ p.line = WordsPer + 4
        \/ p.line = 1 \/ p.line = WordsPer + 5
        \/ p.line = WordsPer + 3
    BY <1>0, <1>3
  <2>2. LineAt(p) = Ts!Text \/ LineAt(p) = <<>> \/ LineAt(p) = Ts!End
    BY <2>1, LineAtIs, Zenon
  <2>3. ASSUME NEW k \in 1..Len(LineAt(p))
        PROVE  LineAt(p)[k] = text \/ LineAt(p)[k] = fin
    <3>1. Len(LineAt(p)) = 1
      BY <2>2, PlainLines
    <3>2. k = 1
      BY <3>1
    <3>3. LineAt(p) # <<>>
      BY <3>1
    <3> QED
      BY <2>2, <3>2, <3>3, PlainLines, Zenon
  <2> QED
    BY <1>1, <2>3, PiecesDiffer, Zenon DEF u
<1> QED
  BY <1>2, <1>3

(* A piece or the "\r" goes out; the "\n" goes out, and the line ends. *)
Stays(p, q) == q.text = p.text /\ q.line = p.line /\ q.col = p.col + 1
Turns(p, q) ==
  /\ q.col = 0
  /\ IF p.line < WordsPer + 5 THEN q.text = p.text /\ q.line = p.line + 1
     ELSE q.text = p.text + 1 /\ q.line = 0

(* The place of words, from one position of SPEECH to the next. *)
LEMMA WordsAdvance ==
  ASSUME NEW p, PosOK(p), NEW q, PosOK(q), NEW w \in Ts!Ids
  PROVE  /\ Stays(p, q) => (Past(q, w) <=> Past(p, w)) /\ (Open(q, w) <=> Open(p, w))
         /\ Turns(p, q) => (Past(q, w) <=> Past(p, w) \/ Open(p, w))
         /\ Stays(p, q) \/ Turns(p, q) => (Put(p, w) => Put(q, w))
         /\ Open(p, w) => ~Past(p, w)
         /\ \A v \in Ts!Ids : Put(p, v) /\ ~Put(p, w) /\ Open(p, w) => Ts!Sooner(v, w)
<1>1. PICK a \in 1..MaxSpoken, i \in 1..WordsPer : w = <<a, i>>
  BY DEF Ts!Ids
<1>2. w[1] = a /\ w[2] = i /\ a \in Nat /\ i \in Nat /\ i <= WordsPer
  BY <1>1, StreamConst
<1>3. /\ p.text \in Nat /\ p.line \in Nat /\ p.col \in Nat /\ p.line <= WordsPer + 5
      /\ q.text \in Nat /\ q.line \in Nat /\ q.col \in Nat /\ WordsPer \in Nat
  BY PosFields, StreamConst
<1>4. ASSUME Stays(p, q) PROVE (Past(q, w) <=> Past(p, w)) /\ (Open(q, w) <=> Open(p, w))
  BY <1>2, <1>3, <1>4 DEF Stays, Past, Open
<1>5. ASSUME Turns(p, q) PROVE Past(q, w) <=> Past(p, w) \/ Open(p, w)
  BY <1>2, <1>3, <1>5 DEF Turns, Past, Open
<1>6. Open(p, w) => ~Past(p, w)
  BY <1>2, <1>3 DEF Past, Open
<1>7. ASSUME Stays(p, q) PROVE Put(p, w) => Put(q, w)
  <2>1. p.col >= 3 => q.col >= 3
    BY <1>3, <1>7 DEF Stays
  <2> QED
    BY <1>4, <1>7, <2>1 DEF Put
<1>8. ASSUME Turns(p, q) PROVE Put(p, w) => Put(q, w)
  BY <1>5, <1>8 DEF Put
<1>9. ASSUME NEW v \in Ts!Ids, Put(p, v), ~Put(p, w), Open(p, w) PROVE Ts!Sooner(v, w)
  <2>1. PICK e \in 1..MaxSpoken, j \in 1..WordsPer : v = <<e, j>>
    BY DEF Ts!Ids
  <2>2. v[1] = e /\ v[2] = j /\ e \in Nat /\ j \in Nat
    BY <2>1
  <2>3. CASE Past(p, v)
    BY <1>2, <1>3, <1>9, <2>2, <2>3 DEF Past, Open, Ts!Sooner
  <2>4. CASE Open(p, v) /\ p.col >= 3
    BY <1>9, <2>4 DEF Put
  <2> QED
    BY <1>9, <2>3, <2>4 DEF Put
<1> QED
  BY <1>4, <1>5, <1>6, <1>7, <1>8, <1>9
-----------------------------------------------------------------------------
(* What a step of a task does. *)

(* SPEECH puts a piece of its line, or the "\r" or the "\n" after it. *)
PutPiece(p, b, q, c) ==
  /\ p.col < Len(LineAt(p)) /\ Stays(p, q)
  /\ c.line = Append(b.line, LineAt(p)[p.col + 1]) /\ Same(b, c)
PutCR(m, p, b, q, c) ==
  /\ p.col = Len(LineAt(p)) /\ Stays(p, q)
  /\ IF m = "pipe" THEN Handled(b.line, b, c) ELSE c = b
PutLF(p, b, q, c) ==
  p.col = Len(LineAt(p)) + 1 /\ Turns(p, q) /\ Handled(b.line, b, c)
Puts(m, p, b, q, c) == PutPiece(p, b, q, c) \/ PutCR(m, p, b, q, c) \/ PutLF(p, b, q, c)

(* Another task puts something: text, the end of a line, or both. *)
Disturbs(b, c) ==
  \E l \in {b.line, Append(b.line, text)} : (c.line = l /\ Same(b, c)) \/ Handled(l, b, c)

(* The ghosts of a step of task u. *)
Counts(u, t, s, ns, p, s2, ns2) ==
  /\ s2 = s + (IF u = t THEN 0 ELSE 1)
  /\ ns2 = ns \cup (IF u = t \/ ~Begun(p) THEN {} ELSE {p.text + 1})

(* The lines of a text, and where a task is in it. *)
LinesOf(t, n) == IF t = "SPEECH" THEN Ts!speech_task(n + 1) ELSE Ts!key_task
AtOK(t, p) ==
  /\ p \in [text : Nat, line : Nat, col : Nat]
  /\ \/ /\ p.text < Ts!Limit(t) /\ p.line < Len(LinesOf(t, p.text))
        /\ p.col <= Len(LinesOf(t, p.text)[p.line + 1]) + 1
     \/ p.text = Ts!Limit(t) /\ p.line = 0 /\ p.col = 0
(* Where it is a piece later. *)
Adv(t, p) ==
  LET ls == LinesOf(t, p.text)
  IN  IF p.col <= Len(ls[p.line + 1]) THEN [p EXCEPT !.col = @ + 1]
      ELSE IF p.line + 1 < Len(ls) THEN [p EXCEPT !.line = @ + 1, !.col = 0]
      ELSE [text |-> p.text + 1, line |-> 0, col |-> 0]

(* Where SPEECH is. *)
LEMMA SpeechAt ==
  ASSUME NEW p, AtOK("SPEECH", p)
  PROVE  PosOK(p)
<1>1. p \in [text : Nat, line : Nat, col : Nat] /\ Ts!Limit("SPEECH") = MaxSpoken
  BY DEF AtOK, Ts!Limit
<1>2. LinesOf("SPEECH", p.text) = Ts!speech_task(p.text + 1)
  BY DEF LinesOf
<1>3. CASE p.text = MaxSpoken /\ p.line = 0 /\ p.col = 0
  <2>1. LineAt(p) = Ts!Text
    <3>1. Ts!speech_task(MaxSpoken + 1)[1] = Ts!Text
      BY SpeechLines, StreamConst
    <3> QED
      BY <1>3, <3>1 DEF LineAt
  <2>2. Len(LineAt(p)) = 1
    BY <2>1, PlainLines
  <2> QED
    BY <1>1, <1>3, <2>2, StreamConst DEF PosOK
<1>4. CASE /\ p.text < MaxSpoken /\ p.line < Len(Ts!speech_task(p.text + 1))
           /\ p.col <= Len(LineAt(p)) + 1
  <2>1. Len(Ts!speech_task(p.text + 1)) = WordsPer + 6
    BY <1>1, SpeechLines
  <2> QED
    BY <1>1, <1>4, <2>1, StreamConst DEF PosOK
<1> QED
  BY <1>1, <1>2, <1>3, <1>4 DEF AtOK, LineAt

(* The lines of either task are lines. *)
LEMMA LinesAre ==
  ASSUME NEW t \in Ts!Tasks, NEW n \in Nat, n < Ts!Limit(t)
  PROVE  /\ Len(LinesOf(t, n)) \in Nat \ {0}
         /\ \A k \in 1..Len(LinesOf(t, n)) : LinesOf(t, n)[k] \in Seq(Ts!Pieces)
<1>1. CASE t = "SPEECH"
  <2>1. Ts!Limit(t) = MaxSpoken /\ LinesOf(t, n) = Ts!speech_task(n + 1)
    BY <1>1 DEF Ts!Limit, LinesOf
  <2>2. Len(LinesOf(t, n)) = WordsPer + 6
    BY <2>1, SpeechLines
  <2>3. ASSUME NEW k \in 1..(WordsPer + 6) PROVE LinesOf(t, n)[k] \in Seq(Ts!Pieces)
    <3>1. PICK ls : ls = LinesOf(t, n)
      OBVIOUS
    <3>2. /\ ls[1] = Ts!Text /\ ls[2] = <<>> /\ ls[3] = Ts!Text
          /\ \A i \in 1..WordsPer : ls[3 + i] = Ts!uart_send_token(<<n + 1, i>>)
          /\ ls[WordsPer + 4] = Ts!End /\ ls[WordsPer + 5] = Ts!Text /\ ls[WordsPer + 6] = <<>>
      BY <2>1, <3>1, SpeechLines
    <3>3. \/ k \in {1, 2, 3, WordsPer + 4, WordsPer + 5, WordsPer + 6}
          \/ k - 3 \in 1..WordsPer /\ 3 + (k - 3) = k
      BY StreamConst
    <3>4. CASE k \in {1, 2, 3, WordsPer + 4, WordsPer + 5, WordsPer + 6}
      <4>1. <<>> \in Seq(Ts!Pieces)
        OBVIOUS
      <4> QED
        BY <3>1, <3>2, <3>4, <4>1, PlainLines, Zenon
    <3>5. CASE k - 3 \in 1..WordsPer /\ 3 + (k - 3) = k
      <4>1. <<n + 1, k - 3>> \in Ts!Ids
        <5>1. n + 1 \in 1..MaxSpoken
          BY <2>1, StreamConst
        <5> QED
          BY <3>5, <5>1 DEF Ts!Ids
      <4>2. Ts!uart_send_token(<<n + 1, k - 3>>) \in Seq(Ts!Pieces)
        BY <4>1, TokenLine
      <4> QED
        BY <3>1, <3>2, <3>5, <4>2
    <3> QED
      BY <3>3, <3>4, <3>5
  <2> QED
    BY <2>2, <2>3, StreamConst
<1>2. CASE t = "KEY"
  <2>1. LinesOf(t, n) = <<Ts!Text>>
    BY <1>2 DEF LinesOf, Ts!key_task
  <2> QED
    BY <2>1, PlainLines
<1> QED
  BY <1>1, <1>2 DEF Ts!Tasks

(* A task advances within its texts. *)
LEMMA AdvIs ==
  ASSUME NEW t \in Ts!Tasks, NEW p, AtOK(t, p), p.text < Ts!Limit(t), NEW q, q = Adv(t, p)
  PROVE  /\ AtOK(t, q)
         /\ p.col <= Len(LinesOf(t, p.text)[p.line + 1]) =>
              q.text = p.text /\ q.line = p.line /\ q.col = p.col + 1
         /\ p.col > Len(LinesOf(t, p.text)[p.line + 1]) =>
              /\ q.col = 0
              /\ IF p.line + 1 < Len(LinesOf(t, p.text)) THEN q.text = p.text /\ q.line = p.line + 1
                 ELSE q.text = p.text + 1 /\ q.line = 0
<1>1. Ts!Limit(t) \in Nat
  BY StreamConst DEF Ts!Limit
<1>2. PICK ls : ls = LinesOf(t, p.text)
  OBVIOUS
<1>3. p \in [text : Nat, line : Nat, col : Nat] /\ p.text \in Nat /\ p.line \in Nat /\ p.col \in Nat
  BY DEF AtOK
<1>4. p.line < Len(ls) /\ p.col <= Len(ls[p.line + 1]) + 1
  BY <1>1, <1>2, <1>3 DEF AtOK
<1>5. Len(ls) \in Nat \ {0} /\ \A k \in 1..Len(ls) : ls[k] \in Seq(Ts!Pieces)
  BY <1>2, <1>3, LinesAre
<1>6. \A k \in 1..Len(ls) : Len(ls[k]) \in Nat
  BY <1>5, LenProperties
<1>7. Len(ls[p.line + 1]) \in Nat
  BY <1>3, <1>4, <1>5, <1>6
<1>8. CASE p.col <= Len(ls[p.line + 1])
  <2>1. q = [p EXCEPT !.col = @ + 1]
    BY <1>2, <1>8 DEF Adv
  <2>2. q \in [text : Nat, line : Nat, col : Nat] /\ q.text = p.text /\ q.line = p.line /\ q.col = p.col + 1
    BY <1>3, <2>1
  <2>3. AtOK(t, q)
    BY <1>2, <1>3, <1>4, <1>7, <1>8, <2>2 DEF AtOK
  <2> QED
    BY <1>2, <1>3, <1>7, <1>8, <2>2, <2>3
<1>9. CASE p.col > Len(ls[p.line + 1]) /\ p.line + 1 < Len(ls)
  <2>1. q = [p EXCEPT !.line = @ + 1, !.col = 0]
    BY <1>2, <1>3, <1>7, <1>9 DEF Adv
  <2>2. q \in [text : Nat, line : Nat, col : Nat] /\ q.text = p.text /\ q.line = p.line + 1 /\ q.col = 0
    <3>1. p.line + 1 \in Nat /\ 0 \in Nat
      BY <1>3
    <3>2. PICK r \in [text : Nat, line : Nat, col : Nat] :
            r = [p EXCEPT !.line = @ + 1] /\ r.text = p.text /\ r.line = p.line + 1
      <4> DEFINE f == [p EXCEPT !.line = @ + 1]
      <4>1. f \in [text : Nat, line : Nat, col : Nat] /\ f.text = p.text /\ f.line = p.line + 1
        BY <1>3, <3>1
      <4> HIDE DEF f
      <4>2. f = [p EXCEPT !.line = @ + 1]
        BY DEF f
      <4> QED
        BY <4>1, <4>2, Zenon
    <3>3. q = [r EXCEPT !.col = 0]
      BY <2>1, <3>2, Zenon
    <3>4. q \in [text : Nat, line : Nat, col : Nat] /\ q.text = r.text /\ q.line = r.line /\ q.col = 0
      BY <3>3
    <3> QED
      BY <3>2, <3>4, Zenon
  <2>3. Len(ls[q.line + 1]) \in Nat
    BY <1>3, <1>5, <1>6, <1>9, <2>2
  <2>4. AtOK(t, q)
    BY <1>2, <1>3, <1>9, <2>2, <2>3 DEF AtOK
  <2> QED
    BY <1>2, <1>3, <1>7, <1>9, <2>2, <2>4
<1>10. CASE p.col > Len(ls[p.line + 1]) /\ ~(p.line + 1 < Len(ls))
  <2>1. q = [text |-> p.text + 1, line |-> 0, col |-> 0]
    BY <1>2, <1>3, <1>7, <1>10 DEF Adv
  <2>2. q \in [text : Nat, line : Nat, col : Nat] /\ q.text = p.text + 1 /\ q.line = 0 /\ q.col = 0
    BY <1>3, <2>1
  <2>3. AtOK(t, q)
    <3>1. CASE q.text = Ts!Limit(t)
      BY <2>2, <3>1 DEF AtOK
    <3>2. CASE q.text < Ts!Limit(t)
      <4>1. /\ Len(LinesOf(t, q.text)) \in Nat \ {0}
            /\ LinesOf(t, q.text)[1] \in Seq(Ts!Pieces)
        BY <2>2, <3>2, LinesAre
      <4>2. Len(LinesOf(t, q.text)[1]) \in Nat
        BY <4>1, LenProperties
      <4> QED
        BY <2>2, <3>2, <4>1, <4>2 DEF AtOK
    <3> QED
      BY <1>1, <1>3, <2>2, <3>1, <3>2
  <2> QED
    BY <1>2, <1>3, <1>7, <1>10, <2>2, <2>3
<1> QED
  BY <1>2, <1>3, <1>5, <1>7, <1>8, <1>9, <1>10
-----------------------------------------------------------------------------
(* The steps of TokenStream are such steps. *)

(* The pipe. *)
PipeType == pipe \in Seq(Ts!Tasks \cup {"NTP"}) /\ Len(pipe) <= MaxPipe

(* The types, in terms of the operators above. *)
StreamType ==
  /\ mode \in {"interactive", "pipe"}
  /\ PipeType
  /\ pos \in [Ts!Tasks -> [text : Nat, line : Nat, col : Nat]]
  /\ \A t \in Ts!Tasks : AtOK(t, pos[t])
  /\ ntp \in 0..MaxNtpLines
  /\ bridge \in BridgeType
  /\ writer \in Ts!Tasks \cup {"NTP"}
  /\ switches \in Nat
  /\ noisy \subseteq 1..MaxSpoken
  /\ over \in BOOLEAN

(* That is TypeOK. *)
LEMMA TypeIs ==
  StreamType => Ts!TypeOK
<1> SUFFICES ASSUME StreamType PROVE Ts!TypeOK
  OBVIOUS
<1>1. ASSUME NEW t \in Ts!Tasks
      PROVE  \/ /\ pos[t].text < Ts!Limit(t) /\ pos[t].line < Len(Ts!Lines(t, pos[t]))
                /\ pos[t].col <= Len(Ts!Current(t, pos[t])) + 1
             \/ pos[t] = [text |-> Ts!Limit(t), line |-> 0, col |-> 0]
  <2>1. AtOK(t, pos[t]) /\ pos[t] \in [text : Nat, line : Nat, col : Nat]
    BY DEF StreamType
  <2>2. Ts!Lines(t, pos[t]) = LinesOf(t, pos[t].text)
    BY Zenon DEF Ts!Lines, LinesOf
  <2>3. Ts!Current(t, pos[t]) = LinesOf(t, pos[t].text)[pos[t].line + 1]
    BY <2>2, Zenon DEF Ts!Current
  <2>4. CASE pos[t].text = Ts!Limit(t) /\ pos[t].line = 0 /\ pos[t].col = 0
    BY <2>1, <2>4
  <2> QED
    BY <2>1, <2>2, <2>3, <2>4, Zenon DEF AtOK
<1> QED
  BY <1>1, Zenon DEF StreamType, PipeType, Ts!TypeOK, BridgeType

(* The bridge, once it has the k-th piece of a line s, "\r" and "\n". *)
Fed(b, s, k, c) ==
  /\ c \in BridgeType /\ CrAlone(mode, c)
  /\ k < Len(s) => c.line = Append(b.line, s[k + 1]) /\ Same(b, c)
  /\ k = Len(s) => IF mode = "pipe" THEN Handled(b.line, b, c) ELSE c = b
  /\ k = Len(s) + 1 => Handled(b.line, b, c)

(* One piece of a line, at the bridge. *)
LEMMA FedLine ==
  ASSUME NEW b \in BridgeType, CrAlone(mode, b), mode \in {"interactive", "pipe"},
         NEW s \in Seq(Ts!Pieces), NEW k \in 0..(Len(s) + 1), NEW c, c = Ts!Feed(b, Ts!Line(s)[k + 1])
  PROVE  Fed(b, s, k, c)
<1>0. PICK n \in Nat : n = Len(s)
  BY LenProperties
<1>1. CASE k < n
  <2>1. s[k + 1] \in Ts!Pieces /\ Ts!Line(s)[k + 1] = s[k + 1]
    <3>1. k + 1 \in 1..Len(s)
      BY <1>0, <1>1
    <3>2. s[k + 1] \in Ts!Pieces
      BY <3>1, ElementOfSeq
    <3> QED
      BY <1>0, <1>1, <3>2, LineIs
  <2>2. /\ c \in BridgeType /\ c.line = Append(b.line, s[k + 1]) /\ c.cr = FALSE /\ Same(b, c)
    BY <2>1, FeedPiece
  <2>3. k # n /\ k # n + 1
    BY <1>1
  <2> QED
    BY <1>0, <2>2, <2>3, Zenon DEF CrAlone, Fed
<1>2. CASE k = n
  <2>1. Ts!Line(s)[k + 1] = Ts!CR
    BY <1>0, <1>2, LineIs
  <2>2. /\ c \in BridgeType
        /\ mode = "interactive" => c = b
        /\ mode = "pipe" => Handled(b.line, b, c) /\ c.cr = TRUE
    BY <2>1, FeedCR
  <2>3. CrAlone(mode, c)
    BY <2>2 DEF CrAlone, Handled
  <2>4. ~(k < n) /\ k # n + 1
    BY <1>2
  <2> QED
    BY <1>0, <1>2, <2>2, <2>3, <2>4 DEF Fed
<1>3. CASE k = n + 1
  <2>1. Ts!Line(s)[k + 1] = Ts!LF
    BY <1>0, <1>3, LineIs
  <2>2. c \in BridgeType /\ Handled(b.line, b, c) /\ c.cr = FALSE
    <3>1. b.cr => b.line = <<>> /\ mode = "pipe"
      BY DEF CrAlone
    <3> QED
      BY <2>1, <3>1, FeedLF, Zenon
  <2>3. ~(k < n) /\ k # n
    BY <1>3
  <2> QED
    BY <1>0, <2>2, <2>3, Zenon DEF CrAlone, Fed
<1> QED
  BY <1>0, <1>1, <1>2, <1>3

(* The bridge takes the oldest of what the pipe holds. *)
LEMMA TakeIs ==
  ASSUME PipeType, NEW w, Ts!Take(w)
  PROVE  PipeType' /\ ~over /\ mode' = mode /\ over' = over /\ Ts!Switch(w)
<1>1. pipe # <<>> /\ pipe' = Tail(pipe) /\ ~over /\ mode' = mode /\ over' = over /\ Ts!Switch(w)
  BY DEF Ts!Take
<1>2. Tail(pipe) \in Seq(Ts!Tasks \cup {"NTP"}) /\ Len(Tail(pipe)) = Len(pipe) - 1 /\ Len(pipe) \in Nat
  BY <1>1 DEF PipeType
<1>3. MaxPipe \in Nat
  BY StreamConst
<1>4. PipeType'
  BY <1>1, <1>2, <1>3 DEF PipeType
<1> QED
  BY <1>1, <1>4

(* One piece of a task is read. *)
LEMMA TaskStep ==
  ASSUME StreamType, CrAlone(mode, bridge), NEW t \in Ts!Tasks, Ts!ReadPiece(t),
         NEW p, p = pos[t], NEW q, q = Adv(t, p), NEW l, l = LinesOf(t, p.text)[p.line + 1]
  PROVE  /\ StreamType' /\ CrAlone(mode', bridge')
         /\ pos' = [pos EXCEPT ![t] = q] /\ AtOK(t, p) /\ p.text < Ts!Limit(t)
         /\ l \in Seq(Ts!Pieces) /\ p.col \in 0..(Len(l) + 1)
         /\ p.col < Len(l) => bridge'.line = Append(bridge.line, l[p.col + 1]) /\ Same(bridge, bridge')
         /\ p.col = Len(l) => IF mode = "pipe" THEN Handled(bridge.line, bridge, bridge') ELSE bridge' = bridge
         /\ p.col = Len(l) + 1 => Handled(bridge.line, bridge, bridge')
<1>1. AtOK(t, p) /\ p.text < Ts!Limit(t) /\ p \in [text : Nat, line : Nat, col : Nat]
  BY DEF StreamType, Ts!ReadPiece
<1>2. p.line \in Nat /\ p.line < Len(LinesOf(t, p.text)) /\ p.col \in Nat /\ p.col <= Len(l) + 1
  <2>1. Ts!Limit(t) \in Nat
    BY StreamConst DEF Ts!Limit
  <2> QED
    BY <1>1, <2>1 DEF AtOK
<1>3. l \in Seq(Ts!Pieces)
  <2>1. /\ Len(LinesOf(t, p.text)) \in Nat
        /\ \A k \in 1..Len(LinesOf(t, p.text)) : LinesOf(t, p.text)[k] \in Seq(Ts!Pieces)
    BY <1>1, LinesAre
  <2>2. p.line + 1 \in 1..Len(LinesOf(t, p.text))
    BY <1>2, <2>1
  <2> QED
    BY <2>1, <2>2
<1>4. p.col \in 0..(Len(l) + 1)
  BY <1>2, <1>3, LenProperties
<1>5. Ts!NextPiece(t, p) = Ts!Line(l)[p.col + 1] /\ Ts!Advanced(t, p) = q
  <2>1. Ts!Lines(t, p) = LinesOf(t, p.text)
    BY Zenon DEF Ts!Lines, LinesOf
  <2>2. Ts!Current(t, p) = l
    BY <2>1, Zenon DEF Ts!Current
  <2> QED
    BY <2>1, <2>2, Zenon DEF Ts!NextPiece, Ts!Advanced, Adv
<1>6. /\ bridge' = Ts!Feed(bridge, Ts!Line(l)[p.col + 1]) /\ pos' = [pos EXCEPT ![t] = q]
      /\ mode' = mode /\ ntp' = ntp /\ over' = over /\ Ts!Switch(t) /\ PipeType'
  <2>1. PipeType /\ Ts!Take(t)
    BY Zenon DEF StreamType, Ts!ReadPiece
  <2>2. bridge' = Ts!Feed(bridge, Ts!NextPiece(t, p)) /\ pos' = [pos EXCEPT ![t] = Ts!Advanced(t, p)] /\ ntp' = ntp
    BY Zenon DEF Ts!ReadPiece
  <2> QED
    BY <1>5, <2>1, <2>2, TakeIs, Zenon
<1>7. bridge \in BridgeType /\ mode \in {"interactive", "pipe"}
  BY DEF StreamType
<1>8. /\ bridge' \in BridgeType /\ CrAlone(mode, bridge')
      /\ p.col < Len(l) => bridge'.line = Append(bridge.line, l[p.col + 1]) /\ Same(bridge, bridge')
      /\ p.col = Len(l) => IF mode = "pipe" THEN Handled(bridge.line, bridge, bridge') ELSE bridge' = bridge
      /\ p.col = Len(l) + 1 => Handled(bridge.line, bridge, bridge')
  <2>1. PICK c, k : c = bridge' /\ k = p.col
    OBVIOUS
  <2>2. k \in 0..(Len(l) + 1)
    BY <1>4, <2>1, Zenon
  <2>3. c = Ts!Feed(bridge, Ts!Line(l)[k + 1])
    BY <1>6, <2>1
  <2>4. Fed(bridge, l, k, c)
    BY <1>3, <1>7, <2>2, <2>3, FedLine, Zenon
  <2> QED
    BY <2>1, <2>4, Zenon DEF Fed
<1>9. AtOK(t, q)
  BY <1>1, AdvIs
<1>10. pos' \in [Ts!Tasks -> [text : Nat, line : Nat, col : Nat]] /\ \A u \in Ts!Tasks : AtOK(u, pos'[u])
  <2>1. q \in [text : Nat, line : Nat, col : Nat]
    BY <1>9 DEF AtOK
  <2>2. pos \in [Ts!Tasks -> [text : Nat, line : Nat, col : Nat]] /\ \A u \in Ts!Tasks : AtOK(u, pos[u])
    BY DEF StreamType
  <2> QED
    BY <1>6, <1>9, <2>1, <2>2
<1>11. writer' \in Ts!Tasks \cup {"NTP"} /\ switches' \in Nat /\ noisy' \subseteq 1..MaxSpoken
  <2>1. Ts!Underway \subseteq 1..MaxSpoken
    <3>1. PosOK(pos["SPEECH"])
      BY SpeechAt DEF StreamType, Ts!Tasks
    <3> QED
      BY <3>1, PosFields DEF Ts!Underway
  <2> QED
    BY <1>6, <2>1 DEF Ts!Switch, StreamType
<1>12. StreamType'
  BY <1>6, <1>7, <1>8, <1>10, <1>11, Zenon DEF StreamType
<1> QED
  BY <1>1, <1>3, <1>4, <1>6, <1>8, <1>12, Zenon

(* The ghosts. *)
LEMMA SwitchCounts ==
  ASSUME NEW u, Ts!Switch(u), PosOK(sp)
  PROVE  writer' = u /\ Counts(u, writer, switches, noisy, sp, switches', noisy')
<1>1. Ts!Underway = IF sp.line = 0 /\ sp.col = 0 THEN {} ELSE {sp.text + 1}
  BY DEF Ts!Underway, sp
<1>2. sp.line = 0 /\ sp.col = 0 <=> ~Begun(sp)
  BY PosFields DEF Begun
<1> QED
  BY <1>1, <1>2, Zenon DEF Ts!Switch, Counts

(* SPEECH. *)
LEMMA SpeechStep ==
  ASSUME StreamType, CrAlone(mode, bridge), Ts!ReadPiece("SPEECH")
  PROVE  /\ StreamType' /\ CrAlone(mode', bridge') /\ mode' = mode /\ over' = over
         /\ PosOK(sp) /\ PosOK(sp') /\ bridge \in BridgeType /\ bridge' \in BridgeType
         /\ Puts(mode, sp, bridge, sp', bridge')
         /\ writer' = "SPEECH" /\ Counts("SPEECH", writer, switches, noisy, sp, switches', noisy')
<1>1. PICK p, q, l : p = sp /\ q = Adv("SPEECH", p) /\ l = LinesOf("SPEECH", p.text)[p.line + 1]
  OBVIOUS
<1>2. "SPEECH" \in Ts!Tasks
  BY DEF Ts!Tasks
<1>3. /\ StreamType' /\ CrAlone(mode', bridge')
      /\ pos' = [pos EXCEPT !["SPEECH"] = q] /\ AtOK("SPEECH", p) /\ p.text < Ts!Limit("SPEECH")
      /\ l \in Seq(Ts!Pieces) /\ p.col \in 0..(Len(l) + 1)
      /\ p.col < Len(l) => bridge'.line = Append(bridge.line, l[p.col + 1]) /\ Same(bridge, bridge')
      /\ p.col = Len(l) => IF mode = "pipe" THEN Handled(bridge.line, bridge, bridge') ELSE bridge' = bridge
      /\ p.col = Len(l) + 1 => Handled(bridge.line, bridge, bridge')
  BY <1>1, <1>2, TaskStep DEF sp
<1>4. sp' = q
  <2>1. pos \in [Ts!Tasks -> [text : Nat, line : Nat, col : Nat]]
    BY DEF StreamType
  <2> QED
    BY <1>2, <1>3, <2>1 DEF sp
<1>5. l = LineAt(p)
  BY <1>1 DEF LinesOf, LineAt
<1>6. /\ AtOK("SPEECH", q)
      /\ p.col <= Len(l) => Stays(p, q)
      /\ p.col > Len(l) => /\ q.col = 0
                           /\ IF p.line + 1 < Len(LinesOf("SPEECH", p.text)) THEN q.text = p.text /\ q.line = p.line + 1
                              ELSE q.text = p.text + 1 /\ q.line = 0
  BY <1>1, <1>2, <1>3, AdvIs DEF Stays
<1>7. PosOK(p) /\ PosOK(q)
  BY <1>3, <1>6, SpeechAt
<1>8. p.col > Len(l) => Turns(p, q)
  <2>1. Len(LinesOf("SPEECH", p.text)) = WordsPer + 6
    BY <1>7, PosFields, SpeechLines DEF LinesOf
  <2>2. p.line \in Nat /\ WordsPer \in Nat
    BY <1>7, PosFields, StreamConst
  <2>3. p.line + 1 < WordsPer + 6 <=> p.line < WordsPer + 5
    BY <2>2
  <2> QED
    BY <1>6, <2>1, <2>3 DEF Turns
<1>9. Puts(mode, p, bridge, q, bridge')
  <2>1. Len(l) \in Nat /\ p.col \in 0..(Len(l) + 1)
    BY <1>3, LenProperties
  <2>2. \/ p.col < Len(l) /\ p.col <= Len(l)
        \/ p.col = Len(l) /\ p.col <= Len(l)
        \/ p.col = Len(l) + 1 /\ p.col > Len(l)
    BY <2>1
  <2> QED
    BY <1>3, <1>5, <1>6, <1>8, <2>2, Zenon DEF Puts, PutPiece, PutCR, PutLF
<1>10. /\ mode' = mode /\ over' = over /\ Ts!Switch("SPEECH")
  BY TakeIs DEF Ts!ReadPiece, StreamType
<1>11. bridge \in BridgeType /\ bridge' \in BridgeType
  BY <1>3 DEF StreamType
<1> QED
  BY <1>1, <1>3, <1>4, <1>7, <1>9, <1>10, <1>11, SwitchCounts, Zenon

(* KEY. *)
LEMMA KeyStep ==
  ASSUME StreamType, CrAlone(mode, bridge), Ts!ReadPiece("KEY")
  PROVE  /\ StreamType' /\ CrAlone(mode', bridge') /\ mode' = mode /\ over' = over
         /\ PosOK(sp) /\ sp' = sp /\ bridge \in BridgeType /\ bridge' \in BridgeType
         /\ Disturbs(bridge, bridge')
         /\ writer' = "KEY" /\ Counts("KEY", writer, switches, noisy, sp, switches', noisy')
<1>1. PICK p, q, l : p = pos["KEY"] /\ q = Adv("KEY", p) /\ l = LinesOf("KEY", p.text)[p.line + 1]
  OBVIOUS
<1>2. "SPEECH" \in Ts!Tasks /\ "KEY" \in Ts!Tasks
  BY DEF Ts!Tasks
<1>3. /\ StreamType' /\ CrAlone(mode', bridge')
      /\ pos' = [pos EXCEPT !["KEY"] = q] /\ AtOK("KEY", p) /\ p.text < Ts!Limit("KEY")
      /\ l \in Seq(Ts!Pieces) /\ p.col \in 0..(Len(l) + 1)
      /\ p.col < Len(l) => bridge'.line = Append(bridge.line, l[p.col + 1]) /\ Same(bridge, bridge')
      /\ p.col = Len(l) => IF mode = "pipe" THEN Handled(bridge.line, bridge, bridge') ELSE bridge' = bridge
      /\ p.col = Len(l) + 1 => Handled(bridge.line, bridge, bridge')
  BY <1>1, <1>2, TaskStep
<1>4. sp' = sp
  <2>1. pos \in [Ts!Tasks -> [text : Nat, line : Nat, col : Nat]]
    BY DEF StreamType
  <2> QED
    BY <1>2, <1>3, <2>1 DEF sp
<1>5. l = Ts!Text
  <2>1. LinesOf("KEY", p.text) = <<Ts!Text>>
    BY DEF LinesOf, Ts!key_task
  <2>2. Len(<<Ts!Text>>) = 1 /\ <<Ts!Text>>[1] = Ts!Text
    OBVIOUS
  <2>3. p.line = 0
    <3>1. p.line \in Nat /\ (p.line < Len(LinesOf("KEY", p.text)) \/ p.line = 0)
      BY <1>3 DEF AtOK
    <3>2. Len(LinesOf("KEY", p.text)) = 1
      BY <2>1, <2>2, Zenon
    <3>3. PICK k \in Nat : k = p.line
      BY <3>1
    <3>4. k < 1 \/ k = 0
      BY <3>1, <3>2, <3>3, Zenon
    <3>5. k = 0
      BY <3>4
    <3> QED
      BY <3>3, <3>5
  <2> QED
    BY <1>1, <2>1, <2>2, <2>3
<1>6. Disturbs(bridge, bridge')
  <2>0. PICK n : n = p.col
    OBVIOUS
  <2>1. n = 0 \/ n = 1 \/ n = 2
    BY <1>3, <1>5, <2>0, PlainLines
  <2>2. CASE n = 0
    <3>1. n < Len(l) /\ n + 1 = 1 /\ l[1] = text
      BY <1>5, <2>2, PlainLines
    <3>2. bridge'.line = Append(bridge.line, text) /\ Same(bridge, bridge')
      BY <1>3, <2>0, <3>1, Zenon
    <3> QED
      BY <3>2, Zenon DEF Disturbs
  <2>3. CASE n = 1
    <3>1. n = Len(l)
      BY <1>5, <2>3, PlainLines
    <3>2. Handled(bridge.line, bridge, bridge') \/ bridge' = bridge
      BY <1>3, <2>0, <3>1, Zenon
    <3> QED
      BY <3>2, Zenon DEF Disturbs, Same
  <2>4. CASE n = 2
    <3>1. n = Len(l) + 1
      BY <1>5, <2>4, PlainLines
    <3>2. Handled(bridge.line, bridge, bridge')
      BY <1>3, <2>0, <3>1, Zenon
    <3> QED
      BY <3>2, Zenon DEF Disturbs
  <2> QED
    BY <2>1, <2>2, <2>3, <2>4
<1>7. /\ mode' = mode /\ over' = over /\ Ts!Switch("KEY")
  BY TakeIs DEF Ts!ReadPiece, StreamType
<1>8. bridge \in BridgeType /\ bridge' \in BridgeType /\ PosOK(sp)
  BY <1>2, <1>3, SpeechAt DEF StreamType, sp
<1> QED
  BY <1>3, <1>4, <1>6, <1>7, <1>8, SwitchCounts, Zenon

(* NTP: its line is taken with what was before it. *)
LEMMA NtpStep ==
  ASSUME StreamType, CrAlone(mode, bridge), Ts!ReadNtp
  PROVE  /\ StreamType' /\ CrAlone(mode', bridge') /\ mode' = mode /\ over' = over
         /\ PosOK(sp) /\ sp' = sp /\ bridge \in BridgeType /\ bridge' \in BridgeType
         /\ Disturbs(bridge, bridge')
         /\ writer' = "NTP" /\ Counts("NTP", writer, switches, noisy, sp, switches', noisy')
<1>0. /\ mode' = mode /\ over' = over /\ Ts!Switch("NTP") /\ pos' = pos /\ ntp' = ntp + 1 /\ ntp < MaxNtpLines
      /\ bridge' = Ts!Feed(Ts!Feed(Ts!Feed(bridge, Ts!Text[1]), Ts!CR), Ts!LF) /\ PipeType'
  BY TakeIs DEF Ts!ReadNtp, StreamType
<1>1. sp' = sp
  BY <1>0 DEF sp
<1>2. bridge \in BridgeType /\ mode \in {"interactive", "pipe"}
  BY DEF StreamType
<1>3. PosOK(sp)
  BY SpeechAt DEF StreamType, sp, Ts!Tasks
<1>4. PICK l : l = Append(bridge.line, text)
  OBVIOUS
<1>5. PICK b1 \in BridgeType : b1 = Ts!Feed(bridge, Ts!Text[1]) /\ b1.line = l /\ b1.cr = FALSE /\ Same(bridge, b1)
  BY <1>2, <1>4, FeedPiece, PlainLines, PiecesDiffer, Zenon
<1>6. PICK b2 : b2 = Ts!Feed(b1, Ts!CR)
  OBVIOUS
<1>7. /\ b2 \in BridgeType
      /\ mode = "interactive" => b2 = b1
      /\ mode = "pipe" => Handled(b1.line, b1, b2) /\ b2.cr = TRUE
  BY <1>2, <1>6, FeedCR, Zenon
<1>8. CrAlone(mode, b2)
  BY <1>2, <1>5, <1>7 DEF CrAlone, Handled
<1>9. PICK b3 : b3 = bridge'
  OBVIOUS
<1>10. b3 \in BridgeType /\ Handled(b2.line, b2, b3) /\ b3.cr = FALSE
  BY <1>0, <1>5, <1>6, <1>7, <1>8, <1>9, FeedLF, Zenon DEF CrAlone
<1>11. Handled(l, bridge, b3)
  <2>1. CASE mode = "interactive"
    BY <1>5, <1>7, <1>10, <2>1, Zenon DEF Handled, Same
  <2>2. CASE mode = "pipe"
    <3>1. b2.line = <<>> /\ Handled(l, b1, b2)
      BY <1>5, <1>7, <2>2, Zenon DEF Handled
    <3>2. ~IsToken(<<>>) /\ <<>> # Ts!End
      <4>1. Len(<<>>) = 0 /\ ~(0 >= 3) /\ 0 # 1
        OBVIOUS
      <4> QED
        BY <4>1, PlainLines, Zenon DEF IsToken
    <3>3. Same(b2, b3) /\ b3.line = <<>>
      BY <1>10, <3>1, <3>2, Zenon DEF Handled
    <3> QED
      BY <1>5, <3>1, <3>3, Zenon DEF Handled, Same
  <2> QED
    BY <1>2, <2>1, <2>2
<1>12. Disturbs(bridge, bridge') /\ bridge' \in BridgeType /\ CrAlone(mode, bridge')
  BY <1>4, <1>9, <1>10, <1>11, Zenon DEF Disturbs, CrAlone
<1>13. StreamType'
  <2>1. Ts!Underway \subseteq 1..MaxSpoken
    BY <1>3, PosFields DEF Ts!Underway, sp
  <2>2. writer' \in Ts!Tasks \cup {"NTP"} /\ switches' \in Nat /\ noisy' \subseteq 1..MaxSpoken
    BY <1>0, <2>1 DEF Ts!Switch, StreamType
  <2>3. ntp' \in 0..MaxNtpLines
    BY <1>0, StreamConst DEF StreamType
  <2> QED
    BY <1>0, <1>12, <2>2, <2>3 DEF StreamType
<1> QED
  BY <1>0, <1>1, <1>2, <1>3, <1>12, <1>13, SwitchCounts, Zenon
-----------------------------------------------------------------------------
(* Lines and words. *)

(* A TOKEN line carries its word. *)
LEMMA WordLine ==
  ASSUME NEW w \in Ts!Ids, NEW l, l = Ts!uart_send_token(w)
  PROVE  l \in Seq(Ts!Pieces) /\ IsToken(l) /\ Rest(l) = Ts!Word(w)
<1>1. /\ l \in Seq(Ts!Pieces) /\ Len(l) = 4
      /\ l[1] = tok /\ l[2] = en /\ l[3] = head(w) /\ l[4] = tail(w)
  BY TokenLine
<1>2. IsToken(l)
  BY <1>1 DEF IsToken
<1>3. /\ Ts!Word(w) \in Seq(Ts!Pieces) /\ Len(Ts!Word(w)) = 2
      /\ Ts!Word(w)[1] = head(w) /\ Ts!Word(w)[2] = tail(w)
  BY WordIs
<1>4. /\ Rest(l) \in Seq(Ts!Pieces) /\ Len(Rest(l)) = 4 - 2
      /\ \A i \in 1..(4 - 2) : Rest(l)[i] = l[i + 2]
  BY <1>1, <1>2, RestIs
<1>5. Len(Rest(l)) = 2 /\ Rest(l)[1] = head(w) /\ Rest(l)[2] = tail(w)
  BY <1>1, <1>4
<1>6. \A i \in 1..2 : i = 1 \/ i = 2
  OBVIOUS
<1>7. \A i \in 1..Len(Rest(l)) : Rest(l)[i] = Ts!Word(w)[i]
  BY <1>3, <1>5, <1>6
<1>8. Rest(l) = Ts!Word(w)
  BY <1>3, <1>4, <1>5, <1>7, SeqEqual, Zenon
<1> QED
  BY <1>1, <1>2, <1>8

(* What carries a word has its first half in its third place. *)
LEMMA LineOfWord ==
  ASSUME NEW w \in Ts!Ids, NEW l \in Seq(Ts!Pieces), IsToken(l), Rest(l) = Ts!Word(w)
  PROVE  3 \in 1..Len(l) /\ l[3] = head(w)
<1>1. Len(l) \in Nat /\ Len(l) >= 3
  BY LenProperties DEF IsToken
<1>2. 1 \in 1..(Len(l) - 2) /\ 3 \in 1..Len(l) /\ 1 + 2 = 3
  BY <1>1
<1>3. Rest(l)[1] = l[3]
  BY <1>2, RestIs
<1>4. Ts!Word(w)[1] = head(w)
  BY WordIs
<1> QED
  BY <1>2, <1>3, <1>4

(* SPEECH has put its whole line and the bridge holds it. *)
LEMMA HoldsAll ==
  ASSUME NEW p, PosOK(p), NEW l \in Seq(Ts!Pieces), Holds(l, p), p.col >= Len(LineAt(p))
  PROVE  l = LineAt(p)
<1>1. LineAt(p) \in Seq(Ts!Pieces) /\ Len(LineAt(p)) \in Nat /\ p.col \in Nat
  BY LineLen
<1>2. Len(l) = Len(LineAt(p))
  BY <1>1 DEF Holds, Got
<1>3. \A i \in 1..Len(l) : l[i] = LineAt(p)[i]
  BY DEF Holds
<1> QED
  BY <1>1, <1>2, <1>3, SeqEqual, Zenon

(* The next piece. *)
LEMMA HoldsNext ==
  ASSUME NEW p, PosOK(p), NEW q, Stays(p, q), NEW l \in Seq(Ts!Pieces), Holds(l, p)
  PROVE  /\ p.col < Len(LineAt(p)) => Holds(Append(l, LineAt(p)[p.col + 1]), q)
         /\ p.col = Len(LineAt(p)) => Holds(l, q)
         /\ LineAt(q) = LineAt(p)
<1>1. LineAt(q) = LineAt(p)
  BY DEF Stays, LineAt
<1>0. LineAt(p) \in Seq(Ts!Pieces) /\ Len(LineAt(p)) \in Nat /\ p.col \in Nat
  BY LineLen
<1>10. PICK e : e = LineAt(p)
  OBVIOUS
<1>11. PICK n \in Nat : n = Len(LineAt(p))
  BY <1>0, Zenon
<1>12. PICK k \in Nat : k = p.col
  BY <1>0, Zenon
<1>2. e = LineAt(p) /\ n = Len(e) /\ k = p.col
  BY <1>10, <1>11, <1>12
<1>3. q.col = k + 1
  BY <1>2 DEF Stays
<1>4. CASE k < n
  <2>1. Len(l) = k /\ \A i \in 1..k : l[i] = e[i]
    BY <1>2, <1>4 DEF Holds, Got
  <2>2. PICK x \in Ts!Pieces : x = e[k + 1]
    <3>1. k + 1 \in 1..n
      BY <1>4
    <3> QED
      BY <1>2, <3>1, LineAtIs, ElementOfSeq
  <2>3. /\ Len(Append(l, x)) = k + 1 /\ Append(l, x)[k + 1] = x
        /\ \A i \in 1..k : Append(l, x)[i] = l[i]
    BY <2>1, AppendProperties
  <2>4. \A i \in 1..(k + 1) : i \in 1..k \/ i = k + 1
    OBVIOUS
  <2>5. \A i \in 1..(k + 1) : Append(l, x)[i] = e[i]
    BY <2>1, <2>2, <2>3, <2>4, Zenon
  <2>6. Got(q) = k + 1
    BY <1>1, <1>2, <1>3, <1>4 DEF Got
  <2>7. Holds(Append(l, x), q)
    BY <1>1, <1>2, <2>3, <2>5, <2>6 DEF Holds
  <2> QED
    BY <1>1, <1>2, <1>4, <2>2, <2>7
<1>5. CASE k = n
  <2>1. Got(p) = k /\ Got(q) = k
    BY <1>1, <1>2, <1>3, <1>5 DEF Got
  <2> QED
    BY <1>1, <1>2, <1>5, <2>1 DEF Holds
<1>6. CASE k > n
  BY <1>1, <1>2, <1>6
<1> QED
  BY <1>2, <1>4, <1>5, <1>6

(* A line that holds what SPEECH has put holds its next piece too. *)
LEMMA HoldsPut ==
  ASSUME NEW p, PosOK(p), NEW q, NEW b, b.line \in Seq(Ts!Pieces), NEW c,
         Holds(b.line, p), Stays(p, q), p.col < Len(LineAt(p)),
         c.line = Append(b.line, LineAt(p)[p.col + 1])
  PROVE  Holds(c.line, q)
<1>1. Holds(Append(b.line, LineAt(p)[p.col + 1]), q)
  BY HoldsNext, Zenon
<1> QED
  BY <1>1

(* Nothing is held of a line that SPEECH has not begun. *)
LEMMA HoldsNone ==
  ASSUME NEW p, PosOK(p), p.col = 0
  PROVE  Holds(<<>>, p)
<1>1. Len(LineAt(p)) \in Nat
  BY LineAtIs
<1>2. Got(p) = 0
  BY <1>1 DEF Got
<1>3. Len(<<>>) = 0 /\ \A i : ~(i \in 1..0)
  OBVIOUS
<1> QED
  BY <1>2, <1>3, Zenon DEF Holds

(* What was heard is not forgotten. *)
LEMMA HeardStays ==
  ASSUME NEW b \in BridgeType, NEW c \in BridgeType, NEW l \in Seq(Ts!Pieces),
         Same(b, c) \/ Handled(l, b, c)
  PROVE  \A w : Heard(b, w) => Heard(c, w)
<1>1. CASE Same(b, c)
  BY <1>1, SameHushes, HushedKeeps, Zenon
<1>2. CASE Handled(l, b, c) /\ IsToken(l)
  BY <1>2, HandledIsHeard, HearsAdds, Zenon
<1>3. CASE Handled(l, b, c) /\ ~IsToken(l)
  BY <1>3, HandledIsHeard, HushedKeeps, Zenon
<1> QED
  BY <1>1, <1>2, <1>3, Zenon

(* A TOKEN line taken whole is heard. *)
LEMMA LineHeard ==
  ASSUME NEW p, PosOK(p), NEW w \in Ts!Ids, Open(p, w), NEW b \in BridgeType, NEW c \in BridgeType,
         NEW l, l = LineAt(p), Handled(l, b, c)
  PROVE  Heard(c, w)
<1>1. l = Ts!uart_send_token(w)
  BY TokenAt
<1>2. l \in Seq(Ts!Pieces) /\ IsToken(l) /\ Rest(l) = Ts!Word(w)
  BY <1>1, WordLine, Zenon
<1>3. Hears(b, c, Rest(l))
  BY <1>2, HandledIsHeard, Zenon
<1> QED
  BY <1>2, <1>3, HearsAdds, Zenon
-----------------------------------------------------------------------------
(* Lost words. *)

(* At the beginning of a line, and as long as nobody else writes, SPEECH's  *)
(* line is intact.                                                          *)
LEMMA IntactAtStart ==
  ASSUME NEW m, NEW t, NEW p, PosOK(p), NEW b \in BridgeType, BoundaryEmpty(t, p, b), t = "SPEECH", p.col = 0
  PROVE  Intact(m, t, p, b)
<1>1. b.line = <<>>
  BY DEF BoundaryEmpty
<1>2. Holds(b.line, p)
  BY <1>1, HoldsNone, Zenon
<1>3. Len(LineAt(p)) \in 0..4
  BY LineAtIs, Zenon
<1>4. p.col <= Len(LineAt(p))
  BY <1>3
<1> QED
  BY <1>2, <1>4 DEF Intact

(* A step of SPEECH loses no word of its own, and at most the one that it   *)
(* is putting when another task wrote before.                               *)
LEMMA SpeechLoses ==
  ASSUME NEW m \in {"interactive", "pipe"}, NEW t, NEW p, PosOK(p), NEW q, PosOK(q),
         NEW b \in BridgeType, NEW c \in BridgeType, Puts(m, p, b, q, c), BoundaryEmpty(t, p, b)
  PROVE  /\ t = "SPEECH" => Bad(m, "SPEECH", q, c) \subseteq Bad(m, t, p, b)
         /\ \E x : Bad(m, "SPEECH", q, c) \subseteq Bad(m, t, p, b) \cup {x}
<1>1. b.line \in Seq(Ts!Pieces)
  BY BridgeFields
<1>2. Stays(p, q) \/ Turns(p, q)
  BY DEF Puts, PutPiece, PutCR, PutLF
<1>3. \A w : Heard(b, w) => Heard(c, w)
  <2>1. Same(b, b)
    BY DEF Same
  <2> QED
    BY <1>1, <2>1, HeardStays, Zenon DEF Puts, PutPiece, PutCR, PutLF
<1>4. ASSUME NEW w \in Bad(m, "SPEECH", q, c)
      PROVE  /\ w \in Ts!Ids /\ ~Heard(c, w) /\ ~Heard(b, w)
             /\ Past(p, w) \/ Open(p, w)
             /\ Past(p, w) \/ Turns(p, q) \/ (Stays(p, q) /\ ~Intact(m, "SPEECH", q, c))
  <2>1. /\ w \in Ts!Ids /\ ~Heard(c, w)
        /\ Past(q, w) \/ (Open(q, w) /\ q.col > 0 /\ ~Intact(m, "SPEECH", q, c))
    BY Zenon DEF Bad
  <2>2. CASE Stays(p, q)
    BY <1>3, <2>1, <2>2, WordsAdvance
  <2>3. CASE Turns(p, q)
    <3>1. ~(q.col > 0)
      BY <2>3 DEF Turns
    <3> QED
      BY <1>3, <2>1, <2>3, <3>1, WordsAdvance
  <2> QED
    BY <1>2, <2>2, <2>3
<1>5. ASSUME t = "SPEECH", NEW w \in Bad(m, "SPEECH", q, c) PROVE w \in Bad(m, t, p, b)
  <2>1. /\ w \in Ts!Ids /\ ~Heard(c, w) /\ ~Heard(b, w) /\ (Past(p, w) \/ Open(p, w))
        /\ Past(p, w) \/ Turns(p, q) \/ (Stays(p, q) /\ ~Intact(m, "SPEECH", q, c))
    BY <1>4, <1>5
  <2> SUFFICES ASSUME Open(p, w), ~Past(p, w), p.col > 0 => Intact(m, t, p, b)
               PROVE  FALSE
    BY <2>1, Zenon DEF Bad
  <2>2. Intact(m, t, p, b)
    <3>1. p.col \in Nat
      BY PosFields, Zenon
    <3>2. p.col > 0 \/ p.col = 0
      BY <3>1
    <3> QED
      BY <1>5, <3>2, IntactAtStart, Zenon
  <2>3. Holds(b.line, p) /\ (m = "pipe" => p.col <= Len(LineAt(p)))
    BY <2>2, Zenon DEF Intact
  <2>4. Len(LineAt(p)) \in Nat /\ p.col \in Nat
    BY LineAtIs, PosFields
  <2>5. CASE PutPiece(p, b, q, c)
    <3>1. /\ p.col < Len(LineAt(p)) /\ Stays(p, q) /\ c.line = Append(b.line, LineAt(p)[p.col + 1])
      BY <2>5, Zenon DEF PutPiece
    <3>2. Holds(c.line, q)
      BY <1>1, <2>3, <3>1, HoldsPut, Zenon
    <3>6. LineAt(q) = LineAt(p)
      BY <3>1, Zenon DEF Stays, LineAt
    <3>3. q.col <= Len(LineAt(p))
      BY <2>4, <3>1 DEF Stays
    <3>4. Intact(m, "SPEECH", q, c)
      BY <3>2, <3>3, <3>6, Zenon DEF Intact
    <3>5. ~Turns(p, q)
      BY <2>4, <3>1 DEF Stays, Turns
    <3> QED
      BY <2>1, <3>4, <3>5, Zenon
  <2>6. CASE PutCR(m, p, b, q, c) /\ m # "pipe"
    <3>1. p.col = Len(LineAt(p)) /\ Stays(p, q) /\ c = b
      BY <2>6, Zenon DEF PutCR
    <3>2. Holds(c.line, q)
      BY <1>1, <2>3, <3>1, HoldsNext, Zenon
    <3>3. Intact(m, "SPEECH", q, c)
      BY <2>6, <3>2, Zenon DEF Intact
    <3>4. ~Turns(p, q)
      BY <2>4, <3>1 DEF Stays, Turns
    <3> QED
      BY <2>1, <3>3, <3>4, Zenon
  <2>7. CASE PutCR(m, p, b, q, c) /\ m = "pipe"
    <3>1. p.col = Len(LineAt(p)) /\ Handled(b.line, b, c)
      BY <2>7, Zenon DEF PutCR
    <3>2. p.col >= Len(LineAt(p))
      BY <2>4, <3>1
    <3>3. b.line = LineAt(p)
      BY <1>1, <2>3, <3>2, HoldsAll, Zenon
    <3> QED
      BY <2>1, <3>1, <3>3, LineHeard, Zenon
  <2>8. CASE PutLF(p, b, q, c)
    <3>1. p.col = Len(LineAt(p)) + 1 /\ Handled(b.line, b, c)
      BY <2>8, Zenon DEF PutLF
    <3>2. p.col >= Len(LineAt(p))
      BY <2>4, <3>1
    <3>3. b.line = LineAt(p)
      BY <1>1, <2>3, <3>2, HoldsAll, Zenon
    <3> QED
      BY <2>1, <3>1, <3>3, LineHeard, Zenon
  <2> QED
    BY <2>5, <2>6, <2>7, <2>8, Zenon DEF Puts
<1>6. Bad(m, "SPEECH", q, c) \subseteq Bad(m, t, p, b) \cup {<<p.text + 1, p.line - 2>>}
  <2> SUFFICES ASSUME NEW w \in Bad(m, "SPEECH", q, c), ~Past(p, w)
               PROVE  w = <<p.text + 1, p.line - 2>>
    BY <1>4, Zenon DEF Bad
  <2> QED
    BY <1>4, TokenAt, Zenon
<1> QED
  BY <1>5, <1>6, Zenon

(* A step of another task loses at most the word that SPEECH is putting,    *)
(* and that only once.                                                      *)
LEMMA OthersLose ==
  ASSUME NEW m, NEW t, NEW u, u # "SPEECH", NEW p, PosOK(p),
         NEW b \in BridgeType, NEW c \in BridgeType, Disturbs(b, c)
  PROVE  /\ t # "SPEECH" => Bad(m, u, p, c) \subseteq Bad(m, t, p, b)
         /\ \E x : Bad(m, u, p, c) \subseteq Bad(m, t, p, b) \cup {x}
<1>1. b.line \in Seq(Ts!Pieces) /\ Append(b.line, text) \in Seq(Ts!Pieces)
  <2>1. b.line \in Seq(Ts!Pieces) /\ text \in Ts!Pieces
    BY BridgeFields, PiecesDiffer
  <2> QED
    BY <2>1, AppendProperties
<1>2. \A w : Heard(b, w) => Heard(c, w)
  BY <1>1, HeardStays, Zenon DEF Disturbs
<1>3. ASSUME NEW w \in Bad(m, u, p, c)
      PROVE  w \in Ts!Ids /\ ~Heard(b, w) /\ (Past(p, w) \/ (Open(p, w) /\ p.col > 0))
  BY <1>2, Zenon DEF Bad
<1>4. t # "SPEECH" => Bad(m, u, p, c) \subseteq Bad(m, t, p, b)
  BY <1>3, Zenon DEF Bad, Intact
<1>5. Bad(m, u, p, c) \subseteq Bad(m, t, p, b) \cup {<<p.text + 1, p.line - 2>>}
  <2> SUFFICES ASSUME NEW w \in Bad(m, u, p, c), ~Past(p, w)
               PROVE  w = <<p.text + 1, p.line - 2>>
    BY <1>3, Zenon DEF Bad
  <2> QED
    BY <1>3, TokenAt, Zenon
<1> QED
  BY <1>4, <1>5, Zenon

(* A set that grows by one element at most when the count does. *)
LEMMA CountGrows ==
  ASSUME NEW S, IsFiniteSet(S), NEW s \in Nat, Cardinality(S) <= s, NEW T, NEW x, T \subseteq S \cup {x}
  PROVE  IsFiniteSet(T) /\ Cardinality(T) <= s + 1 /\ (T \subseteq S => Cardinality(T) <= s)
<1>1. IsFiniteSet(S \cup {x}) /\ (Cardinality(S \cup {x}) = Cardinality(S) \/ Cardinality(S \cup {x}) = Cardinality(S) + 1)
  BY FS_AddElement
<1>2. Cardinality(S) \in Nat
  BY FS_CardinalityType
<1>3. IsFiniteSet(T) /\ Cardinality(T) <= Cardinality(S \cup {x})
  BY <1>1, FS_Subset
<1>4. Cardinality(T) \in Nat /\ Cardinality(S \cup {x}) \in Nat
  BY <1>1, <1>3, FS_CardinalityType
<1>5. T \subseteq S => Cardinality(T) <= Cardinality(S)
  BY FS_Subset
<1> QED
  BY <1>1, <1>2, <1>3, <1>4, <1>5

(* The count of lost words. *)
LEMMA LostCount ==
  ASSUME NEW m, NEW t, NEW u, NEW p, NEW q, NEW b, NEW c, NEW s \in Nat, NEW s2,
         s2 = s + (IF u = t THEN 0 ELSE 1), LostBound(m, t, p, b, s),
         u = t => Bad(m, u, q, c) \subseteq Bad(m, t, p, b),
         \E x : Bad(m, u, q, c) \subseteq Bad(m, t, p, b) \cup {x}
  PROVE  LostBound(m, u, q, c, s2)
<1>1. PICK S, T, x : S = Bad(m, t, p, b) /\ T = Bad(m, u, q, c) /\ T \subseteq S \cup {x}
  BY Zenon
<1>2. IsFiniteSet(S) /\ Cardinality(S) <= s /\ (u = t => T \subseteq S)
  BY <1>1, Zenon DEF LostBound
<1>3. IsFiniteSet(T) /\ Cardinality(T) <= s + 1 /\ (T \subseteq S => Cardinality(T) <= s)
  BY <1>1, <1>2, CountGrows
<1>4. Cardinality(T) <= s2
  <2>1. CASE u = t
    BY <1>2, <1>3, <2>1
  <2>2. CASE u # t
    BY <1>3, <2>2
  <2> QED
    BY <2>1, <2>2
<1> QED
  BY <1>1, <1>3, <1>4 DEF LostBound
-----------------------------------------------------------------------------
(* Words that nobody sent. *)

(* A line that is taken adds one at most, and none if it is a word. *)
LEMMA HandledNoise ==
  ASSUME NEW b \in BridgeType, NEW c \in BridgeType, NEW l \in Seq(Ts!Pieces), Handled(l, b, c)
  PROVE  /\ ~IsToken(l) \/ (\E w \in Ts!Ids : Rest(l) = Ts!Word(w)) => NoiseOf(c) = NoiseOf(b)
         /\ \E x : NoiseOf(c) \subseteq NoiseOf(b) \cup {x}
<1>1. CASE IsToken(l)
  <2>1. Hears(b, c, Rest(l))
    BY <1>1, HandledIsHeard, Zenon
  <2> QED
    BY <1>1, <2>1, HearsAdds, Zenon
<1>2. CASE ~IsToken(l)
  <2>1. Hushed(b, c)
    BY <1>2, HandledIsHeard, Zenon
  <2>2. NoiseOf(c) = NoiseOf(b)
    BY <2>1, HushedKeeps, Zenon
  <2> QED
    BY <2>2, Zenon
<1> QED
  BY <1>1, <1>2

(* The count, when a step of u at t makes a threat or makes it true. *)
NoiseStep(u, t, p, b, q, c) ==
  \/ NoiseOf(c) = NoiseOf(b) /\ (u = t => (Threat(u, q, c) => Threat(t, p, b)))
  \/ /\ \E x : NoiseOf(c) \subseteq NoiseOf(b) \cup {x}
     /\ ~Threat(u, q, c) /\ (u = t => Threat(t, p, b))

(* The bound on the noise survives such a step. *)
LEMMA NoiseCount ==
  ASSUME NEW t, NEW u, NEW p, NEW q, NEW b, NEW c, NEW s \in Nat, NEW s2,
         s2 = s + (IF u = t THEN 0 ELSE 1), NoiseBound(t, p, b, s), NoiseStep(u, t, p, b, q, c)
  PROVE  NoiseBound(u, q, c, s2)
<1>1. PICK S, T : S = NoiseOf(b) /\ T = NoiseOf(c)
  OBVIOUS
<1>2. PICK h \in {0, 1}, k \in {0, 1} :
        /\ (h = 1 <=> Threat(t, p, b)) /\ (k = 1 <=> Threat(u, q, c))
        /\ h = (IF Threat(t, p, b) THEN 1 ELSE 0) /\ k = (IF Threat(u, q, c) THEN 1 ELSE 0)
  <2>1. /\ (IF Threat(t, p, b) THEN 1 ELSE 0) \in {0, 1}
        /\ (IF Threat(u, q, c) THEN 1 ELSE 0) \in {0, 1}
        /\ ((IF Threat(t, p, b) THEN 1 ELSE 0) = 1 <=> Threat(t, p, b))
        /\ ((IF Threat(u, q, c) THEN 1 ELSE 0) = 1 <=> Threat(u, q, c))
    OBVIOUS
  <2> QED
    BY <2>1, Zenon
<1>3. IsFiniteSet(S) /\ Cardinality(S) + h <= s
  BY <1>1, <1>2, Zenon DEF NoiseBound
<1>4. Cardinality(S) \in Nat
  BY <1>3, FS_CardinalityType
<1>5. CASE NoiseOf(c) = NoiseOf(b) /\ (u = t => (Threat(u, q, c) => Threat(t, p, b)))
  <2>1. T = S /\ (u = t => (k = 1 => h = 1))
    BY <1>1, <1>2, <1>5, Zenon
  <2>2. IsFiniteSet(T) /\ Cardinality(T) + k <= s2
    <3>1. CASE u = t
      BY <1>3, <1>4, <2>1, <3>1
    <3>2. CASE u # t
      BY <1>3, <1>4, <2>1, <3>2
    <3> QED
      BY <3>1, <3>2
  <2> QED
    BY <1>1, <1>2, <2>2, Zenon DEF NoiseBound
<1>6. CASE /\ \E x : NoiseOf(c) \subseteq NoiseOf(b) \cup {x}
           /\ ~Threat(u, q, c) /\ (u = t => Threat(t, p, b))
  <2>1. PICK x : T \subseteq S \cup {x}
    BY <1>1, <1>6, Zenon
  <2>2. k = 0 /\ (u = t => h = 1)
    BY <1>2, <1>6
  <2>3. IsFiniteSet(T) /\ Cardinality(T) <= Cardinality(S) + 1
    <3>1. PICK n \in Nat : n = Cardinality(S) /\ Cardinality(S) <= n
      BY <1>4
    <3> QED
      BY <1>3, <2>1, <3>1, CountGrows
  <2>4. Cardinality(T) \in Nat
    BY <2>3, FS_CardinalityType
  <2>5. Cardinality(T) + k <= s2
    <3>1. CASE u = t
      BY <1>3, <1>4, <2>2, <2>3, <2>4, <3>1
    <3>2. CASE u # t
      BY <1>3, <1>4, <2>2, <2>3, <2>4, <3>2
    <3> QED
      BY <3>1, <3>2
  <2> QED
    BY <1>1, <1>2, <2>3, <2>5, Zenon DEF NoiseBound
<1> QED
  BY <1>5, <1>6, Zenon DEF NoiseStep

(* A TOKEN line that is a threat to nobody is the word that SPEECH put. *)
LEMMA NoThreatNoNoise ==
  ASSUME NEW p, PosOK(p), NEW b \in BridgeType, IsToken(b.line), ~Threat("SPEECH", p, b),
         p.col >= Len(LineAt(p))
  PROVE  \E w \in Ts!Ids : Rest(b.line) = Ts!Word(w)
<1>1. b.line \in Seq(Ts!Pieces) /\ Len(b.line) \in Nat /\ Len(b.line) >= 3 /\ b.line[1] = tok
  BY BridgeFields DEF IsToken
<1>2. b.line # <<>>
  BY <1>1
<1>3. Holds(b.line, p)
  BY <1>1, <1>2, Zenon DEF Threat
<1>4. b.line = LineAt(p)
  BY <1>1, <1>3, HoldsAll, Zenon
<1>5. 1 \in 1..Len(LineAt(p)) /\ LineAt(p)[1] = tok
  BY <1>1, <1>4
<1>6. PICK w \in Ts!Ids : LineAt(p) = Ts!uart_send_token(w)
  BY <1>5, TokenAt, Zenon
<1> QED
  BY <1>4, <1>6, WordLine, Zenon

(* The beginning of a line with one more piece. *)
LEMMA FirstPiece ==
  ASSUME NEW l \in Seq(Ts!Pieces), NEW x \in Ts!Pieces
  PROVE  /\ Append(l, x) \in Seq(Ts!Pieces) /\ Append(l, x) # <<>> /\ Len(Append(l, x)) = Len(l) + 1
         /\ l = <<>> => Append(l, x)[1] = x
         /\ l # <<>> => Append(l, x)[1] = l[1]
         /\ \A k \in 1..Len(Append(l, x)) : Append(l, x)[k] = x \/ (k \in 1..Len(l) /\ Append(l, x)[k] = l[k])
<1>1. PICK n \in Nat : n = Len(l)
  BY LenProperties
<1>2. /\ Append(l, x) \in Seq(Ts!Pieces) /\ Len(Append(l, x)) = n + 1 /\ Append(l, x)[n + 1] = x
      /\ \A i \in 1..n : Append(l, x)[i] = l[i]
  BY <1>1, AppendProperties
<1>3. l = <<>> <=> n = 0
  BY <1>1, EmptySeq
<1>4. \A k \in 1..(n + 1) : k \in 1..n \/ k = n + 1
  OBVIOUS
<1>5. n # 0 => 1 \in 1..n
  OBVIOUS
<1>6. Append(l, x) # <<>>
  BY <1>2
<1>7. n = 0 => Append(l, x)[1] = x
  BY <1>2
<1> QED
  BY <1>1, <1>2, <1>3, <1>4, <1>5, <1>6, <1>7, Zenon

(* SPEECH makes a word that nobody sent only where another task wrote. *)
LEMMA SpeechNoise ==
  ASSUME NEW m \in {"interactive", "pipe"}, NEW t, NEW p, PosOK(p), NEW q, PosOK(q),
         NEW b \in BridgeType, NEW c \in BridgeType, Puts(m, p, b, q, c), BoundaryEmpty(t, p, b)
  PROVE  NoiseStep("SPEECH", t, p, b, q, c)
<1>1. b.line \in Seq(Ts!Pieces)
  BY BridgeFields
<1>2. p.col \in Nat /\ Len(LineAt(p)) \in Nat /\ LineAt(p) \in Seq(Ts!Pieces)
  BY LineLen
<1>3. ASSUME Handled(b.line, b, c), p.col >= Len(LineAt(p)) PROVE NoiseStep("SPEECH", t, p, b, q, c)
  <2>1. ~Threat("SPEECH", q, c)
    BY <1>3, Zenon DEF Threat, Handled
  <2>2. CASE ~IsToken(b.line) \/ (\E w \in Ts!Ids : Rest(b.line) = Ts!Word(w))
    <3>1. NoiseOf(c) = NoiseOf(b)
      BY <1>1, <1>3, <2>2, HandledNoise, Zenon
    <3> QED
      BY <2>1, <3>1, Zenon DEF NoiseStep
  <2>3. CASE ~(~IsToken(b.line) \/ (\E w \in Ts!Ids : Rest(b.line) = Ts!Word(w)))
    <3>1. Threat("SPEECH", p, b)
      BY <1>3, <2>3, NoThreatNoNoise, Zenon
    <3>2. \E x : NoiseOf(c) \subseteq NoiseOf(b) \cup {x}
      BY <1>1, <1>3, HandledNoise, Zenon
    <3> QED
      BY <2>1, <3>1, <3>2, Zenon DEF NoiseStep
  <2> QED
    BY <2>2, <2>3
<1>4. CASE PutPiece(p, b, q, c)
  <2>1. /\ p.col < Len(LineAt(p)) /\ Stays(p, q) /\ c.line = Append(b.line, LineAt(p)[p.col + 1])
        /\ Same(b, c)
    BY <1>4, Zenon DEF PutPiece
  <2>2. NoiseOf(c) = NoiseOf(b)
    BY <2>1, SameHushes, HushedKeeps, Zenon
  <2>3. p.col + 1 \in 1..Len(LineAt(p)) /\ q.col = p.col + 1 /\ q.col > 0 /\ (p.col = 0 \/ p.col > 0)
    BY <1>2, <2>1 DEF Stays
  <2>4. PICK x \in Ts!Pieces : x = LineAt(p)[p.col + 1]
    BY <1>2, <2>3, ElementOfSeq
  <2>6. c.line = Append(b.line, x)
    BY <2>1, <2>4, Zenon
  <2>5. ASSUME t = "SPEECH", Threat("SPEECH", q, c), ~Threat(t, p, b) PROVE FALSE
    <3>1. c.line[1] = tok /\ ~Holds(c.line, q)
      BY <2>3, <2>5, Zenon DEF Threat
    <3>2. ~Holds(b.line, p)
      BY <1>1, <2>1, <3>1, HoldsPut, Zenon
    <3>3. b.line # <<>>
      <4> SUFFICES ASSUME b.line = <<>> PROVE FALSE
        OBVIOUS
      <4>1. x = tok
        BY <1>1, <2>6, <3>1, FirstPiece
      <4>2. p.col + 1 = 1
        BY <2>3, <2>4, <4>1, TokenAt, Zenon
      <4>3. p.col = 0
        BY <1>2, <4>2
      <4> QED
        BY <3>2, <4>3, HoldsNone, Zenon
    <3>4. b.line[1] = tok
      BY <1>1, <2>6, <3>1, <3>3, FirstPiece
    <3> QED
      BY <2>5, <3>2, <3>3, <3>4, Zenon DEF Threat
  <2> QED
    BY <2>2, <2>5, Zenon DEF NoiseStep
<1>5. CASE PutCR(m, p, b, q, c) /\ m # "pipe"
  <2>1. p.col = Len(LineAt(p)) /\ Stays(p, q) /\ c = b
    BY <1>5, Zenon DEF PutCR
  <2>2. p.col > 0 => q.col > 0
    BY <1>2, <2>1 DEF Stays
  <2>3. Holds(b.line, p) => Holds(b.line, q)
    BY <1>1, <2>1, HoldsNext, Zenon
  <2>4. t = "SPEECH" /\ Threat("SPEECH", q, c) => Threat(t, p, b)
    BY <2>1, <2>2, <2>3, Zenon DEF Threat
  <2> QED
    BY <2>1, <2>4, Zenon DEF NoiseStep
<1>6. CASE PutCR(m, p, b, q, c) /\ m = "pipe"
  <2>1. p.col = Len(LineAt(p)) /\ Handled(b.line, b, c)
    BY <1>6, Zenon DEF PutCR
  <2>2. p.col >= Len(LineAt(p))
    BY <1>2, <2>1
  <2> QED
    BY <1>3, <2>1, <2>2
<1>7. CASE PutLF(p, b, q, c)
  <2>1. p.col = Len(LineAt(p)) + 1 /\ Handled(b.line, b, c)
    BY <1>7, Zenon DEF PutLF
  <2>2. p.col >= Len(LineAt(p))
    BY <1>2, <2>1
  <2> QED
    BY <1>3, <2>1, <2>2
<1> QED
  BY <1>4, <1>5, <1>6, <1>7, Zenon DEF Puts

(* What another task adds to a line, and where a TOKEN line comes from. *)
LEMMA DisturbedLine ==
  ASSUME NEW b \in BridgeType, NEW l \in {b.line, Append(b.line, text)}
  PROVE  /\ l \in Seq(Ts!Pieces)
         /\ l # <<>> /\ l[1] = tok => b.line # <<>> /\ b.line[1] = tok
         /\ IsToken(l) => l # <<>> /\ l[1] = tok
         /\ b.line = <<>> \/ b.line[1] = text => l = <<>> \/ l[1] = text
         /\ \A k \in 1..Len(l) : \A w \in Ts!Ids : l[k] = head(w) => k \in 1..Len(b.line) /\ b.line[k] = head(w)
<1>1. b.line \in Seq(Ts!Pieces) /\ text \in Ts!Pieces
  BY BridgeFields, PiecesDiffer
<1>2. l \in Seq(Ts!Pieces)
  BY <1>1, FirstPiece, Zenon
<1>3. IsToken(l) => l # <<>> /\ l[1] = tok
  <2>1. Len(<<>>) = 0 /\ ~(0 >= 3)
    OBVIOUS
  <2> QED
    BY <2>1, Zenon DEF IsToken
<1>4. CASE l = b.line
  BY <1>2, <1>3, <1>4, Zenon
<1>5. CASE l = Append(b.line, text)
  <2>1. /\ b.line = <<>> => l[1] = text
        /\ b.line # <<>> => l[1] = b.line[1]
        /\ \A k \in 1..Len(l) : l[k] = text \/ (k \in 1..Len(b.line) /\ l[k] = b.line[k])
    BY <1>1, <1>5, FirstPiece, Zenon
  <2>2. text # tok /\ \A w \in Ts!Ids : text # head(w)
    BY PiecesDiffer, Zenon
  <2>3. ASSUME NEW k \in 1..Len(l), NEW w \in Ts!Ids, l[k] = head(w)
        PROVE  k \in 1..Len(b.line) /\ b.line[k] = head(w)
    BY <2>1, <2>2, <2>3, Zenon
  <2>4. l # <<>> /\ l[1] = tok => b.line # <<>> /\ b.line[1] = tok
    BY <2>1, <2>2, Zenon
  <2>5. b.line = <<>> \/ b.line[1] = text => l = <<>> \/ l[1] = text
    BY <2>1, Zenon
  <2> QED
    BY <1>2, <1>3, <2>3, <2>4, <2>5, Zenon
<1> QED
  BY <1>4, <1>5, Zenon

(* Another task makes one only where SPEECH wrote before. *)
LEMMA OthersNoise ==
  ASSUME NEW t, NEW u, u # "SPEECH", NEW p, PosOK(p),
         NEW b \in BridgeType, NEW c \in BridgeType, Disturbs(b, c)
  PROVE  NoiseStep(u, t, p, b, p, c)
<1>1. PICK l \in {b.line, Append(b.line, text)} : (c.line = l /\ Same(b, c)) \/ Handled(l, b, c)
  BY Zenon DEF Disturbs
<1>2. /\ l \in Seq(Ts!Pieces)
      /\ l # <<>> /\ l[1] = tok => b.line # <<>> /\ b.line[1] = tok
      /\ IsToken(l) => l # <<>> /\ l[1] = tok
  BY DisturbedLine, Zenon
<1>3. ASSUME u = t, l # <<>>, l[1] = tok PROVE Threat(t, p, b)
  BY <1>2, <1>3, Zenon DEF Threat
<1>4. CASE c.line = l /\ Same(b, c)
  <2>1. NoiseOf(c) = NoiseOf(b)
    BY <1>4, SameHushes, HushedKeeps, Zenon
  <2>2. u = t => (Threat(u, p, c) => Threat(t, p, b))
    BY <1>3, <1>4, Zenon DEF Threat
  <2> QED
    BY <2>1, <2>2, Zenon DEF NoiseStep
<1>5. CASE Handled(l, b, c)
  <2>1. ~Threat(u, p, c)
    BY <1>5, Zenon DEF Threat, Handled
  <2>2. CASE ~IsToken(l)
    <3>1. NoiseOf(c) = NoiseOf(b)
      BY <1>2, <1>5, <2>2, HandledNoise, Zenon
    <3> QED
      BY <2>1, <3>1, Zenon DEF NoiseStep
  <2>3. CASE IsToken(l)
    <3>1. \E x : NoiseOf(c) \subseteq NoiseOf(b) \cup {x}
      BY <1>2, <1>5, HandledNoise, Zenon
    <3> QED
      BY <1>2, <1>3, <2>1, <2>3, <3>1, Zenon DEF NoiseStep
  <2> QED
    BY <2>2, <2>3
<1> QED
  BY <1>1, <1>4, <1>5
-----------------------------------------------------------------------------
(* The order of words. *)

(* The words that the line l may become are put, and later than all heard. *)
Later(p, b, l) ==
  \A w \in Ts!Ids : \A k \in 1..Len(l) : l[k] = head(w) =>
    Put(p, w) /\ \A v \in Ts!Ids : Heard(b, v) => Ts!Sooner(v, w)

(* A line that is taken adds a word after all others. *)
LEMMA HandledInOrder ==
  ASSUME NEW p, NEW b \in BridgeType, NEW c \in BridgeType, NEW l \in Seq(Ts!Pieces), Handled(l, b, c),
         Later(p, b, l), \A w \in Ts!Ids : Heard(b, w) => Put(p, w), OrderOf(b)
  PROVE  OrderOf(c) /\ \A w \in Ts!Ids : Heard(c, w) => Put(p, w)
<1>1. CASE ~IsToken(l)
  <2>1. Hushed(b, c)
    BY <1>1, HandledIsHeard, Zenon
  <2> QED
    BY <2>1, HushedKeeps, Zenon
<1>2. CASE IsToken(l)
  <2>1. Hears(b, c, Rest(l))
    BY <1>2, HandledIsHeard, Zenon
  <2>2. ASSUME NEW w \in Ts!Ids, Rest(l) = Ts!Word(w)
        PROVE  Put(p, w) /\ \A v \in Ts!Ids : Heard(b, v) => Ts!Sooner(v, w)
    <3>1. 3 \in 1..Len(l) /\ l[3] = head(w)
      BY <1>2, <2>2, LineOfWord, Zenon
    <3> QED
      BY <3>1, Zenon DEF Later
  <2>3. \A w : Heard(c, w) <=> Heard(b, w) \/ Rest(l) = Ts!Word(w)
    BY <2>1, HearsAdds, Zenon
  <2>4. OrderOf(c)
    BY <2>1, <2>2, HearsAdds, Zenon
  <2> QED
    BY <2>2, <2>3, <2>4, Zenon
<1> QED
  BY <1>1, <1>2

(* SPEECH. *)
LEMMA SpeechInOrder ==
  ASSUME NEW m \in {"interactive", "pipe"}, NEW p, PosOK(p), NEW q, PosOK(q),
         NEW b \in BridgeType, NEW c \in BridgeType, Puts(m, p, b, q, c), HeadsOut(p, b), OrderOf(b)
  PROVE  HeadsOut(q, c) /\ OrderOf(c)
<1>1. b.line \in Seq(Ts!Pieces)
  BY BridgeFields
<1>2. Later(p, b, b.line) /\ \A w \in Ts!Ids : Heard(b, w) => Put(p, w)
  BY Zenon DEF HeadsOut, Later
<1>3. ASSUME NEW w \in Ts!Ids, Put(p, w) PROVE Put(q, w)
  <2>1. Stays(p, q) \/ Turns(p, q)
    BY Zenon DEF Puts, PutPiece, PutCR, PutLF
  <2> QED
    BY <1>3, <2>1, WordsAdvance, Zenon
<1>4. ASSUME Handled(b.line, b, c) PROVE HeadsOut(q, c) /\ OrderOf(c)
  <2>1. OrderOf(c) /\ \A w \in Ts!Ids : Heard(c, w) => Put(p, w)
    BY <1>1, <1>2, <1>4, HandledInOrder, Zenon
  <2>2. c.line = <<>> /\ \A k : ~(k \in 1..Len(<<>>))
    <3>1. \A k : ~(k \in 1..Len(<<>>))
      OBVIOUS
    <3> QED
      BY <1>4, <3>1, Zenon DEF Handled
  <2> QED
    BY <1>3, <2>1, <2>2, Zenon DEF HeadsOut
<1>5. CASE PutPiece(p, b, q, c)
  <2>1. /\ p.col < Len(LineAt(p)) /\ Stays(p, q) /\ c.line = Append(b.line, LineAt(p)[p.col + 1])
        /\ Same(b, c)
    BY <1>5, Zenon DEF PutPiece
  <2>2. OrderOf(c) /\ \A w : Heard(c, w) <=> Heard(b, w)
    BY <2>1, SameHushes, HushedKeeps, Zenon
  <2>3. p.col \in Nat /\ Len(LineAt(p)) \in Nat /\ LineAt(p) \in Seq(Ts!Pieces)
    BY LineLen
  <2>4. p.col + 1 \in 1..Len(LineAt(p))
    BY <2>1, <2>3
  <2>5. PICK x \in Ts!Pieces : x = LineAt(p)[p.col + 1]
    BY <2>3, <2>4, ElementOfSeq
  <2>6. c.line = Append(b.line, x)
    BY <2>1, <2>5, Zenon
  <2>7. \A k \in 1..Len(c.line) : c.line[k] = x \/ (k \in 1..Len(b.line) /\ c.line[k] = b.line[k])
    BY <1>1, <2>6, FirstPiece
  <2>8. ASSUME NEW w \in Ts!Ids, x = head(w)
        PROVE  Put(q, w) /\ \A v \in Ts!Ids : Heard(b, v) => Ts!Sooner(v, w)
    <3>1. p.col + 1 = 3 /\ Open(p, w)
      BY <2>4, <2>5, <2>8, TokenAt, Zenon
    <3>2. ~(p.col >= 3) /\ q.col >= 3
      BY <2>1, <2>3, <3>1 DEF Stays
    <3>3. ~Past(p, w) /\ Open(q, w)
      BY <2>1, <3>1, WordsAdvance, Zenon
    <3>4. ~Put(p, w) /\ Put(q, w)
      BY <3>2, <3>3, Zenon DEF Put
    <3> QED
      BY <1>2, <3>1, <3>4, WordsAdvance, Zenon
  <2>9. ASSUME NEW w \in Ts!Ids, NEW k \in 1..Len(c.line), c.line[k] = head(w)
        PROVE  Put(q, w) /\ \A v \in Ts!Ids : Heard(b, v) => Ts!Sooner(v, w)
    <3>1. CASE c.line[k] = x
      BY <2>8, <2>9, <3>1, Zenon
    <3>2. CASE k \in 1..Len(b.line) /\ c.line[k] = b.line[k]
      BY <1>2, <1>3, <2>9, <3>2, Zenon DEF Later
    <3> QED
      BY <2>7, <2>9, <3>1, <3>2, Zenon
  <2> QED
    BY <1>2, <1>3, <2>2, <2>9, Zenon DEF HeadsOut
<1>6. CASE PutCR(m, p, b, q, c) /\ m # "pipe"
  <2>1. c = b
    BY <1>6, Zenon DEF PutCR
  <2> QED
    BY <1>3, <2>1, Zenon DEF HeadsOut
<1>7. CASE PutCR(m, p, b, q, c) /\ m = "pipe"
  BY <1>4, <1>7, Zenon DEF PutCR
<1>8. CASE PutLF(p, b, q, c)
  BY <1>4, <1>8, Zenon DEF PutLF
<1> QED
  BY <1>5, <1>6, <1>7, <1>8, Zenon DEF Puts

(* The other tasks. *)
LEMMA OthersInOrder ==
  ASSUME NEW p, PosOK(p), NEW b \in BridgeType, NEW c \in BridgeType, Disturbs(b, c),
         HeadsOut(p, b), OrderOf(b)
  PROVE  HeadsOut(p, c) /\ OrderOf(c)
<1>1. PICK l \in {b.line, Append(b.line, text)} : (c.line = l /\ Same(b, c)) \/ Handled(l, b, c)
  BY Zenon DEF Disturbs
<1>2. /\ l \in Seq(Ts!Pieces)
      /\ \A k \in 1..Len(l) : \A w \in Ts!Ids : l[k] = head(w) => k \in 1..Len(b.line) /\ b.line[k] = head(w)
  BY DisturbedLine, Zenon
<1>3. Later(p, b, l) /\ \A w \in Ts!Ids : Heard(b, w) => Put(p, w)
  BY <1>2, Zenon DEF HeadsOut, Later
<1>4. CASE c.line = l /\ Same(b, c)
  <2>1. OrderOf(c) /\ \A w : Heard(c, w) <=> Heard(b, w)
    BY <1>4, SameHushes, HushedKeeps, Zenon
  <2> QED
    BY <1>3, <1>4, <2>1, Zenon DEF HeadsOut, Later
<1>5. CASE Handled(l, b, c)
  <2>1. OrderOf(c) /\ \A w \in Ts!Ids : Heard(c, w) => Put(p, w)
    BY <1>2, <1>3, <1>5, HandledInOrder, Zenon
  <2>2. c.line = <<>> /\ \A k : ~(k \in 1..Len(<<>>))
    <3>1. \A k : ~(k \in 1..Len(<<>>))
      OBVIOUS
    <3> QED
      BY <1>5, <3>1, Zenon DEF Handled
  <2> QED
    BY <2>1, <2>2, Zenon DEF HeadsOut
<1> QED
  BY <1>1, <1>4, <1>5
-----------------------------------------------------------------------------
(* Announcements that are not disturbed. *)

(* A line that is empty or begins with text is printed and forgotten. *)
LEMMA PlainSame ==
  ASSUME NEW b \in BridgeType, NEW c \in BridgeType, NEW l \in Seq(Ts!Pieces), Handled(l, b, c),
         l = <<>> \/ l[1] = text
  PROVE  Same(b, c)
<1>1. ~IsToken(l) /\ l # Ts!End
  <2>1. Len(<<>>) = 0 /\ ~(0 >= 3) /\ 0 # 1
    OBVIOUS
  <2>2. text # tok /\ text # fin
    BY PiecesDiffer
  <2> QED
    BY <2>1, <2>2, PlainLines, Zenon DEF IsToken
<1> QED
  BY <1>1, Zenon DEF Handled

(* The words of an announcement. *)
LEMMA SentenceIs ==
  ASSUME NEW a \in 1..MaxSpoken
  PROVE  /\ Ts!Sentence(a) \in Seq(Seq(Ts!Pieces)) /\ Len(Ts!Sentence(a)) = WordsPer
         /\ \A i \in 1..WordsPer : Ts!Sentence(a)[i] = Ts!Word(<<a, i>>) /\ <<a, i>> \in Ts!Ids
<1>1. \A i \in 1..WordsPer : <<a, i>> \in Ts!Ids
  BY DEF Ts!Ids
<1>2. PICK T : T = Seq(Ts!Pieces)
  OBVIOUS
<1>3. \A i \in 1..WordsPer : Ts!Word(<<a, i>>) \in T
  BY <1>1, <1>2, WordIs
<1> DEFINE F == [i \in 1..WordsPer |-> Ts!Word(<<a, i>>)]
<1>4. F \in Seq(T) /\ Len(F) = WordsPer /\ \A i \in 1..WordsPer : F[i] = Ts!Word(<<a, i>>)
  BY <1>3, StreamConst
<1>5. Ts!Sentence(a) = F
  BY DEF Ts!Sentence
<1> HIDE DEF F
<1> QED
  BY <1>1, <1>2, <1>4, <1>5

(* One more word. *)
LEMMA WordAdded ==
  ASSUME NEW ts \in Seq(Seq(Ts!Pieces)), NEW a, NEW k \in Nat, LastWords(ts, a, k),
         NEW x \in Seq(Ts!Pieces), x = Ts!Word(<<a, k + 1>>)
  PROVE  LastWords(Append(ts, x), a, k + 1)
<1>1. PICK n \in Nat : n = Len(ts)
  BY LenProperties
<1>2. n >= k /\ \A i \in 1..k : ts[n - k + i] = Ts!Word(<<a, i>>)
  BY <1>1 DEF LastWords
<1>3. /\ Len(Append(ts, x)) = n + 1 /\ Append(ts, x)[n + 1] = x
      /\ \A i \in 1..n : Append(ts, x)[i] = ts[i]
  BY <1>1, AppendProperties
<1>4. ASSUME NEW i \in 1..(k + 1)
      PROVE  Append(ts, x)[(n + 1) - (k + 1) + i] = Ts!Word(<<a, i>>)
  <2>0. i = k + 1 \/ i \in 1..k
    OBVIOUS
  <2>1. CASE i = k + 1
    <3>1. (n + 1) - (k + 1) + i = n + 1
      BY <2>1
    <3> QED
      BY <1>3, <2>1, <3>1
  <2>2. CASE i \in 1..k
    <3>1. (n + 1) - (k + 1) + i = n - k + i /\ n - k + i \in 1..n
      BY <1>2, <2>2
    <3> QED
      BY <1>2, <1>3, <2>2, <3>1
  <2> QED
    BY <2>0, <2>1, <2>2
<1>5. n + 1 >= k + 1
  BY <1>2
<1> QED
  BY <1>3, <1>4, <1>5, Zenon DEF LastWords

(* All its words. *)
LEMMA AllSaid ==
  ASSUME NEW ts \in Seq(Seq(Ts!Pieces)), NEW a \in 1..MaxSpoken, LastWords(ts, a, WordsPer)
  PROVE  /\ ts # <<>> /\ Ts!EndsWith(ts, Ts!Sentence(a))
         /\ Len(ts) = WordsPer => ts = Ts!Sentence(a)
<1>1. PICK n \in Nat : n = Len(ts)
  BY LenProperties
<1>2. PICK W \in Nat : W = WordsPer /\ W # 0
  BY StreamConst
<1>3. n >= W /\ \A i \in 1..W : ts[n - W + i] = Ts!Word(<<a, i>>)
  BY <1>1, <1>2 DEF LastWords
<1>4. PICK sn \in Seq(Seq(Ts!Pieces)) :
        sn = Ts!Sentence(a) /\ Len(sn) = W /\ \A i \in 1..W : sn[i] = Ts!Word(<<a, i>>)
  BY <1>2, SentenceIs, Zenon
<1>5. ts # <<>>
  <2>1. n # 0
    BY <1>2, <1>3
  <2> QED
    BY <1>1, <2>1, EmptySeq
<1>6. Ts!EndsWith(ts, sn)
  BY <1>1, <1>3, <1>4, Zenon DEF Ts!EndsWith
<1>7. ASSUME n = W PROVE ts = sn
  <2>1. \A i \in 1..W : n - W + i = i
    BY <1>7
  <2>2. Len(ts) = Len(sn) /\ \A i \in 1..Len(ts) : ts[i] = sn[i]
    BY <1>1, <1>3, <1>4, <1>7, <2>1
  <2> QED
    BY <2>2, SeqEqual, Zenon
<1> QED
  BY <1>1, <1>2, <1>4, <1>5, <1>6, <1>7, Zenon

(* What is spoken stays spoken. *)
LEMMA SpokenStays ==
  ASSUME NEW b \in BridgeType, NEW c,
         c.spoken = b.spoken \/ c.spoken = Append(b.spoken, b.tokens), NEW ns, NEW ns2, ns \subseteq ns2, NEW a, SpokenAs(b, a, ns)
  PROVE  SpokenAs(c, a, ns2)
<1>1. PICK i \in 1..Len(b.spoken) :
        Ts!EndsWith(b.spoken[i], Ts!Sentence(a)) /\ (Quiet(ns, a) => b.spoken[i] = Ts!Sentence(a))
  BY Zenon DEF SpokenAs
<1>2. Quiet(ns2, a) => Quiet(ns, a)
  BY DEF Quiet
<1>3. i \in 1..Len(c.spoken) /\ c.spoken[i] = b.spoken[i]
  <2>1. CASE c.spoken = b.spoken
    BY <2>1
  <2>2. CASE c.spoken = Append(b.spoken, b.tokens)
    <3>1. b.spoken \in Seq(Seq(Seq(Ts!Pieces))) /\ b.tokens \in Seq(Seq(Ts!Pieces))
      <4>1. b.spoken \in Seq(Seq(Seq(Ts!Pieces)) \ {<<>>}) /\ b.tokens \in Seq(Seq(Ts!Pieces))
        BY BridgeFields
      <4> QED
        BY <4>1, SeqMonotonic
    <3>2. Len(b.spoken) \in Nat
      BY BridgeFields
    <3>3. /\ Len(Append(b.spoken, b.tokens)) = Len(b.spoken) + 1
          /\ \A j \in 1..Len(b.spoken) : Append(b.spoken, b.tokens)[j] = b.spoken[j]
      BY <3>1, AppendProperties
    <3>4. i \in 1..(Len(b.spoken) + 1)
      BY <3>2
    <3> QED
      BY <2>2, <3>3, <3>4, Zenon
  <2> QED
    BY <2>1, <2>2
<1> QED
  BY <1>1, <1>2, <1>3, Zenon DEF SpokenAs

(* When the tokens and the sentences are as before, so is the announcement. *)
LEMMA SameStands ==
  ASSUME NEW b, NEW c, Same(b, c), NEW n, NEW a, NEW ns
  PROVE  (Stood(n, b, a, ns) => Stood(n, c, a, ns)) /\ (Still(n, b) => Still(n, c))
BY Zenon DEF Same, Stood, Still, SpokenAs

(* The bridge takes the next line of an announcement. *)
LEMMA LineTaken ==
  ASSUME NEW p, PosOK(p), Begun(p), NEW k, k = p.line, NEW a, a = p.text + 1, NEW ns,
         NEW b \in BridgeType, NEW c \in BridgeType, NEW l \in Seq(Ts!Pieces), Handled(l, b, c),
         Stood(k, b, a, ns), Quiet(ns, a) => Still(k, b),
         k >= 1 => l = LineAt(p), k = 0 /\ Quiet(ns, a) => l = <<>> \/ l[1] = text
  PROVE  Stood(k + 1, c, a, ns) /\ (Quiet(ns, a) => Still(k + 1, c))
<1>0. PICK W \in Nat : W = WordsPer /\ W # 0
  BY StreamConst
<1>1. k \in 0..(W + 5) /\ a \in 1..MaxSpoken
  BY <1>0, PosFields DEF Begun
<1>2. b.tokens \in Seq(Seq(Ts!Pieces)) /\ Len(b.tokens) \in Nat
  BY BridgeFields
<1>3. CASE k = 0
  <2>1. Stood(k + 1, c, a, ns)
    <3>1. ~(k + 1 \in 3..(W + 3)) /\ ~(k + 1 >= W + 4)
      BY <1>3
    <3> QED
      BY <1>0, <3>1, Zenon DEF Stood
  <2>2. ASSUME Quiet(ns, a) PROVE Still(k + 1, c)
    <3>1. Same(b, c)
      BY <1>3, <2>2, PlainSame, Zenon
    <3>2. k <= 3 /\ ~(k + 1 \in 3..(W + 3))
      BY <1>3
    <3>3. b.tokens = <<>>
      BY <2>2, <3>2, Zenon DEF Still
    <3> QED
      BY <1>0, <3>1, <3>2, <3>3, Zenon DEF Still, Same
  <2> QED
    BY <2>1, <2>2
<1>4. ASSUME k >= 1, Same(b, c), k = 1 \/ k = 2 \/ k >= W + 4 PROVE Stood(k + 1, c, a, ns) /\ (Quiet(ns, a) => Still(k + 1, c))
  <2>1. Stood(k, c, a, ns) /\ (Quiet(ns, a) => Still(k, c))
    BY <1>4, SameStands, Zenon
  <2>2. CASE k = 1
    <3>1. k <= 3 /\ ~(k + 1 \in 3..(W + 3)) /\ ~(k + 1 >= W + 4)
      BY <2>2, <1>0
    <3> QED
      BY <1>0, <2>1, <3>1, Zenon DEF Stood, Still
  <2>3. CASE k = 2
    <3>1. k <= 3 /\ ~(k + 1 >= W + 4) /\ (k + 1) - 3 = 0
      BY <2>3, <1>0
    <3>2. LastWords(c.tokens, a, 0)
      <4>1. Len(c.tokens) \in Nat
        BY BridgeFields
      <4>2. Len(c.tokens) >= 0 /\ \A i : ~(i \in 1..0)
        BY <4>1
      <4> QED
        BY <4>2, Zenon DEF LastWords
    <3>3. Len(<<>>) = 0
      OBVIOUS
    <3>4. Stood(k + 1, c, a, ns)
      BY <1>0, <3>1, <3>2, Zenon DEF Stood
    <3>5. Still(k, c) => Still(k + 1, c)
      BY <1>0, <3>1, <3>3, Zenon DEF Still
    <3> QED
      BY <2>1, <3>4, <3>5
  <2>4. CASE k >= W + 4
    <3>1. ~(k + 1 \in 3..(W + 3)) /\ ~(k + 1 <= 3)
      BY <1>1, <2>4
    <3> QED
      BY <1>0, <2>1, <2>4, <3>1, Zenon DEF Stood, Still
  <2> QED
    BY <1>4, <2>2, <2>3, <2>4
<1>5. CASE k = 1 \/ k = 2 \/ k = W + 4 \/ k = W + 5
  <2>1. k >= 1 /\ (k = 1 \/ k = 2 \/ k >= W + 4)
    BY <1>1, <1>5
  <2>2. l = <<>> \/ l = Ts!Text
    BY <1>0, <1>5, <2>1, LineAtIs, Zenon
  <2>3. l = <<>> \/ l[1] = text
    BY <2>2, PlainLines, Zenon
  <2>4. Same(b, c)
    BY <2>3, PlainSame, Zenon
  <2> QED
    BY <1>4, <2>1, <2>4, Zenon
<1>6. CASE k \in 3..(W + 2)
  <2>1. PICK w \in Ts!Ids : w = <<a, k - 2>> /\ l = Ts!uart_send_token(w)
    <3>1. k >= 1
      BY <1>6
    <3> QED
      BY <1>0, <1>6, <3>1, LineAtIs, Zenon
  <2>2. IsToken(l) /\ Rest(l) = Ts!Word(w) /\ Ts!Word(w) \in Seq(Ts!Pieces)
    BY <2>1, WordLine, WordIs, Zenon
  <2>3. c.tokens = Append(b.tokens, Ts!Word(w))
    BY <2>2, Zenon DEF Handled
  <2>4. /\ k \in 3..(W + 3) /\ k + 1 \in 3..(W + 3) /\ ~(k + 1 <= 3) /\ ~(k + 1 >= W + 4)
        /\ k - 3 \in Nat /\ (k - 3) + 1 = k - 2 /\ (k + 1) - 3 = k - 2
    <3>1. k \in Nat /\ k >= 3 /\ k <= W + 2
      BY <1>1, <1>6
    <3>2. k \in 3..(W + 3) /\ k + 1 \in 3..(W + 3) /\ ~(k + 1 <= 3) /\ ~(k + 1 >= W + 4)
      BY <1>1, <3>1
    <3>3. k - 3 \in Nat /\ (k - 3) + 1 = k - 2 /\ (k + 1) - 3 = k - 2
      BY <3>1
    <3> QED
      BY <3>2, <3>3
  <2>5. LastWords(b.tokens, a, k - 3)
    BY <1>0, <2>4, Zenon DEF Stood
  <2>6. LastWords(c.tokens, a, (k - 3) + 1)
    BY <1>2, <2>1, <2>2, <2>3, <2>4, <2>5, WordAdded
  <2>7. Len(c.tokens) = Len(b.tokens) + 1
    BY <1>2, <2>2, <2>3, AppendProperties
  <2>8. Stood(k + 1, c, a, ns)
    BY <1>0, <2>4, <2>6, Zenon DEF Stood
  <2>9. ASSUME Still(k, b) PROVE Still(k + 1, c)
    <3>1. Len(b.tokens) = k - 3
      BY <1>0, <2>4, <2>9, Zenon DEF Still
    <3>2. Len(c.tokens) = (k + 1) - 3
      BY <2>4, <2>7, <3>1
    <3> QED
      BY <1>0, <2>4, <3>2, Zenon DEF Still
  <2> QED
    BY <2>8, <2>9, Zenon
<1>7. CASE k = W + 3
  <2>1. k >= 1 /\ k \in 3..(W + 3) /\ k - 3 = W /\ ~(k + 1 \in 3..(W + 3)) /\ ~(k + 1 <= 3)
    BY <1>0, <1>7
  <2>2. l = Ts!End
    BY <1>0, <1>7, <2>1, LineAtIs, Zenon
  <2>3. LastWords(b.tokens, a, WordsPer)
    BY <1>0, <2>1, Zenon DEF Stood
  <2>4. /\ b.tokens # <<>> /\ Ts!EndsWith(b.tokens, Ts!Sentence(a))
        /\ Len(b.tokens) = WordsPer => b.tokens = Ts!Sentence(a)
    BY <1>1, <1>2, <2>3, AllSaid
  <2>5. c.tokens = <<>> /\ c.spoken = Append(b.spoken, b.tokens)
    BY <2>2, <2>4, Zenon DEF Handled
  <2>6. Quiet(ns, a) => b.tokens = Ts!Sentence(a)
    BY <1>0, <2>1, <2>4, Zenon DEF Still
  <2>7. SpokenAs(c, a, ns)
    <3>1. b.spoken \in Seq(Seq(Seq(Ts!Pieces))) /\ b.tokens \in Seq(Seq(Ts!Pieces)) /\ Len(b.spoken) \in Nat
      <4>1. /\ b.spoken \in Seq(Seq(Seq(Ts!Pieces)) \ {<<>>}) /\ b.tokens \in Seq(Seq(Ts!Pieces))
            /\ Len(b.spoken) \in Nat
        BY BridgeFields
      <4> QED
        BY <4>1, SeqMonotonic
    <3>2. /\ Len(Append(b.spoken, b.tokens)) = Len(b.spoken) + 1
          /\ Append(b.spoken, b.tokens)[Len(b.spoken) + 1] = b.tokens
      BY <3>1, AppendProperties
    <3>3. Len(b.spoken) + 1 \in 1..(Len(b.spoken) + 1)
      BY <3>1
    <3>4. Len(b.spoken) + 1 \in 1..Len(c.spoken) /\ c.spoken[Len(b.spoken) + 1] = b.tokens
      BY <2>5, <3>2, <3>3, Zenon
    <3> QED
      BY <2>4, <2>6, <3>4, Zenon DEF SpokenAs
  <2> QED
    BY <1>0, <2>1, <2>5, <2>7, Zenon DEF Stood, Still
<1>8. k = 0 \/ (k = 1 \/ k = 2 \/ k = W + 4 \/ k = W + 5) \/ k \in 3..(W + 2) \/ k = W + 3
  BY <1>1
<1> QED
  BY <1>3, <1>5, <1>6, <1>7, <1>8

(* How many lines are taken. *)
LEMMA TakenIs ==
  ASSUME NEW m, NEW p, PosOK(p)
  PROVE  /\ p.col <= Len(LineAt(p)) => Taken(m, p) = p.line
         /\ m # "pipe" => Taken(m, p) = p.line
         /\ m = "pipe" /\ p.col = Len(LineAt(p)) + 1 => Taken(m, p) = p.line + 1
         /\ p.line \in Nat
<1>1. p.col \in Nat /\ Len(LineAt(p)) \in Nat /\ p.line \in Nat
  BY LineLen, PosFields
<1> QED
  BY <1>1 DEF Taken

(* What Stage and Calm say of an announcement that was not disturbed. *)
Going(m, ns, p, b) ==
  LET n == Taken(m, p)
  IN  /\ n >= 1 => IF n > p.line THEN b.line = <<>> ELSE Holds(b.line, p)
      /\ Stood(n, b, p.text + 1, ns)
      /\ Quiet(ns, p.text + 1) => (n = 0 => b.line = <<>> \/ b.line[1] = text) /\ Still(n, b)

(* SPEECH goes on with an undisturbed announcement. *)
LEMMA GoesOn ==
  ASSUME NEW m \in {"interactive", "pipe"}, NEW ns, NEW p, PosOK(p), Begun(p), NEW q, PosOK(q),
         NEW b \in BridgeType, NEW c \in BridgeType, Puts(m, p, b, q, c), Going(m, ns, p, b)
  PROVE  /\ q.text = p.text => Going(m, ns, q, c)
         /\ q.text # p.text =>
              Turns(p, q) /\ p.line = WordsPer + 5
              /\ c.line = <<>> /\ c.tokens = <<>> /\ SpokenAs(c, p.text + 1, ns)
<1>0. PICK k \in Nat : k = p.line
  BY PosFields
<1>1. PICK n \in Nat : n = Len(LineAt(p))
  BY LineLen
<1>2. /\ b.line \in Seq(Ts!Pieces) /\ p.col \in Nat /\ WordsPer \in Nat \ {0} /\ k <= WordsPer + 5
      /\ p.text \in Nat
  BY <1>0, BridgeFields, PosFields, StreamConst
<1>3. ASSUME p.col >= n, p.col <= n \/ m # "pipe", Handled(b.line, b, c)
      PROVE  /\ Stood(k + 1, c, p.text + 1, ns) /\ c.line = <<>>
             /\ Quiet(ns, p.text + 1) => Still(k + 1, c)
  <2>1. Taken(m, p) = k
    BY <1>0, <1>1, <1>3, TakenIs, Zenon
  <2>2. /\ k >= 1 => IF k > k THEN b.line = <<>> ELSE Holds(b.line, p)
        /\ Stood(k, b, p.text + 1, ns)
        /\ Quiet(ns, p.text + 1) => (k = 0 => b.line = <<>> \/ b.line[1] = text) /\ Still(k, b)
    BY <1>0, <2>1, Zenon DEF Going
  <2>3. k >= 1 => b.line = LineAt(p)
    <3>1. ~(k > k)
      OBVIOUS
    <3> QED
      BY <1>1, <1>2, <1>3, <2>2, <3>1, HoldsAll, Zenon
  <2>4. Stood(k + 1, c, p.text + 1, ns) /\ (Quiet(ns, p.text + 1) => Still(k + 1, c))
    BY <1>0, <1>2, <1>3, <2>2, <2>3, LineTaken, Zenon
  <2> QED
    BY <1>3, <2>4, Zenon DEF Handled
<1>4. CASE PutPiece(p, b, q, c)
  <2>1. /\ p.col < n /\ Stays(p, q) /\ c.line = Append(b.line, LineAt(p)[p.col + 1]) /\ Same(b, c)
    BY <1>1, <1>4, Zenon DEF PutPiece
  <2>2. p.col <= n /\ q.col <= n /\ q.text = p.text /\ q.line = k
    BY <1>0, <1>2, <2>1 DEF Stays
  <2>3. LineAt(q) = LineAt(p)
    BY <2>1, Zenon DEF Stays, LineAt
  <2>4. Taken(m, p) = k /\ Taken(m, q) = k
    BY <1>0, <1>1, <2>2, <2>3, TakenIs, Zenon
  <2>5. k # 0
    <3> SUFFICES ASSUME k = 0 PROVE FALSE
      OBVIOUS
    <3>1. LineAt(p) = Ts!Text
      BY <1>0, LineAtIs, Zenon
    <3>2. n = 1
      BY <1>1, <3>1, PlainLines, Zenon
    <3>3. p.col > 0
      BY <1>0 DEF Begun
    <3> QED
      BY <1>2, <2>1, <3>2, <3>3
  <2>6. Holds(b.line, p)
    <3>1. k >= 1 /\ ~(k > k)
      BY <2>5
    <3> QED
      BY <1>0, <2>4, <3>1, Zenon DEF Going
  <2>7. Holds(c.line, q)
    BY <1>1, <1>2, <2>1, <2>6, HoldsPut, Zenon
  <2>8. Stood(k, c, p.text + 1, ns) /\ (Quiet(ns, p.text + 1) => Still(k, c))
    <3>1. Stood(k, b, p.text + 1, ns) /\ (Quiet(ns, p.text + 1) => Still(k, b))
      BY <2>4, Zenon DEF Going
    <3> QED
      BY <2>1, <3>1, SameStands, Zenon
  <2>9. ~(k > k)
    OBVIOUS
  <2> QED
    BY <2>2, <2>4, <2>5, <2>7, <2>8, <2>9, Zenon DEF Going
<1>5. CASE PutCR(m, p, b, q, c) /\ m # "pipe"
  <2>1. p.col = n /\ Stays(p, q) /\ c = b
    BY <1>1, <1>5, Zenon DEF PutCR
  <2>2. q.text = p.text /\ q.line = p.line
    BY <2>1, Zenon DEF Stays
  <2>3. Taken(m, p) = p.line /\ Taken(m, q) = p.line
    BY <1>5, <2>2, TakenIs, Zenon
  <2>4. Holds(b.line, p) => Holds(b.line, q)
    BY <1>1, <1>2, <2>1, HoldsNext, Zenon
  <2> QED
    BY <2>1, <2>2, <2>3, <2>4, Zenon DEF Going
<1>6. CASE PutCR(m, p, b, q, c) /\ m = "pipe"
  <2>1. p.col = n /\ Stays(p, q) /\ Handled(b.line, b, c)
    BY <1>1, <1>6, Zenon DEF PutCR
  <2>2. p.col >= n /\ p.col <= n
    BY <1>2, <2>1
  <2>3. /\ Stood(k + 1, c, p.text + 1, ns) /\ c.line = <<>>
        /\ Quiet(ns, p.text + 1) => Still(k + 1, c)
    BY <1>3, <2>1, <2>2
  <2>4. q.text = p.text /\ q.line = k /\ q.col = n + 1
    BY <1>0, <2>1, Zenon DEF Stays
  <2>5. LineAt(q) = LineAt(p)
    BY <2>1, Zenon DEF Stays, LineAt
  <2>6. Taken(m, q) = k + 1
    BY <1>1, <1>6, <2>4, <2>5, TakenIs, Zenon
  <2>7. k + 1 > k /\ k + 1 # 0
    OBVIOUS
  <2> QED
    BY <2>3, <2>4, <2>6, <2>7, Zenon DEF Going
<1>7. CASE PutLF(p, b, q, c)
  <2>1. p.col = n + 1 /\ Turns(p, q) /\ Handled(b.line, b, c)
    BY <1>1, <1>7, Zenon DEF PutLF
  <2>2. /\ Stood(k + 1, c, p.text + 1, ns) /\ c.line = <<>>
        /\ Quiet(ns, p.text + 1) => Still(k + 1, c)
    <3>1. CASE m # "pipe"
      <4>1. p.col >= n
        BY <2>1
      <4> QED
        BY <1>3, <2>1, <3>1, <4>1
    <3>2. CASE m = "pipe"
      <4>1. Taken(m, p) = k + 1
        BY <1>0, <1>1, <2>1, <3>2, TakenIs, Zenon
      <4>2. k + 1 >= 1 /\ k + 1 > k
        OBVIOUS
      <4>3. /\ b.line = <<>> /\ Stood(k + 1, b, p.text + 1, ns)
            /\ Quiet(ns, p.text + 1) => Still(k + 1, b)
        BY <1>0, <4>1, <4>2, Zenon DEF Going
      <4>4. Same(b, c)
        BY <1>2, <2>1, <4>3, PlainSame, Zenon
      <4> QED
        BY <2>1, <4>3, <4>4, SameStands, Zenon DEF Handled
    <3> QED
      BY <3>1, <3>2
  <2>3. CASE k < WordsPer + 5
    <3>1. q.text = p.text /\ q.line = k + 1 /\ q.col = 0
      BY <1>0, <2>1, <2>3, Zenon DEF Turns
    <3>2. Holds(c.line, q)
      BY <2>2, <3>1, HoldsNone, Zenon
    <3>3. Taken(m, q) = k + 1
      <4>1. Len(LineAt(q)) \in Nat
        BY LineLen, Zenon
      <4>2. q.col <= Len(LineAt(q))
        BY <3>1, <4>1
      <4> QED
        BY <3>1, <4>2, TakenIs, Zenon
    <3>4. k + 1 # 0 /\ ~(k + 1 > k + 1)
      OBVIOUS
    <3> QED
      BY <2>2, <3>1, <3>2, <3>3, <3>4, Zenon DEF Going
  <2>4. CASE ~(k < WordsPer + 5)
    <3>1. k = WordsPer + 5 /\ k + 1 >= WordsPer + 4
      BY <1>2, <2>4
    <3>2. q.text = p.text + 1
      BY <1>0, <2>1, <2>4, Zenon DEF Turns
    <3>3. q.text # p.text
      BY <1>2, <3>2
    <3> QED
      BY <1>0, <2>1, <2>2, <3>1, <3>3, Zenon DEF Stood
  <2> QED
    BY <2>3, <2>4
<1> QED
  BY <1>4, <1>5, <1>6, <1>7, Zenon DEF Puts

(* The invariants of announcements, through a step of SPEECH. *)
LEMMA SpeechSays ==
  ASSUME NEW m \in {"interactive", "pipe"}, NEW t, NEW s, NEW s2, NEW ns, NEW ns2,
         NEW p, PosOK(p), NEW q, PosOK(q), NEW b \in BridgeType, NEW c \in BridgeType,
         Puts(m, p, b, q, c), Counts("SPEECH", t, s, ns, p, s2, ns2),
         Stage(m, t, ns, p, b), Calm(m, ns, p, b), Said(ns, p, b)
  PROVE  Stage(m, "SPEECH", ns2, q, c) /\ Calm(m, ns2, q, c) /\ Said(ns2, q, c)
<1>0. /\ b.line \in Seq(Ts!Pieces) /\ p.text \in Nat /\ p.line \in Nat /\ p.col \in Nat
      /\ q.text \in Nat /\ q.line \in Nat /\ q.col \in Nat /\ WordsPer \in Nat
  BY BridgeFields, PosFields, StreamConst
<1>1. ns \subseteq ns2
  BY DEF Counts
<1>2. Stays(p, q) \/ (Turns(p, q) /\ q.text = p.text) \/ (Turns(p, q) /\ q.text = p.text + 1 /\ ~Begun(q))
  BY <1>0 DEF Puts, PutPiece, PutCR, PutLF, Turns, Begun
<1>3. ASSUME NEW a \in 1..p.text, a \notin ns2 PROVE SpokenAs(c, a, ns2)
  <2>1. SpokenAs(b, a, ns)
    BY <1>1, <1>3, Zenon DEF Said
  <2>2. Same(b, b)
    BY DEF Same
  <2>3. Same(b, c) \/ Handled(b.line, b, c)
    BY <2>2, Zenon DEF Puts, PutPiece, PutCR, PutLF
  <2>4. c.spoken = b.spoken \/ c.spoken = Append(b.spoken, b.tokens)
    BY <2>3, Zenon DEF Same, Handled
  <2> QED
    BY <1>1, <2>1, <2>4, SpokenStays, Zenon
<1>4. q.text = p.text \/ (q.text = p.text + 1 /\ ~Begun(q) /\ q.text # p.text)
  BY <1>0, <1>2 DEF Stays
<1>5. ASSUME NEW e \in ns2, e \in 1..(q.text + 1) PROVE Calm(m, ns2, q, c)
  <2>1. ~Quiet(ns2, q.text + 1)
    BY <1>5 DEF Quiet
  <2> QED
    BY <2>1, Zenon DEF Calm
<1>6. CASE ~Begun(p)
  <2>1. p.line = 0 /\ p.col = 0 /\ ns2 = ns
    BY <1>0, <1>6 DEF Begun, Counts
  <2>2. LineAt(p) = Ts!Text /\ Len(LineAt(p)) = 1 /\ LineAt(p)[1] = text
    BY <2>1, LineAtIs, PlainLines
  <2>3. PutPiece(p, b, q, c)
    BY <1>0, <2>1, <2>2 DEF Puts, PutCR, PutLF
  <2>4. c.line = Append(b.line, text) /\ Same(b, c) /\ Stays(p, q)
    <3>1. p.col + 1 = 1
      BY <2>1
    <3> QED
      BY <2>2, <2>3, <3>1, Zenon DEF PutPiece
  <2>5. q.text = p.text /\ q.line = 0 /\ q.col = 1 /\ LineAt(q) = LineAt(p)
    BY <2>1, <2>4 DEF Stays, LineAt
  <2>6. Taken(m, p) = 0 /\ Taken(m, q) = 0
    <3>1. 0 <= Len(LineAt(p)) /\ 1 <= Len(LineAt(q))
      <4>1. Len(LineAt(p)) = 1 /\ Len(LineAt(q)) = 1 /\ 0 <= 1 /\ 1 <= 1
        BY <2>2, <2>5, SMT
      <4> QED
        BY <4>1, Zenon
    <3> QED
      BY <2>1, <2>5, <3>1, TakenIs
  <2>7. Stage(m, "SPEECH", ns2, q, c)
    <3>1. ~(0 >= 1) /\ ~(0 \in 3..(WordsPer + 3)) /\ ~(0 >= WordsPer + 4)
      BY <1>0
    <3> QED
      BY <2>6, <3>1, Zenon DEF Stage, Stood
  <2>8. Calm(m, ns2, q, c)
    <3> SUFFICES ASSUME Quiet(ns2, p.text + 1) PROVE c.line[1] = text /\ Still(0, c)
      BY <2>5, <2>6, Zenon DEF Calm
    <3>1. (b.line = <<>> \/ b.line[1] = text) /\ Still(0, b)
      BY <2>1, <2>6, Zenon DEF Calm
    <3>2. c.line[1] = text
      <4>1. text \in Ts!Pieces
        BY PiecesDiffer
      <4> QED
        BY <1>0, <2>4, <3>1, <4>1, FirstPiece
    <3> QED
      BY <2>4, <3>1, <3>2, SameStands, Zenon
  <2>9. Said(ns2, q, c)
    BY <1>3, <2>5, Zenon DEF Said
  <2> QED
    BY <2>7, <2>8, <2>9
<1>7. CASE Begun(p) /\ p.text + 1 \in ns2
  <2>1. Stage(m, "SPEECH", ns2, q, c)
    BY <1>4, <1>7, Zenon DEF Stage
  <2>2. Calm(m, ns2, q, c)
    <3>1. p.text + 1 \in 1..(q.text + 1)
      BY <1>0, <1>4
    <3> QED
      BY <1>5, <1>7, <3>1
  <2>3. Said(ns2, q, c)
    <3>1. ASSUME NEW a \in 1..q.text, a \notin ns2 PROVE a \in 1..p.text
      <4>1. a # p.text + 1
        BY <1>7, <3>1
      <4> QED
        BY <1>0, <1>4, <4>1
    <3> QED
      BY <1>3, <3>1, Zenon DEF Said
  <2> QED
    BY <2>1, <2>2, <2>3
<1>8. CASE Begun(p) /\ p.text + 1 \notin ns2
  <2>1. t = "SPEECH" /\ Going(m, ns, p, b)
    BY <1>1, <1>8, Zenon DEF Stage, Calm, Going
  <2>2. ns2 = ns
    BY <2>1 DEF Counts
  <2>3. /\ q.text = p.text => Going(m, ns, q, c)
        /\ q.text # p.text =>
              Turns(p, q) /\ p.line = WordsPer + 5
              /\ c.line = <<>> /\ c.tokens = <<>> /\ SpokenAs(c, p.text + 1, ns)
    BY <1>8, <2>1, GoesOn, Zenon
  <2>4. CASE q.text = p.text
    <3>1. Going(m, ns2, q, c)
      BY <2>2, <2>3, <2>4
    <3> QED
      BY <1>3, <2>4, <3>1, Zenon DEF Stage, Calm, Going, Said
  <2>5. CASE q.text = p.text + 1 /\ ~Begun(q) /\ q.text # p.text
    <3>1. c.line = <<>> /\ c.tokens = <<>> /\ SpokenAs(c, p.text + 1, ns)
      BY <2>3, <2>5, Zenon
    <3>2. Stage(m, "SPEECH", ns2, q, c)
      BY <2>5, Zenon DEF Stage
    <3>3. Calm(m, ns2, q, c)
      <4>1. Taken(m, q) = 0
        <5>1. q.line = 0 /\ q.col = 0 /\ Len(LineAt(q)) \in Nat
          BY <1>0, <2>5, LineLen DEF Begun
        <5>2. q.col <= Len(LineAt(q))
          BY <5>1
        <5> QED
          BY <5>1, <5>2, TakenIs, Zenon
      <4>2. ~(0 \in 3..(WordsPer + 3))
        BY <1>0
      <4> QED
        BY <3>1, <4>1, <4>2, Zenon DEF Calm, Still
    <3>4. Said(ns2, q, c)
      <4>1. \A a \in 1..q.text : a \in 1..p.text \/ a = p.text + 1
        BY <1>0, <2>5
      <4> QED
        BY <1>3, <2>2, <3>1, <4>1, Zenon DEF Said
    <3> QED
      BY <3>2, <3>3, <3>4
  <2> QED
    BY <1>4, <2>4, <2>5
<1> QED
  BY <1>6, <1>7, <1>8

(* And through a step of another task. *)
LEMMA OthersSay ==
  ASSUME NEW m, NEW t, NEW u, u # "SPEECH", NEW s, NEW s2, NEW ns, NEW ns2,
         NEW p, PosOK(p), NEW b \in BridgeType, NEW c \in BridgeType,
         Disturbs(b, c), Counts(u, t, s, ns, p, s2, ns2),
         Stage(m, t, ns, p, b), Calm(m, ns, p, b), Said(ns, p, b)
  PROVE  Stage(m, u, ns2, p, c) /\ Calm(m, ns2, p, c) /\ Said(ns2, p, c)
<1>0. p.text \in Nat /\ p.line \in Nat /\ p.col \in Nat /\ WordsPer \in Nat
  BY PosFields, StreamConst
<1>1. ns \subseteq ns2
  BY DEF Counts
<1>2. PICK l \in {b.line, Append(b.line, text)} : (c.line = l /\ Same(b, c)) \/ Handled(l, b, c)
  BY Zenon DEF Disturbs
<1>3. /\ l \in Seq(Ts!Pieces)
      /\ b.line = <<>> \/ b.line[1] = text => l = <<>> \/ l[1] = text
  BY DisturbedLine, Zenon
<1>4. Said(ns2, p, c)
  <2> SUFFICES ASSUME NEW a \in 1..p.text, a \notin ns2 PROVE SpokenAs(c, a, ns2)
    BY Zenon DEF Said
  <2>1. SpokenAs(b, a, ns)
    BY <1>1, Zenon DEF Said
  <2>2. c.spoken = b.spoken \/ c.spoken = Append(b.spoken, b.tokens)
    BY <1>2, Zenon DEF Same, Handled
  <2> QED
    BY <1>1, <2>1, <2>2, SpokenStays, Zenon
<1>5. CASE Begun(p)
  <2>1. p.text + 1 \in ns2
    <3>1. CASE u = t
      BY <1>1, <1>5, <3>1, Zenon DEF Stage
    <3>2. CASE u # t
      BY <1>5, <3>2 DEF Counts
    <3> QED
      BY <3>1, <3>2
  <2>2. ~Quiet(ns2, p.text + 1)
    <3>1. p.text + 1 \in 1..(p.text + 1)
      BY <1>0
    <3> QED
      BY <2>1, <3>1 DEF Quiet
  <2> QED
    BY <1>4, <2>1, <2>2, Zenon DEF Stage, Calm
<1>6. CASE ~Begun(p)
  <2>1. p.line = 0 /\ p.col = 0 /\ ns2 = ns
    BY <1>0, <1>6 DEF Begun, Counts
  <2>2. Stage(m, u, ns2, p, c)
    BY <1>6, Zenon DEF Stage
  <2>3. Taken(m, p) = 0
    <3>1. Len(LineAt(p)) \in Nat
      BY LineLen, Zenon
    <3>2. p.col <= Len(LineAt(p))
      BY <2>1, <3>1
    <3> QED
      BY <2>1, <3>2, TakenIs, Zenon
  <2>4. Calm(m, ns2, p, c)
    <3> SUFFICES ASSUME Quiet(ns, p.text + 1) PROVE (c.line = <<>> \/ c.line[1] = text) /\ Still(0, c)
      BY <2>1, <2>3, Zenon DEF Calm
    <3>1. (b.line = <<>> \/ b.line[1] = text) /\ Still(0, b)
      BY <2>3, Zenon DEF Calm
    <3>2. CASE c.line = l /\ Same(b, c)
      BY <1>3, <3>1, <3>2, SameStands, Zenon
    <3>3. CASE Handled(l, b, c)
      <4>1. Same(b, c) /\ c.line = <<>>
        BY <1>3, <3>1, <3>3, PlainSame, Zenon DEF Handled
      <4> QED
        BY <3>1, <4>1, SameStands, Zenon
    <3> QED
      BY <1>2, <3>2, <3>3
  <2> QED
    BY <1>4, <2>2, <2>4
<1> QED
  BY <1>5, <1>6
-----------------------------------------------------------------------------
(* The invariant of the stream. *)

(* The words that are out and not heard. *)
LostOf(p, b) == {w \in (1..p.text) \X (1..WordsPer) : ~Heard(b, w)}

(* At most s words are lost, and at most s + extra are noise. *)
Damage(p, b, s, extra) ==
  Cardinality(LostOf(p, b)) <= s /\ Cardinality(NoiseOf(b)) <= s + extra

(* While characters come. *)
Flowing(m, t, s, ns, p, b) ==
  /\ CrAlone(m, b)
  /\ BoundaryEmpty(t, p, b)
  /\ LostBound(m, t, p, b, s)
  /\ NoiseBound(t, p, b, s)
  /\ HeadsOut(p, b)
  /\ Stage(m, t, ns, p, b)
  /\ Calm(m, ns, p, b)

(* The inductive invariant: what was said stays said, and the rest of what  *)
(* is claimed holds with what Flowing knows until the input ends.           *)
StreamInv ==
  /\ StreamType
  /\ Said(noisy, sp, bridge)
  /\ OrderOf(bridge)
  /\ ~over => Flowing(mode, writer, switches, noisy, sp, bridge)
  /\ over => Damage(sp, bridge, switches, 1)

(* A word that is out and not heard is a bad one. *)
LEMMA LostAreBad ==
  ASSUME NEW m, NEW t, NEW p, PosOK(p), NEW b
  PROVE  LostOf(p, b) \subseteq Bad(m, t, p, b)
<1> SUFFICES ASSUME NEW w \in LostOf(p, b) PROVE w \in Bad(m, t, p, b)
  OBVIOUS
<1>1. PICK a \in 1..p.text, i \in 1..WordsPer : w = <<a, i>>
  BY DEF LostOf
<1>2. p.text \in 0..MaxSpoken
  BY PosFields
<1>3. a \in 1..MaxSpoken /\ a <= p.text /\ w[1] = a
  BY <1>1, <1>2, StreamConst
<1>4. w \in Ts!Ids
  BY <1>1, <1>3 DEF Ts!Ids
<1>5. Past(p, w) /\ ~Heard(b, w)
  BY <1>3 DEF Past, LostOf
<1> QED
  BY <1>4, <1>5, Zenon DEF Bad

(* The bounds, while characters come and for what is heard later. *)
LEMMA BoundsGive ==
  ASSUME NEW m, NEW t, NEW p, PosOK(p), NEW b, NEW c, NEW s \in Nat, LostBound(m, t, p, b, s), NoiseBound(t, p, b, s),
         \A w : Heard(b, w) => Heard(c, w), \E x : NoiseOf(c) \subseteq NoiseOf(b) \cup {x}
  PROVE  /\ Damage(p, c, s, 1)
         /\ NoiseOf(c) = NoiseOf(b) => Damage(p, c, s, 0)
<1>1. PICK S, N, T : S = Bad(m, t, p, b) /\ N = NoiseOf(b) /\ T = NoiseOf(c)
  OBVIOUS
<1>2. IsFiniteSet(S) /\ Cardinality(S) <= s /\ IsFiniteSet(N) /\ Cardinality(N) \in Nat
  BY <1>1, FS_CardinalityType, Zenon DEF LostBound, NoiseBound
<1>3. Cardinality(N) <= s
  <2>1. Cardinality(N) + (IF Threat(t, p, b) THEN 1 ELSE 0) <= s
    BY <1>1, Zenon DEF NoiseBound
  <2> QED
    BY <1>2, <2>1
<1>4. LostOf(p, c) \subseteq S
  <2>1. LostOf(p, c) \subseteq LostOf(p, b)
    BY Zenon DEF LostOf
  <2> QED
    BY <1>1, <2>1, LostAreBad, Zenon
<1>5. Cardinality(LostOf(p, c)) <= s
  <2>1. IsFiniteSet(LostOf(p, c)) /\ Cardinality(LostOf(p, c)) <= Cardinality(S)
    BY <1>2, <1>4, FS_Subset
  <2>2. Cardinality(LostOf(p, c)) \in Nat /\ Cardinality(S) \in Nat
    BY <1>2, <2>1, FS_CardinalityType
  <2> QED
    BY <1>2, <2>1, <2>2
<1>6. Cardinality(T) <= s + 1
  <2>1. PICK x : T \subseteq N \cup {x}
    BY <1>1, Zenon
  <2> QED
    BY <1>2, <1>3, <2>1, CountGrows
<1>7. T = N => Cardinality(T) <= s + 0
  BY <1>3
<1> QED
  BY <1>1, <1>5, <1>6, <1>7, Zenon DEF Damage

(* It holds at first. *)
LEMMA StreamInit_Inv ==
  Ts!Init => StreamInv
<1> SUFFICES ASSUME Ts!Init PROVE StreamInv
  OBVIOUS
<1>1. StreamType
  <2>1. bridge \in BridgeType
    <3>1. <<>> \in Seq(Ts!Pieces) /\ <<>> \in Seq(Seq(Ts!Pieces)) /\ <<>> \in Seq(Seq(Seq(Ts!Pieces)) \ {<<>>})
      BY EmptySeq
    <3> QED
      BY <3>1 DEF Ts!Init, BridgeType
  <2>2. ASSUME NEW t \in Ts!Tasks PROVE AtOK(t, pos[t])
    <3>1. pos[t] = [text |-> 0, line |-> 0, col |-> 0]
      BY DEF Ts!Init
    <3>2. /\ pos[t] \in [text : Nat, line : Nat, col : Nat]
          /\ pos[t].text = 0 /\ pos[t].line = 0 /\ pos[t].col = 0
      BY <3>1
    <3>3. Ts!Limit(t) \in Nat
      BY StreamConst DEF Ts!Limit
    <3>4. CASE Ts!Limit(t) = 0
      BY <3>2, <3>4 DEF AtOK
    <3>5. CASE Ts!Limit(t) # 0
      <4>1. 0 < Ts!Limit(t)
        BY <3>3, <3>5
      <4>2. Len(LinesOf(t, 0)) \in Nat \ {0} /\ LinesOf(t, 0)[1] \in Seq(Ts!Pieces)
        BY <4>1, LinesAre
      <4>3. Len(LinesOf(t, 0)[1]) \in Nat
        BY <4>2, LenProperties
      <4> QED
        BY <3>2, <4>1, <4>2, <4>3 DEF AtOK
    <3> QED
      BY <3>4, <3>5
  <2>3. pos \in [Ts!Tasks -> [text : Nat, line : Nat, col : Nat]]
    BY DEF Ts!Init
  <2>4. writer \in Ts!Tasks \cup {"NTP"} /\ ntp \in 0..MaxNtpLines
    BY StreamConst DEF Ts!Init, Ts!Tasks
  <2>5. PipeType
    BY StreamConst DEF Ts!Init, PipeType
  <2> QED
    BY <2>1, <2>2, <2>3, <2>4, <2>5 DEF Ts!Init, StreamType
<1>2. PosOK(sp) /\ bridge \in BridgeType
  BY <1>1, SpeechAt DEF StreamType, sp, Ts!Tasks
<1>3. sp.text = 0 /\ sp.line = 0 /\ sp.col = 0
  BY DEF Ts!Init, Ts!Tasks, sp
<1>4. /\ bridge.line = <<>> /\ bridge.cr = FALSE /\ bridge.tokens = <<>> /\ bridge.spoken = <<>>
      /\ switches = 0 /\ noisy = {} /\ over = FALSE
  BY DEF Ts!Init
<1>5. PlacesOf(bridge) = {}
  <2> SUFFICES ASSUME NEW x \in PlacesOf(bridge) PROVE FALSE
    OBVIOUS
  <2>1. PICK i \in Nat, k \in Nat : x = <<i, k>>
    BY <1>2, PlacesAre, Zenon
  <2>2. \/ i \in 1..Len(bridge.spoken) /\ k \in 1..Len(bridge.spoken[i])
        \/ i = Len(bridge.spoken) + 1 /\ k \in 1..Len(bridge.tokens)
    BY <1>2, <2>1, PlacesAre, Zenon
  <2>3. \A j : ~(j \in 1..Len(<<>>))
    OBVIOUS
  <2> QED
    BY <1>4, <2>2, <2>3, Zenon
<1>6. (\A w : ~Heard(bridge, w)) /\ NoiseOf(bridge) = {} /\ OrderOf(bridge)
  BY <1>5, Zenon DEF Heard, NoiseOf, OrderOf
<1>7. ~Begun(sp) /\ \A i : ~(i \in 1..sp.text)
  BY <1>3 DEF Begun
<1>8. Said(noisy, sp, bridge)
  BY <1>7, Zenon DEF Said
<1>9. LostBound(mode, writer, sp, bridge, switches)
  <2>1. Bad(mode, writer, sp, bridge) = {}
    <3> SUFFICES ASSUME NEW w \in Bad(mode, writer, sp, bridge) PROVE FALSE
      OBVIOUS
    <3>1. w \in Ts!Ids /\ (Past(sp, w) \/ sp.col > 0)
      BY Zenon DEF Bad
    <3>2. PICK a \in 1..MaxSpoken, i \in 1..WordsPer : w = <<a, i>>
      BY <3>1 DEF Ts!Ids
    <3>3. w[1] = a /\ w[2] = i
      BY <3>2
    <3> QED
      BY <1>3, <3>1, <3>3 DEF Past
  <2> QED
    BY <1>4, <2>1, FS_EmptySet DEF LostBound
<1>10. NoiseBound(writer, sp, bridge, switches)
  <2>1. ~Threat(writer, sp, bridge)
    BY <1>4, Zenon DEF Threat
  <2> QED
    BY <1>4, <1>6, <2>1, FS_EmptySet DEF NoiseBound
<1>11. HeadsOut(sp, bridge)
  <2>1. \A j : ~(j \in 1..Len(<<>>))
    OBVIOUS
  <2> QED
    BY <1>4, <1>6, <2>1, Zenon DEF HeadsOut
<1>12. Calm(mode, noisy, sp, bridge)
  <2>1. Len(LineAt(sp)) \in Nat
    BY <1>2, LineLen, Zenon
  <2>2. sp.col <= Len(LineAt(sp))
    BY <1>3, <2>1
  <2>3. Taken(mode, sp) = 0
    BY <1>2, <1>3, <2>2, TakenIs, Zenon
  <2>4. ~(0 \in 3..(WordsPer + 3))
    BY StreamConst
  <2> QED
    BY <1>4, <2>3, <2>4, Zenon DEF Calm, Still
<1>13. Flowing(mode, writer, switches, noisy, sp, bridge)
  BY <1>4, <1>7, <1>9, <1>10, <1>11, <1>12, Zenon DEF Flowing, CrAlone, BoundaryEmpty, Stage
<1> QED
  BY <1>1, <1>4, <1>6, <1>8, <1>13, Zenon DEF StreamInv

(* A step of SPEECH keeps it. *)
LEMMA SpeechKeeps ==
  ASSUME StreamInv, Ts!ReadPiece("SPEECH")
  PROVE  StreamInv'
<1>0. ~over
  BY DEF Ts!ReadPiece, Ts!Take
<1>1. /\ StreamType /\ Said(noisy, sp, bridge) /\ OrderOf(bridge)
      /\ Flowing(mode, writer, switches, noisy, sp, bridge)
  BY <1>0, Zenon DEF StreamInv
<1>2. mode \in {"interactive", "pipe"} /\ switches \in Nat
  BY <1>1 DEF StreamType
<1>3. PICK q, c, s2, ns2 : q = sp' /\ c = bridge' /\ s2 = switches' /\ ns2 = noisy'
  OBVIOUS
<1>4. /\ StreamType' /\ CrAlone(mode, c) /\ mode' = mode /\ over' = over
      /\ PosOK(sp) /\ PosOK(q) /\ bridge \in BridgeType /\ c \in BridgeType
      /\ Puts(mode, sp, bridge, q, c)
      /\ writer' = "SPEECH" /\ Counts("SPEECH", writer, switches, noisy, sp, s2, ns2)
  <2>1. CrAlone(mode, bridge)
    BY <1>1, Zenon DEF Flowing
  <2> QED
    BY <1>1, <1>3, <2>1, SpeechStep
<1>5. BoundaryEmpty(writer, sp, bridge) /\ LostBound(mode, writer, sp, bridge, switches)
  BY <1>1, Zenon DEF Flowing
<1>6. s2 = switches + (IF "SPEECH" = writer THEN 0 ELSE 1)
  BY <1>4, Zenon DEF Counts
<1>7. LostBound(mode, "SPEECH", q, c, s2)
  <2>1. /\ "SPEECH" = writer => Bad(mode, "SPEECH", q, c) \subseteq Bad(mode, writer, sp, bridge)
        /\ \E x : Bad(mode, "SPEECH", q, c) \subseteq Bad(mode, writer, sp, bridge) \cup {x}
    <3>1. /\ writer = "SPEECH" => Bad(mode, "SPEECH", q, c) \subseteq Bad(mode, writer, sp, bridge)
          /\ \E x : Bad(mode, "SPEECH", q, c) \subseteq Bad(mode, writer, sp, bridge) \cup {x}
      BY <1>2, <1>4, <1>5, SpeechLoses
    <3>2. "SPEECH" = writer => writer = "SPEECH"
      OBVIOUS
    <3> QED
      BY <3>1, <3>2, Zenon
  <2> QED
    BY <1>2, <1>5, <1>6, <2>1, LostCount, Zenon
<1>8. NoiseBound("SPEECH", q, c, s2)
  <2>1. NoiseStep("SPEECH", writer, sp, bridge, q, c)
    BY <1>2, <1>4, <1>5, SpeechNoise, Zenon
  <2>2. NoiseBound(writer, sp, bridge, switches)
    BY <1>1, Zenon DEF Flowing
  <2> QED
    BY <1>2, <1>6, <2>1, <2>2, NoiseCount, Zenon
<1>9. HeadsOut(q, c) /\ OrderOf(c)
  <2>1. HeadsOut(sp, bridge)
    BY <1>1, Zenon DEF Flowing
  <2> QED
    BY <1>1, <1>2, <1>4, <2>1, SpeechInOrder, Zenon
<1>10. Stage(mode, "SPEECH", ns2, q, c) /\ Calm(mode, ns2, q, c) /\ Said(ns2, q, c)
  <2>1. Stage(mode, writer, noisy, sp, bridge) /\ Calm(mode, noisy, sp, bridge)
    BY <1>1, Zenon DEF Flowing
  <2> QED
    BY <1>1, <1>2, <1>4, <2>1, SpeechSays, Zenon
<1>11. BoundaryEmpty("SPEECH", q, c)
  <2> SUFFICES ASSUME q.col = 0 PROVE c.line = <<>>
    BY Zenon DEF BoundaryEmpty
  <2>1. sp.col \in Nat
    BY <1>4, PosFields, Zenon
  <2>2. ~Stays(sp, q)
    BY <2>1 DEF Stays
  <2> QED
    BY <1>4, <2>2, Zenon DEF Puts, PutPiece, PutCR, PutLF, Handled
<1>12. Flowing(mode, "SPEECH", s2, ns2, q, c)
  BY <1>4, <1>7, <1>8, <1>9, <1>10, <1>11, Zenon DEF Flowing
<1> QED
  BY <1>0, <1>3, <1>4, <1>9, <1>10, <1>12 DEF StreamInv

(* A step of KEY or NTP keeps it. *)
LEMMA OthersKeep ==
  ASSUME StreamInv, Ts!ReadPiece("KEY") \/ Ts!ReadNtp
  PROVE  StreamInv'
<1>0. ~over
  BY DEF Ts!ReadPiece, Ts!ReadNtp, Ts!Take
<1>1. /\ StreamType /\ Said(noisy, sp, bridge) /\ OrderOf(bridge)
      /\ Flowing(mode, writer, switches, noisy, sp, bridge)
  BY <1>0, Zenon DEF StreamInv
<1>2. switches \in Nat
  BY <1>1 DEF StreamType
<1>3. PICK u, c, s2, ns2 : u = writer' /\ c = bridge' /\ s2 = switches' /\ ns2 = noisy'
  OBVIOUS
<1>4. /\ StreamType' /\ CrAlone(mode, c) /\ mode' = mode /\ over' = over
      /\ PosOK(sp) /\ sp' = sp /\ bridge \in BridgeType /\ c \in BridgeType
      /\ Disturbs(bridge, c)
      /\ u # "SPEECH" /\ Counts(u, writer, switches, noisy, sp, s2, ns2)
  <2>1. CrAlone(mode, bridge)
    BY <1>1, Zenon DEF Flowing
  <2>2. CASE Ts!ReadPiece("KEY")
    BY <1>1, <1>3, <2>1, <2>2, KeyStep
  <2>3. CASE Ts!ReadNtp
    BY <1>1, <1>3, <2>1, <2>3, NtpStep
  <2> QED
    BY <2>2, <2>3
<1>5. s2 = switches + (IF u = writer THEN 0 ELSE 1)
  BY <1>4, Zenon DEF Counts
<1>6. LostBound(mode, u, sp, c, s2)
  <2>1. /\ u = writer => Bad(mode, u, sp, c) \subseteq Bad(mode, writer, sp, bridge)
        /\ \E x : Bad(mode, u, sp, c) \subseteq Bad(mode, writer, sp, bridge) \cup {x}
    <3>1. /\ u # "SPEECH" /\ PosOK(sp) /\ bridge \in BridgeType /\ c \in BridgeType
          /\ Disturbs(bridge, c)
      BY <1>4, Zenon
    <3>2. \E x : Bad(mode, u, sp, c) \subseteq Bad(mode, writer, sp, bridge) \cup {x}
      BY <3>1, OthersLose, Zenon
    <3>3. writer # "SPEECH" => Bad(mode, u, sp, c) \subseteq Bad(mode, writer, sp, bridge)
      BY <3>1, OthersLose, Zenon
    <3> QED
      BY <3>1, <3>2, <3>3, Zenon
  <2>2. LostBound(mode, writer, sp, bridge, switches)
    BY <1>1, Zenon DEF Flowing
  <2> QED
    BY <1>2, <1>5, <2>1, <2>2, LostCount, Zenon
<1>7. NoiseBound(u, sp, c, s2)
  <2>1. NoiseStep(u, writer, sp, bridge, sp, c)
    BY <1>4, OthersNoise, Zenon
  <2>2. NoiseBound(writer, sp, bridge, switches)
    BY <1>1, Zenon DEF Flowing
  <2> QED
    BY <1>2, <1>5, <2>1, <2>2, NoiseCount, Zenon
<1>8. HeadsOut(sp, c) /\ OrderOf(c)
  <2>1. HeadsOut(sp, bridge)
    BY <1>1, Zenon DEF Flowing
  <2> QED
    BY <1>1, <1>4, <2>1, OthersInOrder, Zenon
<1>9. Stage(mode, u, ns2, sp, c) /\ Calm(mode, ns2, sp, c) /\ Said(ns2, sp, c)
  <2>1. Stage(mode, writer, noisy, sp, bridge) /\ Calm(mode, noisy, sp, bridge)
    BY <1>1, Zenon DEF Flowing
  <2> QED
    BY <1>1, <1>4, <2>1, OthersSay, Zenon
<1>10. BoundaryEmpty(u, sp, c)
  BY <1>4, Zenon DEF BoundaryEmpty
<1>11. Flowing(mode, u, s2, ns2, sp, c)
  BY <1>4, <1>6, <1>7, <1>8, <1>9, <1>10, Zenon DEF Flowing
<1> QED
  BY <1>0, <1>3, <1>4, <1>8, <1>9, <1>11 DEF StreamInv

(* SpeakTokens makes a sentence of the tokens. *)
LEMMA RemainingSpoken ==
  ASSUME NEW b \in BridgeType, NEW c, c = Ts!SpeakTokens(b)
  PROVE  /\ c \in BridgeType /\ Hushed(b, c)
         /\ c.spoken = b.spoken \/ c.spoken = Append(b.spoken, b.tokens)
<1>0. /\ b.line \in Seq(Ts!Pieces) /\ b.cr \in BOOLEAN /\ b.tokens \in Seq(Seq(Ts!Pieces))
      /\ b.spoken \in Seq(Seq(Seq(Ts!Pieces)) \ {<<>>})
  BY BridgeFields
<1>1. CASE b.tokens = <<>>
  <2>1. c = b
    BY <1>1 DEF Ts!SpeakTokens
  <2>2. Same(b, c)
    BY <2>1, Zenon DEF Same
  <2> QED
    BY <2>1, <2>2, SameHushes, Zenon
<1>2. CASE b.tokens # <<>>
  <2>1. c = Ts!speak(b)
    BY <1>2, Zenon DEF Ts!SpeakTokens
  <2>2. Append(b.spoken, b.tokens) \in Seq(Seq(Seq(Ts!Pieces)) \ {<<>>})
    <3>1. b.tokens \in Seq(Seq(Ts!Pieces)) \ {<<>>}
      BY <1>0, <1>2
    <3> QED
      BY <1>0, <3>1, AppendProperties
  <2>3. <<>> \in Seq(Seq(Ts!Pieces))
    BY EmptySeq
  <2>4. c \in BridgeType /\ c.tokens = <<>> /\ c.spoken = Append(b.spoken, b.tokens)
    BY <2>1, <2>2, <2>3 DEF Ts!speak, Ts!tokens_clear, BridgeType
  <2> QED
    BY <2>4, SpokenHushes, Zenon
<1> QED
  BY <1>1, <1>2

(* The end of the input keeps it. *)
LEMMA EndKeeps ==
  ASSUME StreamInv, Ts!StopReading \/ Ts!Eof \/ Ts!Interrupt
  PROVE  StreamInv'
<1>0. /\ ~over /\ over' = TRUE /\ mode' = mode /\ pipe' = pipe /\ pos' = pos /\ ntp' = ntp
      /\ writer' = writer /\ switches' = switches /\ noisy' = noisy /\ sp' = sp
  BY DEF Ts!StopReading, Ts!Eof, Ts!Interrupt, sp
<1>1. /\ StreamType /\ Said(noisy, sp, bridge) /\ OrderOf(bridge)
      /\ Flowing(mode, writer, switches, noisy, sp, bridge)
  BY <1>0, Zenon DEF StreamInv
<1>2. bridge \in BridgeType /\ switches \in Nat /\ PosOK(sp) /\ bridge.line \in Seq(Ts!Pieces)
  <2>1. bridge \in BridgeType /\ switches \in Nat /\ PosOK(sp)
    BY <1>1, SpeechAt DEF StreamType, sp, Ts!Tasks
  <2> QED
    BY <2>1, BridgeFields
<1>3. PICK d : bridge' = Ts!SpeakTokens(d) /\ (d = bridge \/ d = Ts!process_line(bridge))
  BY Zenon DEF Ts!StopReading, Ts!Eof, Ts!Interrupt
<1>4. d \in BridgeType /\ (Same(bridge, d) \/ Handled(bridge.line, bridge, d))
  <2>1. Same(bridge, bridge)
    BY DEF Same
  <2> QED
    BY <1>2, <1>3, <2>1, ProcessIs, Zenon
<1>5. PICK c : c = bridge'
  OBVIOUS
<1>6. /\ c \in BridgeType /\ Hushed(d, c)
      /\ c.spoken = d.spoken \/ c.spoken = Append(d.spoken, d.tokens)
  BY <1>3, <1>4, <1>5, RemainingSpoken
<1>7. Said(noisy, sp, c)
  <2> SUFFICES ASSUME NEW a \in 1..sp.text, a \notin noisy PROVE SpokenAs(c, a, noisy)
    BY Zenon DEF Said
  <2>1. SpokenAs(bridge, a, noisy)
    BY <1>1, Zenon DEF Said
  <2>2. d.spoken = bridge.spoken \/ d.spoken = Append(bridge.spoken, bridge.tokens)
    BY <1>4, Zenon DEF Same, Handled
  <2>3. noisy \subseteq noisy
    OBVIOUS
  <2>4. SpokenAs(d, a, noisy)
    BY <1>2, <2>1, <2>2, <2>3, SpokenStays, Zenon
  <2> QED
    BY <1>4, <1>6, <2>3, <2>4, SpokenStays, Zenon
<1>8. OrderOf(c)
  <2>1. OrderOf(d)
    <3>1. CASE Same(bridge, d)
      BY <1>1, <3>1, SameHushes, HushedKeeps, Zenon
    <3>2. CASE Handled(bridge.line, bridge, d)
      <4>1. Later(sp, bridge, bridge.line) /\ \A w \in Ts!Ids : Heard(bridge, w) => Put(sp, w)
        BY <1>1, Zenon DEF Flowing, HeadsOut, Later
      <4> QED
        BY <1>1, <1>2, <1>4, <3>2, <4>1, HandledInOrder, Zenon
    <3> QED
      BY <1>4, <3>1, <3>2
  <2> QED
    BY <1>6, <2>1, HushedKeeps, Zenon
<1>9. Damage(sp, c, switches, 1)
  <2>1. (\A w : Heard(c, w) <=> Heard(d, w)) /\ NoiseOf(c) = NoiseOf(d)
    BY <1>6, HushedKeeps, Zenon
  <2>2. \A w : Heard(bridge, w) => Heard(d, w)
    BY <1>2, <1>4, HeardStays, Zenon
  <2>3. \E x : NoiseOf(d) \subseteq NoiseOf(bridge) \cup {x}
    <3>1. CASE Same(bridge, d)
      <4>1. NoiseOf(d) = NoiseOf(bridge)
        BY <3>1, SameHushes, HushedKeeps, Zenon
      <4> QED
        BY <4>1, Zenon
    <3>2. CASE Handled(bridge.line, bridge, d)
      BY <1>2, <1>4, <3>2, HandledNoise, Zenon
    <3> QED
      BY <1>4, <3>1, <3>2
  <2>4. LostBound(mode, writer, sp, bridge, switches) /\ NoiseBound(writer, sp, bridge, switches)
    BY <1>1, Zenon DEF Flowing
  <2>5. (\A w : Heard(bridge, w) => Heard(c, w)) /\ \E x : NoiseOf(c) \subseteq NoiseOf(bridge) \cup {x}
    BY <2>1, <2>2, <2>3, Zenon
  <2> QED
    BY <1>2, <2>4, <2>5, BoundsGive, Zenon
<1>10. StreamType'
  BY <1>0, <1>1, <1>5, <1>6 DEF StreamType, PipeType
<1> QED
  BY <1>0, <1>5, <1>7, <1>8, <1>9, <1>10 DEF StreamInv

(* What is put waits in the pipe. *)
LEMMA PutsKeep ==
  ASSUME StreamInv, NEW t \in Ts!Tasks, Ts!uart_puts(t) \/ Ts!NtpPuts
  PROVE  StreamInv'
<1>1. PICK u \in Ts!Tasks \cup {"NTP"} : pipe' = Append(pipe, u) /\ Len(pipe) < MaxPipe
  BY DEF Ts!uart_puts, Ts!NtpPuts
<1>2. /\ mode' = mode /\ pos' = pos /\ ntp' = ntp /\ bridge' = bridge /\ writer' = writer
      /\ switches' = switches /\ noisy' = noisy /\ over' = over
  BY DEF Ts!uart_puts, Ts!NtpPuts
<1>3. PipeType
  BY DEF StreamInv, StreamType
<1>4. PipeType'
  BY <1>1, <1>3, StreamConst DEF PipeType
<1> QED
  BY <1>2, <1>4, Zenon DEF StreamInv, StreamType, sp

(* Every step keeps it. *)
LEMMA StreamNext_Inv ==
  StreamInv /\ [StreamNext]_<<vars, stream>> => StreamInv'
<1> SUFFICES ASSUME StreamInv, [StreamNext]_<<vars, stream>> PROVE StreamInv'
  OBVIOUS
<1>1. CASE StreamNext
  <2>1. \/ \E t \in Ts!Tasks : Ts!uart_puts(t) \/ Ts!NtpPuts
        \/ Ts!ReadPiece("SPEECH") \/ Ts!ReadPiece("KEY") \/ Ts!ReadNtp
        \/ Ts!StopReading \/ Ts!Eof \/ Ts!Interrupt
    BY <1>1 DEF StreamNext, Ts!Next, Ts!Read, Ts!Tasks
  <2> QED
    BY <2>1, PutsKeep, SpeechKeeps, OthersKeep, EndKeeps
<1>2. CASE UNCHANGED <<vars, stream>>
  BY <1>2 DEF stream, StreamInv, StreamType, PipeType, sp
<1> QED
  BY <1>1, <1>2

(* The invariant holds in every state of the stream. *)
THEOREM StreamInvHolds == StreamSpec => []StreamInv
<1>1. StreamInit => StreamInv
  BY StreamInit_Inv DEF StreamInit
<1> QED
  BY <1>1, StreamNext_Inv, PTL DEF StreamSpec

(* An announcement that the bridge read to its end, and during which no     *)
(* other task printed, is spoken whole.                                     *)
THEOREM UndisturbedSpoken == StreamSpec => []UndisturbedIsSpoken
<1>1. StreamInv => UndisturbedIsSpoken
  <2> SUFFICES ASSUME StreamInv PROVE UndisturbedIsSpoken
    OBVIOUS
  <2>1. Said(noisy, sp, bridge)
    BY Zenon DEF StreamInv
  <2> QED
    BY <2>1 DEF Said, SpokenAs, Quiet, UndisturbedIsSpoken, Ts!UndisturbedIsSpoken, Ts!Finished, sp
<1> QED
  BY <1>1, StreamInvHolds, PTL

(* Of what the bridge read, every word lost and every word made up costs a  *)
(* change of the writer.                                                    *)
THEOREM DamageIsBounded == StreamSpec => []DamageBounded
<1>1. StreamInv => DamageBounded
  <2> SUFFICES ASSUME StreamInv PROVE DamageBounded
    OBVIOUS
  <2>1. StreamType /\ PosOK(sp) /\ switches \in Nat /\ over \in BOOLEAN
    BY SpeechAt DEF StreamInv, StreamType, sp, Ts!Tasks
  <2>2. Damage(sp, bridge, switches, IF over THEN 1 ELSE 0)
    <3>1. CASE over
      BY <3>1, Zenon DEF StreamInv
    <3>2. CASE ~over
      <4>1. LostBound(mode, writer, sp, bridge, switches) /\ NoiseBound(writer, sp, bridge, switches)
        BY <3>2, Zenon DEF StreamInv, Flowing
      <4>2. NoiseOf(bridge) \subseteq NoiseOf(bridge) \cup {0}
        OBVIOUS
      <4>3. Damage(sp, bridge, switches, 0)
        BY <2>1, <4>1, <4>2, BoundsGive, Zenon
      <4> QED
        BY <3>2, <4>3, Zenon
    <3> QED
      BY <3>1, <3>2
  <2>3. Ts!Places = PlacesOf(bridge) /\ \A x : Ts!At(x) = AtOf(bridge, x)
    BY Zenon DEF Ts!Places, Ts!Sentences, Ts!At, PlacesOf, AtOf
  <2>4. \A S : Ts!Cardinality(S) = Cardinality(S)
    BY Zenon DEF Ts!Cardinality, Cardinality
  <2>5. {w \in Ts!Finished \X (1..WordsPer) : \A x \in Ts!Places : Ts!At(x) # Ts!Word(w)} = LostOf(sp, bridge)
    BY <2>3, Zenon DEF LostOf, Heard, Ts!Finished, sp
  <2>6. {x \in Ts!Places : \A w \in Ts!Ids : Ts!At(x) # Ts!Word(w)} = NoiseOf(bridge)
    BY <2>3, Zenon DEF NoiseOf
  <2> QED
    BY <2>2, <2>4, <2>5, <2>6, Zenon DEF DamageBounded, Ts!DamageBounded, Damage
<1> QED
  BY <1>1, StreamInvHolds, PTL

(* No word is spoken twice and none is overtaken. *)
THEOREM WordsInOrder == StreamSpec => []HeardInOrder
<1>1. StreamInv => HeardInOrder
  <2> SUFFICES ASSUME StreamInv PROVE HeardInOrder
    OBVIOUS
  <2>1. OrderOf(bridge)
    BY Zenon DEF StreamInv
  <2>2. Ts!Places = PlacesOf(bridge) /\ \A x : Ts!At(x) = AtOf(bridge, x)
    BY Zenon DEF Ts!Places, Ts!Sentences, Ts!At, PlacesOf, AtOf
  <2> QED
    BY <2>1, <2>2, Zenon DEF OrderOf, HeardInOrder, Ts!HeardInOrder
<1> QED
  BY <1>1, StreamInvHolds, PTL
=============================================================================

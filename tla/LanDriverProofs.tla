--------------------------- MODULE LanDriverProofs ---------------------------
(***************************************************************************)
(* Proofs about the driver, for every value of the constants.  Received:   *)
(* every set of frame lengths and all sizes of the FIFOs and of the pool's *)
(* buffers.  Sent: every MTU, every chain of pbufs and every length that   *)
(* fits into the chip's commands.                                          *)
(***************************************************************************)
EXTENDS MCLanDriver, SequenceTheorems, WellFoundedInduction, TLAPS

-----------------------------------------------------------------------------
(* Lemmas about lengths. *)

(* A frame takes a natural number of words of the data FIFO. *)
LEMMA WordsForNat ==
  ASSUME NEW n \in Nat
  PROVE  WordsFor(n) \in Nat /\ (n > 0 => WordsFor(n) > 0)
BY DEF WordsFor

(* Because the pool's buffers hold whole words, a chain of them takes as    *)
(* many words as one buffer of the frame's length would.                    *)
LEMMA ChainIsContiguous ==
  ASSUME NEW len \in Nat
  PROVE  ChainWords(len) = WordsFor(len)
<1> DEFINE a == len \div PoolBufSize
           b == len % PoolBufSize
           q == PoolBufSize \div 4
<1>1. PoolBufSize \in Nat /\ PoolBufSize > 0 /\ PoolBufSize = 4 * q /\ q \in Nat
  BY DriverAssumption
<1>2. a \in Nat /\ b \in Nat /\ len = PoolBufSize * a + b
  BY <1>1
<1>3. PICK x \in Nat : x = q * a
  BY <1>1, <1>2
<1>4. PoolBufSize * a = 4 * x
  BY <1>1, <1>2, <1>3
<1>5. WordsFor(PoolBufSize) = q
  BY <1>1 DEF WordsFor
<1>6. ChainWords(len) = x + WordsFor(b)
  <2>1. a * q = x
    BY <1>1, <1>2, <1>3
  <2> QED
    BY <1>5, <2>1 DEF ChainWords
<1> HIDE DEF a, b, q
<1>7. WordsFor(len) = x + WordsFor(b)
  BY <1>2, <1>3, <1>4 DEF WordsFor
<1> QED
  BY <1>6, <1>7

(* A frame without its CRC is no longer than with it. *)
LEMMA PayloadFits ==
  ASSUME NEW n \in Nat
  PROVE  /\ pkt_len(n) \in Nat
         /\ ChainWords(pkt_len(n)) = WordsFor(pkt_len(n))
         /\ WordsFor(pkt_len(n)) \in 0..WordsFor(n)
         /\ n > 4 => pkt_len(n) = n - 4
<1>1. pkt_len(n) \in Nat /\ pkt_len(n) <= n /\ (n > 4 => pkt_len(n) = n - 4)
  BY DEF pkt_len
<1>2. WordsFor(pkt_len(n)) \in 0..WordsFor(n)
  BY <1>1 DEF WordsFor
<1> QED
  BY <1>1, <1>2, ChainIsContiguous

-----------------------------------------------------------------------------
(* The inductive invariant. *)

InFrame == pc \in {"alloc", "copy", "flush"}

(* The place in the stream where the frame after the current one starts. *)
NextStart == IF InFrame THEN frame.start + words ELSE rd

(* From there on the frames of the status FIFO follow one another. *)
StatusFollowsData ==
  /\ IF status = <<>> THEN NextStart = wr ELSE NextStart = status[1].start
  /\ \A i \in 1..Len(status) :
       status[i].start + WordsFor(status[i].raw_len) =
         IF i < Len(status) THEN status[i + 1].start ELSE wr

(* None of them reaches beyond the words written. *)
StatusWritten ==
  \A i \in 1..Len(status) : status[i].start + WordsFor(status[i].raw_len) <= wr

(* rd is where read_words says, inside the current frame. *)
ReadsCurrentFrame ==
  /\ InFrame => rd = frame.start + read_words /\ frame.start + words <= wr
  /\ pc = "alloc" => read_words = 0 /\ payload = <<>>

PayloadSoFar ==
  pc = "copy" =>
    /\ Len(payload) = IF read_words < WordsFor(pkt_len(frame.raw_len))
                      THEN read_words ELSE WordsFor(pkt_len(frame.raw_len))
    /\ \A k \in 1..Len(payload) : payload[k] = frame.start + k

(* Frames are numbered in the order delivered, current, in the FIFO. *)
NumbersIncrease ==
  /\ \A i \in 1..Len(status) : status[i].number <= arrived
  /\ \A i, j \in 1..Len(status) : i < j => status[i].number < status[j].number
  /\ InFrame => /\ frame.number <= arrived
                /\ \A i \in 1..Len(status) : frame.number < status[i].number
                /\ \A i \in 1..Len(delivered) : delivered[i].frame.number < frame.number
  /\ \A i \in 1..Len(delivered) : delivered[i].frame.number <= arrived
  /\ \A i \in 1..Len(delivered), j \in 1..Len(status) :
       delivered[i].frame.number < status[j].number

DeliveredWhole ==
  \A i \in 1..Len(delivered) :
    LET f == delivered[i].frame  p == delivered[i].payload
    IN  /\ \A k \in 1..Len(p) : p[k] = f.start + k
        /\ f.raw_len > 4 => Len(p) = WordsFor(f.raw_len - 4)

DeliveredInOrder ==
  \A i, j \in 1..Len(delivered) :
    i < j => delivered[i].frame.number < delivered[j].frame.number

(* After a soft reset the receiver is off and the FIFOs are empty. *)
EmptyAfterReset == pc = "drain" => status = <<>> /\ rd = wr /\ rxen = 0

AfterReset ==
  /\ EmptyAfterReset
  /\ pc # "reset"
  /\ StatusFollowsData
  /\ StatusWritten
  /\ ReadsCurrentFrame
  /\ PayloadSoFar
  /\ DeliveredWhole

IInv ==
  /\ TypeOK
  /\ InFrame => frame \in Statuses
  /\ pc = "reset" => reset = "pending" /\ delivered = <<>>
  /\ NumbersIncrease
  /\ DeliveredInOrder
  /\ reset = "done" => AfterReset

(* The driver starts in the invariant. *)
LEMMA InitIInv == Init => IInv
<1> SUFFICES ASSUME Init PROVE IInv
  OBVIOUS
<1>1. TypeOK
  <2>1. read_words \in 0..WordsFor(frame.raw_len)
    BY WordsForNat DEF Init, NoFrame
  <2> QED
    BY <2>1, DriverAssumption DEF Init, TypeOK
<1>2. NumbersIncrease /\ DeliveredInOrder
  BY DEF Init, InFrame, NumbersIncrease, DeliveredInOrder
<1> QED
  BY <1>1, <1>2 DEF Init, IInv, InFrame

(* What the types give for a status, and for the elements of the sequences. *)
LEMMA StatusType ==
  ASSUME NEW st \in Statuses
  PROVE  /\ st.number \in Nat /\ st.start \in Nat /\ st.raw_len \in Nat
         /\ WordsFor(st.raw_len) \in Nat
<1>1. st.number \in 1..MaxFrames /\ st.start \in Nat /\ st.raw_len \in RawLengths
  BY DEF Statuses
<1>2. st.number \in Nat
  BY <1>1
<1>3. st.raw_len \in Nat
  BY <1>1, DriverAssumption
<1> QED
  BY <1>1, <1>2, <1>3, WordsForNat

(* The elements of the status FIFO and of the delivered frames are typed. *)
LEMMA ElementTypes ==
  ASSUME TypeOK
  PROVE  /\ \A i \in 1..Len(status) : status[i] \in Statuses
         /\ \A i \in 1..Len(delivered) : /\ delivered[i] \in Deliveries
                                         /\ delivered[i].frame \in Statuses
         /\ Len(status) \in Nat /\ Len(delivered) \in Nat
<1>1. ASSUME NEW d \in Deliveries PROVE d.frame \in Statuses
  BY DEF Deliveries
<1> QED
  BY <1>1 DEF TypeOK

(* A frame that the chip takes in keeps the invariant. *)
LEMMA ArriveIInv == IInv /\ Arrive => IInv'
<1> SUFFICES ASSUME IInv, Arrive PROVE IInv'
  OBVIOUS
<1>1. PICK n \in RawLengths :
        /\ wr' = wr + WordsFor(n)
        /\ status' = Append(status, [raw_len |-> n, number |-> arrived', start |-> wr])
  BY DEF Arrive
<1> DEFINE new == [raw_len |-> n, number |-> arrived', start |-> wr]
<1>2. WordsFor(n) \in Nat
  BY WordsForNat, DriverAssumption
<1>3. new \in Statuses /\ new.raw_len = n /\ new.number = arrived' /\ new.start = wr
  BY DriverAssumption DEF IInv, TypeOK, Statuses, Arrive
<1>4. /\ status \in Seq(Statuses) /\ status' = Append(status, new)
      /\ Len(status) \in Nat /\ Len(status') = Len(status) + 1
      /\ \A i \in 1..Len(status) : status'[i] = status[i]
      /\ status'[Len(status) + 1] = new
  BY <1>1, <1>3 DEF IInv, TypeOK
<1> HIDE DEF new
<1>5. TypeOK'
  <2>1. status' \in Seq(Statuses)
    BY <1>3, <1>4
  <2>2. wr' \in Nat /\ rd' \in 0..wr'
    <3>1. wr \in Nat /\ rd \in 0..wr /\ rd' = rd
      BY DEF IInv, TypeOK, Arrive
    <3> QED
      BY <1>1, <1>2, <3>1
  <2>3. arrived' \in 0..MaxFrames
    BY DriverAssumption DEF IInv, TypeOK, Arrive
  <2> QED
    BY <2>1, <2>2, <2>3 DEF IInv, TypeOK, Arrive, poll
<1>6. NumbersIncrease'
  <2>1. arrived' = arrived + 1 /\ arrived \in Nat
    BY DEF IInv, TypeOK, Arrive
  <2>2. \A i \in 1..Len(status) : status[i].number \in Nat
    BY ElementTypes, StatusType DEF IInv
  <2>3. /\ \A i \in 1..Len(status') : status'[i].number <= arrived'
        /\ \A i, j \in 1..Len(status') : i < j => status'[i].number < status'[j].number
    BY <1>3, <1>4, <2>1, <2>2 DEF IInv, NumbersIncrease
  <2>4. \A i \in 1..Len(delivered) : delivered[i].frame.number \in Nat
    BY ElementTypes, StatusType DEF IInv
  <2>5. /\ \A i \in 1..Len(delivered) : delivered[i].frame.number <= arrived'
        /\ \A i \in 1..Len(delivered), j \in 1..Len(status') :
             delivered[i].frame.number < status'[j].number
    BY <1>3, <1>4, <2>1, <2>4 DEF IInv, NumbersIncrease
  <2>6. InFrame => /\ frame.number <= arrived'
                   /\ \A i \in 1..Len(status') : frame.number < status'[i].number
    BY <1>3, <1>4, <2>1, StatusType DEF IInv, NumbersIncrease
  <2> QED
    BY <2>3, <2>5, <2>6 DEF IInv, NumbersIncrease, InFrame, Arrive, poll
<1>7. ASSUME reset = "done" PROVE AfterReset'
  <2>1. AfterReset
    BY <1>7 DEF IInv
  <2>2. pc # "drain"
    BY <2>1 DEF AfterReset, EmptyAfterReset, Arrive
  <2>3. StatusFollowsData'
    <3>1. NextStart' = NextStart
      BY DEF NextStart, InFrame, words, Arrive, poll
    <3>2. CASE status = <<>>
      BY <1>1, <1>3, <1>4, <2>1, <3>1, <3>2 DEF AfterReset, StatusFollowsData
    <3>3. CASE status # <<>>
      <4>1. status' # <<>> /\ NextStart' = status'[1].start
        BY <1>4, <2>1, <3>1, <3>3 DEF AfterReset, StatusFollowsData
      <4>2. ASSUME NEW i \in 1..Len(status')
            PROVE  status'[i].start + WordsFor(status'[i].raw_len) =
                     IF i < Len(status') THEN status'[i + 1].start ELSE wr'
        <5>1. CASE i < Len(status)
          BY <1>4, <2>1, <5>1 DEF AfterReset, StatusFollowsData
        <5>2. CASE i = Len(status)
          BY <1>3, <1>4, <2>1, <5>2 DEF AfterReset, StatusFollowsData
        <5>3. CASE i = Len(status) + 1
          BY <1>1, <1>3, <1>4, <5>3
        <5> QED
          BY <1>4, <5>1, <5>2, <5>3
      <4> QED
        BY <4>1, <4>2 DEF StatusFollowsData
    <3> QED
      BY <3>2, <3>3
  <2>4. ReadsCurrentFrame'
    <3>1. InFrame => frame.start + words \in Nat
      BY StatusType DEF IInv, words
    <3>2. wr' >= wr /\ wr \in Nat /\ wr' \in Nat
      BY <1>1, <1>2 DEF IInv, TypeOK
    <3>3. UNCHANGED <<InFrame, words, rd, pc, poll>>
      BY DEF InFrame, words, Arrive, poll
    <3> QED
      BY <2>1, <3>1, <3>2, <3>3 DEF AfterReset, ReadsCurrentFrame, poll
  <2>5. StatusWritten'
    <3>1. \A i \in 1..Len(status) :
            status[i].start + WordsFor(status[i].raw_len) \in Nat
      BY ElementTypes, StatusType DEF IInv
    <3>2. wr' >= wr /\ wr \in Nat /\ wr' \in Nat
      BY <1>1, <1>2 DEF IInv, TypeOK
    <3> QED
      BY <1>1, <1>3, <1>4, <2>1, <3>1, <3>2 DEF AfterReset, StatusWritten
  <2> QED
    BY <2>1, <2>2, <2>3, <2>4, <2>5
    DEF AfterReset, EmptyAfterReset, PayloadSoFar, DeliveredWhole, Arrive, poll
<1> QED
  BY <1>5, <1>6, <1>7 DEF IInv, InFrame, DeliveredInOrder, Arrive, poll

(* The soft reset of lan9118_init keeps the invariant. *)
LEMMA SoftResetIInv == IInv /\ SoftReset => IInv'
<1> SUFFICES ASSUME IInv, SoftReset PROVE IInv'
  OBVIOUS
<1> USE DEF SoftReset
<1>1. TypeOK'
  <2>1. timeout' \in 0..DrainLimit
    BY DriverAssumption
  <2>2. status' \in Seq(Statuses)
    <3>1. CASE status' = <<>>
      BY <3>1, EmptySeq
    <3>2. CASE status' = status
      BY <3>2 DEF IInv, TypeOK
    <3> QED
      BY <3>1, <3>2
  <2>3. wr' \in Nat /\ rd' \in 0..wr'
    BY DEF IInv, TypeOK
  <2> QED
    BY <2>1, <2>2, <2>3 DEF IInv, TypeOK, poll
<1>2. ~InFrame /\ ~InFrame' /\ pc' = "drain"
  BY DEF InFrame
<1>3. NumbersIncrease' /\ DeliveredInOrder'
  <2>1. CASE status' = <<>>
    BY <1>2, <2>1 DEF IInv, NumbersIncrease, DeliveredInOrder
  <2>2. CASE status' = status
    BY <1>2, <2>2 DEF IInv, NumbersIncrease, DeliveredInOrder
  <2> QED
    BY <2>1, <2>2
<1>4. ASSUME reset' = "done" PROVE AfterReset'
  <2>1. status' = <<>> /\ rd' = wr' /\ rxen' = 0
    BY <1>4
  <2>2. StatusFollowsData' /\ StatusWritten'
    BY <1>2, <2>1 DEF StatusFollowsData, StatusWritten, NextStart
  <2>3. ReadsCurrentFrame' /\ PayloadSoFar'
    BY <1>2 DEF ReadsCurrentFrame, PayloadSoFar
  <2>4. DeliveredWhole'
    BY DEF IInv, DeliveredWhole
  <2> QED
    BY <1>2, <2>1, <2>2, <2>3, <2>4 DEF AfterReset, EmptyAfterReset
<1> QED
  BY <1>1, <1>2, <1>3, <1>4 DEF IInv

(* Taking the first status. *)
LEMMA TailFacts ==
  ASSUME TypeOK, status # <<>>
  PROVE  /\ Tail(status) \in Seq(Statuses)
         /\ Len(status) \in Nat \ {0} /\ Len(Tail(status)) = Len(status) - 1
         /\ \A i \in 1..Len(Tail(status)) : i + 1 \in 1..Len(status) /\ Tail(status)[i] = status[i + 1]
         /\ Head(status) = status[1] /\ status[1] \in Statuses
BY DEF TypeOK

(* The drain of the FIFOs in lan9118_init keeps the invariant. *)
LEMMA DrainIInv == IInv /\ (DrainStatus \/ EnableMac) => IInv'
<1> SUFFICES ASSUME IInv, DrainStatus \/ EnableMac PROVE IInv'
  OBVIOUS
<1>1. CASE DrainStatus
  <2> USE <1>1 DEF DrainStatus
  <2>1. reset # "done"
    BY DEF IInv, AfterReset, EmptyAfterReset
  <2>2. TypeOK'
    <3>1. status' \in Seq(Statuses)
      BY TailFacts DEF IInv
    <3>2. timeout' \in 0..DrainLimit
      BY DriverAssumption DEF IInv, TypeOK
    <3> QED
      BY <3>1, <3>2 DEF IInv, TypeOK, poll
  <2>3. NumbersIncrease' /\ DeliveredInOrder'
    <3>1. /\ Len(status) \in Nat /\ Len(status') = Len(status) - 1
          /\ \A i \in 1..Len(status') : i + 1 \in 1..Len(status) /\ status'[i] = status[i + 1]
      BY TailFacts DEF IInv
    <3> QED
      BY <3>1 DEF IInv, NumbersIncrease, DeliveredInOrder, InFrame
  <2> QED
    BY <2>1, <2>2, <2>3 DEF IInv, InFrame
<1>2. CASE EnableMac
  <2> USE <1>2 DEF EnableMac
  <2>1. TypeOK'
    BY DriverAssumption DEF IInv, TypeOK, poll
  <2>2. NumbersIncrease' /\ DeliveredInOrder'
    BY DEF IInv, NumbersIncrease, DeliveredInOrder, InFrame
  <2>3. ASSUME reset = "done" PROVE AfterReset'
    <3>1. AfterReset
      BY <2>3 DEF IInv
    <3>2. StatusFollowsData' /\ StatusWritten'
      BY <3>1 DEF AfterReset, EmptyAfterReset, StatusFollowsData, StatusWritten, NextStart, InFrame
    <3> QED
      BY <3>1, <3>2
      DEF AfterReset, EmptyAfterReset, ReadsCurrentFrame, PayloadSoFar, DeliveredWhole, InFrame
  <2> QED
    BY <2>1, <2>2, <2>3 DEF IInv, InFrame
<1> QED
  BY <1>1, <1>2

(* Popping a status word in lan9118_poll keeps the invariant. *)
LEMMA ReadStatusIInv == IInv /\ ReadStatus => IInv'
<1> SUFFICES ASSUME IInv, ReadStatus PROVE IInv'
  OBVIOUS
<1> USE DEF ReadStatus
<1>1. /\ status' \in Seq(Statuses)
      /\ Len(status) \in Nat \ {0} /\ Len(status') = Len(status) - 1
      /\ \A i \in 1..Len(status') : i + 1 \in 1..Len(status) /\ status'[i] = status[i + 1]
      /\ frame' = status[1] /\ frame' \in Statuses
  BY TailFacts DEF IInv
<1>2. ~InFrame /\ pc' \in {"idle", "alloc"}
  BY DEF InFrame
<1>3. frame'.start \in Nat /\ frame'.raw_len \in Nat /\ words' \in Nat
  BY <1>1, StatusType DEF words
<1>4. TypeOK'
  <2>1. read_words' \in 0..WordsFor(frame'.raw_len)
    BY <1>3 DEF words
  <2> QED
    BY <1>1, <1>2, <2>1 DEF IInv, TypeOK
<1>5. NumbersIncrease' /\ DeliveredInOrder'
  BY <1>1 DEF IInv, NumbersIncrease, DeliveredInOrder, InFrame
<1>6. ASSUME reset = "done" PROVE AfterReset'
  <2>1. AfterReset
    BY <1>6 DEF IInv
  <2>2. rd = frame'.start /\ wr \in Nat
    BY <1>1, <1>2, <2>1 DEF AfterReset, StatusFollowsData, NextStart, IInv, TypeOK
  <2>3. frame'.start + words' = (IF Len(status) > 1 THEN status[2].start ELSE wr)
    BY <1>1, <2>1 DEF AfterReset, StatusFollowsData, words
  <2>4. frame'.start + words' <= wr
    BY <1>1, <2>1 DEF AfterReset, StatusWritten, words
  <2>5. NextStart' = frame'.start + words'
    <3>1. CASE frame'.raw_len = 0
      <4>1. words' = 0
        BY <3>1 DEF words, WordsFor
      <4> QED
        BY <1>3, <2>2, <3>1, <4>1 DEF NextStart, InFrame
    <3>2. CASE frame'.raw_len # 0
      BY <3>2 DEF NextStart, InFrame
    <3> QED
      BY <3>1, <3>2
  <2>6. StatusFollowsData'
    <3>1. IF status' = <<>> THEN NextStart' = wr' ELSE NextStart' = status'[1].start
      <4>1. CASE Len(status) = 1
        <5>1. Len(status') = 0
          BY <1>1, <4>1
        <5>2. status' = <<>>
          BY <1>1, <5>1, EmptySeq
        <5> QED
          BY <2>3, <2>5, <4>1, <5>2
      <4>2. CASE Len(status) > 1
        <5>1. 1 \in 1..Len(status') /\ status'[1] = status[2]
          BY <1>1, <4>2
        <5>2. status' # <<>>
          BY <5>1
        <5> QED
          BY <2>3, <2>5, <4>2, <5>1, <5>2
      <4> QED
        BY <1>1, <4>1, <4>2
    <3>2. ASSUME NEW i \in 1..Len(status')
          PROVE  status'[i].start + WordsFor(status'[i].raw_len) =
                   IF i < Len(status') THEN status'[i + 1].start ELSE wr'
      BY <1>1, <2>1 DEF AfterReset, StatusFollowsData
    <3> QED
      BY <3>1, <3>2 DEF StatusFollowsData
  <2>7. StatusWritten'
    BY <1>1, <2>1 DEF AfterReset, StatusWritten
  <2>8. ReadsCurrentFrame'
    BY <1>3, <2>2, <2>4 DEF ReadsCurrentFrame, InFrame
  <2> QED
    BY <1>2, <2>1, <2>6, <2>7, <2>8
    DEF AfterReset, EmptyAfterReset, PayloadSoFar, DeliveredWhole
<1> QED
  BY <1>1, <1>4, <1>5, <1>6 DEF IInv

(* pbuf_alloc, served or refused, keeps the invariant. *)
LEMMA AllocIInv == IInv /\ Alloc => IInv'
<1> SUFFICES ASSUME IInv, Alloc PROVE IInv'
  OBVIOUS
<1> USE DEF Alloc, chip, poll
<1>1. InFrame /\ InFrame' /\ words' = words
  BY DEF InFrame, words
<1>2. TypeOK'
  BY DEF IInv, TypeOK
<1>3. NumbersIncrease' /\ DeliveredInOrder'
  BY <1>1 DEF IInv, NumbersIncrease, DeliveredInOrder
<1>4. ASSUME reset = "done" PROVE AfterReset'
  <2>1. AfterReset
    BY <1>4 DEF IInv
  <2>2. frame.raw_len \in Nat
    BY <1>1, StatusType DEF IInv
  <2>3. WordsFor(pkt_len(frame.raw_len)) \in Nat
    BY <2>2, PayloadFits
  <2>4. PayloadSoFar'
    BY <2>1, <2>3 DEF AfterReset, ReadsCurrentFrame, PayloadSoFar
  <2>5. StatusFollowsData' /\ StatusWritten' /\ ReadsCurrentFrame'
    BY <1>1, <2>1 DEF AfterReset, StatusFollowsData, StatusWritten, ReadsCurrentFrame, NextStart
  <2> QED
    BY <2>1, <2>4, <2>5 DEF AfterReset, EmptyAfterReset, DeliveredWhole
<1> QED
  BY <1>1, <1>2, <1>3, <1>4 DEF IInv

(* Reading a word of the current frame. *)
LEMMA PopInFrame ==
  ASSUME IInv, InFrame, reset = "done", read_words < words, PopData
  PROVE  /\ rd' = rd + 1 /\ RX_DATA_FIFO = rd + 1
         /\ rd = frame.start + read_words /\ frame.start + words <= wr
<1>1. rd = frame.start + read_words /\ frame.start + words <= wr
  BY DEF IInv, AfterReset, ReadsCurrentFrame
<1>2. frame.start \in Nat /\ words \in Nat /\ read_words \in Nat /\ wr \in Nat
  BY StatusType DEF IInv, TypeOK, words
<1>3. rd < wr
  BY <1>1, <1>2
<1> QED
  BY <1>1, <1>3 DEF PopData, RX_DATA_FIFO

(* The three loops that read words. *)
LEMMA WordIInv == IInv /\ (CopyWord \/ SkipWord \/ FlushWord) => IInv'
<1> SUFFICES ASSUME IInv, CopyWord \/ SkipWord \/ FlushWord PROVE IInv'
  OBVIOUS
<1>1. /\ InFrame /\ pc' = pc /\ frame' = frame /\ read_words' = read_words + 1
      /\ read_words < words /\ PopData
      /\ UNCHANGED <<rxen, status, wr, arrived, timeout, reset, delivered>>
  BY DEF CopyWord, SkipWord, FlushWord, InFrame
<1>2. InFrame' /\ words' = words
  BY <1>1 DEF InFrame, words
<1>3. frame \in Statuses /\ frame.raw_len \in Nat /\ words \in Nat /\ frame.start \in Nat
  BY <1>1, StatusType DEF IInv, words
<1>4. TypeOK'
  <2>1. rd' \in 0..wr'
    BY <1>1 DEF IInv, TypeOK, PopData
  <2>2. read_words' \in 0..WordsFor(frame'.raw_len)
    BY <1>1, <1>3 DEF IInv, TypeOK, words
  <2>3. payload' \in Seq(Nat)
    <3>1. RX_DATA_FIFO \in Nat
      BY DEF IInv, TypeOK, RX_DATA_FIFO
    <3>2. payload \in Seq(Nat)
      BY DEF IInv, TypeOK
    <3>3. payload' = payload \/ payload' = Append(payload, RX_DATA_FIFO)
      BY DEF CopyWord, SkipWord, FlushWord
    <3> HIDE DEF RX_DATA_FIFO
    <3> QED
      BY <3>1, <3>2, <3>3
  <2> QED
    BY <1>1, <2>1, <2>2, <2>3 DEF IInv, TypeOK
<1>5. NumbersIncrease' /\ DeliveredInOrder'
  BY <1>1, <1>2 DEF IInv, NumbersIncrease, DeliveredInOrder
<1>6. ASSUME reset = "done" PROVE AfterReset'
  <2>1. AfterReset
    BY <1>6 DEF IInv
  <2>2. /\ rd' = rd + 1 /\ RX_DATA_FIFO = rd + 1
        /\ rd = frame.start + read_words /\ frame.start + words <= wr
    BY <1>1, <1>6, PopInFrame
  <2>3. StatusFollowsData' /\ StatusWritten'
    BY <1>1, <1>2, <2>1 DEF AfterReset, StatusFollowsData, StatusWritten, NextStart
  <2>4. ReadsCurrentFrame'
    <3>1. pc # "alloc" /\ read_words \in Nat
      BY DEF CopyWord, SkipWord, FlushWord, IInv, TypeOK
    <3> QED
      BY <1>1, <1>2, <1>3, <2>2, <3>1 DEF ReadsCurrentFrame
  <2>5. PayloadSoFar'
    <3> DEFINE W == WordsFor(pkt_len(frame.raw_len))
    <3>1. W \in Nat /\ ChainWords(pkt_len(frame.raw_len)) = W /\ read_words \in Nat
      <4>1. W \in 0..words /\ ChainWords(pkt_len(frame.raw_len)) = W
        BY <1>3, PayloadFits DEF words
      <4>2. read_words \in Nat
        BY <1>3 DEF IInv, TypeOK, words
      <4> QED
        BY <1>3, <4>1, <4>2
    <3>2. pc = "copy" => /\ Len(payload) = IF read_words < W THEN read_words ELSE W
                         /\ \A k \in 1..Len(payload) : payload[k] = frame.start + k
      BY <2>1 DEF AfterReset, PayloadSoFar
    <3>3. payload \in Seq(Nat) /\ RX_DATA_FIFO \in Nat
      BY DEF IInv, TypeOK, RX_DATA_FIFO
    <3> HIDE DEF W
    <3>4. CASE CopyWord
      <4>1. Len(payload) < W /\ pc = "copy" /\ payload' = Append(payload, RX_DATA_FIFO)
        BY <3>1, <3>4 DEF CopyWord
      <4>2. Len(payload) = read_words /\ read_words + 1 <= W
        BY <3>1, <3>2, <4>1
      <4>3. /\ Len(payload') = read_words + 1
            /\ \A k \in 1..read_words : payload'[k] = payload[k]
            /\ payload'[read_words + 1] = rd + 1
        BY <2>2, <3>1, <3>3, <4>1, <4>2
      <4>4. \A k \in 1..Len(payload') : payload'[k] = frame.start + k
        <5> SUFFICES ASSUME NEW k \in 1..(read_words + 1)
                     PROVE  payload'[k] = frame.start + k
          BY <4>3
        <5>1. CASE k = read_words + 1
          BY <1>3, <2>2, <3>1, <4>3, <5>1
        <5>2. CASE k \in 1..read_words
          BY <3>2, <4>1, <4>2, <4>3, <5>2
        <5> QED
          BY <3>1, <5>1, <5>2
      <4> QED
        BY <1>1, <3>1, <4>2, <4>3, <4>4 DEF PayloadSoFar, W
    <3>5. CASE SkipWord
      BY <1>1, <3>1, <3>2, <3>5 DEF SkipWord, PayloadSoFar, W
    <3>6. CASE FlushWord
      BY <3>6 DEF FlushWord, PayloadSoFar
    <3> QED
      BY <3>4, <3>5, <3>6
  <2> QED
    BY <1>1, <2>1, <2>3, <2>4, <2>5 DEF AfterReset, EmptyAfterReset, DeliveredWhole, InFrame
<1> QED
  BY <1>1, <1>2, <1>3, <1>4, <1>5, <1>6 DEF IInv

(* Handing the frame to netif->input keeps the invariant. *)
LEMMA DeliverIInv == IInv /\ Deliver => IInv'
<1> SUFFICES ASSUME IInv, Deliver PROVE IInv'
  OBVIOUS
<1> USE DEF Deliver, chip, poll
<1> DEFINE new == [frame |-> frame, payload |-> payload]
<1>1. InFrame /\ ~InFrame'
  BY DEF InFrame
<1>2. /\ new.frame = frame /\ new.payload = payload
      /\ frame \in Statuses /\ payload \in Seq(Nat) /\ new \in Deliveries
  BY <1>1 DEF IInv, TypeOK, Deliveries
<1>3. /\ delivered' \in Seq(Deliveries)
      /\ Len(delivered) \in Nat /\ Len(delivered') = Len(delivered) + 1
      /\ \A i \in 1..Len(delivered) : delivered'[i] = delivered[i]
      /\ delivered'[Len(delivered) + 1] = new
  <2> HIDE DEF new
  <2>1. delivered' = Append(delivered, new)
    BY DEF new
  <2> QED
    BY <1>2, <2>1 DEF IInv, TypeOK
<1> HIDE DEF new
<1>4. TypeOK'
  BY <1>3 DEF IInv, TypeOK
<1>5. NumbersIncrease' /\ DeliveredInOrder'
  BY <1>1, <1>2, <1>3 DEF IInv, NumbersIncrease, DeliveredInOrder
<1>6. ASSUME reset = "done" PROVE AfterReset'
  <2>1. AfterReset
    BY <1>6 DEF IInv
  <2>2. NextStart' = NextStart
    BY <1>1, <2>1 DEF AfterReset, ReadsCurrentFrame, NextStart
  <2>3. StatusFollowsData' /\ StatusWritten' /\ ReadsCurrentFrame' /\ PayloadSoFar'
    BY <1>1, <2>1, <2>2
    DEF AfterReset, StatusFollowsData, StatusWritten, ReadsCurrentFrame, PayloadSoFar
  <2>4. DeliveredWhole'
    <3>1. frame.raw_len \in Nat
      BY <1>2, StatusType
    <3>2. /\ WordsFor(pkt_len(frame.raw_len)) \in 0..words
          /\ frame.raw_len > 4 => pkt_len(frame.raw_len) = frame.raw_len - 4
      BY <3>1, PayloadFits DEF words
    <3>3. words \in Nat
      BY <3>1, WordsForNat DEF words
    <3>4. /\ Len(payload) = WordsFor(pkt_len(frame.raw_len))
          /\ \A k \in 1..Len(payload) : payload[k] = frame.start + k
      BY <2>1, <3>2, <3>3 DEF AfterReset, PayloadSoFar
    <3> QED
      BY <1>2, <1>3, <2>1, <3>2, <3>4 DEF AfterReset, DeliveredWhole
  <2> QED
    BY <2>1, <2>3, <2>4 DEF AfterReset, EmptyAfterReset
<1> QED
  BY <1>1, <1>4, <1>5, <1>6 DEF IInv

(* The end of a flushed frame keeps the invariant. *)
LEMMA FlushEndIInv == IInv /\ FlushEnd => IInv'
<1> SUFFICES ASSUME IInv, FlushEnd PROVE IInv'
  OBVIOUS
<1> USE DEF FlushEnd, chip, poll
<1>1. InFrame /\ ~InFrame'
  BY DEF InFrame
<1>2. TypeOK'
  BY DEF IInv, TypeOK
<1>3. NumbersIncrease' /\ DeliveredInOrder'
  BY <1>1 DEF IInv, NumbersIncrease, DeliveredInOrder
<1>4. ASSUME reset = "done" PROVE AfterReset'
  <2>1. AfterReset
    BY <1>4 DEF IInv
  <2>2. NextStart' = NextStart
    BY <1>1, <2>1 DEF AfterReset, ReadsCurrentFrame, NextStart
  <2> QED
    BY <1>1, <2>1, <2>2
    DEF AfterReset, EmptyAfterReset, StatusFollowsData, StatusWritten, ReadsCurrentFrame,
        PayloadSoFar, DeliveredWhole
<1> QED
  BY <1>1, <1>2, <1>3, <1>4 DEF IInv

-----------------------------------------------------------------------------
(* The inductive invariant holds in every reachable state of the driver. *)
THEOREM IInvHolds == Spec => []IInv
<1>1. IInv /\ [Next]_vars => IInv'
  <2> SUFFICES ASSUME IInv, [Next]_vars PROVE IInv'
    OBVIOUS
  <2>1. CASE Arrive
    BY <2>1, ArriveIInv
  <2>2. CASE lan9118_hw_init
    BY <2>2, SoftResetIInv, DrainIInv DEF lan9118_hw_init
  <2>3. CASE lan9118_poll
    BY <2>3, ReadStatusIInv, AllocIInv, WordIInv, DeliverIInv, FlushEndIInv DEF lan9118_poll
  <2>4. CASE UNCHANGED vars
    <3> USE <2>4 DEF vars, chip, poll
    <3>1. TypeOK'
      BY DEF IInv, TypeOK
    <3>2. InFrame' = InFrame /\ NextStart' = NextStart
      BY DEF InFrame, NextStart, words
    <3>3. NumbersIncrease' /\ DeliveredInOrder'
      BY <3>2 DEF IInv, NumbersIncrease, DeliveredInOrder
    <3>4. AfterReset => AfterReset'
      BY <3>2 DEF AfterReset, EmptyAfterReset, StatusFollowsData, StatusWritten,
                  ReadsCurrentFrame, PayloadSoFar, DeliveredWhole, words
    <3> QED
      BY <3>1, <3>2, <3>3, <3>4 DEF IInv
  <2> QED
    BY <2>1, <2>2, <2>3, <2>4 DEF Next
<1> QED
  BY InitIInv, <1>1, PTL DEF Spec

(* The driver's variables keep their types; it never reads more words of a  *)
(* frame than lan9118_poll computes from the frame's status.                *)
THEOREM TypeCorrect == Spec => []TypeOK
<1>1. IInv => TypeOK
  BY DEF IInv
<1> QED
  BY IInvHolds, <1>1, PTL

(* After a soft reset the status and the data FIFO are in step whenever     *)
(* lan9118_poll looks for the next frame, with whatever lengths, failing    *)
(* allocations and arrivals.                                                *)
THEOREM StaysInStep == Spec => []FifosInStep
<1>1. IInv => FifosInStep
  <2> SUFFICES ASSUME IInv, reset = "done", pc = "idle" PROVE InStep
    BY DEF FifosInStep, InStep
  <2>1. StatusFollowsData /\ NextStart = rd
    BY DEF IInv, AfterReset, NextStart, InFrame
  <2> QED
    BY <2>1 DEF StatusFollowsData, InStep
<1> QED
  BY IInvHolds, <1>1, PTL

(* After a soft reset every frame that lan9118_poll gives to netif->input   *)
(* is a whole frame that arrived, in the order of arrival.                  *)
THEOREM DeliversWholeFrames == Spec => []FramesWhole
<1>1. IInv => FramesWhole
  BY DEF IInv, AfterReset, DeliveredWhole, DeliveredInOrder, FramesWhole
<1> QED
  BY IInvHolds, <1>1, PTL

-----------------------------------------------------------------------------
(* The sending side.  Induction and recursion over the natural numbers, in  *)
(* first-order form.                                                        *)

(* A set of natural numbers has a least element. *)
LEMMA LeastNat ==
  ASSUME NEW S \in SUBSET Nat, S # {}
  PROVE  \E x \in S : \A y \in S : x <= y
<1> DEFINE R == OpToRel(<, Nat)
<1>1. PICK x \in S : \A y \in S : ~(<<y, x>> \in R)
  <2> HIDE DEF R
  <2>1. IsWellFoundedOn(R, Nat)
    BY NatLessThanWellFounded DEF R
  <2> QED
    BY <2>1, WFMin
<1>2. \A y \in S : ~(y < x)
  BY <1>1 DEF OpToRel
<1> QED
  BY <1>2

(* A set of numbers with 0 that is closed under successor holds them all. *)
LEMMA NatSetInduction ==
  ASSUME NEW S \in SUBSET Nat, 0 \in S, \A n \in S : n + 1 \in S
  PROVE  S = Nat
<1> SUFFICES ASSUME S # Nat PROVE FALSE
  OBVIOUS
<1>1. PICK T \in SUBSET Nat : T = Nat \ S /\ T # {}
  OBVIOUS
<1>2. PICK x \in T : \A y \in T : x <= y
  BY <1>1, LeastNat
<1>3. x \in Nat /\ x # 0
  BY <1>1
<1>4. x - 1 \in Nat /\ ~(x <= x - 1)
  BY <1>3
<1>5. x - 1 \in S
  BY <1>1, <1>2, <1>4
<1>6. (x - 1) + 1 \in S
  BY <1>5
<1>7. (x - 1) + 1 = x
  BY <1>3
<1> QED
  BY <1>1, <1>6, <1>7

(* g begins with x0, and each value comes from the one before it by F. *)
Iterates(g, n, X, x0, F) ==
  /\ g \in [0..n -> X]
  /\ g[0] = x0
  /\ \A i \in 1..n : g[i] = F[i][g[i - 1]]

(* A function may be defined by recursion over an interval. *)
LEMMA RecursionExists ==
  ASSUME NEW X, NEW x0 \in X, NEW F \in [Nat -> [X -> X]], NEW n \in Nat
  PROVE  \E g : Iterates(g, n, X, x0, F)
<1> DEFINE P(m, g) == g[0] = x0 /\ \A i \in 1..m : g[i] = F[i][g[i - 1]]
           S == {m \in Nat : \E g \in [0..m -> X] : P(m, g)}
<1>1. 0 \in S
  <2>1. [i \in 0..0 |-> x0] \in [0..0 -> X] /\ P(0, [i \in 0..0 |-> x0])
    OBVIOUS
  <2> QED
    BY <2>1
<1>2. ASSUME NEW m \in S PROVE m + 1 \in S
  <2>1. PICK g \in [0..m -> X] : P(m, g)
    OBVIOUS
  <2>2. F[m + 1] \in [X -> X] /\ g[m] \in X
    OBVIOUS
  <2> DEFINE h == [i \in 0..(m + 1) |-> IF i = m + 1 THEN F[m + 1][g[m]] ELSE g[i]]
  <2>3. h \in [0..(m + 1) -> X]
    BY <2>2
  <2>4. P(m + 1, h)
    BY <2>1
  <2>5. \E f \in [0..(m + 1) -> X] : P(m + 1, f)
    <3> HIDE DEF P, h
    <3> QED
      BY <2>3, <2>4
  <2>6. m + 1 \in Nat
    OBVIOUS
  <2> HIDE DEF P
  <2> QED
    BY <2>5, <2>6
<1>3. S = Nat
  <2> HIDE DEF S
  <2>1. S \in SUBSET Nat
    BY DEF S
  <2> QED
    BY <1>1, <1>2, <2>1, NatSetInduction
<1> QED
  BY <1>3 DEF Iterates

-----------------------------------------------------------------------------
(* Chains of pbufs: the sums of their lengths. *)

(* The bytes of the first pbufs are summed one by one. *)
LEMMA BeforeIs ==
  ASSUME NEW c \in Seq(Nat)
  PROVE  /\ Tx!Before(c, 0) = 0
         /\ \A k \in 1..Len(c) : Tx!Before(c, k) = Tx!Before(c, k - 1) + c[k]
         /\ \A k \in 0..Len(c) : Tx!Before(c, k) \in Nat
<1> DEFINE F == [i \in Nat |-> [r \in Nat |-> IF i \in 1..Len(c) THEN r + c[i] ELSE r]]
           G(g) == g = [i \in 0..Len(c) |-> IF i = 0 THEN 0 ELSE g[i - 1] + c[i]]
           f == CHOOSE g : G(g)
<1>0. Len(c) \in Nat /\ \A i \in 1..Len(c) : c[i] \in Nat
  OBVIOUS
<1>1. F \in [Nat -> [Nat -> Nat]]
  BY <1>0
<1>2. PICK h \in [0..Len(c) -> Nat] : h[0] = 0 /\ \A i \in 1..Len(c) : h[i] = F[i][h[i - 1]]
  <2> HIDE DEF F
  <2>1. \E g : Iterates(g, Len(c), Nat, 0, F)
    BY <1>0, <1>1, RecursionExists
  <2> QED
    BY <2>1 DEF Iterates
<1>3. \A i \in 1..Len(c) : h[i] = h[i - 1] + c[i]
  <2> TAKE i \in 1..Len(c)
  <2>0. i - 1 \in 0..Len(c) /\ i \in Nat
    BY <1>0
  <2>1. h[i - 1] \in Nat /\ i \in Nat
    BY <2>0, Zenon
  <2>2. F[i][h[i - 1]] = h[i - 1] + c[i]
    BY <2>1
  <2> QED
    BY <2>2, <1>2
<1>4. G(h)
  <2>1. h = [i \in 0..Len(c) |-> h[i]]
    OBVIOUS
  <2>2. \A i \in 0..Len(c) : h[i] = IF i = 0 THEN 0 ELSE h[i - 1] + c[i]
    BY <1>0, <1>2, <1>3
  <2> QED
    BY <2>1, <2>2
<1>5. G(f)
  <2> HIDE DEF G
  <2> QED
    BY <1>4
<1>6. \A k : Tx!Before(c, k) = f[k]
  BY DEF Tx!Before
<1> HIDE DEF f
<1>7. f[0] = 0 /\ \A i \in 1..Len(c) : f[i] = f[i - 1] + c[i]
  <2>1. \A i \in 0..Len(c) : f[i] = IF i = 0 THEN 0 ELSE f[i - 1] + c[i]
    BY <1>5, Zenon
  <2>2. 0 \in 0..Len(c) /\ \A i \in 1..Len(c) : i \in 0..Len(c) /\ i # 0
    BY <1>0
  <2> QED
    BY <2>1, <2>2, Zenon
<1> DEFINE S == {i \in Nat : i <= Len(c) => f[i] \in Nat}
<1>8. S = Nat
  <2>1. 0 \in S
    BY <1>7
  <2>2. ASSUME NEW i \in S PROVE i + 1 \in S
    <3> SUFFICES ASSUME i + 1 <= Len(c) PROVE f[i + 1] \in Nat
      OBVIOUS
    <3>1. i + 1 \in 1..Len(c) /\ (i + 1) - 1 = i /\ f[i] \in Nat
      BY <1>0
    <3>2. c[i + 1] \in Nat /\ f[i + 1] = f[(i + 1) - 1] + c[i + 1]
      BY <1>0, <1>7, <3>1, Zenon
    <3>3. f[i + 1] = f[i] + c[i + 1]
      BY <3>1, <3>2
    <3> QED
      BY <3>1, <3>2, <3>3
  <2>3. S \in SUBSET Nat
    OBVIOUS
  <2> HIDE DEF S
  <2> QED
    BY <2>1, <2>2, <2>3, NatSetInduction
<1>9. \A k \in 0..Len(c) : f[k] \in Nat
  BY <1>0, <1>8
<1> QED
  BY <1>6, <1>7, <1>9, Zenon

(* Chains that begin alike have the same sums so far. *)
LEMMA BeforeAgree ==
  ASSUME NEW c \in Seq(Nat), NEW d \in Seq(Nat), NEW n \in Nat, n <= Len(c), n <= Len(d),
         \A i \in 1..n : c[i] = d[i]
  PROVE  \A k \in 0..n : Tx!Before(c, k) = Tx!Before(d, k)
<1> DEFINE S == {k \in Nat : k <= n => Tx!Before(c, k) = Tx!Before(d, k)}
<1>0. Len(c) \in Nat /\ Len(d) \in Nat
  OBVIOUS
<1>1. 0 \in S
  BY BeforeIs
<1>2. ASSUME NEW k \in S PROVE k + 1 \in S
  <2> SUFFICES ASSUME k + 1 <= n PROVE Tx!Before(c, k + 1) = Tx!Before(d, k + 1)
    OBVIOUS
  <2>1. k + 1 \in 1..Len(c) /\ k + 1 \in 1..Len(d) /\ (k + 1) - 1 = k /\ c[k + 1] = d[k + 1]
    BY <1>0
  <2>2. Tx!Before(c, k) = Tx!Before(d, k)
    OBVIOUS
  <2>3. Tx!Before(c, k + 1) = Tx!Before(c, k) + c[k + 1]
    BY <2>1, BeforeIs
  <2>4. Tx!Before(d, k + 1) = Tx!Before(d, k) + d[k + 1]
    BY <2>1, BeforeIs
  <2> QED
    BY <2>1, <2>2, <2>3, <2>4
<1>3. S = Nat
  <2>1. S \in SUBSET Nat
    OBVIOUS
  <2> HIDE DEF S
  <2> QED
    BY <1>1, <1>2, <2>1, NatSetInduction
<1> QED
  BY <1>3

(* The chain d is the chain c with a pbuf of h bytes in front. *)
Prefixed(h, c, d) ==
  Len(d) = Len(c) + 1 /\ d[1] = h /\ \A i \in 1..Len(c) : d[i + 1] = c[i]

(* A pbuf in front adds its length to every sum. *)
LEMMA BeforePrefixed ==
  ASSUME NEW h \in Nat, NEW c \in Seq(Nat), NEW d \in Seq(Nat), Prefixed(h, c, d)
  PROVE  Tx!Total(d) = h + Tx!Total(c)
<1> DEFINE S == {k \in Nat : k <= Len(c) => Tx!Before(d, k + 1) = h + Tx!Before(c, k)}
<1>0. Len(c) \in Nat /\ Len(d) = Len(c) + 1 /\ d[1] = h
  BY DEF Prefixed
<1>00. /\ \A k \in 1..Len(c) : Tx!Before(c, k) = Tx!Before(c, k - 1) + c[k]
       /\ \A k \in 0..Len(c) : Tx!Before(c, k) \in Nat
       /\ \A k \in 1..Len(d) : Tx!Before(d, k) = Tx!Before(d, k - 1) + d[k]
  BY BeforeIs
<1>1. 0 \in S
  <2>1. Tx!Before(c, 0) = 0 /\ Tx!Before(d, 0) = 0
    BY BeforeIs
  <2>2. 1 \in 1..Len(d) /\ 1 - 1 = 0
    BY <1>0
  <2>3. Tx!Before(d, 1) = Tx!Before(d, 0) + d[1]
    BY <2>2, BeforeIs
  <2> QED
    BY <1>0, <2>1, <2>3
<1>2. ASSUME NEW k \in S PROVE k + 1 \in S
  <2> SUFFICES ASSUME k + 1 <= Len(c)
               PROVE  Tx!Before(d, (k + 1) + 1) = h + Tx!Before(c, k + 1)
    OBVIOUS
  <2>1. /\ k + 1 \in 1..Len(c) /\ (k + 1) + 1 \in 1..Len(d) /\ (k + 1) - 1 = k
        /\ ((k + 1) + 1) - 1 = k + 1 /\ k \in 0..Len(c)
    BY <1>0
  <2>2. Tx!Before(d, k + 1) = h + Tx!Before(c, k)
    BY <2>1
  <2>3. Tx!Before(c, k + 1) = Tx!Before(c, k) + c[k + 1]
    BY <1>00, <2>1
  <2>4. Tx!Before(d, (k + 1) + 1) = Tx!Before(d, k + 1) + d[(k + 1) + 1]
    BY <1>00, <2>1
  <2>5. Tx!Before(c, k) \in Nat
    BY <1>00, <2>1
  <2>6. c[k + 1] \in Nat /\ d[(k + 1) + 1] = c[k + 1]
    BY <2>1, ElementOfSeq DEF Prefixed
  <2>7. PICK x \in Nat, y \in Nat : x = Tx!Before(c, k) /\ y = c[k + 1]
    BY <2>5, <2>6
  <2>8. Tx!Before(d, (k + 1) + 1) = (h + x) + y /\ Tx!Before(c, k + 1) = x + y
    BY <2>2, <2>3, <2>4, <2>6, <2>7
  <2>9. (h + x) + y = h + (x + y)
    BY <2>7
  <2> QED
    BY <2>8, <2>9, Zenon
<1>3. S = Nat
  <2>1. S \in SUBSET Nat
    OBVIOUS
  <2> HIDE DEF S
  <2> QED
    BY <1>1, <1>2, <2>1, NatSetInduction
<1>4. Tx!Before(d, Len(c) + 1) = h + Tx!Before(c, Len(c))
  <2>1. Len(c) \in S
    BY <1>0, <1>3, Zenon
  <2>2. Len(c) <= Len(c)
    BY <1>0
  <2> QED
    BY <2>1, <2>2, Zenon
<1> QED
  BY <1>0, <1>4, Zenon DEF Tx!Total

-----------------------------------------------------------------------------
(* The transmit FIFO. *)

(* A length rounded up to whole words. *)
Padded(n) == 4 * ((n + 3) \div 4)

(* It is that of the words that the chip takes. *)
LEMMA PaddedIs ==
  ASSUME NEW x \in Nat, x % 4 = 0, NEW y \in Nat
  PROVE  /\ Padded(y) \in Nat /\ y <= Padded(y)
         /\ (x + Padded(y)) \div 4 = (x + y + 3) \div 4
         /\ x + y \in Nat /\ (x + y + 3) \div 4 \in Nat
         /\ y % 4 = 0 => Padded(y) = y /\ (x + y) % 4 = 0
BY DEF Padded

(* The length of a frame fits into the command. *)
Fits(n) == n < 2048

(* Such a length is taken as it is. *)
LEMMA FitsIs ==
  ASSUME NEW c, Tx!Total(c) \in Nat, Fits(Tx!Total(c))
  PROVE  Tx!FrameLength(c) = Tx!Total(c)
BY DEF Fits, Tx!FrameLength

(* A pbuf is written in whole words, its own bytes first. *)
LEMMA PbufBytesIs ==
  ASSUME NEW a \in Nat, NEW len \in Nat
  PROVE  /\ Tx!PbufBytes(a, len) \in Seq(Nat)
         /\ Len(Tx!PbufBytes(a, len)) = Padded(len)
         /\ \A i \in 1..len : i <= Padded(len) /\ Tx!PbufBytes(a, len)[i] = a + i
<1>1. PICK m \in Nat : m = Padded(len) /\ m >= len
  BY DEF Padded
<1>2. Tx!PbufBytes(a, len) = [i \in 1..m |-> IF i <= len THEN a + i ELSE 0]
  BY <1>1 DEF Tx!PbufBytes, Padded
<1> QED
  BY <1>1, <1>2

(* What is written of a chain is written pbuf by pbuf. *)
LEMMA FifoIs ==
  ASSUME NEW c \in Seq(Nat)
  PROVE  \E f : /\ Tx!FifoBytes(c) = f[Len(c)]
                /\ f[0] = <<>>
                /\ \A k \in 0..Len(c) : f[k] \in Seq(Nat)
                /\ \A k \in 1..Len(c) : f[k] = f[k - 1] \o Tx!PbufBytes(Tx!Before(c, k - 1), c[k])
<1> DEFINE X == Seq(Nat)
           b(i) == Tx!PbufBytes(Tx!Before(c, i - 1), c[i])
           F == [i \in Nat |-> [r \in X |-> IF i \in 1..Len(c) THEN r \o b(i) ELSE r]]
           G(g) == g = [i \in 0..Len(c) |-> IF i = 0 THEN <<>> ELSE g[i - 1] \o b(i)]
           f == CHOOSE g : G(g)
<1>0. Len(c) \in Nat /\ <<>> \in X
  OBVIOUS
<1>1. \A i \in 1..Len(c) : b(i) \in X
  <2> TAKE i \in 1..Len(c)
  <2>1. i - 1 \in 0..Len(c)
    BY <1>0
  <2>3. c[i] \in Nat
    BY ElementOfSeq
  <2>2. Tx!Before(c, i - 1) \in Nat
    BY <2>1, BeforeIs
  <2> QED
    BY <2>2, <2>3, PbufBytesIs
<1> HIDE DEF b
<1>2. F \in [Nat -> [X -> X]]
  <2> SUFFICES ASSUME NEW i \in Nat, NEW r \in X PROVE (IF i \in 1..Len(c) THEN r \o b(i) ELSE r) \in X
    BY Zenon
  <2> QED
    BY <1>1
<1>3. PICK h \in [0..Len(c) -> X] : h[0] = <<>> /\ \A i \in 1..Len(c) : h[i] = F[i][h[i - 1]]
  <2> HIDE DEF F, X
  <2>1. \E g : Iterates(g, Len(c), X, <<>>, F)
    BY <1>0, <1>2, RecursionExists
  <2> QED
    BY <2>1 DEF Iterates
<1>4. \A i \in 1..Len(c) : h[i] = h[i - 1] \o b(i)
  <2> TAKE i \in 1..Len(c)
  <2>0. i - 1 \in 0..Len(c) /\ i \in Nat
    BY <1>0
  <2>1. h[i - 1] \in X /\ i \in Nat
    BY <2>0, Zenon
  <2> HIDE DEF X
  <2>2. F[i][h[i - 1]] = h[i - 1] \o b(i)
    BY <2>1
  <2> QED
    BY <2>2, <1>3
<1>5. G(h)
  <2>1. h = [i \in 0..Len(c) |-> h[i]]
    OBVIOUS
  <2> HIDE DEF X
  <2>2. ASSUME NEW i \in 0..Len(c) PROVE h[i] = IF i = 0 THEN <<>> ELSE h[i - 1] \o b(i)
    <3>1. i = 0 \/ i \in 1..Len(c)
      BY <1>0
    <3>2. i \in 1..Len(c) => i # 0
      OBVIOUS
    <3> QED
      BY <1>3, <1>4, <3>1, <3>2
  <2> QED
    BY <2>1, <2>2, Zenon
<1>6. G(f)
  <2> HIDE DEF G
  <2> QED
    BY <1>5
<1>7. Tx!FifoBytes(c) = f[Len(c)]
  BY DEF Tx!FifoBytes, b
<1> HIDE DEF f
<1>8. f[0] = <<>> /\ \A i \in 1..Len(c) : f[i] = f[i - 1] \o b(i)
  <2>1. \A i \in 0..Len(c) : f[i] = IF i = 0 THEN <<>> ELSE f[i - 1] \o b(i)
    BY <1>6, Zenon
  <2>2. 0 \in 0..Len(c) /\ \A i \in 1..Len(c) : i \in 0..Len(c) /\ i # 0
    BY <1>0
  <2> QED
    BY <2>1, <2>2, Zenon
<1> DEFINE S == {i \in Nat : i <= Len(c) => f[i] \in X}
<1>9. S = Nat
  <2>1. 0 \in S
    BY <1>0, <1>8, Zenon
  <2>2. ASSUME NEW i \in S PROVE i + 1 \in S
    <3> SUFFICES ASSUME i + 1 <= Len(c) PROVE f[i + 1] \in X
      OBVIOUS
    <3>1. i + 1 \in 1..Len(c) /\ (i + 1) - 1 = i /\ f[i] \in X
      BY <1>0
    <3>2. f[i + 1] = f[i] \o b(i + 1) /\ b(i + 1) \in X
      BY <1>1, <1>8, <3>1
    <3> QED
      BY <3>1, <3>2, ConcatProperties
  <2>3. S \in SUBSET Nat
    OBVIOUS
  <2> HIDE DEF S
  <2> QED
    BY <2>1, <2>2, <2>3, NatSetInduction
<1>10. \A k \in 0..Len(c) : f[k] \in X
  BY <1>0, <1>9
<1> QED
  BY <1>7, <1>8, <1>10, Zenon DEF b

(* Every pbuf of a chain but the last has whole words. *)
Aligned(c) == \A k \in 1..(Len(c) - 1) : c[k] % 4 = 0

(* When every pbuf but the last has whole words, the words written are     *)
(* those that the chip takes.                                              *)
LEMMA WholeWords ==
  ASSUME NEW c \in Seq(Nat), c # <<>>, Fits(Tx!Total(c)), Aligned(c)
  PROVE  Tx!Leftover(c) = 0
<1>0. PICK n \in Nat : n + 1 = Len(c)
  <2>1. Len(c) \in Nat /\ Len(c) # 0
    BY EmptySeq
  <2>2. Len(c) - 1 \in Nat /\ (Len(c) - 1) + 1 = Len(c)
    BY <2>1
  <2> QED
    BY <2>2, Zenon
<1>1. PICK f : /\ Tx!FifoBytes(c) = f[Len(c)]
               /\ f[0] = <<>>
               /\ \A k \in 0..Len(c) : f[k] \in Seq(Nat)
               /\ \A k \in 1..Len(c) : f[k] = f[k - 1] \o Tx!PbufBytes(Tx!Before(c, k - 1), c[k])
  BY FifoIs, Zenon
<1>2. ASSUME NEW k \in 0..n
      PROVE  /\ k + 1 \in 1..Len(c) /\ c[k + 1] \in Nat
             /\ Tx!Before(c, k) \in Nat
             /\ Tx!Before(c, k + 1) = Tx!Before(c, k) + c[k + 1]
             /\ Len(f[k + 1]) = Len(f[k]) + Padded(c[k + 1])
  <2>1. k + 1 \in 1..Len(c) /\ k \in 0..Len(c) /\ (k + 1) - 1 = k
    BY <1>0
  <2>2. c[k + 1] \in Nat
    BY <2>1, ElementOfSeq
  <2>3. Tx!Before(c, k) \in Nat /\ Tx!Before(c, k + 1) = Tx!Before(c, k) + c[k + 1]
    BY <2>1, BeforeIs
  <2>4. f[k + 1] = f[k] \o Tx!PbufBytes(Tx!Before(c, k), c[k + 1]) /\ f[k] \in Seq(Nat)
    BY <1>1, <2>1, Zenon
  <2>5. /\ Tx!PbufBytes(Tx!Before(c, k), c[k + 1]) \in Seq(Nat)
        /\ Len(Tx!PbufBytes(Tx!Before(c, k), c[k + 1])) = Padded(c[k + 1])
    BY <2>2, <2>3, PbufBytesIs, Zenon
  <2>6. Len(f[k + 1]) = Len(f[k]) + Padded(c[k + 1])
    <3>1. PICK g \in Seq(Nat), p \in Seq(Nat) : g = f[k] /\ p = Tx!PbufBytes(Tx!Before(c, k), c[k + 1])
      BY <2>4, <2>5, Zenon
    <3>2. Len(g \o p) = Len(g) + Len(p)
      BY ConcatProperties
    <3> QED
      BY <2>4, <2>5, <3>1, <3>2, Zenon
  <2> QED
    BY <2>1, <2>2, <2>3, <2>6
<1> DEFINE P(k) == Len(f[k]) = Tx!Before(c, k) /\ Tx!Before(c, k) % 4 = 0
           S == {k \in Nat : k <= n => P(k)}
<1>3. S = Nat
  <2>1. 0 \in S
    <3>1. Tx!Before(c, 0) = 0 /\ Len(f[0]) = 0
      BY <1>1, BeforeIs
    <3> QED
      BY <3>1
  <2>2. ASSUME NEW k \in S PROVE k + 1 \in S
    <3> SUFFICES ASSUME k + 1 <= n
                 PROVE  P(k + 1)
      OBVIOUS
    <3>1. k \in 0..n /\ k + 1 \in 1..(Len(c) - 1)
      BY <1>0
    <3>2. k <= n
      BY <3>1
    <3>20. Len(f[k]) = Tx!Before(c, k) /\ Tx!Before(c, k) % 4 = 0
      BY <3>2, Zenon
    <3>3. PICK x \in Nat, y \in Nat : x = Tx!Before(c, k) /\ y = c[k + 1] /\ x % 4 = 0 /\ y % 4 = 0
      <4>1. c[k + 1] % 4 = 0
        BY <3>1, Zenon DEF Aligned
      <4> QED
        BY <1>2, <3>1, <3>20, <4>1, Zenon
    <3>4. Padded(y) = y /\ (x + y) % 4 = 0
      BY <3>3, PaddedIs, Zenon
    <3>5. Tx!Before(c, k + 1) = x + y /\ Len(f[k + 1]) = x + Padded(y)
      BY <1>2, <3>1, <3>20, <3>3, Zenon
    <3> QED
      BY <3>4, <3>5, Zenon
  <2>3. S \in SUBSET Nat
    OBVIOUS
  <2> HIDE DEF S
  <2> QED
    BY <2>1, <2>2, <2>3, NatSetInduction, Zenon
<1>4. n \in 0..n /\ n \in S
  BY <1>3
<1>40. Len(f[n]) = Tx!Before(c, n) /\ Tx!Before(c, n) % 4 = 0
  BY <1>4
<1>5. PICK x \in Nat, y \in Nat : x = Tx!Before(c, n) /\ y = c[n + 1] /\ x % 4 = 0
  BY Zenon, <1>2, <1>4, <1>40
<1>6. Tx!Total(c) = x + y /\ Len(Tx!FifoBytes(c)) = x + Padded(y)
  BY <1>0, <1>1, <1>2, <1>4, <1>40, <1>5, Zenon DEF Tx!Total
<1>7. (x + Padded(y)) \div 4 = (x + y + 3) \div 4
  BY <1>5, PaddedIs, Zenon
<1>8. Tx!FrameLength(c) = x + y
  <2>1. Tx!Total(c) \in Nat
    BY <1>5, <1>6, PaddedIs, Zenon
  <2> QED
    BY <1>6, <2>1, FitsIs, Zenon
<1>9. PICK m : m = (x + y + 3) \div 4 /\ m \in Nat
  BY <1>5, PaddedIs, Zenon
<1>10. Tx!Leftover(c) = m - m
  BY <1>6, <1>7, <1>8, <1>9, Zenon DEF Tx!Leftover
<1> QED
  BY <1>9, <1>10

(* A frame in one pbuf passes the FIFO unchanged. *)
LEMMA LoneAsIs ==
  ASSUME NEW len \in Nat, Fits(len)
  PROVE  Tx!AsIs(<<len>>) /\ Tx!Total(<<len>>) = len
<1> DEFINE c == <<len>>
           b == Tx!PbufBytes(0, len)
<1>0. c \in Seq(Nat) /\ Len(c) = 1 /\ c[1] = len /\ 1 - 1 = 0 /\ 1 \in 1..1
  OBVIOUS
<1>6. len \in Nat /\ 0 \in Nat
  OBVIOUS
<1> HIDE DEF c
<1>1. Tx!Total(c) = len /\ Tx!Before(c, 0) = 0
  <2>1. Tx!Before(c, 0) = 0 /\ Tx!Before(c, 1) = Tx!Before(c, 1 - 1) + c[1]
    BY <1>0, BeforeIs, Zenon
  <2> QED
    BY <1>0, <2>1 DEF Tx!Total
<1>2. Tx!FifoBytes(c) = b
  <2>1. PICK f : /\ Tx!FifoBytes(c) = f[Len(c)] /\ f[0] = <<>>
                 /\ \A k \in 1..Len(c) : f[k] = f[k - 1] \o Tx!PbufBytes(Tx!Before(c, k - 1), c[k])
    BY <1>0, FifoIs, Zenon
  <2>2. f[1] = <<>> \o b
    BY <1>0, <1>1, <2>1, Zenon
  <2>3. b \in Seq(Nat)
    BY <1>6, PbufBytesIs, Zenon
  <2> HIDE DEF b
  <2> QED
    BY <1>0, <2>1, <2>2, <2>3, ConcatEmptySeq
<1>3. /\ b \in Seq(Nat) /\ Len(b) = Padded(len)
      /\ \A i \in 1..len : i <= Len(b) /\ b[i] = 0 + i
  BY <1>6, PbufBytesIs, Zenon
<1>4. SubSeq(b, 1, len) = [i \in 1..len |-> i]
  <2> HIDE DEF b
  <2>1. SubSeq(b, 1, len) = [i \in 1..len |-> b[i]]
    BY <1>3
  <2> QED
    BY <1>3, <2>1
<1>5. Tx!FrameLength(c) = len
  BY <1>1, FitsIs
<1> HIDE DEF b
<1> QED
  BY <1>1, <1>2, <1>4, <1>5 DEF Tx!AsIs, Tx!FrameOut, c

-----------------------------------------------------------------------------
(* Fragments. *)

Mirror3 == Nat \X Nat \X (Nat \ {0})

(* What is assumed of the constants. *)
LEMMA TransmitConstants ==
  /\ Tx!IP_HLEN \in Nat /\ Tx!nfb \in Nat /\ Tx!nfb > 0 /\ Mtu \in Nat
  /\ Mtu - Tx!IP_HLEN = 8 * Tx!nfb
  /\ Tx!SIZEOF_ETH_HDR + Tx!IP_HLEN \in Nat \ {0}
  /\ \A n \in Nat : n <= 8 * Tx!nfb => Fits((Tx!SIZEOF_ETH_HDR + Tx!IP_HLEN) + n)
  /\ \A d \in Datagrams : d \in Seq(Nat) /\ d # <<>> /\ d[1] \in Nat /\ Tx!IP_HLEN <= d[1]
  /\ \A n \in Frames : n \in Nat \ {0} /\ Fits(n)
  /\ MaxFrames \in Nat
<1>1. /\ Mtu \in Nat /\ Tx!nfb > 0 /\ (Mtu - 20) % 8 = 0
      /\ 14 + Mtu < 2048 /\ Frames \subseteq 1..2047 /\ MaxFrames \in Nat
      /\ \A d \in Datagrams : d \in Seq(Nat \ {0}) /\ d # <<>> /\ d[1] >= 20
  BY TxAssumption DEF Tx!TransmitAssumption, Tx!IP_HLEN, Tx!SIZEOF_ETH_HDR
<1>2. Tx!nfb = (Mtu - 20) \div 8 /\ Tx!IP_HLEN = 20 /\ Tx!SIZEOF_ETH_HDR + Tx!IP_HLEN = 34
  BY DEF Tx!nfb, Tx!IP_HLEN, Tx!SIZEOF_ETH_HDR
<1>3. Tx!nfb \in Nat /\ Mtu - 20 = 8 * Tx!nfb
  BY <1>1, <1>2
<1>4. \A n \in Nat : n <= 8 * Tx!nfb => Fits(34 + n)
  BY <1>1, <1>3 DEF Fits
<1>5. ASSUME NEW d \in Datagrams PROVE d \in Seq(Nat) /\ d # <<>> /\ d[1] \in Nat /\ 20 <= d[1]
  <2>1. d \in Seq(Nat \ {0}) /\ d # <<>> /\ d[1] >= 20
    BY <1>1
  <2>2. 1 \in 1..Len(d)
    BY <2>1, EmptySeq
  <2>3. d[1] \in Nat
    BY <2>1, <2>2, ElementOfSeq
  <2>4. d \in Seq(Nat)
    BY <2>1, SeqMonotonic
  <2> QED
    BY <2>1, <2>3, <2>4
<1>6. \A n \in Frames : n \in Nat \ {0} /\ Fits(n)
  BY <1>1 DEF Fits
<1> QED
  BY <1>1, <1>2, <1>3, <1>4, <1>5, <1>6

(* A fragment takes what is left, or as much as the MTU allows. *)
LEMMA FragSizeIs ==
  ASSUME NEW n \in Nat
  PROVE  Tx!FragSize(n) = IF n <= 8 * Tx!nfb THEN n ELSE 8 * Tx!nfb
<1>1. PICK m \in Nat : m = Tx!nfb * 8 /\ m = 8 * Tx!nfb
  BY TransmitConstants
<1>2. Tx!Min({n, m}) = IF n <= m THEN n ELSE m
  BY DEF Tx!Min
<1> QED
  BY <1>1, <1>2 DEF Tx!FragSize

(* The lengths of mirrors make a chain. *)
LEMMA LengthsIs ==
  ASSUME NEW rs \in Seq(Mirror3)
  PROVE  /\ Tx!Lengths(rs) \in Seq(Nat) /\ Tx!Lengths(rs) \in Seq(Nat \ {0})
         /\ Len(Tx!Lengths(rs)) = Len(rs)
         /\ \A i \in 1..Len(rs) : Tx!Lengths(rs)[i] = rs[i][3]
<1>1. PICK n \in Nat : n = Len(rs)
  BY LenProperties
<1>2. \A i \in 1..n : rs[i] \in Mirror3
  BY <1>1, ElementOfSeq
<1>3. \A i \in 1..n : rs[i][3] \in Nat \ {0}
  BY <1>2 DEF Mirror3
<1>4. Tx!Lengths(rs) = [i \in 1..n |-> rs[i][3]]
  BY <1>1 DEF Tx!Lengths
<1>5. Tx!Lengths(rs) \in Seq(Nat \ {0}) /\ Len(Tx!Lengths(rs)) = n
  BY <1>3, <1>4
<1>6. Tx!Lengths(rs) \in Seq(Nat)
  BY <1>5, SeqMonotonic
<1> QED
  BY <1>1, <1>4, <1>5, <1>6

(* The sums of mirrors' lengths are numbers. *)
LEMMA TotalOfMirrors ==
  ASSUME NEW rs \in Seq(Mirror3)
  PROVE  Tx!Total(Tx!Lengths(rs)) \in Nat
<1>1. PICK c \in Seq(Nat) : c = Tx!Lengths(rs)
  BY LengthsIs
<1>2. Len(c) \in 0..Len(c)
  OBVIOUS
<1> QED
  BY <1>1, <1>2, BeforeIs, Zenon DEF Tx!Total

(* One more mirror that begins where the others end. *)
LEMMA ShowsMore ==
  ASSUME NEW d, NEW a, NEW rs \in Seq(Mirror3), Tx!Shows(d, a, rs), NEW r \in Mirror3,
         r[1] \in 1..Len(d), r[2] + r[3] <= d[r[1]],
         Tx!Before(d, r[1] - 1) + r[2] = a + Tx!Total(Tx!Lengths(rs))
  PROVE  /\ Append(rs, r) \in Seq(Mirror3)
         /\ Tx!Shows(d, a, Append(rs, r))
         /\ Tx!Total(Tx!Lengths(Append(rs, r))) = Tx!Total(Tx!Lengths(rs)) + r[3]
<1>1. PICK n \in Nat : n = Len(rs)
  BY LenProperties
<1>2. PICK t \in Seq(Mirror3) : t = Append(rs, r)
  BY AppendProperties
<1>3. Len(t) = n + 1 /\ t[n + 1] = r /\ \A i \in 1..n : t[i] = rs[i]
  BY <1>1, <1>2, AppendProperties
<1>4. PICK c \in Seq(Nat), e \in Seq(Nat) : c = Tx!Lengths(rs) /\ e = Tx!Lengths(t)
  BY LengthsIs
<1>5. /\ Len(c) = n /\ Len(e) = n + 1 /\ e[n + 1] = r[3]
      /\ \A i \in 1..n : e[i] = c[i]
  <2>1. \A i \in 1..n : i \in 1..(n + 1)
    OBVIOUS
  <2>2. n + 1 \in 1..(n + 1)
    OBVIOUS
  <2>3. Len(c) = n /\ \A i \in 1..n : c[i] = rs[i][3]
    BY <1>1, <1>4, LengthsIs, Zenon
  <2>4. Len(e) = Len(t) /\ \A i \in 1..Len(t) : e[i] = t[i][3]
    BY <1>4, LengthsIs, Zenon
  <2>5. Len(e) = n + 1 /\ \A i \in 1..(n + 1) : e[i] = t[i][3]
    BY <1>3, <2>4, Zenon
  <2>6. e[n + 1] = r[3]
    BY <1>3, <2>2, <2>5, Zenon
  <2>7. ASSUME NEW i \in 1..n PROVE e[i] = c[i]
    <3>1. e[i] = t[i][3] /\ t[i] = rs[i] /\ c[i] = rs[i][3]
      BY <1>3, <2>1, <2>3, <2>5, Zenon
    <3> QED
      BY <3>1, Zenon
  <2> QED
    BY <2>3, <2>5, <2>6, <2>7, Zenon
<1>6. \A k \in 0..n : Tx!Before(e, k) = Tx!Before(c, k)
  <2>1. n <= Len(e) /\ n <= Len(c)
    BY <1>5
  <2> QED
    BY <1>5, <2>1, BeforeAgree
<1>7. n \in 0..n /\ n + 1 \in 1..(n + 1) /\ (n + 1) - 1 = n
  OBVIOUS
<1>8. Tx!Total(c) = Tx!Before(e, n)
  BY <1>5, <1>6, <1>7, Zenon DEF Tx!Total
<1>9. Tx!Total(e) = Tx!Total(c) + r[3]
  <2>1. Tx!Before(e, n + 1) = Tx!Before(e, (n + 1) - 1) + e[n + 1]
    BY <1>5, <1>7, BeforeIs, Zenon
  <2> QED
    BY <1>5, <1>7, <1>8, <2>1, Zenon DEF Tx!Total
<1>10. ASSUME NEW i \in 1..(n + 1)
       PROVE  /\ t[i][1] \in 1..Len(d)
              /\ t[i][2] + t[i][3] <= d[t[i][1]]
              /\ Tx!Before(d, t[i][1] - 1) + t[i][2] = a + Tx!Before(e, i - 1)
  <2>1. CASE i = n + 1
    BY <1>3, <1>4, <1>7, <1>8, <2>1, Zenon
  <2>2. CASE i \in 1..n
    <3>1. i - 1 \in 0..n
      BY <2>2
    <3>2. /\ rs[i][1] \in 1..Len(d)
          /\ rs[i][2] + rs[i][3] <= d[rs[i][1]]
          /\ Tx!Before(d, rs[i][1] - 1) + rs[i][2] = a + Tx!Before(c, i - 1)
      BY <1>1, <1>4, <2>2, Zenon DEF Tx!Shows
    <3> QED
      BY <1>3, <1>6, <2>2, <3>1, <3>2, Zenon
  <2>3. i = n + 1 \/ i \in 1..n
    OBVIOUS
  <2> QED
    BY <2>1, <2>2, <2>3, Zenon
<1>11. Tx!Shows(d, a, t)
  BY <1>3, <1>4, <1>10, Zenon DEF Tx!Shows
<1> QED
  BY <1>2, <1>4, <1>9, <1>11, Zenon

(* No mirrors show nothing. *)
LEMMA ShowsNone ==
  ASSUME NEW d, NEW a
  PROVE  <<>> \in Seq(Mirror3) /\ Tx!Shows(d, a, <<>>) /\ Tx!Total(Tx!Lengths(<<>>)) = 0
<1>1. <<>> \in Seq(Mirror3) /\ Len(<<>>) = 0 /\ ~(\E i \in 1..0 : TRUE)
  OBVIOUS
<1>2. Tx!Shows(d, a, <<>>)
  BY <1>1, Zenon DEF Tx!Shows
<1>3. PICK c \in Seq(Nat) : c = Tx!Lengths(<<>>) /\ Len(c) = 0
  BY <1>1, LengthsIs, Zenon
<1>4. Tx!Total(c) = 0
  BY <1>3, BeforeIs, Zenon DEF Tx!Total
<1> QED
  BY <1>1, <1>2, <1>3, <1>4, Zenon

(* Where ip4_frag is: in pbuf c at offset p, with l bytes left from offset  *)
(* o on, k of them still to be mirrored in this fragment.                   *)
Walking(d, c, p, l, o, k, rs) ==
  /\ c \in 1..Len(d) /\ l > 0 /\ p <= d[c] /\ k <= Tx!FragSize(l)
  /\ (Tx!IP_HLEN + 8 * o) + l = Tx!Total(d)
  /\ Tx!Before(d, c - 1) + p = (Tx!IP_HLEN + 8 * o) + (Tx!FragSize(l) - k)
  /\ Tx!Shows(d, Tx!IP_HLEN + 8 * o, rs)
  /\ Tx!Total(Tx!Lengths(rs)) = Tx!FragSize(l) - k

(* The sums along a datagram. *)
LEMMA DatagramSums ==
  ASSUME NEW d \in Datagrams
  PROVE  /\ d \in Seq(Nat) /\ Len(d) \in Nat /\ Len(d) > 0 /\ Tx!Total(d) \in Nat
         /\ Tx!Before(d, 0) = 0 /\ Tx!Total(d) = Tx!Before(d, Len(d))
         /\ \A c \in 1..Len(d) : /\ c - 1 \in 0..Len(d) /\ d[c] \in Nat /\ Tx!Before(d, c - 1) \in Nat
                                 /\ Tx!Before(d, c) = Tx!Before(d, c - 1) + d[c]
<1>1. d \in Seq(Nat) /\ d # <<>>
  BY TransmitConstants, Zenon
<1>2. Len(d) \in Nat /\ Len(d) > 0
  BY <1>1, EmptySeq
<1>3. Len(d) \in 0..Len(d) /\ \A c \in 1..Len(d) : c - 1 \in 0..Len(d)
  BY <1>2
<1>4. \A c \in 1..Len(d) : d[c] \in Nat
  BY <1>1, ElementOfSeq
<1>5. /\ Tx!Before(d, 0) = 0
      /\ \A k \in 1..Len(d) : Tx!Before(d, k) = Tx!Before(d, k - 1) + d[k]
      /\ \A k \in 0..Len(d) : Tx!Before(d, k) \in Nat
  BY <1>1, BeforeIs, Zenon
<1> QED
  BY <1>1, <1>2, <1>3, <1>4, <1>5, Zenon DEF Tx!Total

(* ip4_frag begins behind the IP header. *)
LEMMA WalkBegins ==
  ASSUME NEW d \in Datagrams, Tx!Total(d) > Mtu, NEW l, l = Tx!Total(d) - Tx!IP_HLEN
  PROVE  /\ l \in Nat /\ Tx!FragSize(l) \in Nat /\ Tx!FragSize(l) <= 8 * Tx!nfb
         /\ Walking(d, 1, Tx!IP_HLEN, l, 0, Tx!FragSize(l), <<>>)
<1>1. PICK t \in Nat, h \in Nat, n \in Nat : t = Tx!Total(d) /\ h = Tx!IP_HLEN /\ n = 8 * Tx!nfb
  <2>1. 8 * Tx!nfb \in Nat
    BY TransmitConstants
  <2> QED
    BY <2>1, TransmitConstants, DatagramSums, Zenon
<1>2. t > h + n /\ n > 0
  BY <1>1, TransmitConstants
<1>3. l \in Nat /\ l > 0 /\ l = t - h
  BY <1>1, <1>2
<1>4. PICK z \in Nat : z = Tx!FragSize(l) /\ z <= n
  <2>1. Tx!FragSize(l) = IF l <= n THEN l ELSE n
    BY <1>1, <1>3, FragSizeIs, Zenon
  <2> QED
    BY <1>3, <2>1
<1>5. 1 \in 1..Len(d) /\ h <= d[1] /\ Tx!Before(d, 1 - 1) = 0
  <2>1. 1 - 1 = 0 /\ 1 \in 1..Len(d)
    BY DatagramSums
  <2> QED
    BY <1>1, <2>1, TransmitConstants, DatagramSums, Zenon
<1>6. h + 8 * 0 = h /\ h + l = t /\ 0 + h = h + (z - z) /\ z - z = 0
  BY <1>3, <1>4
<1>7. z <= z
  BY <1>4
<1> QED
  BY <1>1, <1>3, <1>4, <1>5, <1>6, <1>7, ShowsNone, Zenon DEF Walking

(* ip4_frag mirrors m bytes of the pbuf it is in, or skips it. *)
MirrorStep(d, c, p, l, o, k, rs, m, ts) ==
  /\ Walking(d, c, p, l, o, k, rs)
  /\ m <= k /\ m <= d[c] - p /\ (m = k \/ m = d[c] - p)
  /\ m = 0 => ts = rs
  /\ m # 0 => ts = Append(rs, <<c, p, m>>)

(* Another pbuf is mirrored: the end of this pbuf or of the fragment is      *)
(* reached, and there is a next pbuf when the fragment needs it.             *)
LEMMA WalkMirrors ==
  ASSUME NEW d \in Datagrams, NEW c, NEW p \in Nat, NEW l \in Nat, NEW o \in Nat, NEW k \in Nat,
         NEW rs \in Seq(Mirror3), NEW m \in Nat, NEW ts, MirrorStep(d, c, p, l, o, k, rs, m, ts)
  PROVE  /\ k - m \in Nat /\ k - m <= k
         /\ k - m > 0 => Walking(d, c + 1, 0, l, o, k - m, ts)
         /\ ~(k - m > 0) => Walking(d, c, p + m, l, o, k - m, ts)
         /\ ts \in Seq(Mirror3)
<1>0. /\ c \in 1..Len(d) /\ l > 0 /\ p <= d[c] /\ k <= Tx!FragSize(l)
      /\ (Tx!IP_HLEN + 8 * o) + l = Tx!Total(d)
      /\ Tx!Before(d, c - 1) + p = (Tx!IP_HLEN + 8 * o) + (Tx!FragSize(l) - k)
      /\ Tx!Shows(d, Tx!IP_HLEN + 8 * o, rs)
      /\ Tx!Total(Tx!Lengths(rs)) = Tx!FragSize(l) - k
  BY Zenon DEF MirrorStep, Walking
<1>1. /\ d[c] \in Nat /\ Tx!Before(d, c - 1) \in Nat /\ Tx!Total(d) \in Nat
      /\ Tx!Before(d, c) = Tx!Before(d, c - 1) + d[c]
  BY <1>0, DatagramSums, Zenon
<1>2. PICK x \in Nat, b \in Nat, t \in Nat : x = d[c] /\ b = Tx!Before(d, c - 1) /\ t = Tx!Total(d)
  BY <1>1, Zenon
<1>3. PICK a \in Nat, z \in Nat : a = Tx!IP_HLEN + 8 * o /\ z = Tx!FragSize(l) /\ z <= l
  <2>1. Tx!IP_HLEN + 8 * o \in Nat /\ 8 * Tx!nfb \in Nat
    BY TransmitConstants
  <2>2. Tx!FragSize(l) = IF l <= 8 * Tx!nfb THEN l ELSE 8 * Tx!nfb
    BY FragSizeIs
  <2>3. Tx!FragSize(l) \in Nat /\ Tx!FragSize(l) <= l
    BY <2>1, <2>2
  <2> QED
    BY <2>1, <2>3, Zenon
<1>4. p <= x /\ k <= z /\ a + l = t /\ b + p = a + (z - k) /\ Tx!Total(Tx!Lengths(rs)) = z - k
  BY <1>0, <1>2, <1>3, Zenon
<1>5. m <= k /\ m <= x - p /\ (m = k \/ m = x - p)
  BY <1>2, Zenon DEF MirrorStep
<1>50. (m = 0 => ts = rs) /\ (m # 0 => ts = Append(rs, <<c, p, m>>))
  BY Zenon DEF MirrorStep
<1>6. k - m \in Nat /\ k - m <= k /\ k - m <= z
  BY <1>4, <1>5
<1>7. /\ ts \in Seq(Mirror3) /\ Tx!Shows(d, a, ts)
      /\ Tx!Total(Tx!Lengths(ts)) = z - (k - m)
  <2>1. CASE m = 0
    <3>1. z - k = z - (k - m)
      BY <2>1
    <3> QED
      BY <1>0, <1>3, <1>4, <1>50, <2>1, <3>1, Zenon
  <2>2. CASE m # 0
    <3>1. PICK r \in Mirror3 : r = <<c, p, m>> /\ r[1] = c /\ r[2] = p /\ r[3] = m
      <4>1. c \in Nat /\ m \in Nat \ {0}
        BY <1>0, <1>6, <2>2, DatagramSums
      <4>2. <<c, p, m>> \in Mirror3
        BY <4>1 DEF Mirror3
      <4> QED
        BY <4>2
    <3>2. p + m <= x /\ b + p = a + (z - k) /\ (z - k) + m = z - (k - m)
      BY <1>4, <1>5, <1>6
    <3>3. /\ r[1] \in 1..Len(d) /\ r[2] + r[3] <= d[r[1]]
          /\ Tx!Before(d, r[1] - 1) + r[2] = a + Tx!Total(Tx!Lengths(rs))
      BY <1>0, <1>2, <1>4, <3>1, <3>2, Zenon
    <3>4. /\ Append(rs, r) \in Seq(Mirror3) /\ Tx!Shows(d, a, Append(rs, r))
          /\ Tx!Total(Tx!Lengths(Append(rs, r))) = Tx!Total(Tx!Lengths(rs)) + r[3]
      BY <1>0, <1>3, <3>3, ShowsMore, Zenon
    <3> QED
      BY <1>4, <1>50, <2>2, <3>1, <3>2, <3>4, Zenon
  <2> QED
    BY <2>1, <2>2
<1>8. ASSUME k - m > 0 PROVE Walking(d, c + 1, 0, l, o, k - m, ts)
  <2>1. m = x - p /\ b + x = a + (z - (k - m)) /\ b + x < t
    <3>1. m = x - p
      BY <1>5, <1>8
    <3>2. b + x = a + (z - (k - m))
      BY <1>4, <3>1
    <3>3. z - (k - m) < l
      <4>1. z <= l
        BY <1>3
      <4> QED
        BY <4>1, <1>6, <1>8
    <3> QED
      BY <1>4, <1>6, <3>1, <3>2, <3>3
  <2>2. c # Len(d)
    <3>1. Tx!Before(d, c) = b + x /\ Tx!Before(d, Len(d)) = t /\ b + x # t
      <4>1. b + x # t
        BY <2>1
      <4> QED
        BY <1>1, <1>2, <4>1, DatagramSums, Zenon
    <3> QED
      BY <3>1, Zenon
  <2>3. c + 1 \in 1..Len(d) /\ (c + 1) - 1 = c
    BY <1>0, <2>2, DatagramSums
  <2>4. d[c + 1] \in Nat
    BY <2>3, DatagramSums, Zenon
  <2>5. 0 <= d[c + 1]
    BY <2>4
  <2>6. Tx!Before(d, (c + 1) - 1) + 0 = a + (z - (k - m))
    <3>1. (b + x) + 0 = b + x
      OBVIOUS
    <3> QED
      BY <1>1, <1>2, <2>1, <2>3, <3>1, Zenon
  <2> QED
    BY <1>0, <1>3, <1>6, <1>7, <2>3, <2>5, <2>6, Zenon DEF Walking
<1>9. ASSUME ~(k - m > 0) PROVE Walking(d, c, p + m, l, o, k - m, ts)
  <2>1. p + m <= x /\ b + (p + m) = a + (z - (k - m))
    BY <1>4, <1>5, <1>6, <1>9
  <2> QED
    BY <1>0, <1>2, <1>3, <1>6, <1>7, <2>1, Zenon DEF Walking
<1> QED
  BY <1>6, <1>7, <1>8, <1>9, Zenon

(* A fragment is sent, and the next begins where it ends. *)
LEMMA WalkGoesOn ==
  ASSUME NEW d \in Datagrams, NEW c, NEW p \in Nat, NEW l \in Nat, NEW o \in Nat,
         NEW rs \in Seq(Mirror3), Walking(d, c, p, l, o, 0, rs), NEW m, m = l - Tx!FragSize(l)
  PROVE  /\ m \in Nat /\ Tx!FragSize(m) \in Nat /\ Tx!FragSize(m) <= 8 * Tx!nfb
         /\ m > 0 <=> l > 8 * Tx!nfb
         /\ m = 0 => Tx!FragSize(m) = 0
         /\ Tx!Total(Tx!Lengths(rs)) \in Nat /\ Tx!Total(Tx!Lengths(rs)) <= 8 * Tx!nfb
         /\ m # 0 => /\ Walking(d, c, p, m, o + Tx!nfb, Tx!FragSize(m), <<>>)
                     /\ 8 * (o + Tx!nfb) = 8 * o + Tx!Total(Tx!Lengths(rs))
<1>0. /\ c \in 1..Len(d) /\ l > 0 /\ p <= d[c]
      /\ (Tx!IP_HLEN + 8 * o) + l = Tx!Total(d)
      /\ Tx!Before(d, c - 1) + p = (Tx!IP_HLEN + 8 * o) + (Tx!FragSize(l) - 0)
      /\ Tx!Total(Tx!Lengths(rs)) = Tx!FragSize(l) - 0
  BY Zenon DEF Walking
<1>1. PICK h \in Nat, n \in Nat : h = Tx!IP_HLEN /\ n = Tx!nfb /\ n > 0
  BY TransmitConstants, Zenon
<1>2. PICK q \in Nat : q = 8 * Tx!nfb /\ q = 8 * n /\ q > 0
  BY <1>1
<1>3. Tx!FragSize(l) = IF l <= q THEN l ELSE q
  BY <1>2, FragSizeIs, Zenon
<1>4. PICK z \in Nat : z = Tx!FragSize(l) /\ z = IF l <= q THEN l ELSE q
  BY <1>3
<1>5. m \in Nat /\ m = l - z /\ (m > 0 <=> l > q) /\ (m = 0 \/ z = q)
  BY <1>4
<1>6. PICK y \in Nat : y = Tx!FragSize(m) /\ y <= q /\ (m = 0 => y = 0)
  <2>1. Tx!FragSize(m) = IF m <= q THEN m ELSE q
    BY <1>2, <1>5, FragSizeIs, Zenon
  <2> QED
    BY <1>5, <2>1
<1>7. z - 0 = z /\ z <= q
  BY <1>4
<1>8. ASSUME m # 0
      PROVE  /\ Walking(d, c, p, m, o + Tx!nfb, Tx!FragSize(m), <<>>)
             /\ 8 * (o + Tx!nfb) = 8 * o + Tx!Total(Tx!Lengths(rs))
  <2>1. z = q /\ m > 0
    BY <1>5, <1>8
  <2>2. 8 * (o + n) = 8 * o + q
    BY <1>2
  <2>3. PICK a \in Nat : a = 8 * o
    OBVIOUS
  <2>30. PICK b, t : b = Tx!Before(d, c - 1) /\ t = Tx!Total(d)
    OBVIOUS
  <2>4. (h + a) + l = t /\ b + p = (h + a) + z
    BY <1>0, <1>1, <1>4, <1>7, <2>3, <2>30, Zenon
  <2>5. (h + (a + q)) + m = t
    BY <1>5, <2>1, <2>4
  <2>6. (h + a) + z = (h + (a + q)) + (y - y) /\ y - y = 0 /\ y <= y
    BY <2>1
  <2>7. Walking(d, c, p, m, o + Tx!nfb, Tx!FragSize(m), <<>>)
    BY <1>0, <1>1, <1>6, <2>1, <2>2, <2>3, <2>30, <2>4, <2>5, <2>6, ShowsNone, Zenon DEF Walking
  <2> QED
    BY <1>0, <1>1, <1>4, <1>7, <2>1, <2>2, <2>7, Zenon
<1> QED
  BY <1>0, <1>2, <1>4, <1>5, <1>6, <1>7, <1>8, Zenon

Frag == [ofo : Nat, mf : BOOLEAN, refs : Seq(Mirror3)]

(* The fragments sent show the datagram up to offset o. *)
FragsTrue(d, fs, o) ==
  /\ fs = <<>> => o = 0
  /\ fs # <<>> => fs[1].ofo = 0
  /\ \A i \in 1..Len(fs) :
       /\ Tx!Shows(d, Tx!IP_HLEN + 8 * fs[i].ofo, fs[i].refs)
       /\ i < Len(fs) => 8 * fs[i + 1].ofo = 8 * fs[i].ofo + Tx!Total(Tx!Lengths(fs[i].refs))
       /\ i = Len(fs) => 8 * o = 8 * fs[i].ofo + Tx!Total(Tx!Lengths(fs[i].refs))

(* All fragments but the last of the datagram have the flag. *)
MoreTrue(fs, l) == \A i \in 1..Len(fs) : fs[i].mf <=> (i < Len(fs) \/ l > 0)

(* gs is the list fs of n fragments with f behind them. *)
Extended(fs, f, gs, n) ==
  /\ n = Len(fs) /\ gs \in Seq(Frag) /\ Len(gs) = n + 1 /\ gs[n + 1] = f
  /\ \A i \in 1..n : gs[i] = fs[i] /\ i \in 1..(n + 1) /\ i < n + 1
  /\ \A i \in 1..(n + 1) : i \in 1..n \/ i = n + 1
  /\ \A i \in 1..n : i < n \/ i = n
  /\ \A i \in 1..n : i < n => i + 1 \in 1..n
  /\ n = 0 => fs = <<>>
  /\ n # 0 => 1 \in 1..n /\ fs # <<>>
  /\ gs # <<>> /\ ~(n + 1 < n + 1) /\ n + 1 \in 1..(n + 1)

(* A fragment is added to the list. *)
LEMMA FragAppended ==
  ASSUME NEW fs \in Seq(Frag), NEW f \in Frag, NEW gs, gs = Append(fs, f)
  PROVE  \E n \in Nat : Extended(fs, f, gs, n)
<1>1. PICK n \in Nat : n = Len(fs)
  BY LenProperties
<1>2. gs \in Seq(Frag) /\ Len(gs) = n + 1 /\ gs[n + 1] = f /\ \A i \in 1..n : gs[i] = fs[i]
  BY <1>1, AppendProperties
<1>3. /\ \A i \in 1..n : i \in 1..(n + 1) /\ i < n + 1
      /\ \A i \in 1..(n + 1) : i \in 1..n \/ i = n + 1
      /\ \A i \in 1..n : i < n \/ i = n
      /\ \A i \in 1..n : i < n => i + 1 \in 1..n
      /\ n # 0 => 1 \in 1..n
      /\ ~(n + 1 < n + 1) /\ n + 1 \in 1..(n + 1)
  OBVIOUS
<1>4. (n = 0 <=> fs = <<>>) /\ gs # <<>>
  BY <1>1, <1>2, EmptySeq
<1> QED
  BY <1>1, <1>2, <1>3, <1>4, Zenon DEF Extended

(* The fragment sent continues those before it. *)
LEMMA FragsMore ==
  ASSUME NEW d, NEW fs \in Seq(Frag), NEW o \in Nat, FragsTrue(d, fs, o), NEW f \in Frag, f.ofo = o,
         Tx!Shows(d, Tx!IP_HLEN + 8 * o, f.refs), NEW q,
         8 * q = 8 * o + Tx!Total(Tx!Lengths(f.refs)), NEW gs, gs = Append(fs, f)
  PROVE  FragsTrue(d, gs, q)
<1>0. PICK n \in Nat : Extended(fs, f, gs, n)
  BY FragAppended, Zenon
<1>1. /\ n = Len(fs) /\ gs \in Seq(Frag) /\ Len(gs) = n + 1 /\ gs[n + 1] = f
      /\ \A i \in 1..n : gs[i] = fs[i] /\ i \in 1..(n + 1) /\ i < n + 1
      /\ \A i \in 1..(n + 1) : i \in 1..n \/ i = n + 1
      /\ \A i \in 1..n : i < n \/ i = n
      /\ \A i \in 1..n : i < n => i + 1 \in 1..n
      /\ n = 0 => fs = <<>>
      /\ n # 0 => 1 \in 1..n /\ fs # <<>>
      /\ gs # <<>> /\ ~(n + 1 < n + 1) /\ n + 1 \in 1..(n + 1)
  BY <1>0, Zenon DEF Extended
<1>2. gs[1].ofo = 0
  <2>1. CASE n = 0
    <3>1. gs[1] = f
      BY <1>1, <2>1
    <3> QED
      BY <1>1, <2>1, <3>1, Zenon DEF FragsTrue
  <2>2. CASE n # 0
    BY <1>1, <2>2, Zenon DEF FragsTrue
  <2> QED
    BY <2>1, <2>2
<1>3. ASSUME NEW i \in 1..(n + 1)
      PROVE  /\ Tx!Shows(d, Tx!IP_HLEN + 8 * gs[i].ofo, gs[i].refs)
             /\ i < n + 1 => 8 * gs[i + 1].ofo = 8 * gs[i].ofo + Tx!Total(Tx!Lengths(gs[i].refs))
             /\ i = n + 1 => 8 * q = 8 * gs[i].ofo + Tx!Total(Tx!Lengths(gs[i].refs))
  <2>1. CASE i = n + 1
    BY <1>1, <2>1, Zenon
  <2>2. CASE i \in 1..n
    <3>1. /\ gs[i] = fs[i] /\ ~(i = n + 1)
          /\ Tx!Shows(d, Tx!IP_HLEN + 8 * fs[i].ofo, fs[i].refs)
          /\ i < n => 8 * fs[i + 1].ofo = 8 * fs[i].ofo + Tx!Total(Tx!Lengths(fs[i].refs))
          /\ i = n => 8 * o = 8 * fs[i].ofo + Tx!Total(Tx!Lengths(fs[i].refs))
      BY <1>1, <2>2, Zenon DEF FragsTrue
    <3>2. CASE i < n
      <4>1. gs[i + 1] = fs[i + 1]
        BY <1>1, <2>2, <3>2, Zenon
      <4> QED
        BY <3>1, <3>2, <4>1, Zenon
    <3>3. CASE i = n
      BY <1>1, <3>1, <3>3, Zenon
    <3> QED
      BY <1>1, <2>2, <3>2, <3>3, Zenon
  <2> QED
    BY <1>1, <2>1, <2>2, Zenon
<1> QED
  BY <1>1, <1>2, <1>3, Zenon DEF FragsTrue

(* f follows the fragments fs, and gs are all of them. *)
Follows(d, fs, o, f, gs) ==
  /\ FragsTrue(d, fs, o) /\ f.ofo = o /\ Tx!Shows(d, Tx!IP_HLEN + 8 * o, f.refs)
  /\ gs = Append(fs, f)

AllShown(d, fs, gs) ==
  /\ gs[1].ofo = 0
  /\ \A i \in 1..Len(gs) : Tx!Shows(d, Tx!IP_HLEN + 8 * gs[i].ofo, gs[i].refs)
  /\ \A i \in 1..Len(fs) : 8 * gs[i + 1].ofo = 8 * gs[i].ofo + Tx!Total(Tx!Lengths(gs[i].refs))

(* What FragmentsShowPayload says of the fragments sent and the one that is *)
(* being made.                                                              *)
LEMMA FragsShown ==
  ASSUME NEW d, NEW fs \in Seq(Frag), NEW o \in Nat, NEW f \in Frag, NEW gs, Follows(d, fs, o, f, gs)
  PROVE  AllShown(d, fs, gs)
<1>00. /\ FragsTrue(d, fs, o) /\ f.ofo = o /\ Tx!Shows(d, Tx!IP_HLEN + 8 * o, f.refs)
       /\ gs = Append(fs, f)
  BY Zenon DEF Follows
<1>0. PICK n \in Nat : Extended(fs, f, gs, n)
  BY <1>00, FragAppended, Zenon
<1>1. /\ n = Len(fs) /\ gs \in Seq(Frag) /\ Len(gs) = n + 1 /\ gs[n + 1] = f
      /\ \A i \in 1..n : gs[i] = fs[i] /\ i \in 1..(n + 1) /\ i < n + 1
      /\ \A i \in 1..(n + 1) : i \in 1..n \/ i = n + 1
      /\ \A i \in 1..n : i < n \/ i = n
      /\ \A i \in 1..n : i < n => i + 1 \in 1..n
      /\ n = 0 => fs = <<>>
      /\ n # 0 => 1 \in 1..n /\ fs # <<>>
      /\ gs # <<>> /\ ~(n + 1 < n + 1) /\ n + 1 \in 1..(n + 1)
  BY <1>0, Zenon DEF Extended
<1>2. gs[1].ofo = 0
  <2>1. CASE n = 0
    <3>1. gs[1] = f
      BY <1>1, <2>1
    <3> QED
      BY <1>00, <1>1, <2>1, <3>1, Zenon DEF FragsTrue
  <2>2. CASE n # 0
    BY <1>00, <1>1, <2>2, Zenon DEF FragsTrue
  <2> QED
    BY <2>1, <2>2
<1>3. ASSUME NEW i \in 1..n
      PROVE  /\ Tx!Shows(d, Tx!IP_HLEN + 8 * gs[i].ofo, gs[i].refs)
             /\ 8 * gs[i + 1].ofo = 8 * gs[i].ofo + Tx!Total(Tx!Lengths(gs[i].refs))
  <2>1. /\ gs[i] = fs[i]
        /\ Tx!Shows(d, Tx!IP_HLEN + 8 * fs[i].ofo, fs[i].refs)
        /\ i < n => 8 * fs[i + 1].ofo = 8 * fs[i].ofo + Tx!Total(Tx!Lengths(fs[i].refs))
        /\ i = n => 8 * o = 8 * fs[i].ofo + Tx!Total(Tx!Lengths(fs[i].refs))
    BY <1>00, <1>1, Zenon DEF FragsTrue
  <2>2. CASE i < n
    <3>1. gs[i + 1] = fs[i + 1]
      BY <1>1, <2>2, Zenon
    <3> QED
      BY <2>1, <2>2, <3>1, Zenon
  <2>3. CASE i = n
    BY <1>00, <1>1, <2>1, <2>3, Zenon
  <2> QED
    BY <1>1, <2>2, <2>3, Zenon
<1>4. \A i \in 1..(n + 1) : Tx!Shows(d, Tx!IP_HLEN + 8 * gs[i].ofo, gs[i].refs)
  BY <1>00, <1>1, <1>3, Zenon
<1> QED
  BY <1>1, <1>2, <1>3, <1>4, Zenon DEF AllShown

(* While bytes are left, the fragments sent have the flag; the new one has  *)
(* it if bytes are left after it.                                           *)
LEMMA MoreStaysTrue ==
  ASSUME NEW fs \in Seq(Frag), NEW l \in Nat, l > 0, MoreTrue(fs, l), NEW f \in Frag, NEW m \in Nat,
         f.mf <=> m > 0, NEW gs, gs = Append(fs, f)
  PROVE  MoreTrue(gs, m)
<1>0. PICK n \in Nat : Extended(fs, f, gs, n)
  BY FragAppended, Zenon
<1>1. /\ n = Len(fs) /\ gs \in Seq(Frag) /\ Len(gs) = n + 1 /\ gs[n + 1] = f
      /\ \A i \in 1..n : gs[i] = fs[i] /\ i \in 1..(n + 1) /\ i < n + 1
      /\ \A i \in 1..(n + 1) : i \in 1..n \/ i = n + 1
      /\ \A i \in 1..n : i < n \/ i = n
      /\ \A i \in 1..n : i < n => i + 1 \in 1..n
      /\ n = 0 => fs = <<>>
      /\ n # 0 => 1 \in 1..n /\ fs # <<>>
      /\ gs # <<>> /\ ~(n + 1 < n + 1) /\ n + 1 \in 1..(n + 1)
  BY <1>0, Zenon DEF Extended
<1>2. ASSUME NEW i \in 1..(n + 1) PROVE gs[i].mf <=> (i < n + 1 \/ m > 0)
  <2>1. CASE i = n + 1
    BY <1>1, <2>1, Zenon
  <2>2. CASE i \in 1..n
    BY <1>1, <2>2, Zenon DEF MoreTrue
  <2> QED
    BY <1>1, <2>1, <2>2, Zenon
<1> QED
  BY <1>1, <1>2, Zenon DEF MoreTrue

-----------------------------------------------------------------------------
(* Frames. *)

SentFrame == [chain : Seq(Nat \ {0}), ok : BOOLEAN]

(* One of the first n frames left a word behind. *)
Damaged(fs, n) == \E j \in 1..n : ~Aligned(fs[j].chain)

LoneTrue(fs) ==
  \A i \in 1..Len(fs) : Len(fs[i].chain) = 1 => fs[i].ok \/ Damaged(fs, i - 1)

(* A frame in one pbuf is all of that pbuf. *)
LEMMA LoneChain ==
  ASSUME NEW c \in Seq(Nat \ {0}), Len(c) = 1, Fits(Tx!Total(c))
  PROVE  Tx!AsIs(c)
<1>1. PICK x \in Nat : x = c[1]
  BY ElementOfSeq
<1>2. c = <<x>>
  BY <1>1
<1>3. c \in Seq(Nat) /\ 1 \in 1..Len(c) /\ 1 - 1 = 0
  BY SeqMonotonic
<1>4. Tx!Before(c, 0) = 0 /\ Tx!Before(c, 1) = Tx!Before(c, 1 - 1) + c[1]
  BY <1>3, BeforeIs, Zenon
<1>5. Tx!Total(c) = 0 + x
  BY <1>1, <1>3, <1>4, Zenon DEF Tx!Total
<1>6. 0 + x = x
  OBVIOUS
<1> QED
  BY <1>2, <1>5, <1>6, LoneAsIs, Zenon

(* lan9118_linkoutput keeps the chip in step unless the chain is not        *)
(* aligned, and a lone pbuf leaves as it is while the chip is in step.      *)
LEMMA LinkOutputKeeps ==
  ASSUME sent \in Seq(SentFrame), Len(sent) <= MaxFrames, sync \in {0, 1},
         sync = 0 => Damaged(sent, Len(sent)), LoneTrue(sent),
         NEW c \in Seq(Nat \ {0}), c # <<>>, Fits(Tx!Total(c)), Tx!lan9118_linkoutput(c)
  PROVE  /\ sent' \in Seq(SentFrame) /\ Len(sent') <= MaxFrames /\ sync' \in {0, 1}
         /\ sync' = 0 => Damaged(sent', Len(sent'))
         /\ LoneTrue(sent')
<1>1. PICK n \in Nat : n = Len(sent)
  BY LenProperties
<1>2. PICK f \in SentFrame : /\ sent' = Append(sent, f) /\ f.chain = c
                             /\ f.ok <=> (sync = 1 /\ Tx!AsIs(c))
  <2> DEFINE ok == sync = 1 /\ Tx!AsIs(c)
             f == [chain |-> c, ok |-> ok]
  <2>1. ok \in BOOLEAN /\ f \in SentFrame /\ f.chain = c /\ f.ok = ok
    BY DEF SentFrame
  <2>2. sent' = Append(sent, f)
    BY DEF Tx!lan9118_linkoutput
  <2> HIDE DEF f
  <2> QED
    BY <2>1, <2>2
<1>3. PICK s \in Seq(SentFrame) : /\ s = sent' /\ Len(s) = n + 1 /\ s[n + 1] = f
                                  /\ \A i \in 1..n : s[i] = sent[i]
  <2>1. PICK q \in Seq(SentFrame) : q = sent
    OBVIOUS
  <2>2. /\ Append(q, f) \in Seq(SentFrame) /\ Len(Append(q, f)) = Len(q) + 1
        /\ Append(q, f)[Len(q) + 1] = f /\ \A i \in 1..Len(q) : Append(q, f)[i] = q[i]
    BY AppendProperties
  <2> QED
    BY <1>1, <1>2, <2>1, <2>2, Zenon
<1>4. n + 1 <= MaxFrames
  BY <1>1, TransmitConstants DEF Tx!lan9118_linkoutput
<1>5. /\ \A i \in 1..n : i \in 1..(n + 1)
      /\ n + 1 \in 1..(n + 1) /\ (n + 1) - 1 = n
      /\ \A i \in 1..(n + 1) : i \in 1..n \/ i = n + 1
      /\ \A i \in 1..n : \A j \in 1..(i - 1) : j \in 1..n
  OBVIOUS
<1>6. sync' = (IF Tx!Leftover(c) = 0 THEN sync ELSE 0)
  BY DEF Tx!lan9118_linkoutput
<1>7. ASSUME sync = 0 PROVE Damaged(s, n) /\ Damaged(s, n + 1)
  <2>1. PICK j \in 1..n : ~Aligned(sent[j].chain)
    BY <1>1, <1>7, Zenon DEF Damaged
  <2>2. ~Aligned(s[j].chain)
    BY <1>3, <2>1, Zenon
  <2> QED
    BY <1>5, <2>1, <2>2, Zenon DEF Damaged
<1>8. ASSUME sync' = 0 PROVE Damaged(s, n + 1)
  <2>1. CASE sync = 0
    BY <1>7, <2>1
  <2>2. CASE sync = 1
    <3>1. Tx!Leftover(c) # 0
      BY <1>6, <1>8, <2>2
    <3>2. c \in Seq(Nat)
      BY SeqMonotonic
    <3>3. ~Aligned(c)
      BY <3>1, <3>2, WholeWords, Zenon
    <3> QED
      BY <1>2, <1>3, <1>5, <3>3, Zenon DEF Damaged
  <2> QED
    BY <2>1, <2>2
<1>9. ASSUME NEW i \in 1..(n + 1), Len(s[i].chain) = 1 PROVE s[i].ok \/ Damaged(s, i - 1)
  <2>1. CASE i \in 1..n
    <3>1. sent[i].ok \/ Damaged(sent, i - 1)
      BY <1>1, <1>3, <1>9, <2>1, Zenon DEF LoneTrue
    <3>2. ASSUME Damaged(sent, i - 1) PROVE Damaged(s, i - 1)
      <4>1. PICK j \in 1..(i - 1) : ~Aligned(sent[j].chain)
        BY <3>2, Zenon DEF Damaged
      <4>2. ~Aligned(s[j].chain)
        BY <1>3, <1>5, <2>1, <4>1, Zenon
      <4> QED
        BY <4>1, <4>2, Zenon DEF Damaged
    <3> QED
      BY <1>3, <2>1, <3>1, <3>2, Zenon
  <2>2. CASE i = n + 1
    <3>1. CASE sync = 0
      BY <1>5, <1>7, <2>2, <3>1, Zenon
    <3>2. CASE sync = 1
      <4>1. Tx!AsIs(c)
        BY <1>2, <1>3, <1>9, <2>2, LoneChain, Zenon
      <4> QED
        BY <1>2, <1>3, <2>2, <3>2, <4>1, Zenon
    <3> QED
      BY <3>1, <3>2
  <2> QED
    BY <1>5, <2>1, <2>2, Zenon
<1>10. LoneTrue(s)
  BY <1>3, <1>9, Zenon DEF LoneTrue
<1>11. sync' \in {0, 1}
  BY <1>6
<1> QED
  BY <1>3, <1>4, <1>8, <1>10, <1>11, Zenon

-----------------------------------------------------------------------------
(* The invariant of the sending side. *)

TxTypes ==
  /\ dgram \in Datagrams \cup {<<>>}
  /\ cur \in Nat /\ poff \in Nat /\ left \in Nat /\ ofo \in Nat
  /\ copy \in Nat /\ copy <= 8 * Tx!nfb
  /\ refs \in Seq(Mirror3) /\ frags \in Seq(Frag)

(* ip4_frag is where the lengths say it is, and what it has sent is true. *)
InDatagram ==
  dgram # <<>> =>
    /\ Walking(dgram, cur, poff, left, ofo, copy, refs)
    /\ FragsTrue(dgram, frags, ofo)

(* The chip has lost its place only after a chain that is not aligned. *)
InOrder ==
  /\ sent \in Seq(SentFrame) /\ Len(sent) <= MaxFrames /\ sync \in {0, 1}
  /\ sync = 0 => Damaged(sent, Len(sent))
  /\ LoneTrue(sent)

TxInv ==
  /\ TxTypes
  /\ dgram = <<>> => copy = 0
  /\ InDatagram
  /\ MoreTrue(frags, left)
  /\ InOrder

(* The sending side starts in its invariant. *)
LEMMA TxInitInv ==
  ASSUME Tx!Init
  PROVE  TxInv
<1>0. /\ dgram = <<>> /\ cur = 1 /\ poff = 0 /\ left = 0 /\ ofo = 0 /\ copy = 0
      /\ refs = <<>> /\ frags = <<>> /\ sync = 1 /\ sent = <<>>
  BY DEF Tx!Init
<1>1. <<>> \in Seq(Mirror3) /\ <<>> \in Seq(Frag) /\ <<>> \in Seq(SentFrame) /\ Len(<<>>) = 0
  OBVIOUS
<1>2. ~(\E i \in 1..0 : TRUE) /\ 0 \in Nat /\ 1 \in Nat /\ ~(1 = 0)
  OBVIOUS
<1>3. 0 <= 8 * Tx!nfb /\ 0 <= MaxFrames
  BY TransmitConstants
<1>4. TxTypes
  BY <1>0, <1>1, <1>2, <1>3 DEF TxTypes
<1>5. MoreTrue(frags, left)
  BY <1>0, <1>1, <1>2, Zenon DEF MoreTrue
<1>6. LoneTrue(sent)
  BY <1>0, <1>1, <1>2, Zenon DEF LoneTrue
<1>7. InOrder
  BY <1>0, <1>1, <1>2, <1>3, <1>6, Zenon DEF InOrder
<1> QED
  BY <1>0, <1>4, <1>5, <1>7, Zenon DEF TxInv, InDatagram

(* A frame in one pbuf is sent. *)
LEMMA SendFrameKeeps ==
  ASSUME TxInv, Tx!SendFrame
  PROVE  TxInv'
<1>0. /\ dgram' = dgram /\ cur' = cur /\ poff' = poff /\ left' = left /\ ofo' = ofo /\ copy' = copy
      /\ refs' = refs /\ frags' = frags
  BY DEF Tx!SendFrame, Tx!walk
<1>1. PICK x \in Frames : Tx!lan9118_linkoutput(<<x>>)
  BY Zenon DEF Tx!SendFrame
<1>2. x \in Nat \ {0} /\ Fits(x)
  BY TransmitConstants, Zenon
<1>3. <<x>> \in Seq(Nat \ {0}) /\ <<x>> # <<>>
  BY <1>2
<1>4. Fits(Tx!Total(<<x>>))
  BY <1>2, LoneAsIs, Zenon
<1>5. InOrder'
  BY <1>1, <1>3, <1>4, LinkOutputKeeps, Zenon DEF TxInv, InOrder
<1>6. TxTypes' /\ (dgram' = <<>> => copy' = 0) /\ InDatagram' /\ MoreTrue(frags', left')
  BY <1>0, Zenon DEF TxInv, TxTypes, InDatagram
<1> QED
  BY <1>5, <1>6, Zenon DEF TxInv

(* ip4_frag is called. *)
LEMMA FragBeginKeeps ==
  ASSUME TxInv, Tx!ip4_frag
  PROVE  TxInv'
<1>1. PICK d \in Datagrams : /\ Tx!Total(d) > Mtu /\ dgram' = d
                             /\ left' = Tx!Total(d) - Tx!IP_HLEN
                             /\ copy' = Tx!FragSize(Tx!Total(d) - Tx!IP_HLEN)
  BY Zenon DEF Tx!ip4_frag
<1>2. /\ cur' = 1 /\ poff' = Tx!IP_HLEN /\ ofo' = 0 /\ refs' = <<>> /\ frags' = <<>>
      /\ sync' = sync /\ sent' = sent
  BY DEF Tx!ip4_frag
<1>3. /\ left' \in Nat /\ copy' \in Nat /\ copy' <= 8 * Tx!nfb
      /\ Walking(d, 1, Tx!IP_HLEN, left', 0, copy', <<>>)
  BY <1>1, WalkBegins, Zenon
<1>4. <<>> \in Seq(Mirror3) /\ <<>> \in Seq(Frag) /\ Len(<<>>) = 0 /\ ~(\E i \in 1..0 : TRUE)
      /\ 0 \in Nat /\ 1 \in Nat
  OBVIOUS
<1>5. TxTypes'
  BY <1>1, <1>2, <1>3, <1>4, TransmitConstants, Zenon DEF TxTypes
<1>6. FragsTrue(d, <<>>, 0) /\ MoreTrue(<<>>, left')
  BY <1>4, Zenon DEF FragsTrue, MoreTrue
<1>7. dgram' # <<>>
  BY <1>1, TransmitConstants, Zenon
<1>8. InDatagram' /\ MoreTrue(frags', left')
  BY <1>1, <1>2, <1>3, <1>6, Zenon DEF InDatagram
<1>9. InOrder'
  BY <1>2, Zenon DEF TxInv, InOrder
<1> QED
  BY <1>5, <1>7, <1>8, <1>9, Zenon DEF TxInv

(* A pbuf is mirrored. *)
LEMMA MirrorKeeps ==
  ASSUME TxInv, Tx!Mirror
  PROVE  TxInv'
<1>0. /\ copy \in Nat /\ copy > 0 /\ dgram # <<>> /\ dgram \in Datagrams
      /\ poff \in Nat /\ left \in Nat /\ ofo \in Nat /\ cur \in Nat /\ refs \in Seq(Mirror3)
      /\ copy <= 8 * Tx!nfb /\ 8 * Tx!nfb \in Nat
  <2>1. copy > 0 /\ copy # 0
    BY DEF Tx!Mirror, TxInv, TxTypes
  <2>2. 8 * Tx!nfb \in Nat
    BY TransmitConstants
  <2> QED
    BY <2>1, <2>2, Zenon DEF TxInv, TxTypes
<1>10. Walking(dgram, cur, poff, left, ofo, copy, refs)
  BY <1>0, Zenon DEF TxInv, InDatagram
<1>1. PICK m \in Nat : /\ m = Tx!Min({copy, dgram[cur] - poff})
                       /\ m <= copy /\ m <= dgram[cur] - poff /\ (m = copy \/ m = dgram[cur] - poff)
  <2>1. cur \in 1..Len(dgram) /\ poff <= dgram[cur]
    BY <1>10, Zenon DEF Walking
  <2>2. PICK x \in Nat : x = dgram[cur]
    BY <1>0, <2>1, DatagramSums, Zenon
  <2>3. PICK y \in Nat : y = x - poff /\ y = dgram[cur] - poff
    BY <1>0, <2>1, <2>2
  <2>4. PICK k \in Nat : k = copy
    BY <1>0
  <2>5. Tx!Min({k, y}) = IF k <= y THEN k ELSE y
    BY DEF Tx!Min
  <2>6. PICK m \in Nat : m = Tx!Min({k, y}) /\ m <= k /\ m <= y /\ (m = k \/ m = y)
    BY <2>5
  <2> QED
    BY <2>3, <2>4, <2>6, Zenon
<1>2. /\ copy' = copy - m
      /\ refs' = IF m = 0 THEN refs ELSE Append(refs, <<cur, poff, m>>)
      /\ cur' = IF copy' > 0 THEN cur + 1 ELSE cur
      /\ poff' = IF copy' > 0 THEN 0 ELSE poff + m
      /\ dgram' = dgram /\ left' = left /\ ofo' = ofo /\ frags' = frags
      /\ sync' = sync /\ sent' = sent
  BY <1>1 DEF Tx!Mirror
<1>3. PICK rs : rs = IF m = 0 THEN refs ELSE Append(refs, <<cur, poff, m>>)
  OBVIOUS
<1>4. /\ copy - m \in Nat /\ copy - m <= copy
      /\ copy - m > 0 => Walking(dgram, cur + 1, 0, left, ofo, copy - m, rs)
      /\ ~(copy - m > 0) => Walking(dgram, cur, poff + m, left, ofo, copy - m, rs)
      /\ rs \in Seq(Mirror3)
  <2>1. (m = 0 => rs = refs) /\ (m # 0 => rs = Append(refs, <<cur, poff, m>>))
    BY <1>3
  <2>2. MirrorStep(dgram, cur, poff, left, ofo, copy, refs, m, rs)
    BY <1>1, <1>10, <2>1, Zenon DEF MirrorStep
  <2> QED
    BY <1>0, <2>2, WalkMirrors, Zenon
<1>5. Walking(dgram', cur', poff', left', ofo', copy', refs')
  <2>1. CASE copy' > 0
    <3>1. cur' = cur + 1 /\ poff' = 0
      BY <1>2, <2>1
    <3> QED
      BY <1>2, <1>3, <1>4, <2>1, <3>1, Zenon
  <2>2. CASE ~(copy' > 0)
    <3>1. cur' = cur /\ poff' = poff + m
      BY <1>2, <2>2
    <3> QED
      BY <1>2, <1>3, <1>4, <2>2, <3>1, Zenon
  <2> QED
    BY <2>1, <2>2
<1>6. cur' \in Nat /\ poff' \in Nat /\ copy' \in Nat /\ copy' <= 8 * Tx!nfb
  <2>1. cur + 1 \in Nat /\ poff + m \in Nat /\ 0 \in Nat /\ copy' \in Nat /\ copy' <= copy
    BY <1>0, <1>2, <1>4
  <2>2. copy' <= 8 * Tx!nfb
    BY <1>0, <2>1
  <2>3. cur' \in {cur + 1, cur} /\ poff' \in {0, poff + m}
    BY <1>2, Zenon
  <2>4. cur' \in Nat /\ poff' \in Nat
    BY <1>0, <2>1, <2>3
  <2> QED
    BY <2>1, <2>2, <2>4
<1>7. TxTypes'
  BY <1>2, <1>3, <1>4, <1>6, Zenon DEF TxInv, TxTypes
<1>8. InDatagram' /\ MoreTrue(frags', left') /\ InOrder'
  BY <1>2, <1>5, Zenon DEF TxInv, InDatagram, InOrder
<1>9. dgram' # <<>>
  BY <1>0, <1>2
<1> QED
  BY <1>7, <1>8, <1>9, Zenon DEF TxInv

(* A fragment is sent. *)
LEMMA SendFragmentKeeps ==
  ASSUME TxInv, Tx!SendFragment
  PROVE  TxInv'
<1>0. /\ copy = 0 /\ dgram # <<>> /\ dgram \in Datagrams
      /\ poff \in Nat /\ left \in Nat /\ ofo \in Nat /\ cur \in Nat /\ refs \in Seq(Mirror3)
      /\ frags \in Seq(Frag) /\ Tx!nfb \in Nat
  BY TransmitConstants, Zenon DEF TxInv, TxTypes, Tx!SendFragment
<1>1. /\ Walking(dgram, cur, poff, left, ofo, 0, refs) /\ FragsTrue(dgram, frags, ofo)
      /\ Tx!Shows(dgram, Tx!IP_HLEN + 8 * ofo, refs) /\ left > 0
  BY <1>0, Zenon DEF TxInv, InDatagram, Walking
<1> DEFINE c == <<Tx!SIZEOF_ETH_HDR + Tx!IP_HLEN>> \o Tx!Lengths(refs)
           f == [ofo |-> ofo, mf |-> ~Tx!last, refs |-> refs]
<1>2. /\ Tx!lan9118_linkoutput(c)
      /\ frags' = Append(frags, f)
      /\ left' = left - Tx!FragSize(left)
      /\ ofo' = ofo + Tx!nfb
      /\ copy' = Tx!FragSize(left')
      /\ refs' = <<>>
      /\ dgram' = IF left' = 0 THEN <<>> ELSE dgram
      /\ cur' = cur /\ poff' = poff
  BY DEF Tx!SendFragment
<1>3. /\ left' \in Nat /\ copy' \in Nat /\ copy' <= 8 * Tx!nfb
      /\ left' > 0 <=> left > 8 * Tx!nfb
      /\ left' = 0 => copy' = 0
      /\ Tx!Total(Tx!Lengths(refs)) \in Nat /\ Tx!Total(Tx!Lengths(refs)) <= 8 * Tx!nfb
      /\ left' # 0 => /\ Walking(dgram, cur, poff, left', ofo + Tx!nfb, copy', <<>>)
                      /\ 8 * (ofo + Tx!nfb) = 8 * ofo + Tx!Total(Tx!Lengths(refs))
  <2>1. PICK m : m = left' /\ m = left - Tx!FragSize(left) /\ copy' = Tx!FragSize(m)
    BY <1>2
  <2>2. /\ m \in Nat /\ Tx!FragSize(m) \in Nat /\ Tx!FragSize(m) <= 8 * Tx!nfb
        /\ m > 0 <=> left > 8 * Tx!nfb
        /\ m = 0 => Tx!FragSize(m) = 0
        /\ Tx!Total(Tx!Lengths(refs)) \in Nat /\ Tx!Total(Tx!Lengths(refs)) <= 8 * Tx!nfb
        /\ m # 0 => /\ Walking(dgram, cur, poff, m, ofo + Tx!nfb, Tx!FragSize(m), <<>>)
                    /\ 8 * (ofo + Tx!nfb) = 8 * ofo + Tx!Total(Tx!Lengths(refs))
    BY <1>0, <1>1, <2>1, WalkGoesOn
  <2> QED
    BY <2>1, <2>2, Zenon
<1>4. f \in Frag /\ f.ofo = ofo /\ f.refs = refs /\ (f.mf <=> left' > 0)
  <2>1. Tx!last <=> left <= 8 * Tx!nfb
    BY TransmitConstants DEF Tx!last
  <2>2. 8 * Tx!nfb \in Nat
    BY TransmitConstants
  <2>3. ~Tx!last <=> left' > 0
    BY <1>0, <1>3, <2>1, <2>2
  <2>4. (~Tx!last) \in BOOLEAN
    OBVIOUS
  <2>5. f \in Frag
    BY <1>0, <2>4 DEF Frag
  <2> QED
    BY <2>3, <2>5
<1>5. InOrder'
  <2>1. PICK h \in Nat \ {0}, ls \in Seq(Nat \ {0}) : h = Tx!SIZEOF_ETH_HDR + Tx!IP_HLEN /\ ls = Tx!Lengths(refs)
    BY <1>0, TransmitConstants, LengthsIs, Zenon
  <2>2. PICK e \in Seq(Nat \ {0}) : e = c /\ e = <<h>> \o ls
    <3>1. <<h>> \in Seq(Nat \ {0})
      OBVIOUS
    <3>2. <<h>> \o ls \in Seq(Nat \ {0})
      BY <3>1, ConcatProperties
    <3> QED
      BY <2>1, <3>2, Zenon
  <2> HIDE DEF c
  <2>3. Len(e) = Len(ls) + 1 /\ e[1] = h /\ \A i \in 1..Len(ls) : e[i + 1] = ls[i]
    <3>1. <<h>> \in Seq(Nat \ {0}) /\ Len(<<h>>) = 1 /\ <<h>>[1] = h
      OBVIOUS
    <3> QED
      BY <2>2, <3>1, ConcatProperties
  <2>4. h \in Nat /\ e \in Seq(Nat) /\ ls \in Seq(Nat) /\ e # <<>>
    BY <2>3, SeqMonotonic, EmptySeq
  <2>5. Tx!Total(e) = h + Tx!Total(ls)
    BY <2>3, <2>4, BeforePrefixed, Zenon DEF Prefixed
  <2>6. Fits(Tx!Total(e))
    BY <1>3, <2>1, <2>5, TransmitConstants, Zenon
  <2>7. Tx!lan9118_linkoutput(e)
    BY <1>2, <2>2, Zenon
  <2> QED
    BY <2>4, <2>6, <2>7, LinkOutputKeeps, Zenon DEF TxInv, InOrder
<1> HIDE DEF c, f
<1>6. frags' \in Seq(Frag)
  BY <1>0, <1>2, <1>4, AppendProperties
<1>7. TxTypes'
  <2>1. <<>> \in Seq(Mirror3) /\ ofo + Tx!nfb \in Nat
    BY <1>0
  <2>2. dgram' \in Datagrams \cup {<<>>}
    BY <1>0, <1>2
  <2> QED
    BY <1>0, <1>2, <1>3, <1>6, <2>1, <2>2, Zenon DEF TxTypes
<1>8. InDatagram'
  <2> SUFFICES ASSUME dgram' # <<>>
               PROVE  /\ Walking(dgram', cur', poff', left', ofo', copy', refs')
                      /\ FragsTrue(dgram', frags', ofo')
    BY Zenon DEF InDatagram
  <2>1. left' # 0 /\ dgram' = dgram
    BY <1>2
  <2>2. FragsTrue(dgram, frags', ofo + Tx!nfb)
    <3>1. 8 * (ofo + Tx!nfb) = 8 * ofo + Tx!Total(Tx!Lengths(f.refs)) /\ Tx!Shows(dgram, Tx!IP_HLEN + 8 * ofo, f.refs)
      BY <1>1, <1>3, <1>4, <2>1, Zenon
    <3> QED
      BY <1>0, <1>1, <1>2, <1>4, <3>1, FragsMore, Zenon
  <2> QED
    BY <1>2, <1>3, <2>1, <2>2, Zenon
<1>9. MoreTrue(frags', left')
  BY <1>0, <1>1, <1>2, <1>3, <1>4, MoreStaysTrue, Zenon DEF TxInv
<1>10. dgram' = <<>> => copy' = 0
  BY <1>0, <1>2, <1>3
<1> QED
  BY <1>5, <1>7, <1>8, <1>9, <1>10, Zenon DEF TxInv

(* Memory lacks, and the rest of the datagram is given up. *)
LEMMA MemErrKeeps ==
  ASSUME TxInv, Tx!MemErr
  PROVE  TxInv'
<1>0. /\ dgram' = <<>> /\ refs' = <<>> /\ copy' = 0
      /\ cur' = cur /\ poff' = poff /\ left' = left /\ ofo' = ofo /\ frags' = frags
      /\ sync' = sync /\ sent' = sent
  BY DEF Tx!MemErr
<1>1. <<>> \in Seq(Mirror3) /\ 0 \in Nat
  OBVIOUS
<1>2. 0 <= 8 * Tx!nfb
  BY TransmitConstants
<1>3. TxTypes'
  BY <1>0, <1>1, <1>2 DEF TxInv, TxTypes
<1> QED
  BY <1>0, <1>3, Zenon DEF TxInv, InDatagram, InOrder

(* Every reachable state satisfies the invariant of the sending side. *)
THEOREM TxInvHolds == MCSpec => []TxInv
<1>1. MCInit => TxInv
  BY TxInitInv DEF MCInit
<1>2. TxInv /\ [Receives \/ Sends]_all => TxInv'
  <2> SUFFICES ASSUME TxInv, [Receives \/ Sends]_all PROVE TxInv'
    OBVIOUS
  <2>1. CASE Sends
    BY <2>1, SendFrameKeeps, FragBeginKeeps, MirrorKeeps, SendFragmentKeeps, MemErrKeeps
       DEF Sends, Tx!Next
  <2>2. CASE UNCHANGED tx
    <3>1. /\ dgram' = dgram /\ cur' = cur /\ poff' = poff /\ left' = left /\ ofo' = ofo
          /\ copy' = copy /\ refs' = refs /\ frags' = frags /\ sync' = sync /\ sent' = sent
      BY <2>2 DEF tx
    <3> QED
      BY <3>1, Zenon DEF TxInv, TxTypes, InDatagram, InOrder
  <2>3. Sends \/ UNCHANGED tx
    BY DEF Receives, all
  <2> QED
    BY <2>1, <2>2, <2>3
<1> QED
  BY <1>1, <1>2, PTL DEF MCSpec

(* ip4_frag cuts every datagram into fragments that show each byte of its   *)
(* payload once, in order and at the offset they claim, and only the last   *)
(* lacks the flag that more follow: for every chain of pbufs and every MTU  *)
(* whose payload is a multiple of 8.                                        *)
THEOREM FragmentsAreTrue == MCSpec => []FragmentsTrue
<1>1. TxInv => FragmentsTrue
  <2> SUFFICES ASSUME TxInv PROVE Tx!TypeOK /\ Tx!FragmentsShowPayload /\ Tx!MoreFragmentsTrue
    BY DEF FragmentsTrue
  <2>1. Tx!TypeOK
    <3>1. copy \in 0..(Tx!nfb * 8)
      BY TransmitConstants DEF TxInv, TxTypes
    <3>2. dgram # <<>> => cur \in 1..Len(dgram)
      BY Zenon DEF TxInv, InDatagram, Walking
    <3>3. {cur, poff, left, ofo} \subseteq Nat
      BY DEF TxInv, TxTypes
    <3> QED
      BY <3>1, <3>2, <3>3 DEF TxInv, TxTypes, InOrder, Tx!TypeOK, Tx!Mirrors, Mirror3, Frag, SentFrame
  <2>2. Tx!FragmentsShowPayload
    <3> DEFINE f == [ofo |-> ofo, mf |-> ~Tx!last, refs |-> refs]
               fs == Append(frags, f)
    <3> SUFFICES ASSUME dgram # <<>>
                 PROVE  /\ fs[1].ofo = 0
                        /\ \A i \in 1..Len(fs) : Tx!Shows(dgram, Tx!IP_HLEN + 8 * fs[i].ofo, fs[i].refs)
                        /\ \A i \in 1..Len(frags) :
                             8 * fs[i + 1].ofo = 8 * fs[i].ofo + Tx!Total(Tx!Lengths(fs[i].refs))
                        /\ Tx!IP_HLEN + 8 * ofo + left = Tx!Total(dgram)
                        /\ Tx!last /\ copy = 0 => Tx!Total(Tx!Lengths(refs)) = left
      BY Zenon DEF Tx!FragmentsShowPayload
    <3>1. /\ Walking(dgram, cur, poff, left, ofo, copy, refs) /\ FragsTrue(dgram, frags, ofo)
          /\ frags \in Seq(Frag) /\ ofo \in Nat /\ left \in Nat /\ refs \in Seq(Mirror3)
      BY Zenon DEF TxInv, TxTypes, InDatagram
    <3>2. /\ Tx!IP_HLEN + 8 * ofo + left = Tx!Total(dgram)
          /\ Tx!Shows(dgram, Tx!IP_HLEN + 8 * ofo, refs)
          /\ Tx!Total(Tx!Lengths(refs)) = Tx!FragSize(left) - copy
      BY <3>1, Zenon DEF Walking
    <3>3. f \in Frag /\ f.ofo = ofo /\ f.refs = refs
      <4>1. (~Tx!last) \in BOOLEAN
        OBVIOUS
      <4> QED
        BY <3>1, <4>1 DEF Frag
    <3>4. ASSUME Tx!last, copy = 0 PROVE Tx!Total(Tx!Lengths(refs)) = left
      <4>1. left <= 8 * Tx!nfb
        BY <3>4, TransmitConstants DEF Tx!last
      <4>2. Tx!FragSize(left) = left
        BY <3>1, <4>1, FragSizeIs, Zenon
      <4>3. left - 0 = left
        BY <3>1
      <4> QED
        BY <3>2, <3>4, <4>2, <4>3, Zenon
    <3> HIDE DEF f
    <3>5. /\ fs[1].ofo = 0
          /\ \A i \in 1..Len(fs) : Tx!Shows(dgram, Tx!IP_HLEN + 8 * fs[i].ofo, fs[i].refs)
          /\ \A i \in 1..Len(frags) : 8 * fs[i + 1].ofo = 8 * fs[i].ofo + Tx!Total(Tx!Lengths(fs[i].refs))
      <4>0. PICK g \in Frag : g = f
        BY <3>3
      <4>1. PICK gs : gs = fs /\ gs = Append(frags, g)
        BY <4>0
      <4>2. g.ofo = ofo /\ g.refs = refs /\ Tx!Shows(dgram, Tx!IP_HLEN + 8 * ofo, g.refs)
        BY <3>2, <3>3, <4>0, Zenon
      <4>3. /\ gs[1].ofo = 0
            /\ \A i \in 1..Len(gs) : Tx!Shows(dgram, Tx!IP_HLEN + 8 * gs[i].ofo, gs[i].refs)
            /\ \A i \in 1..Len(frags) : 8 * gs[i + 1].ofo = 8 * gs[i].ofo + Tx!Total(Tx!Lengths(gs[i].refs))
        <5> HIDE DEF fs
        <5>1. Follows(dgram, frags, ofo, g, gs)
          BY <3>1, <4>1, <4>2, Zenon DEF Follows
        <5>2. AllShown(dgram, frags, gs)
          BY <3>1, <5>1, FragsShown, Zenon
        <5> QED
          BY <5>2, Zenon DEF AllShown
      <4> HIDE DEF fs
      <4> QED
        BY <4>1, <4>3, Zenon
    <3> HIDE DEF fs
    <3> QED
      BY <3>2, <3>4, <3>5, Zenon
  <2>3. Tx!MoreFragmentsTrue
    BY Zenon DEF TxInv, MoreTrue, Tx!MoreFragmentsTrue
  <2> QED
    BY <2>1, <2>2, <2>3
<1> QED
  BY <1>1, TxInvHolds, PTL

(* A frame in one pbuf passes lan9118_linkoutput and the chip unchanged     *)
(* unless an earlier frame of several pbufs left a word in the FIFO, for    *)
(* every frame whose length fits into the chip's commands.                  *)
THEOREM LonePbufsPass == MCSpec => []LonePbufsIntact
<1>1. TxInv => LonePbufsIntact
  <2> SUFFICES ASSUME TxInv PROVE Tx!LonePbufsIntact
    BY DEF LonePbufsIntact
  <2>1. \A i \in 1..Len(sent) : Len(sent[i].chain) = 1 => sent[i].ok \/ Damaged(sent, i - 1)
    BY Zenon DEF TxInv, InOrder, LoneTrue
  <2> QED
    BY <2>1, Zenon DEF Tx!LonePbufsIntact, Damaged, Aligned
<1> QED
  BY <1>1, TxInvHolds, PTL
=============================================================================

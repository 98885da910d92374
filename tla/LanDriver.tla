------------------------------ MODULE LanDriver ------------------------------
(***************************************************************************)
(* The receive side of the LAN9118 driver (src/network/netif_qemu.c):      *)
(* lan9118_hw_init, and lan9118_poll, which takes a frame's length from    *)
(* the chip's status FIFO and then its words from the data FIFO.  Frames   *)
(* arrive at any moment.  The chip drops a frame that does not fit.        *)
(*                                                                         *)
(* The data FIFO is a stream of words of which wr were written and rd      *)
(* read.  A word is represented by its position in the stream.             *)
(***************************************************************************)
EXTENDS Integers, Sequences

CONSTANTS
  RawLengths,    \* lengths, with CRC, that the status FIFO reports
  PoolBufSize,   \* payload bytes of a pbuf of the pool
  StatusSize,    \* entries of the status FIFO
  DataSize,      \* words of the data FIFO
  DrainLimit,    \* timeout of the drain loop
  MaxFrames      \* bound on the frames received

ASSUME DriverAssumption ==
  /\ RawLengths \subseteq Nat
  /\ PoolBufSize \in Nat \ {0}
  /\ PoolBufSize % 4 = 0          \* pbuf.c aligns it to MEM_ALIGNMENT
  /\ StatusSize \in Nat
  /\ DataSize \in Nat
  /\ DrainLimit \in Nat \ {0}
  /\ MaxFrames \in Nat

VARIABLES
  pc,          \* "reset" and "drain" in lan9118_hw_init, "idle" between two
               \* frames, "alloc", "copy" and "flush" in lan9118_poll
  rxen,        \* MAC_CR_RXEN
  status,      \* the status FIFO: a frame's length and, as ghosts, its number
               \* and its place in the stream
  rd, wr,
  timeout,
  frame,       \* the status that lan9118_poll has read
  read_words,
  payload,     \* the words written into the pbuf chain
  arrived,     \* ghost: frames received by the chip
  reset,       \* ghost: the soft reset is "pending", "done" or "timeout"
  delivered    \* ghost: the frames given to netif->input

chip == <<rxen, status, rd, wr, arrived>>
poll == <<frame, read_words, payload>>
vars == <<pc, chip, timeout, poll, reset, delivered>>

WordsFor(bytes) == (bytes + 3) \div 4

Statuses == [raw_len: RawLengths, number: 1..MaxFrames, start: Nat]
NoFrame == [raw_len |-> 0, number |-> 0, start |-> 0]

Deliveries == [frame: Statuses, payload: Seq(Nat)]

TypeOK ==
  /\ pc \in {"reset", "drain", "idle", "alloc", "copy", "flush"}
  /\ rxen \in {0, 1}
  /\ status \in Seq(Statuses)
  /\ wr \in Nat
  /\ rd \in 0..wr
  /\ timeout \in 0..DrainLimit
  /\ frame \in Statuses \cup {NoFrame}
  /\ read_words \in 0..WordsFor(frame.raw_len)
  /\ payload \in Seq(Nat)
  /\ arrived \in 0..MaxFrames
  /\ reset \in {"pending", "done", "timeout"}
  /\ delivered \in Seq(Deliveries)

-----------------------------------------------------------------------------
(* The chip. *)

Arrive ==
  /\ rxen = 1
  /\ arrived < MaxFrames
  /\ arrived' = arrived + 1
  /\ Len(status) < StatusSize
  /\ \E raw_len \in RawLengths :
       /\ wr' = wr + WordsFor(raw_len)
       /\ wr' - rd <= DataSize
       /\ status' = Append(status, [raw_len |-> raw_len, number |-> arrived', start |-> wr])
  /\ UNCHANGED <<pc, rxen, rd, timeout, poll, reset, delivered>>

(* Reading the data port: an empty FIFO gives 0 and stays as it is. *)
RX_DATA_FIFO == IF rd < wr THEN rd + 1 ELSE 0

PopData == rd' = IF rd < wr THEN rd + 1 ELSE rd

-----------------------------------------------------------------------------
(* lan9118_hw_init *)

(* The soft reset empties the FIFOs and stops the receiver, or it does not  *)
(* end within the time limit and the driver goes on.                        *)
SoftReset ==
  /\ pc = "reset"
  /\ pc' = "drain"
  /\ timeout' = DrainLimit
  /\ \/ status' = <<>> /\ rd' = wr /\ rxen' = 0 /\ reset' = "done"
     \/ UNCHANGED <<status, rd, rxen>> /\ reset' = "timeout"
  /\ UNCHANGED <<wr, arrived, poll, delivered>>

(* while ((RX_FIFO_INF & 0x00FF0000) && --timeout) RX_STATUS_FIFO; *)
DrainStatus ==
  /\ pc = "drain"
  /\ status # <<>>
  /\ timeout > 1
  /\ timeout' = timeout - 1
  /\ status' = Tail(status)
  /\ UNCHANGED <<pc, rxen, rd, wr, arrived, poll, reset, delivered>>

(* The rest: mac_write enables the receiver, without regard to whether      *)
(* mac_wait_busy gave up, in which case the MAC may not take the value.     *)
EnableMac ==
  /\ pc = "drain"
  /\ status = <<>> \/ timeout = 1
  /\ pc' = "idle"
  /\ rxen' \in {rxen, 1}
  /\ timeout' = IF status = <<>> THEN timeout ELSE 0
  /\ UNCHANGED <<status, rd, wr, arrived, poll, reset, delivered>>

-----------------------------------------------------------------------------
(* lan9118_poll *)

(* Mutant: RX_STATUS_FIFO_PEEK, which leaves the status in the FIFO. *)
ReadStatusPeek ==
  /\ pc = "idle"
  /\ status # <<>>
  /\ frame' = Head(status)
  /\ pc' = IF frame'.raw_len = 0 THEN "idle" ELSE "alloc"
  /\ read_words' = 0
  /\ payload' = <<>>
  /\ UNCHANGED <<chip, timeout, reset, delivered>>

(* A status of length 0 is skipped. *)
ReadStatus ==
  /\ pc = "idle"
  /\ status # <<>>
  /\ frame' = Head(status)
  /\ status' = Tail(status)
  /\ pc' = IF frame'.raw_len = 0 THEN "idle" ELSE "alloc"
  /\ read_words' = 0
  /\ payload' = <<>>
  /\ UNCHANGED <<rxen, rd, wr, arrived, timeout, reset, delivered>>

pkt_len(raw_len) == IF raw_len > 4 THEN raw_len - 4 ELSE raw_len

(* Mutant: the length is not rounded up to words. *)
words_RoundedDown == frame.raw_len \div 4

words == WordsFor(frame.raw_len)

(* The words that fit into the pbuf chain: every pbuf but the last is full, *)
(* and each takes whole words.                                              *)
ChainWords(len) ==
  (len \div PoolBufSize) * WordsFor(PoolBufSize) + WordsFor(len % PoolBufSize)

(* Mutant: without memory the frame is left in the data FIFO. *)
AllocLeaving ==
  /\ pc = "alloc"
  /\ pc' \in {"copy", "idle"}
  /\ UNCHANGED <<chip, timeout, poll, reset, delivered>>

(* pbuf_alloc, which may give NULL. *)
Alloc ==
  /\ pc = "alloc"
  /\ pc' \in {"copy", "flush"}
  /\ UNCHANGED <<chip, timeout, poll, reset, delivered>>

(* buf[i] = RX_DATA_FIFO, over the pbufs of the chain. *)
CopyWord ==
  /\ pc = "copy"
  /\ read_words < words
  /\ Len(payload) < ChainWords(pkt_len(frame.raw_len))
  /\ payload' = Append(payload, RX_DATA_FIFO)
  /\ PopData
  /\ read_words' = read_words + 1
  /\ UNCHANGED <<pc, rxen, status, wr, arrived, timeout, frame, reset, delivered>>

(* Padding and CRC. *)
SkipWord ==
  /\ pc = "copy"
  /\ read_words < words
  /\ Len(payload) = ChainWords(pkt_len(frame.raw_len))
  /\ PopData
  /\ read_words' = read_words + 1
  /\ UNCHANGED <<pc, rxen, status, wr, arrived, timeout, frame, payload, reset, delivered>>

(* netif->input takes the frame or the driver frees it. *)
Deliver ==
  /\ pc = "copy"
  /\ read_words = words
  /\ pc' = "idle"
  /\ delivered' = Append(delivered, [frame |-> frame, payload |-> payload])
  /\ UNCHANGED <<chip, timeout, poll, reset>>

(* No memory: the frame's words are read and dropped. *)
FlushWord ==
  /\ pc = "flush"
  /\ read_words < words
  /\ PopData
  /\ read_words' = read_words + 1
  /\ UNCHANGED <<pc, rxen, status, wr, arrived, timeout, frame, payload, reset, delivered>>

FlushEnd ==
  /\ pc = "flush"
  /\ read_words = words
  /\ pc' = "idle"
  /\ UNCHANGED <<chip, timeout, poll, reset, delivered>>

lan9118_hw_init == SoftReset \/ DrainStatus \/ EnableMac

lan9118_poll ==
  \/ ReadStatus \/ Alloc
  \/ CopyWord \/ SkipWord \/ Deliver
  \/ FlushWord \/ FlushEnd

-----------------------------------------------------------------------------
(* The chip may have been receiving before the firmware was started, and    *)
(* then holds frames.                                                       *)
Init ==
  /\ pc = "reset"
  /\ rxen \in {0, 1}
  /\ status = <<>> /\ rd = 0 /\ wr = 0 /\ arrived = 0
  /\ timeout = 0
  /\ frame = NoFrame /\ read_words = 0 /\ payload = <<>>
  /\ reset = "pending"
  /\ delivered = <<>>

Next == Arrive \/ lan9118_hw_init \/ lan9118_poll

(* network_init runs once, and the NTP task calls lan9118_poll again and    *)
(* again: see SpeakingClock.                                                *)
Spec == Init /\ [][Next]_vars /\ WF_vars(lan9118_hw_init \/ lan9118_poll)

-----------------------------------------------------------------------------
(* Between two frames the words in the data FIFO are those of the frames    *)
(* in the status FIFO, whatever was copied, skipped or flushed before and   *)
(* whatever arrived meanwhile.                                              *)
InStep ==
  pc = "idle" =>
    /\ IF status = <<>> THEN rd = wr ELSE rd = status[1].start
    /\ \A i \in 1..Len(status) :
         status[i].start + WordsFor(status[i].raw_len) =
           IF i < Len(status) THEN status[i + 1].start ELSE wr

FifosInStep == reset = "done" => InStep

(* A frame that lwIP gets is a frame that arrived: all of its words but the *)
(* CRC's, none of another's; and frames come in the order of arrival.       *)
FramesWhole ==
  reset = "done" =>
    /\ \A i \in 1..Len(delivered) :
         LET f == delivered[i].frame  p == delivered[i].payload
         IN  /\ \A k \in 1..Len(p) : p[k] = f.start + k
             /\ f.raw_len > 4 => Len(p) = WordsFor(f.raw_len - 4)
    /\ \A i, j \in 1..Len(delivered) :
         i < j => delivered[i].frame.number < delivered[j].frame.number

InFifo(n) == \E i \in 1..Len(status) : status[i].number = n

(* Every frame in the FIFO is taken out of it, by its own poll or drain and *)
(* however often the allocation fails for others.                           *)
EveryFrameTaken ==
  \A n \in 1..MaxFrames : InFifo(n) ~> ~InFifo(n)

(* "Drain any stale RX packets": after lan9118_hw_init nothing of a drained *)
(* packet is left, whether or not the soft reset was completed.             *)
StalePacketsDrained == InStep
=============================================================================

----------------------------- MODULE LanTransmit -----------------------------
(***************************************************************************)
(* The way out: ip4_frag of lwIP cuts a datagram longer than the MTU into  *)
(* fragments, each a chain of pbufs that mirror the datagram's, and        *)
(* lan9118_linkoutput writes a frame to the chip's transmit FIFO word by   *)
(* word.  Everything runs in the NTP task, so nothing interleaves; what is *)
(* delicate is the arithmetic on lengths.                                  *)
(*                                                                         *)
(* A chain of pbufs is the sequence of their lengths.  A byte of a frame   *)
(* is its position, and 0 is a byte beyond the end of a pbuf.              *)
(***************************************************************************)
EXTENDS Integers, Sequences, FiniteSetsExt

CONSTANTS
  Mtu,        \* netif->mtu
  Datagrams,  \* chains that ip4_frag may be given, IP header included
  Frames,     \* lengths of the frames sent as one pbuf (ARP, DHCP, DNS, NTP)
  MaxFrames   \* bound on the frames

IP_HLEN == 20
SIZEOF_ETH_HDR == 14
nfb == (Mtu - IP_HLEN) \div 8

(* mtu is 1500 in lan9118_netif_init.  The flag MF would be wrong if the    *)
(* payload of a full fragment were not a multiple of 8, and the length of a *)
(* frame has 11 bits in the chip's commands.                                *)
TransmitAssumption ==
  /\ Mtu \in Nat /\ nfb > 0 /\ (Mtu - IP_HLEN) % 8 = 0
  /\ SIZEOF_ETH_HDR + Mtu < 2048
  /\ \A d \in Datagrams : d \in Seq(Nat \ {0}) /\ d # <<>> /\ d[1] >= IP_HLEN
  /\ Frames \subseteq 1..2047
  /\ MaxFrames \in Nat

VARIABLES
  dgram,   \* the datagram in ip4_frag, <<>> when there is none
  cur,     \* p: the pbuf of it that is being mirrored
  poff,
  left,
  ofo,     \* offset of the fragment, in units of 8
  copy,    \* left_to_copy
  refs,    \* the mirrors in rambuf's chain, each <<pbuf, offset, length>>
  frags,   \* ghost: [ofo, mf, refs] of the fragments sent of this datagram
  sync,    \* the chip expects a TX_CMD_A: 1, or has lost its place: 0
  sent     \* ghost: [chain, ok] of every frame, ok: it left the chip as it is

walk == <<dgram, cur, poff, left, ofo, copy, refs, frags>>
vars == <<walk, sync, sent>>

(* The bytes in the first k pbufs of a chain. *)
Before(chain, k) ==
  LET sum[i \in 0..Len(chain)] == IF i = 0 THEN 0 ELSE sum[i - 1] + chain[i]
  IN  sum[k]

Total(chain) == Before(chain, Len(chain))

-----------------------------------------------------------------------------
(* lan9118_linkoutput and the chip. *)

(* Mutant: a word too many for whole words. *)
PbufBytesLong(a, len) ==
  [i \in 1..4 * (len \div 4 + 1) |-> IF i <= len THEN a + i ELSE 0]

(* What is written of a pbuf whose first byte is byte a + 1 of the frame. *)
PbufBytes(a, len) ==
  [i \in 1..4 * ((len + 3) \div 4) |-> IF i <= len THEN a + i ELSE 0]

FifoBytes(chain) ==
  LET fifo[k \in 0..Len(chain)] ==
        IF k = 0 THEN <<>> ELSE fifo[k - 1] \o PbufBytes(Before(chain, k - 1), chain[k])
  IN  fifo[Len(chain)]

(* The chip reads the length from TX_CMD_A and B, then as many words as     *)
(* that takes; the next word is a command to it.                            *)
FrameLength(chain) == Total(chain) % 2048
Leftover(chain) == Len(FifoBytes(chain)) \div 4 - (FrameLength(chain) + 3) \div 4
FrameOut(chain) == SubSeq(FifoBytes(chain), 1, FrameLength(chain))
AsIs(chain) == FrameOut(chain) = [i \in 1..Total(chain) |-> i]

lan9118_linkoutput(chain) ==
  /\ Len(sent) < MaxFrames
  /\ sent' = Append(sent, [chain |-> chain, ok |-> sync = 1 /\ AsIs(chain)])
  /\ sync' = IF Leftover(chain) = 0 THEN sync ELSE 0

-----------------------------------------------------------------------------
Init ==
  /\ dgram = <<>> /\ cur = 1 /\ poff = 0 /\ left = 0 /\ ofo = 0 /\ copy = 0
  /\ refs = <<>> /\ frags = <<>>
  /\ sync = 1
  /\ sent = <<>>

(* ethernet_output of a frame in one pbuf. *)
SendFrame ==
  /\ dgram = <<>>
  /\ \E len \in Frames : lan9118_linkoutput(<<len>>)
  /\ UNCHANGED walk

(* Mutant: the header is not counted. *)
FragSizeMtu(n) == Min({n, Mtu})

FragSize(n) == Min({n, nfb * 8})

(* ip4_frag is called; rambuf and the length of the first fragment.  The    *)
(* datagrams are made here: they have no options and are no fragments, so   *)
(* that the ERR_VAL for options and mf_set do not come into play.           *)
ip4_frag ==
  /\ dgram = <<>>
  /\ Len(sent) < MaxFrames
  /\ \E d \in Datagrams :
       /\ Total(d) > Mtu
       /\ dgram' = d
       /\ left' = Total(d) - IP_HLEN
       /\ copy' = FragSize(Total(d) - IP_HLEN)
  /\ cur' = 1 /\ poff' = IP_HLEN /\ ofo' = 0 /\ refs' = <<>> /\ frags' = <<>>
  /\ UNCHANGED <<sync, sent>>

(* One turn of "while (left_to_copy)": an empty pbuf is skipped, another is *)
(* mirrored as far as this fragment goes.                                   *)
Mirror ==
  LET newpbuflen == Min({copy, dgram[cur] - poff})
  IN  /\ copy > 0
      /\ copy' = copy - newpbuflen
      /\ refs' = IF newpbuflen = 0 THEN refs ELSE Append(refs, <<cur, poff, newpbuflen>>)
      /\ cur' = IF copy' > 0 THEN cur + 1 ELSE cur
      /\ poff' = IF copy' > 0 THEN 0 ELSE poff + newpbuflen
      /\ UNCHANGED <<dgram, left, ofo, frags, sync, sent>>

(* Mutant: the header is not counted. *)
LastWithoutHeader == left <= Mtu

last == left <= Mtu - IP_HLEN

(* The lengths of the mirrors in a fragment. *)
Lengths(rs) == [i \in 1..Len(rs) |-> rs[i][3]]

(* The header is corrected, the fragment sent and the next one begun. *)
SendFragment ==
  LET fragsize == FragSize(left)
  IN  /\ dgram # <<>> /\ copy = 0
      /\ lan9118_linkoutput(<<SIZEOF_ETH_HDR + IP_HLEN>> \o Lengths(refs))
      /\ frags' = Append(frags, [ofo |-> ofo, mf |-> ~last, refs |-> refs])
      /\ left' = left - fragsize
      /\ ofo' = ofo + nfb
      /\ copy' = FragSize(left')
      /\ refs' = <<>>
      /\ dgram' = IF left' = 0 THEN <<>> ELSE dgram
      /\ UNCHANGED <<cur, poff>>

(* memerr: no rambuf or no pbuf_custom_ref; what is left is not sent. *)
MemErr ==
  /\ dgram # <<>>
  /\ dgram' = <<>> /\ refs' = <<>> /\ copy' = 0
  /\ UNCHANGED <<cur, poff, left, ofo, frags, sync, sent>>

Next == SendFrame \/ ip4_frag \/ Mirror \/ SendFragment \/ MemErr

Spec == Init /\ [][Next]_vars

-----------------------------------------------------------------------------
Mirrors == Seq(Nat \X Nat \X (Nat \ {0}))

TypeOK ==
  /\ dgram \in Datagrams \cup {<<>>}
  /\ dgram # <<>> => cur \in 1..Len(dgram)
  /\ {cur, poff, left, ofo} \subseteq Nat
  /\ copy \in 0..(nfb * 8)
  /\ refs \in Mirrors
  /\ frags \in Seq([ofo : Nat, mf : BOOLEAN, refs : Mirrors])
  /\ sync \in {0, 1}
  /\ sent \in Seq([chain : Seq(Nat \ {0}), ok : BOOLEAN])
  /\ Len(sent) <= MaxFrames

(* A list of mirrors shows the bytes of the datagram that follow byte a:    *)
(* each lies in its pbuf and begins where the one before it ends.           *)
Shows(d, a, rs) ==
  \A i \in 1..Len(rs) :
    /\ rs[i][1] \in 1..Len(d)
    /\ rs[i][2] + rs[i][3] <= d[rs[i][1]]
    /\ Before(d, rs[i][1] - 1) + rs[i][2] = a + Before(Lengths(rs), i - 1)

(* At every moment the fragments sent and the mirrors made so far show a    *)
(* prefix of the datagram's payload, every byte once and in order: each     *)
(* fragment holds the bytes at the offset it claims, the next one's offset  *)
(* is where it ends, and the one that says it is the last has all the rest. *)
FragmentsShowPayload ==
  dgram # <<>> =>
    LET fs == Append(frags, [ofo |-> ofo, mf |-> ~last, refs |-> refs])
    IN  /\ fs[1].ofo = 0
        /\ \A i \in 1..Len(fs) : Shows(dgram, IP_HLEN + 8 * fs[i].ofo, fs[i].refs)
        /\ \A i \in 1..Len(frags) : 8 * fs[i + 1].ofo = 8 * fs[i].ofo + Total(Lengths(fs[i].refs))
        /\ IP_HLEN + 8 * ofo + left = Total(dgram)
        /\ last /\ copy = 0 => Total(Lengths(refs)) = left

(* A receiver knows the end of the datagram by the one fragment without MF: *)
(* while the datagram is under way every fragment has it, and the last one  *)
(* does not.                                                                *)
MoreFragmentsTrue ==
  \A i \in 1..Len(frags) : frags[i].mf <=> (i < Len(frags) \/ left > 0)

(* Whatever was sent before, a frame of one pbuf leaves the chip as lwIP    *)
(* built it unless a frame before it, of several pbufs one of which, not    *)
(* the last, was no whole number of words, left a word in the FIFO.         *)
LonePbufsIntact ==
  \A i \in 1..Len(sent) :
    Len(sent[i].chain) = 1 =>
      \/ sent[i].ok
      \/ \E j \in 1..(i - 1) : \E k \in 1..(Len(sent[j].chain) - 1) : sent[j].chain[k] % 4 # 0

(* What lwip/netif.h says of linkoutput: it "outputs the pbuf as-is on the  *)
(* link medium".                                                            *)
EveryFrameAsIs == \A i \in 1..Len(sent) : sent[i].ok
=============================================================================

---------------------------- MODULE MCLanDriver ----------------------------
(* The driver on small instances.  What it receives and what it sends are   *)
(* in different registers and share no state, so a behaviour follows one of *)
(* the two.  The MTU of the sending side is that of two blocks of 8; the    *)
(* datagrams are echo replies to pings that arrived in two or three         *)
(* fragments, whose pbufs but the last hold a multiple of 8.                *)
EXTENDS LanDriver

CONSTANTS Mtu, Datagrams, Frames

VARIABLES
  side,   \* "rx" or "tx"
  dgram, cur, poff, left, ofo, copy, refs, frags, sync, sent

tx == <<dgram, cur, poff, left, ofo, copy, refs, frags, sync, sent>>

Tx == INSTANCE LanTransmit

ASSUME TxAssumption == Tx!TransmitAssumption

(* The first pbuf begins with the IP header. *)
MCDatagrams ==
  {<<20 + a, b>> : a \in {8, 16, 24}, b \in 9..16} \cup
  {<<20 + a, b, c>> : a \in {8, 16}, b \in {8, 16}, c \in 1..4}

MCInit ==
  /\ side \in {"rx", "tx"}
  /\ Init /\ Tx!Init
  /\ side = "tx" => rxen = 0

Receives == side = "rx" /\ Next /\ UNCHANGED <<side, tx>>
Sends == side = "tx" /\ Tx!Next /\ UNCHANGED <<side, vars>>
Polls == side = "rx" /\ (lan9118_hw_init \/ lan9118_poll) /\ UNCHANGED <<side, tx>>

all == <<side, vars, tx>>

MCSpec == MCInit /\ [][Receives \/ Sends]_all /\ WF_all(Polls)

(* ip4_frag cuts a datagram into fragments that show every byte of it once, *)
(* in order and at the offset they claim, and only the last of them has the *)
(* flag that no more follow.                                                *)
FragmentsTrue == Tx!TypeOK /\ Tx!FragmentsShowPayload /\ Tx!MoreFragmentsTrue

(* A frame of one pbuf leaves the chip as lwIP built it, unless an earlier  *)
(* frame of several pbufs left a word in the transmit FIFO.                 *)
LonePbufsIntact == Tx!LonePbufsIntact

(* What lwip/netif.h says of linkoutput: it "outputs the pbuf as-is on the  *)
(* link medium".                                                            *)
EveryFrameAsIs == Tx!EveryFrameAsIs
=============================================================================

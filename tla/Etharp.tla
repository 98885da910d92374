------------------------------- MODULE Etharp -------------------------------
(***************************************************************************)
(* lwIP's ARP (src/lwip/src/core/ipv4/etharp.c): the table that maps the   *)
(* addresses of the next hops to Ethernet addresses, and the packets that  *)
(* wait for an answer on its entries.  Every NTP request goes through      *)
(* etharp_output.  Hosts answer, or not, and ask for us at any time; each  *)
(* host has one Ethernet address, for which its name stands.               *)
(*                                                                         *)
(* Broadcasts need no entry and are left out, and so are static entries    *)
(* and the ACD functions, which this build does not have.  No caller asks  *)
(* for an address without a packet, and nothing removes the netif.         *)
(***************************************************************************)
EXTENDS Integers, Sequences, FiniteSets, SequencesExt, FiniteSetsExt

CONSTANTS
  Hosts,
  ARP_TABLE_SIZE,
  ARP_QUEUE_LEN,
  MEMP_NUM_ARP_QUEUE,
  ARP_MAXAGE, ARP_MAXPENDING,
  ARP_AGE_REREQUEST_USED_UNICAST, ARP_AGE_REREQUEST_USED_BROADCAST,
  MaxPackets   \* bound on the packets sent

Index == 1..ARP_TABLE_SIZE

EtharpAssumption ==
  /\ "none" \notin Hosts
  /\ {ARP_TABLE_SIZE, ARP_QUEUE_LEN, MEMP_NUM_ARP_QUEUE, ARP_MAXPENDING,
      ARP_AGE_REREQUEST_USED_UNICAST} \subseteq Nat \ {0}
  /\ MaxPackets \in Nat /\ ARP_MAXAGE \in Nat
  /\ ARP_AGE_REREQUEST_USED_BROADCAST \in ARP_AGE_REREQUEST_USED_UNICAST..ARP_MAXAGE

VARIABLES
  arp_table,
  etharp_cached_entry,
  pool,     \* free entries of MEMP_ARP_QUEUE
  packets,  \* packets sent so far; they are numbered
  out,      \* ghost: the packets that the last step put on the wire
  last      \* ghost: the last packet on the wire, for each host

vars == <<arp_table, etharp_cached_entry, pool, packets, out, last>>

States == {"EMPTY", "PENDING", "STABLE", "REREQUESTING_1", "REREQUESTING_2"}
AtLeastStable == {"STABLE", "REREQUESTING_1", "REREQUESTING_2"}

TypeOK ==
  /\ \A i \in Index :
       /\ arp_table[i].state \in States
       /\ arp_table[i].ip \in Hosts \cup {"none"}
       /\ arp_table[i].mac \in Hosts \cup {"none"}
       /\ arp_table[i].ctime \in 0..(ARP_MAXAGE - 1)
       /\ Len(arp_table[i].q) <= ARP_QUEUE_LEN
       /\ \A k \in DOMAIN arp_table[i].q : arp_table[i].q[k] \in 1..packets
  /\ etharp_cached_entry \in Index
  /\ pool \in 0..MEMP_NUM_ARP_QUEUE
  /\ packets \in 0..MaxPackets
  /\ out \in Seq([ip: Hosts, mac: Hosts \cup {"none"}, n: 1..MaxPackets])
  /\ last \in [Hosts -> 0..packets]

Blank == [state |-> "EMPTY", ip |-> "none", mac |-> "none", ctime |-> 0, q |-> <<>>]

Init ==
  /\ arp_table = [i \in Index |-> Blank]
  /\ etharp_cached_entry = 1
  /\ pool = MEMP_NUM_ARP_QUEUE
  /\ packets = 0
  /\ out = <<>>
  /\ last = [h \in Hosts |-> 0]

-----------------------------------------------------------------------------
(* etharp_find_entry *)

InState(S) == {i \in Index : arp_table[i].state \in S}

Match(ip) == {i \in InState(States \ {"EMPTY"}) : arp_table[i].ip = ip}

(* The last of the oldest. *)
Oldest(S) ==
  CHOOSE i \in S :
    \A j \in S \ {i} : \/ arp_table[i].ctime > arp_table[j].ctime
                       \/ arp_table[i].ctime = arp_table[j].ctime /\ i > j

(* The least destructive entry to recycle. *)
Recycled ==
  LET stable == InState(AtLeastStable)
      idle == {i \in InState({"PENDING"}) : arp_table[i].q = <<>>}
      queued == InState({"PENDING"}) \ idle
  IN Oldest(IF stable # {} THEN stable ELSE IF idle # {} THEN idle ELSE queued)

(* ETHARP_FLAG_TRY_HARD: an entry is found in any case. *)
Slot(ip) ==
  IF Match(ip) # {} THEN Min(Match(ip))
  ELSE IF InState({"EMPTY"}) # {} THEN Min(InState({"EMPTY"}))
  ELSE Recycled

(* Mutant: the queue of a recycled entry is not freed. *)
ReturnedNone(i) == 0

(* What etharp_free_entry gives back to the pool. *)
Returned(i) == Len(arp_table[i].q)

(* The entry for ip: as it is, or new in a slot that has been freed. *)
Found(ip) == IF Match(ip) # {} THEN arp_table[Slot(ip)]
             ELSE [Blank EXCEPT !.ip = ip]

PoolAfterFind(ip) == IF Match(ip) # {} THEN pool ELSE pool + Returned(Slot(ip))

-----------------------------------------------------------------------------
(* Packets p on the wire, in this order, to the host ip at mac. *)
Wire(ip, mac, p) ==
  /\ out' = [k \in DOMAIN p |-> [ip |-> ip, mac |-> mac, n |-> p[k]]]
  /\ last' = [last EXCEPT ![ip] = IF p = <<>> THEN @ ELSE Last(p)]

Silent == out' = <<>> /\ UNCHANGED last

Updated(e, ip) ==
  [e EXCEPT !.state = "STABLE", !.mac = ip, !.ctime = 0, !.q = <<>>]

(* Mutant: the packets leave in the opposite order. *)
ReversedQueue(e) == Reverse(e.q)

Queued(e) == e.q

(* etharp_input, an ARP message from host ip.  For us (our address is its   *)
(* target), it is worth an entry; otherwise an entry is only updated.       *)
etharp_input(ip, for_us) ==
  /\ IF for_us \/ Match(ip) # {}
     THEN LET e == Found(ip)
          IN /\ arp_table' = [arp_table EXCEPT ![Slot(ip)] = Updated(e, ip)]
             /\ pool' = PoolAfterFind(ip) + Len(e.q)
             /\ Wire(ip, ip, Queued(e))
     ELSE /\ Silent
          /\ UNCHANGED <<arp_table, pool>>
  /\ UNCHANGED <<etharp_cached_entry, packets>>

-----------------------------------------------------------------------------
(* etharp_output of the next packet to ip *)

(* Mutant: the hint is trusted without looking at the address. *)
HintTrusted(ip) == arp_table[etharp_cached_entry].state \in AtLeastStable

(* The entry last used is tried first. *)
HintHits(ip) ==
  /\ arp_table[etharp_cached_entry].state \in AtLeastStable
  /\ arp_table[etharp_cached_entry].ip = ip

Stable(ip) == {i \in InState(AtLeastStable) : arp_table[i].ip = ip}

(* etharp_output_to_arp_index: an entry about to expire is asked for again, *)
(* which may fail for lack of memory.                                       *)
Rerequests(i) ==
  /\ arp_table[i].state = "STABLE"
  /\ \/ arp_table[i].ctime >= ARP_AGE_REREQUEST_USED_BROADCAST
     \/ arp_table[i].ctime >= ARP_AGE_REREQUEST_USED_UNICAST

etharp_output_to_arp_index(i, ip) ==
  /\ \/ /\ Rerequests(i)
        /\ arp_table' = [arp_table EXCEPT ![i].state = "REREQUESTING_1"]
     \/ UNCHANGED arp_table
  /\ Wire(ip, arp_table[i].mac, <<packets + 1>>)

(* A queue of ARP_QUEUE_LEN loses its first packet. *)
Dropped(e) == IF Len(e.q) >= ARP_QUEUE_LEN THEN 1 ELSE 0

(* etharp_query without a stable entry: the packet waits on the pending     *)
(* entry.  The request for a new entry may fail, which only shows on the    *)
(* wire.  The packet is lost without an entry of the pool, or memory to     *)
(* copy it.                                                                 *)
etharp_query(ip) ==
  LET e == [Found(ip) EXCEPT !.state = "PENDING"]
      free == PoolAfterFind(ip)
  IN /\ \/ /\ free > 0
           /\ arp_table' = [arp_table EXCEPT ![Slot(ip)] =
                [e EXCEPT !.q = SubSeq(Append(@, packets + 1), 1 + Dropped(e),
                                       Len(@) + 1)]]
           /\ pool' = free - 1 + Dropped(e)
        \/ /\ arp_table' = [arp_table EXCEPT ![Slot(ip)] = e]
           /\ pool' = free
     /\ Silent
     /\ UNCHANGED etharp_cached_entry

etharp_output(ip) ==
  /\ packets < MaxPackets
  /\ packets' = packets + 1
  /\ \/ /\ HintHits(ip)
        /\ etharp_output_to_arp_index(etharp_cached_entry, ip)
        /\ UNCHANGED <<etharp_cached_entry, pool>>
     \/ /\ ~HintHits(ip) /\ Stable(ip) # {}
        /\ etharp_cached_entry' = Min(Stable(ip))
        /\ etharp_output_to_arp_index(Min(Stable(ip)), ip)
        /\ UNCHANGED pool
     \/ /\ ~HintHits(ip) /\ Stable(ip) = {}
        /\ etharp_query(ip)

-----------------------------------------------------------------------------
(* etharp_tmr *)

Old(e) ==
  \/ e.ctime + 1 >= ARP_MAXAGE
  \/ e.state = "PENDING" /\ e.ctime + 1 >= ARP_MAXPENDING

(* Mutant: only stable entries grow old. *)
AgedIfStable(e) ==
  IF e.state \notin AtLeastStable THEN e
  ELSE IF Old(e) THEN Blank
  ELSE [e EXCEPT !.ctime = @ + 1]

Aged(e) ==
  IF e.state = "EMPTY" THEN e
  ELSE IF Old(e) THEN Blank
  ELSE [e EXCEPT !.ctime = @ + 1,
                 !.state = CASE @ = "REREQUESTING_1" -> "REREQUESTING_2"
                             [] @ = "REREQUESTING_2" -> "STABLE"
                             [] OTHER -> @]

Expired == {i \in InState(States \ {"EMPTY"}) : Old(arp_table[i])}

(* The elements of the pool that come back when these entries are freed. *)
Elements(S) == UNION {{i} \X (1..Returned(i)) : i \in S}

etharp_tmr ==
  /\ arp_table' = [i \in Index |-> Aged(arp_table[i])]
  /\ pool' = pool + Cardinality(Elements(Expired))
  /\ Silent
  /\ UNCHANGED <<etharp_cached_entry, packets>>

Next ==
  \/ etharp_tmr
  \/ \E ip \in Hosts : \/ etharp_output(ip)
                       \/ \E for_us \in BOOLEAN : etharp_input(ip, for_us)

Spec == Init /\ [][Next]_vars /\ WF_vars(etharp_tmr)

-----------------------------------------------------------------------------
(* Every packet goes to the Ethernet address of its own next hop: neither   *)
(* the hint of the last packet nor a recycled entry sends it to another     *)
(* host, nor before the address is known.                                   *)
SentToOwner == \A k \in DOMAIN out : out[k].mac = out[k].ip

(* The packets for one host leave in the order they were sent in, each at   *)
(* most once: the ones that waited go before the ones sent later.           *)
LeaveInOrder ==
  [][\A k \in DOMAIN out' :
       /\ out'[k].n > last[out'[k].ip]
       /\ k > 1 => out'[k].n > out'[k - 1].n]_vars

(* No address has two entries, and no packet waits on a stable one (the     *)
(* assertion in etharp_find_entry): a stable entry never sends its queue.   *)
OneEntryEach ==
  \A i, j \in InState(States \ {"EMPTY"}) :
    /\ arp_table[i].ip = arp_table[j].ip => i = j
    /\ arp_table[i].state \in AtLeastStable => arp_table[i].q = <<>>

(* The pool holds what does not wait: nothing leaks when entries grow old,  *)
(* are recycled with packets waiting on them, or a full queue drops one.    *)
PoolExact ==
  pool + Cardinality(UNION {{i} \X (1..Len(arp_table[i].q)) : i \in Index}) = MEMP_NUM_ARP_QUEUE

(* Every packet that waits is sent or given up in the end: a pending entry  *)
(* does not stay for ever, whatever is sent to it meanwhile.                *)
NobodyWaits ==
  \A h \in Hosts :
    (\E i \in Match(h) : arp_table[i].state = "PENDING")
      ~> ~(\E i \in Match(h) : arp_table[i].state = "PENDING")

=============================================================================

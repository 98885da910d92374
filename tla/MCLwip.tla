------------------------------- MODULE MCLwip -------------------------------
(* Parts of lwIP that share no state, on small instances: ARP, reassembly,  *)
(* the cyclic timers and the heap.  A behaviour follows one of them.        *)
EXTENDS Integers, Sequences

CONSTANTS
  Hosts, ARP_TABLE_SIZE, ARP_QUEUE_LEN, MEMP_NUM_ARP_QUEUE, ARP_MAXAGE,
  ARP_MAXPENDING, ARP_AGE_REREQUEST_USED_UNICAST, ARP_AGE_REREQUEST_USED_BROADCAST,
  MaxPackets,
  Fragments, MaxPbufs, MaxData, MaxAge, MaxLen,
  Timers, interval_ms, Order, Wrap, MaxLate,
  MEM_SIZE_ALIGNED, Word, Wanted

VARIABLES
  side,   \* "arp", "reass", "timers" or "mem"
  arp_table, etharp_cached_entry, pool, packets, out, last,
  reassdatagrams, pbufcount, result,
  clock, next_timeout, now, ago, running, pc, credit, calls,
  mem, lfree, owned

arp == <<arp_table, etharp_cached_entry, pool, packets, out, last>>
reass == <<reassdatagrams, pbufcount, result>>
timers == <<clock, next_timeout, now, ago, running, pc, credit, calls>>
ram == <<mem, lfree, owned>>

Frag(i, a, b, l) == [id |-> i, start |-> a, end |-> b, last |-> l]

(* One datagram cut in two ways that overlap, one cut in three, and one     *)
(* whose end is too far.                                                    *)
MCFragments ==
  {Frag("x", 0, 2, FALSE), Frag("x", 2, 4, FALSE), Frag("x", 4, 5, TRUE),
   Frag("x", 0, 1, FALSE), Frag("x", 1, 4, FALSE),
   Frag("y", 0, 1, FALSE), Frag("y", 1, 2, FALSE), Frag("y", 2, 3, TRUE),
   Frag("z", 0, 2, FALSE), Frag("z", 2, 9, TRUE)}

(* dhcp_fine_tmr (500 ms), etharp_tmr (1 s) and a slower one, scaled. *)
MCInterval == [etharp |-> 2, dhcp_coarse |-> 3, dhcp_fine |-> 1]
MCTimers == DOMAIN MCInterval
MCOrder == <<"etharp", "dhcp_coarse", "dhcp_fine">>

Arp == INSTANCE Etharp
Reass == INSTANCE IpReass
Timer == INSTANCE Timeouts
Mem == INSTANCE LwipMem

ASSUME LwipAssumption ==
  Arp!EtharpAssumption /\ Reass!ReassAssumption /\ Timer!TimeoutsAssumption /\ Mem!MemAssumption

all == <<side, arp, reass, timers, ram>>

MCInit ==
  /\ side \in {"arp", "reass", "timers", "mem"}
  /\ Arp!Init /\ Reass!Init /\ Timer!Init /\ Mem!Init

InArp(A) == side = "arp" /\ A /\ UNCHANGED <<side, reass, timers, ram>>
InReass(A) == side = "reass" /\ A /\ UNCHANGED <<side, arp, timers, ram>>
InTimers(A) == side = "timers" /\ A /\ UNCHANGED <<side, arp, reass, ram>>
InMem(A) == side = "mem" /\ A /\ UNCHANGED <<side, arp, reass, timers>>

MCNext == InArp(Arp!Next) \/ InReass(Reass!Next) \/ InTimers(Timer!Next) \/ InMem(Mem!Next)

MCSpec ==
  /\ MCInit /\ [][MCNext]_all
  /\ WF_all(InArp(Arp!etharp_tmr)) /\ WF_all(InReass(Reass!ip_reass_tmr))

-----------------------------------------------------------------------------
(* With more hosts than entries and fewer elements of the pool than packets *)
(* that wait, every packet leaves for its own next hop, no address has two  *)
(* entries, and no element of the pool is lost.                             *)
ArpSound ==
  side = "arp" => Arp!TypeOK /\ Arp!SentToOwner /\ Arp!OneEntryEach /\ Arp!PoolExact

(* The packets for one host leave in the order they were sent in, each at   *)
(* most once: the ones that waited go before the ones sent later.           *)
LeaveInOrder == Arp!LeaveInOrder

(* With fragments lost, repeated, reordered and overlapping, only whole     *)
(* datagrams are returned, the queue holds each once and in order, and the  *)
(* pbufs that the limit is about are counted exactly.                       *)
ReassSound ==
  side = "reass" =>
    Reass!TypeOK /\ Reass!DeliveredWhole /\ Reass!QueueSound /\ Reass!PbufCountExact

(* A pending ARP entry is answered or given up, whatever is sent to it, and *)
(* no datagram stays in the reassembly queue, whatever keeps arriving: the  *)
(* pool's elements and pbufs they hold come back.                           *)
NothingWaitsForever == Arp!NobodyWaits /\ Reass!NoneStays

(* No timer's handler is called more often than its interval allows, and    *)
(* none in a burst, however late sys_check_timeouts is called.              *)
TimersPaced == side = "timers" => Timer!TypeOK /\ Timer!NotTooOften /\ Timer!NoBurst

(* sys_check_timeouts leaves no timer out that was due when it began, also  *)
(* across the wrap of the clock.                                            *)
NothingMissed == Timer!NothingMissed

(* Whatever is allocated, trimmed and freed in lwIP's heap, every owner has *)
(* the bytes it asked for and can give them back, holes are joined, and the *)
(* search from lfree misses none.                                           *)
MemSound ==
  side = "mem" =>
    /\ Mem!TypeOK /\ Mem!OwnersApart /\ Mem!FreeAccepted
    /\ Mem!NoAdjacentHoles /\ Mem!SearchComplete
=============================================================================

------------------------------- MODULE IpReass -------------------------------
(***************************************************************************)
(* Reassembly of IP datagrams, lwIP's ip4_frag.c: fragments that the       *)
(* network loses, repeats, delays and cuts differently on another route    *)
(* are queued per datagram until the datagram is whole, is pushed out by   *)
(* another one or is too old.                                              *)
(*                                                                         *)
(* A fragment is the half-open interval of the payload that it carries and *)
(* holds one pbuf of the pool (PBUF_POOL_BUFSIZE is more than a frame).    *)
(* The ICMP message that tells the sender of a timeout is left out.        *)
(***************************************************************************)
EXTENDS Integers, Sequences, SequencesExt, FiniteSetsExt

CONSTANTS
  Fragments,  \* [id, start, end, last]: what the senders' datagrams are cut into
  MaxPbufs,   \* IP_REASS_MAX_PBUFS
  MaxData,    \* MEMP_NUM_REASSDATA
  MaxAge,     \* IP_REASS_MAXAGE
  MaxLen      \* 0xFFFF - IP_HLEN, the longest payload

IP_HLEN == 20

Ids == {f.id : f \in Fragments}

(* The fragments of one sender agree on where its datagram ends, and a      *)
(* datagram that is not cut is no business of ip4_reass.                    *)
ReassAssumption ==
  /\ \A f \in Fragments : f.start \in Nat /\ f.end \in Nat /\ f.start < f.end
                          /\ f.last \in BOOLEAN /\ (f.last => f.start > 0)
  /\ \A f, g \in Fragments : f.id = g.id /\ f.last => g.end <= f.end /\ (g.last <=> g.end = f.end)
  /\ MaxPbufs \in Nat \ {0} /\ MaxData \in Nat \ {0} /\ MaxAge \in Nat /\ MaxLen \in Nat

VARIABLES
  reassdatagrams,  \* the queue, newest first: [id, frags, timer, flags, len]
  pbufcount,       \* ip_reass_pbufcount
  result           \* what the last call of ip4_reass returned, NULL or a datagram

vars == <<reassdatagrams, pbufcount, result>>

NULL == [id |-> "none"]

Init == reassdatagrams = <<>> /\ pbufcount = 0 /\ result = NULL

(* ip_reass_dequeue_datagram *)
Dequeue(queue, ids) ==
  LET f[i \in 0..Len(queue)] ==
        IF i = 0 THEN <<>>
        ELSE IF queue[i].id \in ids THEN f[i - 1] ELSE Append(f[i - 1], queue[i])
  IN  f[Len(queue)]

(* Mutant: the first pbuf, used for the ICMP message, is not counted. *)
FreedWithoutFirst(d) == Len(d.frags) - 1

(* ip_reass_free_complete_datagram: the pbufs that it frees. *)
Freed(d) == Len(d.frags)

(* What is freed with a set of entries, as pairs of a datagram and a number. *)
FreedWith(entries) == UNION {{d.id} \X (1..Freed(d)) : d \in entries}

(* ip_reass_remove_oldest_datagram for one pbuf: an entry is never empty,   *)
(* so the first one freed is enough.  Among equals the one further back.    *)
Others(id) == {i \in 1..Len(reassdatagrams) : reassdatagrams[i].id # id}

Oldest(id) ==
  CHOOSE i \in Others(id) :
    \A j \in Others(id) :
      /\ reassdatagrams[i].timer <= reassdatagrams[j].timer
      /\ reassdatagrams[i].timer = reassdatagrams[j].timer => j <= i

RemoveOldest(id) ==
  IF Others(id) = {} THEN [queue |-> reassdatagrams, count |-> pbufcount]
  ELSE LET d == reassdatagrams[Oldest(id)]
       IN  [queue |-> Dequeue(reassdatagrams, {d.id}), count |-> pbufcount - Freed(d)]

Entry(queue, id) == queue[CHOOSE i \in 1..Len(queue) : queue[i].id = id]
IsQueued(queue, id) == \E i \in 1..Len(queue) : queue[i].id = id

-----------------------------------------------------------------------------
(* ip_reass_chain_frag_into_datagram_and_validate *)

Before(frags, f) == Cardinality({i \in 1..Len(frags) : frags[i][1] <= f.start})

(* Mutant: only a fragment that begins alike is taken for a duplicate. *)
DroppedIfSame(frags, f) == \E i \in 1..Len(frags) : frags[i][1] = f.start

(* PBUF_DROPPED: too long, a duplicate, or an overlap with a neighbour. *)
Dropped(frags, f) ==
  LET k == Before(frags, f)
  IN  \/ f.end > MaxLen + (IF f.last THEN 0 ELSE IP_HLEN)
      \/ \E i \in 1..k : frags[i][1] = f.start \/ f.start < frags[i][2]
      \/ k < Len(frags) /\ f.end > frags[k + 1][1]

Chain(frags, f) == InsertAt(frags, Before(frags, f) + 1, <<f.start, f.end>>)

(* Mutant: the queue need not begin with the first fragment. *)
NoHolesAfterFirst(frags) == \A i \in 2..Len(frags) : frags[i - 1][2] = frags[i][1]

NoHoles(frags) ==
  /\ frags[1][1] = 0
  /\ \A i \in 2..Len(frags) : frags[i - 1][2] = frags[i][1]

(* A fragment is chained into its entry; the entry leaves the queue with    *)
(* the datagram when it is whole.                                           *)
ChainFrag(queue, count, d, f) ==
  LET new == [d EXCEPT !.frags = Chain(d.frags, f),
                       !.flags = @ \/ f.last,
                       !.len = IF f.last THEN f.end ELSE @]
      whole == new.flags /\ NoHoles(new.frags)
  IN  /\ reassdatagrams' = IF whole THEN Dequeue(queue, {d.id})
                           ELSE [i \in 1..Len(queue) |-> IF queue[i].id = d.id THEN new ELSE queue[i]]
      /\ pbufcount' = count + 1 - (IF whole THEN Len(new.frags) ELSE 0)
      /\ result' = IF whole THEN [id |-> d.id, frags |-> new.frags, len |-> new.len] ELSE NULL

Fresh(id) == [id |-> id, frags |-> <<>>, timer |-> MaxAge, flags |-> FALSE, len |-> 0]

Nullreturn(queue, count) ==
  reassdatagrams' = queue /\ pbufcount' = count /\ result' = NULL

(* A fragment for an entry of the queue, or for a new one at its front; a   *)
(* new entry whose fragment is dropped is removed again (nullreturn_ipr).   *)
Enqueue(queue, count, f) ==
  IF IsQueued(queue, f.id)
  THEN IF Dropped(Entry(queue, f.id).frags, f) THEN Nullreturn(queue, count)
       ELSE ChainFrag(queue, count, Entry(queue, f.id), f)
  ELSE IF Dropped(<<>>, f) THEN Nullreturn(queue, count)
       ELSE ChainFrag(<<Fresh(f.id)>> \o queue, count, Fresh(f.id), f)

(* ip_reass_enqueue_new_datagram: without an ip_reassdata the oldest entry  *)
(* gives up its own; there is none to be freed only if the pool is empty.   *)
ip4_reass(f) ==
  LET room == IF pbufcount + 1 > MaxPbufs THEN RemoveOldest(f.id)
              ELSE [queue |-> reassdatagrams, count |-> pbufcount]
      slot == IF ~IsQueued(room.queue, f.id) /\ Len(room.queue) = MaxData
              THEN RemoveOldest(f.id) ELSE room
  IN  IF room.count + 1 > MaxPbufs THEN Nullreturn(room.queue, room.count)
      ELSE Enqueue(slot.queue, slot.count, f)

(* Mutant: a datagram whose last fragment is there is waited for. *)
CountedUnlessLast(d) == [d EXCEPT !.timer = IF d.flags THEN @ ELSE @ - 1]

Counted(d) == [d EXCEPT !.timer = @ - 1]

ip_reass_tmr ==
  LET old == {d \in Range(reassdatagrams) : d.timer = 0}
      young == Dequeue(reassdatagrams, {d.id : d \in old})
  IN  /\ reassdatagrams' = [i \in 1..Len(young) |-> Counted(young[i])]
      /\ pbufcount' = pbufcount - Cardinality(FreedWith(old))
      /\ result' = NULL

Next == (\E f \in Fragments : ip4_reass(f)) \/ ip_reass_tmr

(* sys_check_timeouts calls ip_reass_tmr every second. *)
Spec == Init /\ [][Next]_vars /\ WF_vars(ip_reass_tmr)

-----------------------------------------------------------------------------
TypeOK ==
  /\ \A i \in 1..Len(reassdatagrams) :
       LET d == reassdatagrams[i]
       IN  d.id \in Ids /\ d.timer \in 0..MaxAge /\ d.flags \in BOOLEAN /\ d.len \in Nat
           /\ d.frags \in Seq(Nat \X Nat)
  /\ pbufcount \in Nat
  /\ result.id \in Ids \cup {"none"}

(* The counter that limits reassembly is exact through every way out of the *)
(* queue, and never above the limit, so that fragments cannot drain the     *)
(* pool of pbufs that the driver receives into.                             *)
PbufCountExact ==
  /\ pbufcount = Cardinality(UNION {{d.id} \X (1..Len(d.frags)) : d \in Range(reassdatagrams)})
  /\ pbufcount <= MaxPbufs

(* A datagram that ip4_reass returns is the whole one its sender cut,       *)
(* without hole or overlap, and as long as the sender's.                    *)
DeliveredWhole ==
  result # NULL =>
    LET frags == result.frags
    IN  /\ frags[1][1] = 0
        /\ \A i \in 2..Len(frags) : frags[i - 1][2] = frags[i][1]
        /\ \E f \in Fragments : f.id = result.id /\ f.last /\ f.end = result.len
                                /\ frags[Len(frags)][2] = f.end

(* The queue holds each datagram once, never an empty entry (one could not  *)
(* be pushed out for its pbufs), its fragments in order and apart, and no   *)
(* datagram that is already whole: what is complete was returned at once.   *)
QueueSound ==
  /\ Len(reassdatagrams) <= MaxData
  /\ \A i, j \in 1..Len(reassdatagrams) : reassdatagrams[i].id = reassdatagrams[j].id => i = j
  /\ \A i \in 1..Len(reassdatagrams) :
       LET d == reassdatagrams[i]
       IN  /\ d.frags # <<>>
           /\ \A k \in 2..Len(d.frags) : d.frags[k - 1][2] <= d.frags[k][1]
           /\ \A f \in Fragments : f.id = d.id /\ f.last /\ d.flags =>
                \E x \in 0..(f.end - 1) :
                  \A k \in 1..Len(d.frags) : ~(d.frags[k][1] <= x /\ x < d.frags[k][2])

(* Whatever keeps arriving, no datagram stays in the queue: it is returned, *)
(* pushed out or timed out, again and again.                                *)
NoneStays == \A id \in Ids : []<>~IsQueued(reassdatagrams, id)
=============================================================================

----------------------------- MODULE LwipProofs -----------------------------
(***************************************************************************)
(* Proofs about the parts of lwIP in MCLwip, for every value of the        *)
(* constants: the ARP table and its queues (Etharp), the list of timers    *)
(* (Timeouts), the heap (LwipMem) and reassembly (IpReass), each with the  *)
(* inductive invariant that its property needs.                            *)
(***************************************************************************)
EXTENDS MCLwip, FiniteSetTheorems, SequenceTheorems, WellFoundedInduction, TLAPS

-----------------------------------------------------------------------------
(* Sets of numbers and of pairs. *)

(* A set of natural numbers has a least element. *)
LEMMA LeastNat ==
  ASSUME NEW S \in SUBSET Nat, S # {}
  PROVE  \E x \in S : \A y \in S : x <= y
<1> DEFINE R == OpToRel(<, Nat)
<1>1. PICK x \in S : \A y \in S : ~(<<y, x>> \in R)
  <2> HIDE DEF R
  <2>1. IsWellFoundedOn(R, Nat)
    BY NatLessThanWellFounded DEF R
  <2> QED
    BY <2>1, WFMin
<1>2. \A y \in S : ~(y < x)
  BY <1>1 DEF OpToRel
<1> QED
  BY <1>2

(* A bounded one that is not empty has a greatest. *)
LEMMA GreatestNat ==
  ASSUME NEW n \in Nat, NEW S \in SUBSET (0..n), S # {}
  PROVE  \E x \in S : \A y \in S : y <= x
<1> DEFINE T == {n - y : y \in S}
<1>0. \A y \in S : y \in 0..n /\ y \in Nat /\ n - y \in Nat
  OBVIOUS
<1>1. T \in SUBSET Nat /\ T # {}
  BY <1>0, Zenon
<1>2. PICK t \in T : \A y \in T : t <= y
  <2> HIDE DEF T
  <2> QED
    BY <1>1, LeastNat
<1>3. PICK x \in S : t = n - x
  OBVIOUS
<1>4. \A y \in S : n - x <= n - y
  BY <1>2, <1>3
<1>5. \A y \in S : y <= x
  <2> HIDE DEF T
  <2> QED
    BY <1>0, <1>4
<1> QED
  BY <1>5

(* The first f[i] pairs with each i of S. *)
Pairs(f, S) == UNION {{i} \X (1..f[i]) : i \in S}

(* A pair is an index of the set with a number up to its value. *)
LEMMA PairsOf ==
  ASSUME NEW f, NEW S, NEW p
  PROVE  p \in Pairs(f, S) <=> \E i \in S : \E k \in 1..f[i] : p = <<i, k>>
<1>1. ASSUME p \in Pairs(f, S) PROVE \E i \in S : \E k \in 1..f[i] : p = <<i, k>>
  <2>1. PICK i \in S : p \in {i} \X (1..f[i])
    BY <1>1 DEF Pairs
  <2> QED
    BY <2>1
<1>2. ASSUME NEW i \in S, NEW k \in 1..f[i], p = <<i, k>> PROVE p \in Pairs(f, S)
  <2>1. p \in {i} \X (1..f[i])
    BY <1>2
  <2> QED
    BY <2>1 DEF Pairs
<1> QED
  BY <1>1, <1>2

(* One index has as many pairs as its value. *)
LEMMA PairsOfOne ==
  ASSUME NEW f, NEW i, f[i] \in Nat
  PROVE  /\ IsFiniteSet(Pairs(f, {i}))
         /\ Cardinality(Pairs(f, {i})) = f[i]
<1> DEFINE T == {i} \X (1..f[i])
<1>1. Pairs(f, {i}) = T
  BY DEF Pairs
<1>2. IsFiniteSet({i}) /\ Cardinality({i}) = 1
  BY FS_Singleton
<1>3. IsFiniteSet(1..f[i]) /\ Cardinality(1..f[i]) = f[i]
  BY FS_Interval
<1>4. IsFiniteSet(T) /\ Cardinality(T) = Cardinality({i}) * Cardinality(1..f[i])
  BY <1>2, <1>3, FS_Product
<1>5. PICK n \in Nat : n = f[i]
  OBVIOUS
<1>6. 1 * n = n
  BY <1>5
<1> QED
  BY <1>1, <1>2, <1>3, <1>4, <1>5, <1>6

(* Finitely many indices have finitely many pairs. *)
LEMMA PairsFinite ==
  ASSUME NEW S, IsFiniteSet(S), NEW f, \A i \in S : f[i] \in Nat
  PROVE  IsFiniteSet(Pairs(f, S)) /\ Cardinality(Pairs(f, S)) \in Nat
<1> DEFINE g == [i \in S |-> {i} \X (1..f[i])]
           T == {{i} \X (1..f[i]) : i \in S}
<1>1. g \in Surjection(S, T)
  BY DEF Surjection
<1>2. IsFiniteSet(T)
  <2> HIDE DEF g, T
  <2> QED
    BY <1>1, FS_Surjection
<1>3. ASSUME NEW i \in S PROVE IsFiniteSet({i} \X (1..f[i]))
  <2>1. Pairs(f, {i}) = {i} \X (1..f[i])
    BY DEF Pairs
  <2> QED
    BY <2>1, PairsOfOne
<1>4. IsFiniteSet(UNION T)
  <2>1. \A t \in T : IsFiniteSet(t)
    BY <1>3
  <2> HIDE DEF T
  <2> QED
    BY <1>2, <2>1, FS_UNION
<1> QED
  BY <1>4, FS_CardinalityType DEF Pairs

(* Pairs are counted one part of the set at a time. *)
LEMMA PairsSplit ==
  ASSUME NEW S, IsFiniteSet(S), NEW T \in SUBSET S, NEW f, \A i \in S : f[i] \in Nat
  PROVE  /\ Cardinality(Pairs(f, S)) = Cardinality(Pairs(f, T)) + Cardinality(Pairs(f, S \ T))
         /\ Cardinality(Pairs(f, S)) \in Nat
         /\ Cardinality(Pairs(f, T)) \in Nat
         /\ Cardinality(Pairs(f, S \ T)) \in Nat
<1> DEFINE A == Pairs(f, T)
           B == Pairs(f, S \ T)
           C == Pairs(f, S)
<1>1. IsFiniteSet(T) /\ IsFiniteSet(S \ T)
  BY FS_Subset, FS_Difference
<1>2. IsFiniteSet(A) /\ IsFiniteSet(B) /\ IsFiniteSet(C)
  BY <1>1, PairsFinite
<1>3. A \cup B = C /\ A \cap B = {}
  <2>0. ASSUME NEW p
        PROVE  /\ p \in A <=> \E i \in T : \E k \in 1..f[i] : p = <<i, k>>
               /\ p \in B <=> \E i \in S \ T : \E k \in 1..f[i] : p = <<i, k>>
               /\ p \in C <=> \E i \in S : \E k \in 1..f[i] : p = <<i, k>>
    BY PairsOf
  <2>1. ASSUME NEW p PROVE p \in A \/ p \in B <=> p \in C
    <3> HIDE DEF A, B, C
    <3> QED
      BY <2>0, Zenon
  <2>2. ASSUME NEW p, p \in A, p \in B PROVE FALSE
    <3>1. PICK i \in T : \E k \in 1..f[i] : p = <<i, k>>
      BY <2>0, <2>2
    <3>2. PICK j \in S \ T : \E k \in 1..f[j] : p = <<j, k>>
      BY <2>0, <2>2
    <3>3. p[1] = i /\ p[1] = j
      BY <3>1, <3>2
    <3> QED
      BY <3>3
  <2> HIDE DEF A, B, C
  <2> QED
    BY <2>1, <2>2
<1> HIDE DEF A, B, C
<1>4. Cardinality(A \cup B) = Cardinality(A) + Cardinality(B) - Cardinality(A \cap B)
  BY <1>2, FS_Union
<1>5. Cardinality(A \cap B) = 0
  BY <1>3, FS_EmptySet
<1>6. Cardinality(A) \in Nat /\ Cardinality(B) \in Nat /\ Cardinality(C) \in Nat
  BY <1>2, FS_CardinalityType
<1>7. Cardinality(C) = Cardinality(A) + Cardinality(B)
  BY <1>3, <1>4, <1>5, <1>6
<1> QED
  BY <1>6, <1>7 DEF A, B, C

(* The numbers elsewhere do not matter. *)
LEMMA PairsSame ==
  ASSUME NEW S, NEW f, NEW g, \A i \in S : f[i] = g[i]
  PROVE  Pairs(f, S) = Pairs(g, S)
BY DEF Pairs

(* Two functions that agree on S but for i. *)
DifferAt(f, g, S, i) == \A j \in S : f[j] \in Nat /\ g[j] \in Nat /\ (j # i => f[j] = g[j])

(* When the number at one place changes, so does the count. *)
LEMMA PairsChange ==
  ASSUME NEW S, IsFiniteSet(S), NEW i \in S, NEW f, NEW g, DifferAt(f, g, S, i)
  PROVE  Cardinality(Pairs(g, S)) = Cardinality(Pairs(f, S)) - f[i] + g[i]
<1>0. \A j \in S : f[j] \in Nat /\ g[j] \in Nat /\ (j # i => f[j] = g[j])
  BY DEF DifferAt
<1>1. /\ Cardinality(Pairs(f, S)) = Cardinality(Pairs(f, {i})) + Cardinality(Pairs(f, S \ {i}))
      /\ Cardinality(Pairs(f, S \ {i})) \in Nat
  <2>1. {i} \in SUBSET S
    OBVIOUS
  <2> QED
    BY <1>0, <2>1, PairsSplit
<1>2. Cardinality(Pairs(g, S)) = Cardinality(Pairs(g, {i})) + Cardinality(Pairs(g, S \ {i}))
  <2>1. {i} \in SUBSET S
    OBVIOUS
  <2> QED
    BY <1>0, <2>1, PairsSplit
<1>3. Cardinality(Pairs(f, {i})) = f[i] /\ Cardinality(Pairs(g, {i})) = g[i]
  BY <1>0, PairsOfOne
<1>4. Pairs(f, S \ {i}) = Pairs(g, S \ {i})
  BY <1>0, PairsSame
<1> QED
  BY <1>0, <1>1, <1>2, <1>3, <1>4

(* A sequence has the type of its elements. *)
LEMMA Retyped ==
  ASSUME NEW X, NEW Y, NEW s \in Seq(X), \A k \in 1..Len(s) : s[k] \in Y
  PROVE  s \in Seq(Y)
<1>1. Len(s) \in Nat /\ s = [k \in 1..Len(s) |-> s[k]]
  BY LenProperties
<1>2. [k \in 1..Len(s) |-> s[k]] \in Seq(Y)
  BY <1>1, IsASeq
<1> QED
  BY <1>1, <1>2

-----------------------------------------------------------------------------
(* ARP: the inductive invariant. *)

ArpEntry ==
  [state : Arp!States, ip : Hosts \cup {"none"}, mac : Hosts \cup {"none"},
   ctime : 0..(ARP_MAXAGE - 1), q : Seq(Nat)]

(* An entry in use: it knows its host, only a pending one has packets that  *)
(* wait, and these come after the last one sent to the host, in order; n    *)
(* packets have been sent, l[h] is the last one that went to h.             *)
Kept(e, l, n) ==
  /\ e.ip \in Hosts
  /\ e.state \in Arp!AtLeastStable => e.mac = e.ip /\ e.q = <<>>
  /\ Len(e.q) <= ARP_QUEUE_LEN
  /\ \A k \in 1..Len(e.q) : e.q[k] > l[e.ip] /\ e.q[k] <= n
  /\ \A k \in 2..Len(e.q) : e.q[k - 1] < e.q[k]

TableOK(T, l, n) ==
  /\ T \in [Arp!Index -> ArpEntry]
  /\ \A i \in Arp!Index : IF T[i].state = "EMPTY" THEN T[i].q = <<>> ELSE Kept(T[i], l, n)
  /\ \A i, j \in Arp!Index :
       T[i].state # "EMPTY" /\ T[j].state # "EMPTY" /\ T[i].ip = T[j].ip => i = j

QueueLengths(T) == [i \in Arp!Index |-> Len(T[i].q)]

PoolCounts(T, free) ==
  free \in Nat /\ free + Cardinality(Pairs(QueueLengths(T), Arp!Index)) = MEMP_NUM_ARP_QUEUE

OnWire == [ip : Hosts, mac : Hosts \cup {"none"}, n : 1..MaxPackets]

ArpInv ==
  /\ TableOK(arp_table, last, packets)
  /\ PoolCounts(arp_table, pool)
  /\ etharp_cached_entry \in Arp!Index
  /\ packets \in 0..MaxPackets
  /\ last \in [Hosts -> 0..packets]
  /\ out \in Seq(OnWire)
  /\ \A k \in 1..Len(out) : out[k].mac = out[k].ip

(* What a step may send. *)
Leaves ==
  \A k \in DOMAIN out' :
    /\ out'[k].n > last[out'[k].ip]
    /\ k > 1 => out'[k].n > out'[k - 1].n

(* The constants' assumptions, as they are used below. *)
LEMMA ArpConstants ==
  /\ "none" \notin Hosts
  /\ ARP_TABLE_SIZE \in Nat /\ ARP_TABLE_SIZE > 0
  /\ ARP_QUEUE_LEN \in Nat /\ ARP_QUEUE_LEN > 0
  /\ MEMP_NUM_ARP_QUEUE \in Nat
  /\ ARP_MAXAGE \in Nat /\ ARP_MAXAGE > 0 /\ ARP_MAXPENDING \in Nat
  /\ MaxPackets \in Nat
<1>1. {ARP_TABLE_SIZE, ARP_QUEUE_LEN, MEMP_NUM_ARP_QUEUE, ARP_MAXPENDING,
       ARP_AGE_REREQUEST_USED_UNICAST} \subseteq Nat \ {0}
  BY LwipAssumption DEF Arp!EtharpAssumption
<1>2. ARP_MAXAGE \in Nat /\ ARP_AGE_REREQUEST_USED_BROADCAST
                              \in ARP_AGE_REREQUEST_USED_UNICAST..ARP_MAXAGE
  BY LwipAssumption DEF Arp!EtharpAssumption
<1> QED
  BY <1>1, <1>2, LwipAssumption DEF Arp!EtharpAssumption

(* The queues of the table are finite in number and length. *)
LEMMA IndexFinite ==
  /\ IsFiniteSet(Arp!Index)
  /\ Arp!Index \subseteq Nat
  /\ 1 \in Arp!Index
<1>1. IsFiniteSet(1..ARP_TABLE_SIZE)
  BY ArpConstants, FS_Interval
<1> QED
  BY <1>1, ArpConstants DEF Arp!Index

(* The least of some numbers. *)
LEMMA ArpMin ==
  ASSUME NEW S \in SUBSET Nat, S # {}
  PROVE  Arp!Min(S) \in S /\ \A y \in S : Arp!Min(S) <= y
<1>1. \E x \in S : \A y \in S : x <= y
  BY LeastNat
<1> QED
  BY <1>1 DEF Arp!Min

(* Among entries of the table there is a last of the oldest. *)
LEMMA ArpOldest ==
  ASSUME arp_table \in [Arp!Index -> ArpEntry], NEW S \in SUBSET Arp!Index, S # {}
  PROVE  Arp!Oldest(S) \in S
<1> DEFINE age(i) == arp_table[i].ctime
           A == {age(i) : i \in S}
<1>0. \A i \in S : age(i) \in 0..ARP_MAXAGE /\ i \in 0..ARP_TABLE_SIZE
  BY ArpConstants DEF ArpEntry, Arp!Index
<1>1. PICK a \in A : \A b \in A : b <= a
  <2>1. A \in SUBSET (0..ARP_MAXAGE) /\ A # {}
    BY <1>0
  <2> HIDE DEF A
  <2> QED
    BY <2>1, ArpConstants, GreatestNat
<1> DEFINE B == {i \in S : age(i) = a}
<1>2. PICK i \in B : \A j \in B : j <= i
  <2>1. B \in SUBSET (0..ARP_TABLE_SIZE) /\ B # {}
    BY <1>0, <1>1
  <2> HIDE DEF B
  <2> QED
    BY <2>1, ArpConstants, GreatestNat
<1>3. ASSUME NEW j \in S \ {i}
      PROVE  \/ arp_table[i].ctime > arp_table[j].ctime
             \/ arp_table[i].ctime = arp_table[j].ctime /\ i > j
  <2>1. age(i) = a /\ i \in S /\ j \in S /\ age(j) <= a
    BY <1>1, <1>2
  <2>2. age(j) = a => j <= i
    BY <1>2
  <2> HIDE DEF A, B
  <2> QED
    BY <1>0, <2>1, <2>2
<1>4. i \in S
  BY <1>2
<1> QED
  BY <1>3, <1>4 DEF Arp!Oldest

(* etharp_find_entry always finds a place, the host's own when it has one, *)
(* and no other entry is the host's.                                       *)
LEMMA SlotIs ==
  ASSUME ArpInv, NEW ip \in Hosts
  PROVE  /\ Arp!Slot(ip) \in Arp!Index
         /\ Arp!Match(ip) # {} => arp_table[Arp!Slot(ip)].state # "EMPTY"
                                  /\ arp_table[Arp!Slot(ip)].ip = ip
         /\ \A j \in Arp!Index :
              arp_table[j].state # "EMPTY" /\ arp_table[j].ip = ip => j = Arp!Slot(ip)
<1>0. arp_table \in [Arp!Index -> ArpEntry]
  BY DEF ArpInv, TableOK
<1>1. \A S : Arp!InState(S) \in SUBSET Arp!Index /\ Arp!InState(S) \in SUBSET Nat
  BY IndexFinite DEF Arp!InState
<1>2. CASE Arp!Match(ip) # {}
  <2>1. Arp!Slot(ip) = Arp!Min(Arp!Match(ip))
    BY <1>2 DEF Arp!Slot
  <2>2. Arp!Match(ip) \in SUBSET Nat
    BY <1>1 DEF Arp!Match
  <2>3. Arp!Slot(ip) \in Arp!Match(ip)
    BY <1>2, <2>1, <2>2, ArpMin
  <2>4. /\ Arp!Slot(ip) \in Arp!Index
        /\ arp_table[Arp!Slot(ip)].state # "EMPTY"
        /\ arp_table[Arp!Slot(ip)].ip = ip
    BY <2>3 DEF Arp!Match, Arp!InState
  <2> QED
    BY <2>4 DEF ArpInv, TableOK
<1>3. CASE Arp!Match(ip) = {} /\ Arp!InState({"EMPTY"}) # {}
  <2>1. Arp!Slot(ip) = Arp!Min(Arp!InState({"EMPTY"}))
    BY <1>3 DEF Arp!Slot
  <2>2. Arp!Slot(ip) \in Arp!InState({"EMPTY"})
    BY <1>1, <1>3, <2>1, ArpMin
  <2>3. Arp!Slot(ip) \in Arp!Index
    BY <1>1, <2>2
  <2>4. \A j \in Arp!Index : ~(arp_table[j].state # "EMPTY" /\ arp_table[j].ip = ip)
    BY <1>0, <1>3 DEF Arp!Match, Arp!InState, ArpEntry
  <2> QED
    BY <1>3, <2>3, <2>4
<1>4. CASE Arp!Match(ip) = {} /\ Arp!InState({"EMPTY"}) = {}
  <2> DEFINE stable == Arp!InState(Arp!AtLeastStable)
             idle == {i \in Arp!InState({"PENDING"}) : arp_table[i].q = <<>>}
             queued == Arp!InState({"PENDING"}) \ idle
             S == IF stable # {} THEN stable ELSE IF idle # {} THEN idle ELSE queued
  <2>1. Arp!Slot(ip) = Arp!Oldest(S)
    BY <1>4 DEF Arp!Slot, Arp!Recycled
  <2>2. S \in SUBSET Arp!Index
    BY <1>1
  <2>3. S # {}
    <3>1. arp_table[1].state \in Arp!States /\ 1 \in Arp!Index
      BY <1>0, IndexFinite DEF ArpEntry
    <3>2. arp_table[1].state # "EMPTY"
      BY <1>4, <3>1 DEF Arp!InState
    <3>3. 1 \in stable \/ 1 \in idle \/ 1 \in queued
      BY <3>1, <3>2 DEF Arp!InState, Arp!States, Arp!AtLeastStable
    <3> QED
      BY <3>3
  <2> HIDE DEF S
  <2>4. Arp!Slot(ip) \in Arp!Index
    BY <1>0, <2>1, <2>2, <2>3, ArpOldest
  <2>5. \A j \in Arp!Index : ~(arp_table[j].state # "EMPTY" /\ arp_table[j].ip = ip)
    BY <1>0, <1>4 DEF Arp!Match, Arp!InState, ArpEntry
  <2> QED
    BY <1>4, <2>4, <2>5
<1> QED
  BY <1>2, <1>3, <1>4

(* One entry is set, for a host that no other entry has. *)
LEMMA TableSet ==
  ASSUME NEW T, NEW l, NEW n \in Nat, TableOK(T, l, n),
         NEW i \in Arp!Index, NEW e \in ArpEntry, e.state # "EMPTY",
         NEW m, NEW p \in Nat, n <= p, Kept(e, m, p),
         \A h \in Hosts : h # e.ip => m[h] = l[h],
         \A j \in Arp!Index : T[j].state # "EMPTY" /\ T[j].ip = e.ip => j = i
  PROVE  TableOK([T EXCEPT ![i] = e], m, p)
<1> DEFINE U == [T EXCEPT ![i] = e]
<1>1. /\ U \in [Arp!Index -> ArpEntry]
      /\ U[i] = e /\ \A j \in Arp!Index : j # i => U[j] = T[j]
  BY DEF TableOK
<1>2. ASSUME NEW j \in Arp!Index, j # i, T[j].state # "EMPTY"
      PROVE  Kept(T[j], m, p)
  <2>1. Kept(T[j], l, n) /\ T[j] \in ArpEntry
    BY <1>2 DEF TableOK
  <2>2. T[j].ip # e.ip /\ T[j].ip \in Hosts
    BY <1>2, <2>1 DEF Kept
  <2>3. m[T[j].ip] = l[T[j].ip]
    BY <2>2
  <2>4. \A k \in 1..Len(T[j].q) : T[j].q[k] \in Nat
    BY <2>1 DEF ArpEntry
  <2> QED
    BY <2>1, <2>3, <2>4 DEF Kept
<1>3. \A j \in Arp!Index : IF U[j].state = "EMPTY" THEN U[j].q = <<>> ELSE Kept(U[j], m, p)
  <2> SUFFICES ASSUME NEW j \in Arp!Index
               PROVE  IF U[j].state = "EMPTY" THEN U[j].q = <<>> ELSE Kept(U[j], m, p)
    OBVIOUS
  <2> HIDE DEF U
  <2>1. CASE j = i
    BY <1>1, <2>1
  <2>2. CASE j # i
    BY <1>1, <1>2, <2>2 DEF TableOK
  <2> QED
    BY <2>1, <2>2
<1>4. \A j, k \in Arp!Index :
        U[j].state # "EMPTY" /\ U[k].state # "EMPTY" /\ U[j].ip = U[k].ip => j = k
  <2> HIDE DEF U
  <2> QED
    BY <1>1 DEF TableOK
<1> QED
  BY <1>1, <1>3, <1>4 DEF TableOK

(* What leaves one side of the balance arrives on the other. *)
LEMMA Balance ==
  ASSUME NEW a \in Int, NEW c \in Int, NEW x \in Int, NEW y \in Int
  PROVE  (c + x - y) + (a - x + y) = c + a
OBVIOUS

(* The pool gets what the entry had, less what it has now. *)
LEMMA PoolSet ==
  ASSUME NEW T \in [Arp!Index -> ArpEntry], NEW free, PoolCounts(T, free),
         NEW i \in Arp!Index, NEW e \in ArpEntry, NEW left \in Nat,
         left = free + Len(T[i].q) - Len(e.q)
  PROVE  PoolCounts([T EXCEPT ![i] = e], left)
<1> DEFINE U == [T EXCEPT ![i] = e]
           f == QueueLengths(T)
           g == QueueLengths(U)
<1>1. U[i] = e /\ \A j \in Arp!Index : j # i => U[j] = T[j]
  OBVIOUS
<1>2. \A j \in Arp!Index : T[j] \in ArpEntry /\ U[j] \in ArpEntry
  BY <1>1
<1>3. \A x \in ArpEntry : Len(x.q) \in Nat
  BY DEF ArpEntry
<1>4. \A j \in Arp!Index : f[j] \in Nat /\ g[j] \in Nat /\ (j # i => f[j] = g[j])
  <2> HIDE DEF U
  <2> QED
    BY <1>1, <1>2, <1>3 DEF QueueLengths
<1>5. f[i] = Len(T[i].q) /\ g[i] = Len(e.q)
  <2> HIDE DEF U
  <2> QED
    BY <1>1 DEF QueueLengths
<1> HIDE DEF f, g
<1>6. Cardinality(Pairs(g, Arp!Index)) = Cardinality(Pairs(f, Arp!Index)) - f[i] + g[i]
  <2>1. DifferAt(f, g, Arp!Index, i)
    BY <1>4 DEF DifferAt
  <2> QED
    BY <2>1, IndexFinite, PairsChange
<1>7. Cardinality(Pairs(f, Arp!Index)) \in Nat
  BY <1>4, IndexFinite, PairsFinite
<1>8. free \in Nat /\ free + Cardinality(Pairs(f, Arp!Index)) = MEMP_NUM_ARP_QUEUE
  BY DEF PoolCounts, f
<1>9. left + Cardinality(Pairs(g, Arp!Index)) = MEMP_NUM_ARP_QUEUE
  <2>1. PICK a \in Int : a = Cardinality(Pairs(f, Arp!Index))
    BY <1>7
  <2>2. PICK x \in Int : x = f[i]
    BY <1>4
  <2>3. PICK y \in Int : y = g[i]
    BY <1>4
  <2>5. PICK c \in Int : c = free
    BY <1>8
  <2>6. left = c + x - y /\ c + a = MEMP_NUM_ARP_QUEUE
    BY <1>5, <1>8, <2>1, <2>2, <2>3, <2>5
  <2>7. (c + x - y) + (a - x + y) = c + a
    BY Balance
  <2>8. Cardinality(Pairs(g, Arp!Index)) = a - x + y
    BY <1>6, <2>1, <2>2, <2>3
  <2> QED
    BY <2>6, <2>7, <2>8, Zenon
<1> QED
  BY <1>9 DEF PoolCounts, g

(* A queue whose packets are later than the n-th and up to m, in order. *)
Waits(q, n, m) ==
  /\ q \in Seq(Nat)
  /\ Len(q) <= ARP_QUEUE_LEN
  /\ \A k \in 1..Len(q) : q[k] > n /\ q[k] <= m
  /\ \A k \in 2..Len(q) : q[k - 1] < q[k]

(* An entry is kept right if what waits on it is, and none waits when it is stable. *)
LEMMA KeptIs ==
  ASSUME NEW e, NEW l, NEW n, e.ip \in Hosts, Waits(e.q, l[e.ip], n),
         e.state \in Arp!AtLeastStable => e.mac = e.ip /\ e.q = <<>>
  PROVE  Kept(e, l, n)
BY DEF Kept, Waits

(* What etharp_find_entry returns: the host's entry with what waits on it,  *)
(* or a new one; the queue of another host's entry has gone to the pool.    *)
LEMMA FoundIs ==
  ASSUME ArpInv, NEW ip \in Hosts
  PROVE  /\ Arp!Found(ip) \in ArpEntry
         /\ Arp!Found(ip).ip = ip
         /\ Waits(Arp!Found(ip).q, last[ip], packets)
         /\ Arp!PoolAfterFind(ip) \in Nat
         /\ Arp!PoolAfterFind(ip)
              = pool + Len(arp_table[Arp!Slot(ip)].q) - Len(Arp!Found(ip).q)
<1>1. PICK i \in Arp!Index : i = Arp!Slot(ip)
  BY SlotIs
<1>2. PICK x \in ArpEntry : x = arp_table[i]
  BY DEF ArpInv, TableOK
<1>3. x.q \in Seq(Nat) /\ Len(x.q) \in Nat /\ pool \in Nat
  BY DEF ArpEntry, ArpInv, PoolCounts
<1>4. CASE Arp!Match(ip) # {}
  <2>1. Arp!Found(ip) = x /\ Arp!PoolAfterFind(ip) = pool
    BY <1>1, <1>2, <1>4 DEF Arp!Found, Arp!PoolAfterFind
  <2>2. x.state # "EMPTY" /\ x.ip = ip
    BY <1>1, <1>2, <1>4, SlotIs
  <2>3. Kept(x, last, packets)
    BY <1>2, <2>2 DEF ArpInv, TableOK
  <2>4. Waits(x.q, last[ip], packets)
    BY <1>3, <2>2, <2>3 DEF Kept, Waits
  <2>5. pool = pool + Len(x.q) - Len(x.q)
    BY <1>3
  <2> QED
    BY <1>1, <1>2, <1>3, <2>1, <2>2, <2>4, <2>5
<1>5. CASE Arp!Match(ip) = {}
  <2>1. PICK e : e = [Arp!Blank EXCEPT !.ip = ip]
    OBVIOUS
  <2>2. e \in ArpEntry /\ e.ip = ip /\ e.q = <<>>
    <3>1. e = [state |-> "EMPTY", ip |-> ip, mac |-> "none", ctime |-> 0, q |-> <<>>]
      BY <2>1 DEF Arp!Blank
    <3>2. 0 \in 0..(ARP_MAXAGE - 1) /\ <<>> \in Seq(Nat) /\ "EMPTY" \in Arp!States
      BY ArpConstants DEF Arp!States
    <3> QED
      BY <3>1, <3>2 DEF ArpEntry
  <2>3. Arp!Found(ip) = e /\ Arp!PoolAfterFind(ip) = pool + Len(x.q)
    BY <1>1, <1>2, <1>5, <2>1 DEF Arp!Found, Arp!PoolAfterFind, Arp!Returned
  <2>4. Waits(<<>>, last[ip], packets)
    BY ArpConstants DEF Waits
  <2>5. Len(e.q) = 0 /\ pool + Len(x.q) \in Nat /\ pool + Len(x.q) = pool + Len(x.q) - 0
    BY <1>3, <2>2
  <2> QED
    BY <1>1, <1>2, <2>2, <2>3, <2>4, <2>5
<1> QED
  BY <1>4, <1>5

(* Packets in order, later than the host's last, on the wire to the host. *)
LEMMA Wired ==
  ASSUME ArpInv, NEW ip \in Hosts, NEW p \in Seq(1..MaxPackets), Arp!Wire(ip, ip, p),
         \A k \in 1..Len(p) : p[k] > last[ip],
         \A k \in 2..Len(p) : p[k - 1] < p[k]
  PROVE  /\ out' \in Seq(OnWire)
         /\ \A k \in 1..Len(out') : out'[k].mac = out'[k].ip
         /\ Leaves
         /\ last' = [last EXCEPT ![ip] = IF p = <<>> THEN last[ip] ELSE p[Len(p)]]
<1>1. out' = [k \in 1..Len(p) |-> [ip |-> ip, mac |-> ip, n |-> p[k]]]
  <2>1. DOMAIN p = 1..Len(p)
    OBVIOUS
  <2> QED
    BY <2>1 DEF Arp!Wire
<1>0. Len(p) \in Nat /\ \A k \in 1..Len(p) : p[k] \in 1..MaxPackets
  BY ElementOfSeq, LenProperties, Zenon
<1>2. /\ Len(p) \in Nat
      /\ \A k \in 1..Len(p) : [ip |-> ip, mac |-> ip, n |-> p[k]] \in OnWire
  BY <1>0 DEF OnWire
<1>3. out' \in Seq(OnWire) /\ Len(out') = Len(p) /\ DOMAIN out' = 1..Len(p)
  BY <1>1, <1>2, IsASeq
<1>4. \A k \in 1..Len(p) : out'[k].ip = ip /\ out'[k].mac = ip /\ out'[k].n = p[k]
  BY <1>1
<1>5. \A k \in 1..Len(p) : k > 1 => k \in 2..Len(p) /\ k - 1 \in 1..Len(p)
  BY <1>2
<1>6. \A k \in 1..Len(p) : p[k] \in Int
  BY <1>0, ArpConstants
<1>7. Leaves
  BY <1>3, <1>4, <1>5, <1>6 DEF Leaves
<1>8. last' = [last EXCEPT ![ip] = IF p = <<>> THEN last[ip] ELSE p[Len(p)]]
  BY DEF Arp!Wire, Arp!Last
<1> QED
  BY <1>3, <1>4, <1>7, <1>8

(* The invariant after a step that sets one entry, for the host ip. *)
LEMMA EntrySet ==
  ASSUME ArpInv, NEW ip \in Hosts, NEW i \in Arp!Index, NEW e \in ArpEntry,
         arp_table' = [arp_table EXCEPT ![i] = e], e.state # "EMPTY", e.ip = ip,
         \A j \in Arp!Index : arp_table[j].state # "EMPTY" /\ arp_table[j].ip = ip => j = i,
         e.state \in Arp!AtLeastStable => e.mac = ip /\ e.q = <<>>,
         packets' \in packets..MaxPackets,
         NEW r \in 0..packets', last' = [last EXCEPT ![ip] = r],
         Waits(e.q, r, packets'),
         pool' \in Nat, pool' = pool + Len(arp_table[i].q) - Len(e.q),
         etharp_cached_entry' \in Arp!Index,
         out' \in Seq(OnWire), \A k \in 1..Len(out') : out'[k].mac = out'[k].ip
  PROVE  ArpInv'
<1>0. packets \in Nat /\ packets' \in Nat /\ packets <= packets' /\ packets' \in 0..MaxPackets
  BY ArpConstants DEF ArpInv
<1>1. last' \in [Hosts -> 0..packets']
  BY <1>0 DEF ArpInv
<1>2. last'[ip] = r /\ \A h \in Hosts : h # ip => last'[h] = last[h]
  BY DEF ArpInv
<1>3. TableOK(arp_table', last', packets')
  <2>1. PICK l : l = last'
    OBVIOUS
  <2>2. PICK n \in Nat : n = packets'
    BY <1>0
  <2>3. Kept(e, l, n)
    <3>1. l[e.ip] = r /\ Waits(e.q, r, n)
      BY <1>2, <2>1, <2>2
    <3> QED
      BY <3>1, KeptIs
  <2>4. TableOK(arp_table, last, packets)
    BY DEF ArpInv
  <2>5. \A h \in Hosts : h # e.ip => l[h] = last[h]
    BY <1>2, <2>1
  <2>6. TableOK([arp_table EXCEPT ![i] = e], l, n)
    BY <1>0, <2>2, <2>3, <2>4, <2>5, TableSet
  <2> QED
    BY <2>1, <2>2, <2>6
<1>4. PoolCounts(arp_table', pool')
  <2>1. PICK free \in Nat : free = pool'
    OBVIOUS
  <2>2. PoolCounts([arp_table EXCEPT ![i] = e], free)
    <3>1. arp_table \in [Arp!Index -> ArpEntry] /\ PoolCounts(arp_table, pool)
      BY DEF ArpInv, TableOK
    <3> QED
      BY <2>1, <3>1, PoolSet
  <2> QED
    BY <2>1, <2>2
<1> QED
  BY <1>0, <1>1, <1>3, <1>4 DEF ArpInv, TableOK, PoolCounts, Kept, QueueLengths

(* The invariant after a step in which nothing changes but what is sent. *)
LEMMA ArpQuiet ==
  ASSUME ArpInv, UNCHANGED <<arp_table, etharp_cached_entry, pool, packets, last>>,
         out' = <<>> \/ out' = out
  PROVE  ArpInv'
<1>1. out' \in Seq(OnWire) /\ \A k \in 1..Len(out') : out'[k].mac = out'[k].ip
  <2>1. CASE out' = <<>>
    BY <2>1
  <2>2. CASE out' = out
    BY <2>2, Zenon DEF ArpInv
  <2> QED
    BY <2>1, <2>2
<1> QED
  BY <1>1 DEF ArpInv, TableOK, PoolCounts, Kept, QueueLengths

(* A step that sends nothing sends nothing out of order. *)
LEMMA QuietLeaves ==
  ASSUME out' = <<>>
  PROVE  Leaves
BY DEF Leaves

(* An ARP message: what waited for it leaves. *)
LEMMA InputInv ==
  ASSUME ArpInv, NEW ip \in Hosts, NEW for_us \in BOOLEAN, Arp!etharp_input(ip, for_us)
  PROVE  ArpInv' /\ Leaves
<1>1. CASE ~(for_us \/ Arp!Match(ip) # {})
  <2>1. /\ UNCHANGED <<arp_table, etharp_cached_entry, pool, packets, last>>
        /\ out' = <<>>
    BY <1>1 DEF Arp!etharp_input, Arp!Silent
  <2> QED
    BY <2>1, ArpQuiet, QuietLeaves
<1>2. CASE for_us \/ Arp!Match(ip) # {}
  <2>1. PICK i \in Arp!Index : i = Arp!Slot(ip)
    BY SlotIs
  <2>2. PICK x \in ArpEntry : x = Arp!Found(ip)
    BY FoundIs
  <2>3. PICK q \in Seq(Nat) : q = x.q
    BY DEF ArpEntry
  <2>4. PICK e : e = Arp!Updated(x, ip)
    OBVIOUS
  <2>5. e \in ArpEntry /\ e.state = "STABLE" /\ e.mac = ip /\ e.ip = ip /\ e.q = <<>>
    <3>1. x.ip = ip
      BY <2>2, FoundIs
    <3>2. /\ 0 \in 0..(ARP_MAXAGE - 1) /\ <<>> \in Seq(Nat)
          /\ "STABLE" \in Arp!States /\ ip \in Hosts \cup {"none"}
      BY ArpConstants DEF Arp!States
    <3>3. e = [state |-> "STABLE", ip |-> ip, mac |-> ip, ctime |-> 0, q |-> <<>>]
      BY <2>4, <3>1 DEF Arp!Updated, ArpEntry
    <3> QED
      BY <3>2, <3>3 DEF ArpEntry
  <2>6. /\ arp_table' = [arp_table EXCEPT ![i] = e]
        /\ pool' = Arp!PoolAfterFind(ip) + Len(q)
        /\ Arp!Wire(ip, ip, q)
        /\ UNCHANGED <<etharp_cached_entry, packets>>
    BY <1>2, <2>1, <2>2, <2>3, <2>4 DEF Arp!etharp_input, Arp!Queued
  <2>7. Waits(q, last[ip], packets) /\ packets \in 0..MaxPackets /\ last[ip] \in 0..packets
    BY <2>2, <2>3, FoundIs DEF ArpInv
  <2>8. q \in Seq(1..MaxPackets)
    <3>1. \A k \in 1..Len(q) : q[k] \in 1..MaxPackets
      BY <2>7, ArpConstants DEF Waits
    <3> QED
      BY <3>1, Retyped
  <2>9. /\ out' \in Seq(OnWire)
        /\ \A k \in 1..Len(out') : out'[k].mac = out'[k].ip
        /\ Leaves
        /\ last' = [last EXCEPT ![ip] = IF q = <<>> THEN last[ip] ELSE q[Len(q)]]
    BY <2>6, <2>7, <2>8, Wired DEF Waits
  <2>10. PICK r : r = IF q = <<>> THEN last[ip] ELSE q[Len(q)]
    OBVIOUS
  <2>11. r \in 0..packets' /\ packets' \in packets..MaxPackets
    <3>1. q # <<>> => Len(q) \in 1..Len(q)
      BY <2>3
    <3> QED
      BY <2>3, <2>6, <2>7, <2>10, <3>1, ArpConstants DEF Waits
  <2>12. Waits(e.q, r, packets')
    BY <2>5, ArpConstants DEF Waits
  <2>13. pool' \in Nat /\ pool' = pool + Len(arp_table[i].q) - Len(e.q)
    <3>1. PICK b \in Nat : b = Len(arp_table[i].q)
      BY DEF ArpInv, TableOK, ArpEntry
    <3>2. PICK c \in Nat : c = Len(q)
      BY <2>3
    <3>3. PICK d \in Nat : d = Arp!PoolAfterFind(ip)
      BY FoundIs
    <3>4. d = pool + b - c /\ pool' = d + c
      BY <2>1, <2>2, <2>3, <2>6, <3>1, <3>2, <3>3, FoundIs
    <3>5. PICK a \in Nat : a = pool
      BY DEF ArpInv, PoolCounts
    <3>6. pool' \in Nat /\ pool' = pool + b - 0
      BY <3>4, <3>5
    <3>7. Len(e.q) = 0
      BY <2>5
    <3> QED
      BY <3>1, <3>6, <3>7
  <2>14. \A j \in Arp!Index : arp_table[j].state # "EMPTY" /\ arp_table[j].ip = ip => j = i
    BY <2>1, SlotIs
  <2>15. e.state # "EMPTY" /\ (e.state \in Arp!AtLeastStable => e.mac = ip /\ e.q = <<>>)
    BY <2>5
  <2>16. etharp_cached_entry' \in Arp!Index
    BY <2>6 DEF ArpInv
  <2>17. last' = [last EXCEPT ![ip] = r]
    BY <2>9, <2>10
  <2>18. ArpInv'
    BY <2>5, <2>6, <2>9, <2>11, <2>12, <2>13, <2>14, <2>15, <2>16, <2>17, EntrySet
  <2> QED
    BY <2>9, <2>18
<1> QED
  BY <1>1, <1>2

(* A packet for a host whose address is known leaves at once. *)
LEMMA SendInv ==
  ASSUME ArpInv, NEW ip \in Hosts, NEW i \in Arp!Index,
         arp_table[i].state \in Arp!AtLeastStable, arp_table[i].ip = ip,
         packets < MaxPackets, packets' = packets + 1,
         Arp!etharp_output_to_arp_index(i, ip),
         etharp_cached_entry' \in Arp!Index, pool' = pool
  PROVE  ArpInv' /\ Leaves
<1>0. packets \in Nat /\ packets' \in packets..MaxPackets /\ packets + 1 \in 1..MaxPackets
  BY ArpConstants DEF ArpInv
<1>1. PICK x \in ArpEntry : x = arp_table[i]
  BY DEF ArpInv, TableOK
<1>2. x.state \in Arp!AtLeastStable /\ x.ip = ip /\ x.state # "EMPTY"
  BY <1>1 DEF Arp!AtLeastStable
<1>3. x.mac = ip /\ x.q = <<>>
  BY <1>1, <1>2 DEF ArpInv, TableOK, Kept
<1>4. \A j \in Arp!Index : arp_table[j].state # "EMPTY" /\ arp_table[j].ip = ip => j = i
  BY <1>1, <1>2 DEF ArpInv, TableOK
<1>5. PICK e \in ArpEntry : /\ arp_table' = [arp_table EXCEPT ![i] = e]
                            /\ e.state # "EMPTY" /\ e.ip = ip /\ e.mac = ip /\ e.q = <<>>
  <2>1. CASE UNCHANGED arp_table
    <3>1. arp_table' = [arp_table EXCEPT ![i] = x]
      BY <1>1, <2>1 DEF ArpInv, TableOK
    <3> QED
      BY <1>2, <1>3, <3>1
  <2>2. CASE arp_table' = [arp_table EXCEPT ![i].state = "REREQUESTING_1"]
    <3>1. PICK e : e = [x EXCEPT !.state = "REREQUESTING_1"]
      OBVIOUS
    <3>2. e \in ArpEntry /\ e.state = "REREQUESTING_1" /\ e.ip = x.ip /\ e.mac = x.mac /\ e.q = x.q
      BY <3>1 DEF ArpEntry, Arp!States
    <3>3. arp_table' = [arp_table EXCEPT ![i] = e]
      BY <1>1, <2>2, <3>1
    <3> QED
      BY <1>2, <1>3, <3>2, <3>3
  <2> QED
    BY <2>1, <2>2 DEF Arp!etharp_output_to_arp_index
<1>6. PICK p \in Seq(1..MaxPackets) : p = <<packets + 1>>
  <2>1. PICK n \in 1..MaxPackets : n = packets + 1
    BY <1>0
  <2>2. <<n>> \in Seq(1..MaxPackets)
    OBVIOUS
  <2> QED
    BY <2>1, <2>2
<1>7. Len(p) = 1 /\ p[1] = packets + 1 /\ p # <<>>
  BY <1>6
<1>8. Arp!Wire(ip, ip, p)
  BY <1>1, <1>3, <1>6 DEF Arp!etharp_output_to_arp_index
<1>9. last[ip] \in 0..packets
  BY DEF ArpInv
<1>10. /\ out' \in Seq(OnWire)
       /\ \A k \in 1..Len(out') : out'[k].mac = out'[k].ip
       /\ Leaves
       /\ last' = [last EXCEPT ![ip] = IF p = <<>> THEN last[ip] ELSE p[Len(p)]]
  <2>1. \A k \in 1..Len(p) : p[k] > last[ip]
    BY <1>0, <1>7, <1>9
  <2>2. \A k \in 2..Len(p) : p[k - 1] < p[k]
    BY <1>7
  <2> QED
    BY <1>8, <2>1, <2>2, Wired
<1>11. last' = [last EXCEPT ![ip] = packets'] /\ packets' \in 0..packets'
  <2>1. (IF p = <<>> THEN last[ip] ELSE p[Len(p)]) = packets'
    BY <1>7
  <2>2. last' = [last EXCEPT ![ip] = packets']
    BY <1>10, <2>1, Zenon
  <2>3. packets' \in 0..packets'
    BY <1>0
  <2> QED
    BY <2>2, <2>3
<1>12. Waits(e.q, packets', packets')
  BY <1>5, ArpConstants DEF Waits
<1>13. pool' \in Nat /\ pool' = pool + Len(arp_table[i].q) - Len(e.q)
  <2>1. Len(arp_table[i].q) = 0 /\ Len(e.q) = 0
    BY <1>1, <1>3, <1>5
  <2>2. pool \in Nat
    BY DEF ArpInv, PoolCounts
  <2> QED
    BY <2>1, <2>2
<1>14. ArpInv'
  BY <1>0, <1>4, <1>5, <1>10, <1>11, <1>12, <1>13, EntrySet
<1> QED
  BY <1>10, <1>14

DropsFirst(q, d) == d = IF Len(q) >= ARP_QUEUE_LEN THEN 1 ELSE 0

(* A packet joins a queue, which loses its first one when it is full. *)
LEMMA QueueGrows ==
  ASSUME NEW q, NEW n \in Nat, NEW m \in Nat, n <= m, Waits(q, n, m),
         NEW d \in 0..1, DropsFirst(q, d)
  PROVE  /\ Waits(SubSeq(Append(q, m + 1), 1 + d, Len(q) + 1), n, m + 1)
         /\ Len(SubSeq(Append(q, m + 1), 1 + d, Len(q) + 1)) = Len(q) + 1 - d
<1> DEFINE a == Append(q, m + 1)
           s == SubSeq(a, 1 + d, Len(q) + 1)
<1>0. /\ q \in Seq(Nat) /\ Len(q) \in Nat /\ d \in {0, 1} /\ (d = 1 => Len(q) >= 1)
      /\ m + 1 \in Nat /\ Len(q) + 1 - d <= ARP_QUEUE_LEN
      /\ \A k \in 1..Len(q) : q[k] \in Nat
  BY ArpConstants DEF Waits, DropsFirst
<1>1. a \in Seq(Nat) /\ Len(a) = Len(q) + 1 /\ a[Len(q) + 1] = m + 1
      /\ \A k \in 1..Len(q) : a[k] = q[k]
  BY <1>0, AppendProperties
<1>2. PICK l \in Nat : l = Len(q)
  BY <1>0
<1> HIDE DEF a
<1>3. /\ s \in Seq(Nat) /\ Len(s) = l + 1 - d
      /\ \A k \in 1..(l + 1 - d) : s[k] = a[k + d]
  <2>1. 1 + d \in 1..(Len(a) + 1) /\ l + 1 \in 0..Len(a)
    BY <1>0, <1>1, <1>2
  <2>2. s \in Seq(Nat) /\ Len(s) = IF 1 + d <= l + 1 THEN l + 1 - (1 + d) + 1 ELSE 0
    BY <1>1, <1>2, <2>1, SubSeqProperties
  <2>3. \A k \in 1..(l + 1 - (1 + d) + 1) : s[k] = a[1 + d + k - 1]
    BY <1>1, <1>2, <2>1, SubSeqProperties
  <2>4. \A k \in 1..(l + 1 - d) : k \in 1..(l + 1 - (1 + d) + 1) /\ 1 + d + k - 1 = k + d
    BY <1>0, <1>2
  <2>5. Len(s) = l + 1 - d
    <3> HIDE DEF s
    <3> QED
      BY <1>2, <2>2
  <2>6. \A k \in 1..(l + 1 - d) : s[k] = a[k + d]
    <3> HIDE DEF s
    <3> QED
      BY <2>3, <2>4
  <2> QED
    BY <2>2, <2>5, <2>6
<1>4. \A k \in 1..(l + 1) : a[k] > n /\ a[k] <= m + 1 /\ a[k] \in Nat
  <2> SUFFICES ASSUME NEW k \in 1..(l + 1)
               PROVE  a[k] > n /\ a[k] <= m + 1 /\ a[k] \in Nat
    OBVIOUS
  <2>1. CASE k = l + 1
    BY <1>1, <1>2, <2>1
  <2>2. CASE k \in 1..l
    BY <1>0, <1>1, <1>2, <2>2 DEF Waits
  <2> QED
    BY <2>1, <2>2
<1>5. \A k \in 2..(l + 1) : a[k - 1] < a[k]
  <2> SUFFICES ASSUME NEW k \in 2..(l + 1) PROVE a[k - 1] < a[k]
    OBVIOUS
  <2>1. CASE k = l + 1
    <3>1. k - 1 \in 1..l
      BY <2>1
    <3>2. a[k - 1] <= m
      BY <1>1, <1>2, <3>1 DEF Waits
    <3> QED
      BY <1>1, <1>2, <1>4, <2>1, <3>1, <3>2
  <2>2. CASE k \in 2..l
    <3>1. k \in 1..l /\ k - 1 \in 1..l
      BY <2>2
    <3>2. q[k - 1] < q[k]
      BY <1>2, <2>2 DEF Waits
    <3> QED
      BY <1>1, <1>2, <3>1, <3>2
  <2> QED
    BY <2>1, <2>2
<1> HIDE DEF s
<1>6. \A k \in 1..Len(s) : s[k] > n /\ s[k] <= m + 1
  <2> SUFFICES ASSUME NEW k \in 1..Len(s) PROVE s[k] > n /\ s[k] <= m + 1
    OBVIOUS
  <2>1. k \in 1..(l + 1 - d) /\ k + d \in 1..(l + 1)
    BY <1>3
  <2> QED
    BY <1>3, <1>4, <2>1
<1>7. \A k \in 2..Len(s) : s[k - 1] < s[k]
  <2> SUFFICES ASSUME NEW k \in 2..Len(s) PROVE s[k - 1] < s[k]
    OBVIOUS
  <2>1. k \in 1..(l + 1 - d) /\ k - 1 \in 1..(l + 1 - d) /\ k + d \in 2..(l + 1)
        /\ (k - 1) + d = (k + d) - 1
    BY <1>0, <1>3
  <2> QED
    BY <1>3, <1>5, <2>1
<1>8. Waits(s, n, m + 1) /\ Len(s) = Len(q) + 1 - d
  BY <1>0, <1>2, <1>3, <1>6, <1>7 DEF Waits
<1> QED
  BY <1>8 DEF s, a

(* A packet for a host whose address is not known waits, or is lost. *)
LEMMA QueryInv ==
  ASSUME ArpInv, NEW ip \in Hosts, Arp!Stable(ip) = {},
         packets < MaxPackets, packets' = packets + 1, Arp!etharp_query(ip)
  PROVE  ArpInv' /\ Leaves
<1>0. /\ packets \in Nat /\ packets' \in packets..MaxPackets /\ packets' \in Nat
      /\ last[ip] \in 0..packets /\ last[ip] \in 0..packets' /\ last[ip] \in Nat
      /\ last[ip] <= packets
  BY ArpConstants DEF ArpInv
<1>1. PICK i \in Arp!Index : i = Arp!Slot(ip)
  BY SlotIs
<1>2. PICK x \in ArpEntry : x = Arp!Found(ip)
  BY FoundIs
<1>3. PICK q \in Seq(Nat) : q = x.q
  BY DEF ArpEntry
<1>4. PICK e : e = [x EXCEPT !.state = "PENDING"]
  OBVIOUS
<1>5. e \in ArpEntry /\ e.state = "PENDING" /\ e.ip = ip /\ e.q = q
  <2>1. x.ip = ip
    BY <1>2, FoundIs
  <2> QED
    BY <1>3, <1>4, <2>1 DEF ArpEntry, Arp!States
<1>6. Waits(q, last[ip], packets)
  BY <1>2, <1>3, FoundIs
<1>7. PICK d \in 0..1 : d = Arp!Dropped(e)
  BY DEF Arp!Dropped
<1>8. DropsFirst(q, d)
  BY <1>5, <1>7 DEF DropsFirst, Arp!Dropped
<1>9. PICK w : w = SubSeq(Append(q, packets + 1), 1 + d, Len(q) + 1)
  OBVIOUS
<1>10. Waits(w, last[ip], packets') /\ Len(w) = Len(q) + 1 - d
  BY <1>0, <1>6, <1>8, <1>9, QueueGrows
<1>11. PICK g : g = [e EXCEPT !.q = w]
  OBVIOUS
<1>12. g \in ArpEntry /\ g.state = "PENDING" /\ g.ip = ip /\ g.q = w
  <2>1. w \in Seq(Nat)
    BY <1>10 DEF Waits
  <2> QED
    BY <1>5, <1>11, <2>1 DEF ArpEntry
<1>13. PICK free \in Nat : free = Arp!PoolAfterFind(ip)
  BY FoundIs
<1>14. /\ \/ /\ free > 0
             /\ arp_table' = [arp_table EXCEPT ![i] = g]
             /\ pool' = free - 1 + d
          \/ arp_table' = [arp_table EXCEPT ![i] = e] /\ pool' = free
       /\ out' = <<>> /\ last' = last /\ etharp_cached_entry' = etharp_cached_entry
  <2>1. Arp!Dropped([Arp!Found(ip) EXCEPT !.state = "PENDING"]) = d
    BY <1>2, <1>4, <1>7
  <2>2. [e EXCEPT !.q = SubSeq(Append(@, packets + 1), 1 + d, Len(@) + 1)] = g
    BY <1>5, <1>9, <1>11
  <2> QED
    BY <1>1, <1>2, <1>4, <1>13, <2>1, <2>2 DEF Arp!etharp_query, Arp!Silent
<1>15. /\ out' \in Seq(OnWire) /\ \A k \in 1..Len(out') : out'[k].mac = out'[k].ip
       /\ etharp_cached_entry' \in Arp!Index
  <2>1. <<>> \in Seq(OnWire) /\ \A k \in 1..Len(<<>>) : FALSE
    OBVIOUS
  <2> QED
    BY <1>14, <2>1 DEF ArpInv
<1>16. last' = [last EXCEPT ![ip] = last[ip]]
  BY <1>14 DEF ArpInv
<1>17. \A j \in Arp!Index : arp_table[j].state # "EMPTY" /\ arp_table[j].ip = ip => j = i
  BY <1>1, SlotIs
<1>18. "PENDING" \notin Arp!AtLeastStable
  BY DEF Arp!AtLeastStable
<1>19. PICK b \in Nat : b = Len(arp_table[i].q)
  BY DEF ArpInv, TableOK, ArpEntry
<1>20. PICK a \in Nat : a = pool
  BY DEF ArpInv, PoolCounts
<1>21. PICK c \in Nat : c = Len(q)
  BY <1>3
<1>22. free = a + b - c
  BY <1>1, <1>2, <1>3, <1>13, <1>19, <1>20, <1>21, FoundIs
<1>23. packets' \in packets..MaxPackets
  BY <1>0
<1>24. last[ip] \in 0..packets'
  BY <1>0
<1>25. Leaves
  BY <1>14, QuietLeaves
<1>26. CASE free > 0 /\ arp_table' = [arp_table EXCEPT ![i] = g] /\ pool' = free - 1 + d
  <2>1. pool' \in Nat /\ pool' = a + b - (c + 1 - d)
    BY <1>22, <1>26
  <2>2. pool' \in Nat /\ pool' = pool + Len(arp_table[i].q) - Len(g.q)
    BY <1>10, <1>12, <1>19, <1>20, <1>21, <2>1
  <2>3. Waits(g.q, last[ip], packets')
    BY <1>10, <1>12
  <2>4. g.state # "EMPTY" /\ (g.state \in Arp!AtLeastStable => g.mac = ip /\ g.q = <<>>)
    BY <1>12, <1>18
  <2>5. arp_table' = [arp_table EXCEPT ![i] = g]
    BY <1>26
  <2>6. ArpInv'
    BY <1>12, <1>23, <1>24, <1>15, <1>16, <1>17, <2>2, <2>3, <2>4, <2>5, EntrySet
  <2> QED
    BY <1>25, <2>6
<1>27. CASE arp_table' = [arp_table EXCEPT ![i] = e] /\ pool' = free
  <2>1. pool' \in Nat /\ pool' = pool + Len(arp_table[i].q) - Len(e.q)
    BY <1>5, <1>19, <1>20, <1>21, <1>22, <1>27
  <2>2. Waits(e.q, last[ip], packets')
    <3>1. \A k \in 1..Len(q) : q[k] \in Nat
      OBVIOUS
    <3> QED
      BY <1>0, <1>5, <1>6, <3>1 DEF Waits
  <2>4. e.state # "EMPTY" /\ (e.state \in Arp!AtLeastStable => e.mac = ip /\ e.q = <<>>)
    BY <1>5, <1>18
  <2>5. arp_table' = [arp_table EXCEPT ![i] = e]
    BY <1>27
  <2>6. ArpInv'
    BY <1>5, <1>23, <1>24, <1>15, <1>16, <1>17, <2>1, <2>2, <2>4, <2>5, EntrySet
  <2> QED
    BY <1>25, <2>6
<1> QED
  BY <1>14, <1>26, <1>27

(* etharp_output, whether or not the entry used last is the host's. *)
LEMMA OutputInv ==
  ASSUME ArpInv, NEW ip \in Hosts, Arp!etharp_output(ip)
  PROVE  ArpInv' /\ Leaves
<1>0. packets < MaxPackets /\ packets' = packets + 1
  BY DEF Arp!etharp_output
<1>1. CASE /\ Arp!HintHits(ip)
           /\ Arp!etharp_output_to_arp_index(etharp_cached_entry, ip)
           /\ UNCHANGED <<etharp_cached_entry, pool>>
  <2>1. PICK i \in Arp!Index : i = etharp_cached_entry
    BY DEF ArpInv
  <2>2. /\ arp_table[i].state \in Arp!AtLeastStable /\ arp_table[i].ip = ip
        /\ Arp!etharp_output_to_arp_index(i, ip)
        /\ etharp_cached_entry' \in Arp!Index /\ pool' = pool
    BY <1>1, <2>1 DEF Arp!HintHits
  <2> QED
    BY <1>0, <2>2, SendInv
<1>2. CASE /\ Arp!Stable(ip) # {}
           /\ etharp_cached_entry' = Arp!Min(Arp!Stable(ip))
           /\ Arp!etharp_output_to_arp_index(Arp!Min(Arp!Stable(ip)), ip)
           /\ UNCHANGED pool
  <2>1. Arp!Stable(ip) \in SUBSET Nat
    BY IndexFinite DEF Arp!Stable, Arp!InState
  <2>2. PICK i : i = Arp!Min(Arp!Stable(ip))
    OBVIOUS
  <2>3. i \in Arp!Stable(ip)
    BY <1>2, <2>1, <2>2, ArpMin
  <2>4. i \in Arp!Index /\ arp_table[i].state \in Arp!AtLeastStable /\ arp_table[i].ip = ip
    BY <2>3 DEF Arp!Stable, Arp!InState
  <2>5. /\ Arp!etharp_output_to_arp_index(i, ip)
        /\ etharp_cached_entry' \in Arp!Index /\ pool' = pool
    BY <1>2, <2>2, <2>4
  <2> QED
    BY <1>0, <2>4, <2>5, SendInv
<1>3. CASE Arp!Stable(ip) = {} /\ Arp!etharp_query(ip)
  BY <1>0, <1>3, QueryInv
<1> QED
  BY <1>1, <1>2, <1>3 DEF Arp!etharp_output

(* An entry that is not given up stays what it is, a tick older. *)
LEMMA AgedIs ==
  ASSUME NEW x \in ArpEntry
  PROVE  /\ Arp!Aged(x) \in ArpEntry
         /\ x.state = "EMPTY" => Arp!Aged(x) = x
         /\ x.state # "EMPTY" /\ Arp!Old(x) => Arp!Aged(x) = Arp!Blank
         /\ x.state # "EMPTY" /\ ~Arp!Old(x) =>
              /\ Arp!Aged(x).ip = x.ip /\ Arp!Aged(x).mac = x.mac /\ Arp!Aged(x).q = x.q
              /\ Arp!Aged(x).state # "EMPTY"
              /\ Arp!Aged(x).state \in Arp!AtLeastStable => x.state \in Arp!AtLeastStable
<1>1. CASE x.state = "EMPTY"
  BY <1>1 DEF Arp!Aged
<1>2. CASE x.state # "EMPTY" /\ Arp!Old(x)
  <2>1. Arp!Aged(x) = Arp!Blank
    BY <1>2 DEF Arp!Aged
  <2>2. Arp!Blank \in ArpEntry
    BY ArpConstants DEF Arp!Blank, ArpEntry, Arp!States
  <2> QED
    BY <1>2, <2>1, <2>2
<1>3. CASE x.state # "EMPTY" /\ ~Arp!Old(x)
  <2>1. PICK s : s = CASE x.state = "REREQUESTING_1" -> "REREQUESTING_2"
                       [] x.state = "REREQUESTING_2" -> "STABLE"
                       [] OTHER -> x.state
    OBVIOUS
  <2>2. /\ s \in Arp!States /\ s # "EMPTY"
        /\ s \in Arp!AtLeastStable => x.state \in Arp!AtLeastStable
    <3>1. x.state \in {"PENDING", "STABLE", "REREQUESTING_1", "REREQUESTING_2"}
      BY <1>3 DEF ArpEntry, Arp!States
    <3>2. CASE x.state = "REREQUESTING_1"
      BY <2>1, <3>2 DEF Arp!States, Arp!AtLeastStable
    <3>3. CASE x.state = "REREQUESTING_2"
      BY <2>1, <3>3 DEF Arp!States, Arp!AtLeastStable
    <3>4. CASE x.state \in {"PENDING", "STABLE"}
      BY <2>1, <3>4 DEF Arp!States, Arp!AtLeastStable
    <3> QED
      BY <3>1, <3>2, <3>3, <3>4
  <2>3. x.ctime + 1 \in 0..(ARP_MAXAGE - 1)
    BY <1>3, ArpConstants DEF Arp!Old, ArpEntry
  <2>4. PICK c \in 0..(ARP_MAXAGE - 1) : c = x.ctime + 1
    BY <2>3
  <2>5. Arp!Aged(x) = [x EXCEPT !.ctime = c, !.state = s]
    BY <1>3, <2>1, <2>4 DEF Arp!Aged
  <2>6. PICK y : y = [x EXCEPT !.ctime = c, !.state = s]
    OBVIOUS
  <2>7. y \in ArpEntry /\ y.ip = x.ip /\ y.mac = x.mac /\ y.q = x.q /\ y.state = s
    BY <2>2, <2>6 DEF ArpEntry
  <2> QED
    BY <1>3, <2>2, <2>5, <2>6, <2>7
<1> QED
  BY <1>1, <1>2, <1>3

(* etharp_tmr: the table that has grown older. *)
LEMMA AgedTable ==
  ASSUME NEW T, NEW l, NEW n, TableOK(T, l, n)
  PROVE  TableOK([i \in Arp!Index |-> Arp!Aged(T[i])], l, n)
<1> DEFINE U == [i \in Arp!Index |-> Arp!Aged(T[i])]
<1>1. \A i \in Arp!Index : T[i] \in ArpEntry
  BY DEF TableOK
<1>2. U \in [Arp!Index -> ArpEntry]
  BY <1>1, AgedIs
<1>3. \A i \in Arp!Index : U[i] = Arp!Aged(T[i])
  OBVIOUS
<1> HIDE DEF U
<1>4. \A i \in Arp!Index : IF U[i].state = "EMPTY" THEN U[i].q = <<>> ELSE Kept(U[i], l, n)
  <2> SUFFICES ASSUME NEW i \in Arp!Index
               PROVE  IF U[i].state = "EMPTY" THEN U[i].q = <<>> ELSE Kept(U[i], l, n)
    OBVIOUS
  <2>0. PICK x \in ArpEntry : x = T[i]
    BY <1>1
  <2>00. PICK y \in ArpEntry : y = Arp!Aged(x)
    BY <2>0, AgedIs
  <2>000. U[i] = y
    BY <1>3, <2>0, <2>00
  <2>1. CASE x.state = "EMPTY"
    BY <2>0, <2>00, <2>000, <2>1, AgedIs DEF TableOK
  <2>2. CASE x.state # "EMPTY" /\ Arp!Old(x)
    <3>1. y = Arp!Blank
      BY <2>00, <2>2, AgedIs
    <3> QED
      BY <2>000, <3>1 DEF Arp!Blank
  <2>3. CASE x.state # "EMPTY" /\ ~Arp!Old(x)
    <3>1. Kept(x, l, n)
      BY <2>0, <2>3 DEF TableOK
    <3>2. /\ y.ip = x.ip /\ y.mac = x.mac /\ y.q = x.q /\ y.state # "EMPTY"
          /\ y.state \in Arp!AtLeastStable => x.state \in Arp!AtLeastStable
      BY <2>00, <2>3, AgedIs
    <3>3. Kept(y, l, n)
      BY <3>1, <3>2 DEF Kept
    <3> QED
      BY <2>000, <3>2, <3>3
  <2> QED
    BY <2>1, <2>2, <2>3
<1>5. \A i \in Arp!Index : U[i].state # "EMPTY" => T[i].state # "EMPTY" /\ U[i].ip = T[i].ip
  <2> SUFFICES ASSUME NEW i \in Arp!Index, U[i].state # "EMPTY"
               PROVE  T[i].state # "EMPTY" /\ U[i].ip = T[i].ip
    OBVIOUS
  <2>1. PICK x \in ArpEntry : x = T[i] /\ U[i] = Arp!Aged(x)
    BY <1>1, <1>3
  <2>2. Arp!Aged(x) # Arp!Blank
    BY <2>1 DEF Arp!Blank
  <2> QED
    BY <2>1, <2>2, AgedIs
<1>6. \A i, j \in Arp!Index :
        U[i].state # "EMPTY" /\ U[j].state # "EMPTY" /\ U[i].ip = U[j].ip => i = j
  BY <1>5 DEF TableOK
<1>7. TableOK(U, l, n)
  BY <1>2, <1>4, <1>6 DEF TableOK
<1> QED
  BY <1>7 DEF U

(* What the entries that are given up had goes back to the pool. *)
LEMMA TimerPool ==
  ASSUME ArpInv, Arp!etharp_tmr
  PROVE  PoolCounts(arp_table', pool')
<1> DEFINE f == QueueLengths(arp_table)
           g == QueueLengths(arp_table')
           X == Arp!Expired
<1>1. \A i \in Arp!Index : /\ arp_table[i] \in ArpEntry
                           /\ arp_table'[i] = Arp!Aged(arp_table[i])
                           /\ arp_table[i].state = "EMPTY" => arp_table[i].q = <<>>
  BY DEF ArpInv, TableOK, Arp!etharp_tmr
<1>2. \A i \in Arp!Index : f[i] = Len(arp_table[i].q) /\ g[i] = Len(arp_table'[i].q)
  BY DEF QueueLengths
<1>3. X \in SUBSET Arp!Index
  BY DEF Arp!Expired, Arp!InState
<1>4. \A i \in Arp!Index : i \in X <=> arp_table[i].state # "EMPTY" /\ Arp!Old(arp_table[i])
  <2>1. \A i \in Arp!Index : arp_table[i].state \in Arp!States
    BY <1>1 DEF ArpEntry
  <2> QED
    BY <2>1 DEF Arp!Expired, Arp!InState
<1>5. Arp!Elements(X) = Pairs(f, X)
  <2>1. \A i \in X : Arp!Returned(i) = f[i]
    BY <1>2, <1>3 DEF Arp!Returned
  <2>2. {{i} \X (1..Arp!Returned(i)) : i \in X} = {{i} \X (1..f[i]) : i \in X}
    BY <2>1
  <2> QED
    BY <2>2 DEF Arp!Elements, Pairs
<1>6. pool' = pool + Cardinality(Pairs(f, X))
  <2>1. \A S : Arp!Cardinality(S) = Cardinality(S)
    BY DEF Arp!Cardinality, Cardinality
  <2> QED
    BY <1>5, <2>1 DEF Arp!etharp_tmr
<1>7. \A i \in X : g[i] = 0
  <2> SUFFICES ASSUME NEW i \in X PROVE g[i] = 0
    OBVIOUS
  <2>1. arp_table'[i] = Arp!Blank
    BY <1>1, <1>3, <1>4, AgedIs
  <2> QED
    BY <1>2, <1>3, <2>1 DEF Arp!Blank
<1>8. \A i \in Arp!Index \ X : g[i] = f[i]
  <2> SUFFICES ASSUME NEW i \in Arp!Index \ X PROVE arp_table'[i].q = arp_table[i].q
    BY <1>2
  <2>1. arp_table[i].state = "EMPTY" \/ ~Arp!Old(arp_table[i])
    BY <1>4
  <2> QED
    BY <1>1, <2>1, AgedIs
<1>9. \A i \in Arp!Index : f[i] \in Nat
  BY <1>1, <1>2 DEF ArpEntry
<1>10. \A i \in Arp!Index : g[i] \in Nat
  BY <1>7, <1>8, <1>9
<1> HIDE DEF f, g, X
<1>11. /\ Cardinality(Pairs(f, Arp!Index)) = Cardinality(Pairs(f, X)) + Cardinality(Pairs(f, Arp!Index \ X))
       /\ Cardinality(Pairs(f, X)) \in Nat
       /\ Cardinality(Pairs(f, Arp!Index \ X)) \in Nat
  BY <1>3, <1>9, IndexFinite, PairsSplit
<1>12. Cardinality(Pairs(g, Arp!Index)) = Cardinality(Pairs(g, X)) + Cardinality(Pairs(g, Arp!Index \ X))
  BY <1>3, <1>10, IndexFinite, PairsSplit
<1>13. Pairs(g, Arp!Index \ X) = Pairs(f, Arp!Index \ X)
  BY <1>8, PairsSame
<1>14. Pairs(g, X) = {}
  <2>1. \A i \in X : 1..g[i] = {}
    BY <1>7
  <2>2. \A p : p \notin Pairs(g, X)
    BY <2>1, PairsOf
  <2> QED
    BY <2>2
<1>15. Cardinality(Pairs(g, X)) = 0
  BY <1>14, FS_EmptySet
<1>16. pool \in Nat /\ pool + Cardinality(Pairs(f, Arp!Index)) = MEMP_NUM_ARP_QUEUE
  BY DEF ArpInv, PoolCounts, f
<1>17. pool' \in Nat /\ pool' + Cardinality(Pairs(g, Arp!Index)) = MEMP_NUM_ARP_QUEUE
  BY <1>6, <1>11, <1>12, <1>13, <1>15, <1>16
<1> QED
  BY <1>17 DEF PoolCounts, g

(* etharp_tmr: the entries that expire give their queues back to the pool. *)
LEMMA AgeInv ==
  ASSUME ArpInv, Arp!etharp_tmr
  PROVE  ArpInv' /\ Leaves
<1>1. /\ arp_table' = [i \in Arp!Index |-> Arp!Aged(arp_table[i])]
      /\ out' = <<>> /\ UNCHANGED <<last, etharp_cached_entry, packets>>
  BY DEF Arp!etharp_tmr, Arp!Silent
<1>2. TableOK(arp_table', last', packets')
  BY <1>1, AgedTable DEF ArpInv
<1>3. out' \in Seq(OnWire) /\ \A k \in 1..Len(out') : out'[k].mac = out'[k].ip
  <2>1. <<>> \in Seq(OnWire) /\ \A k \in 1..Len(<<>>) : FALSE
    OBVIOUS
  <2> QED
    BY <1>1, <2>1
<1>4. PoolCounts(arp_table', pool')
  BY TimerPool
<1>5. ArpInv'
  BY <1>1, <1>2, <1>3, <1>4 DEF ArpInv
<1> QED
  BY <1>1, <1>5, QuietLeaves

(* The empty table satisfies the invariant. *)
LEMMA ArpInitInv ==
  ASSUME Arp!Init
  PROVE  ArpInv
<1>1. Arp!Blank \in ArpEntry /\ Arp!Blank.state = "EMPTY" /\ Arp!Blank.q = <<>>
  BY ArpConstants DEF Arp!Blank, ArpEntry, Arp!States
<1>2. \A i \in Arp!Index : arp_table[i] = Arp!Blank
  BY DEF Arp!Init
<1>3. TableOK(arp_table, last, packets)
  BY <1>1, <1>2 DEF Arp!Init, TableOK
<1>4. PoolCounts(arp_table, pool)
  <2> DEFINE f == QueueLengths(arp_table)
  <2>1. \A i \in Arp!Index : f[i] = 0
    BY <1>1, <1>2 DEF QueueLengths
  <2> HIDE DEF f
  <2>2. \A i \in Arp!Index : 1..f[i] = {}
    BY <2>1
  <2>3. Pairs(f, Arp!Index) = {}
    BY <2>2, PairsOf
  <2>4. Cardinality(Pairs(f, Arp!Index)) = 0
    BY <2>3, FS_EmptySet
  <2> QED
    BY <2>4, ArpConstants DEF PoolCounts, f, Arp!Init
<1>5. etharp_cached_entry \in Arp!Index /\ packets \in 0..MaxPackets /\ last \in [Hosts -> 0..packets]
  BY IndexFinite, ArpConstants DEF Arp!Init
<1>6. out \in Seq(OnWire) /\ \A k \in 1..Len(out) : out[k].mac = out[k].ip
  <2>1. <<>> \in Seq(OnWire) /\ \A k \in 1..Len(<<>>) : FALSE
    OBVIOUS
  <2> QED
    BY <2>1 DEF Arp!Init
<1> QED
  BY <1>3, <1>4, <1>5, <1>6 DEF ArpInv

(* A step of any part of lwIP keeps the invariant, and sends in order. *)
LEMMA ArpStep ==
  ASSUME ArpInv, [MCNext]_all
  PROVE  ArpInv' /\ (Leaves \/ UNCHANGED arp)
<1>1. CASE Arp!Next
  BY <1>1, AgeInv, OutputInv, InputInv DEF Arp!Next
<1>2. CASE UNCHANGED arp
  <2>1. UNCHANGED <<arp_table, etharp_cached_entry, pool, packets, last>> /\ out' = out
    BY <1>2 DEF arp
  <2> QED
    BY <1>2, <2>1, ArpQuiet
<1>3. Arp!Next \/ UNCHANGED arp
  BY DEF MCNext, InArp, InReass, InTimers, InMem, all
<1> QED
  BY <1>1, <1>2, <1>3

(* The invariant says what ArpSound says, and more. *)
LEMMA ArpInvSound ==
  ASSUME ArpInv
  PROVE  ArpSound
<1>1. \A i \in Arp!Index : arp_table[i] \in ArpEntry
  BY DEF ArpInv, TableOK
<1>2. packets \in Nat /\ packets <= MaxPackets
  BY ArpConstants DEF ArpInv
<1>3. \A i \in Arp!Index : /\ Len(arp_table[i].q) <= ARP_QUEUE_LEN
                           /\ \A k \in 1..Len(arp_table[i].q) : arp_table[i].q[k] \in 1..packets
  <2> SUFFICES ASSUME NEW i \in Arp!Index
               PROVE  /\ Len(arp_table[i].q) <= ARP_QUEUE_LEN
                      /\ \A k \in 1..Len(arp_table[i].q) : arp_table[i].q[k] \in 1..packets
    OBVIOUS
  <2>1. PICK x \in ArpEntry : x = arp_table[i]
    BY <1>1
  <2>2. CASE x.state = "EMPTY"
    <3>1. x.q = <<>>
      BY <2>1, <2>2 DEF ArpInv, TableOK
    <3> QED
      BY <2>1, <3>1, ArpConstants
  <2>3. CASE x.state # "EMPTY"
    <3>1. Kept(x, last, packets)
      BY <2>1, <2>3 DEF ArpInv, TableOK
    <3>2. PICK z \in Nat : z = last[x.ip]
      BY <3>1 DEF ArpInv, Kept
    <3>3. PICK q \in Seq(Nat) : q = x.q
      BY DEF ArpEntry
    <3>4. Len(q) <= ARP_QUEUE_LEN /\ \A k \in 1..Len(q) : q[k] > z /\ q[k] <= packets
      BY <3>1, <3>2, <3>3 DEF Kept
    <3>5. \A k \in 1..Len(q) : q[k] \in 1..packets
      BY <1>2, <3>4
    <3> QED
      BY <2>1, <3>3, <3>4, <3>5
  <2> QED
    BY <2>2, <2>3
<1>4. Arp!TypeOK
  <2>1. \A i \in Arp!Index : DOMAIN arp_table[i].q = 1..Len(arp_table[i].q)
    BY <1>1 DEF ArpEntry
  <2>2. \A i \in Arp!Index :
       /\ arp_table[i].state \in Arp!States
       /\ arp_table[i].ip \in Hosts \cup {"none"}
       /\ arp_table[i].mac \in Hosts \cup {"none"}
       /\ arp_table[i].ctime \in 0..(ARP_MAXAGE - 1)
    BY <1>1 DEF ArpEntry
  <2>3. pool \in 0..MEMP_NUM_ARP_QUEUE
    <3>1. Cardinality(Pairs(QueueLengths(arp_table), Arp!Index)) \in Nat
      <4>1. \A i \in Arp!Index : QueueLengths(arp_table)[i] \in Nat
        BY <1>1 DEF QueueLengths, ArpEntry
      <4> QED
        BY <4>1, IndexFinite, PairsFinite
    <3> QED
      BY <3>1, ArpConstants DEF ArpInv, PoolCounts
  <2>4. out \in Seq([ip : Hosts, mac : Hosts \cup {"none"}, n : 1..MaxPackets])
    BY DEF ArpInv, OnWire
  <2>5. etharp_cached_entry \in Arp!Index /\ packets \in 0..MaxPackets /\ last \in [Hosts -> 0..packets]
    BY DEF ArpInv
  <2> QED
    BY <1>3, <2>1, <2>2, <2>3, <2>4, <2>5 DEF Arp!TypeOK
<1>5. Arp!SentToOwner
  <2>1. DOMAIN out = 1..Len(out)
    BY DEF ArpInv
  <2> QED
    BY <2>1 DEF ArpInv, Arp!SentToOwner
<1>6. Arp!OneEntryEach
  BY DEF ArpInv, TableOK, Kept, Arp!OneEntryEach, Arp!InState
<1>7. Arp!PoolExact
  <2>1. \A S : Arp!Cardinality(S) = Cardinality(S)
    BY DEF Arp!Cardinality, Cardinality
  <2>2. {{i} \X (1..Len(arp_table[i].q)) : i \in Arp!Index}
          = {{i} \X (1..QueueLengths(arp_table)[i]) : i \in Arp!Index}
    BY DEF QueueLengths
  <2> QED
    BY <2>1, <2>2 DEF ArpInv, PoolCounts, Pairs, Arp!PoolExact
<1> QED
  BY <1>4, <1>5, <1>6, <1>7 DEF ArpSound

(* The invariant of ARP holds in every state. *)
LEMMA ArpInvHolds == MCSpec => []ArpInv
<1>1. MCInit => ArpInv
  BY ArpInitInv DEF MCInit
<1>2. ArpInv /\ [MCNext]_all => ArpInv'
  BY ArpStep
<1> QED
  BY <1>1, <1>2, PTL DEF MCSpec

(* For every number of hosts, entries and packets, and whatever hosts       *)
(* answer: every packet leaves etharp_output or etharp_input for the        *)
(* Ethernet address of its own next hop, no address has two entries, and    *)
(* the elements of the pool are either free or hold a packet that waits.    *)
THEOREM ArpIsSound == MCSpec => []ArpSound
<1>1. ArpInv => ArpSound
  BY ArpInvSound
<1> QED
  BY <1>1, ArpInvHolds, PTL

(* The packets for one host leave in the order they were sent in, each at   *)
(* most once, whether they waited in the queue of an entry or not.          *)
THEOREM PacketsLeaveInOrder == MCSpec => LeaveInOrder
<1>1. ArpInv /\ [MCNext]_all => [Leaves]_(Arp!vars)
  BY ArpStep DEF arp, Arp!vars
<1> QED
  BY <1>1, ArpInvHolds, PTL DEF MCSpec, LeaveInOrder, Arp!LeaveInOrder, Leaves

-----------------------------------------------------------------------------
(* Timers: the inductive invariant. *)

Quarter == Wrap \div 4

TimeEntry == [timer : Timers, time : 0..(Wrap - 1), left : (-MaxLate)..Quarter]

(* The first is due first, and no timer is on the list twice. *)
InTurn(L) ==
  \A i, j \in 1..Len(L) : i < j => L[i].left <= L[j].left /\ L[i].timer # L[j].timer

(* An entry, seen at time c: it is as far from due as left says, the calls  *)
(* of its handler have used no more time than has passed by then, and one   *)
(* that was called in this sys_check_timeouts was not set for before the    *)
(* start of it, one that was called twice for later.                        *)
Paced(e, c, cr, cl, a) ==
  /\ e.time = (c + e.left) % Wrap
  /\ cr[e.timer] + e.left >= interval_ms[e.timer]
  /\ cl[e.timer] >= 1 => e.left + a >= 0
  /\ cl[e.timer] >= 2 => e.left + a >= 1

(* The handler of timer t runs, r after it was due (r is not positive). *)
Handles(t, r) ==
  /\ running = <<[timer |-> t, due |-> (clock + r) % Wrap]>>
  /\ credit[t] + r >= 0
  /\ calls[t] >= 1
  /\ calls[t] >= 2 => r + ago >= 0
  /\ \A i \in 1..Len(next_timeout) : next_timeout[i].timer # t

ListInv ==
  /\ next_timeout \in Seq(TimeEntry)
  /\ InTurn(next_timeout)
  /\ \A i \in 1..Len(next_timeout) : Paced(next_timeout[i], clock, credit, calls, ago)

(* While the timers are set for the first time. *)
Starting ==
  /\ Len(next_timeout) < Len(Order)
  /\ \A i \in 1..Len(next_timeout) :
       \E k \in 1..Len(next_timeout) : next_timeout[i].timer = Order[k]

TimerInv ==
  /\ clock \in 0..(Wrap - 1)
  /\ now \in 0..(Wrap - 1)
  /\ ago \in 0..Timer!MaxRun
  /\ pc \in {"init", "away", "check", "handler"}
  /\ credit \in [Timers -> Nat]
  /\ calls \in [Timers -> 0..2]
  /\ pc \in {"init", "away"} => \A t \in Timers : calls[t] = 0
  /\ pc \in {"check", "handler"} => now = (clock - ago) % Wrap
  /\ ListInv
  /\ pc = "init" => Starting
  /\ IF pc = "handler" THEN \E t \in Timers : \E r \in (-(MaxLate + ago))..(-ago) : Handles(t, r)
                       ELSE running = <<>>

(* What is assumed of the clock, the intervals and the delays. *)
LEMMA TimeConstants ==
  /\ Wrap \in Nat /\ Quarter \in Nat /\ Quarter > 0 /\ Wrap = 4 * Quarter
  /\ Timer!LWIP_MAX_TIMEOUT = 2 * Quarter - 1
  /\ Timer!MaxRun = Quarter - 1
  /\ MaxLate \in Nat /\ MaxLate < Quarter
  /\ interval_ms \in [Timers -> 1..Quarter]
  /\ Timer!MaxCredit = MaxLate + Quarter
<1>1. /\ Wrap \in Nat /\ Wrap % 4 = 0 /\ MaxLate \in Nat
      /\ MaxLate + Quarter <= Timer!LWIP_MAX_TIMEOUT
      /\ interval_ms \in [Timers -> 1..Quarter]
  BY LwipAssumption DEF Timer!TimeoutsAssumption, Quarter
<1>2. Quarter \in Nat /\ Wrap = 4 * Quarter /\ Wrap \div 2 = 2 * Quarter
  BY <1>1 DEF Quarter
<1>3. /\ Timer!LWIP_MAX_TIMEOUT = 2 * Quarter - 1
      /\ Timer!MaxRun = Quarter - 1
      /\ Timer!MaxCredit = MaxLate + Quarter
  BY <1>2 DEF Timer!LWIP_MAX_TIMEOUT, Timer!MaxRun, Timer!MaxCredit, Quarter
<1> QED
  BY <1>1, <1>2, <1>3

(* The remainder within a turn or two. *)
LEMMA Turned ==
  ASSUME NEW W \in Nat, W > 0, NEW x \in Int
  PROVE  /\ x % W \in 0..(W - 1)
         /\ 0 <= x /\ x < W => x % W = x
         /\ W <= x /\ x < 2 * W => x % W = x - W
         /\ -W <= x /\ x < 0 => x % W = x + W
<1>1. x % W \in 0..(W - 1)
  OBVIOUS
<1>2. 0 <= x /\ x < W => x % W = x
  OBVIOUS
<1>3. W <= x /\ x < 2 * W => x % W = x - W
  OBVIOUS
<1>4. -W <= x /\ x < 0 => x % W = x + W
  OBVIOUS
<1> QED
  BY <1>1, <1>2, <1>3, <1>4

(* TIME_LESS_THAN compares the true times, when they are less than half a   *)
(* turn apart and not more than a turn from the clock.                      *)
LEMMA LessIs ==
  ASSUME NEW c \in 0..(Wrap - 1), NEW x \in Int, NEW y \in Int,
         -Wrap <= x, x < Wrap, -Wrap <= y, y < Wrap,
         x - y < 2 * Quarter, y - x <= 2 * Quarter
  PROVE  Timer!TIME_LESS_THAN((c + x) % Wrap, (c + y) % Wrap) <=> x < y
<1>0. Wrap \in Nat /\ Wrap > 0 /\ Wrap = 4 * Quarter /\ Quarter \in Nat
  BY TimeConstants
<1>1. PICK a \in 0..(Wrap - 1) : a = (c + x) % Wrap /\ a \in {c + x - Wrap, c + x, c + x + Wrap}
  BY <1>0, Turned
<1>2. PICK b \in 0..(Wrap - 1) : b = (c + y) % Wrap /\ b \in {c + y - Wrap, c + y, c + y + Wrap}
  BY <1>0, Turned
<1>3. a - b \in {x - y - 2 * Wrap, x - y - Wrap, x - y, x - y + Wrap, x - y + 2 * Wrap}
  BY <1>0, <1>1, <1>2
<1>4. PICK d \in Int : d = a - b
  BY <1>0
<1>5. -Wrap < d /\ d < Wrap
  BY <1>0, <1>4
<1>6. d % Wrap = IF d < 0 THEN d + Wrap ELSE d
  BY <1>0, <1>5, Turned
<1>7. d % Wrap > 2 * Quarter - 1 <=> x < y
  <2> HIDE <1>1, <1>2
  <2>1. PICK z \in Int : z = x - y
    OBVIOUS
  <2>2. d \in {z - 2 * Wrap, z - Wrap, z, z + Wrap, z + 2 * Wrap} /\ z < 2 * Quarter /\ -z <= 2 * Quarter
    BY <1>3, <1>4, <2>1
  <2>3. (d < 0 /\ d + Wrap > 2 * Quarter - 1) \/ (d >= 0 /\ d > 2 * Quarter - 1) <=> z < 0
    BY <1>0, <1>5, <2>2
  <2> QED
    BY <1>6, <2>1, <2>3
<1> QED
  BY <1>1, <1>2, <1>4, <1>7, TimeConstants DEF Timer!TIME_LESS_THAN

(* Where the elements are after InsertAt. *)
LEMMA Inserted ==
  ASSUME NEW X, NEW s \in Seq(X), NEW e \in X, NEW at \in 1..(Len(s) + 1)
  PROVE  /\ Timer!InsertAt(s, at, e) \in Seq(X)
         /\ Len(Timer!InsertAt(s, at, e)) = Len(s) + 1
         /\ \A k \in 1..(Len(s) + 1) :
              Timer!InsertAt(s, at, e)[k]
                = IF k < at THEN s[k] ELSE IF k = at THEN e ELSE s[k - 1]
<1>1. PICK l \in Nat : l = Len(s)
  OBVIOUS
<1>2. PICK a \in Seq(X) : a = SubSeq(s, 1, at - 1) /\ Len(a) = at - 1 /\ \A k \in 1..(at - 1) : a[k] = s[k]
  <2>1. at - 1 \in 0..l /\ \A i \in 1..(at - 1) : s[i] \in X
    BY <1>1
  <2>2. SubSeq(s, 1, at - 1) \in Seq(X)
    BY <2>1, <1>1
  <2>3. Len(SubSeq(s, 1, at - 1)) = at - 1
    BY <2>1, <1>1
  <2>4. \A k \in 1..(at - 1) : SubSeq(s, 1, at - 1)[k] = s[k]
    BY <2>1, <1>1
  <2> QED
    BY <2>2, <2>3, <2>4
<1>3. PICK b \in Seq(X) : /\ b = SubSeq(s, at, Len(s)) /\ Len(b) = l - at + 1
                          /\ \A k \in 1..(l - at + 1) : b[k] = s[at + k - 1]
  <2>2. SubSeq(s, at, l) \in Seq(X)
    BY <1>1
  <2>3. Len(SubSeq(s, at, l)) = l - at + 1
    BY <1>1
  <2>4. \A k \in 1..(l - at + 1) : SubSeq(s, at, l)[k] = s[at + k - 1]
    BY <1>1
  <2> QED
    BY <1>1, <2>2, <2>3, <2>4
<1>4. PICK z \in Seq(X) : z = <<e>> /\ Len(z) = 1 /\ z[1] = e
  <2>1. <<e>> \in Seq(X) /\ Len(<<e>>) = 1 /\ <<e>>[1] = e
    OBVIOUS
  <2> QED
    BY <2>1
<1>5. PICK m \in Seq(X) : m = a \o z
  <2>1. a \o z \in Seq(X)
    BY ConcatProperties
  <2> QED
    BY <2>1
<1>6. Len(m) = at /\ \A k \in 1..at : m[k] = IF k < at THEN s[k] ELSE e
  <2>1. Len(m) = at
    <3>1. Len(m) = Len(a) + Len(z)
      BY <1>5, ConcatProperties
    <3> QED
      BY <1>2, <1>4, <3>1
  <2>2. \A k \in 1..(Len(a) + Len(z)) : m[k] = IF k <= Len(a) THEN a[k] ELSE z[k - Len(a)]
    BY <1>5, ConcatProperties
  <2>3. \A k \in 1..at : m[k] = IF k < at THEN a[k] ELSE e
    <3> SUFFICES ASSUME NEW k \in 1..at PROVE m[k] = IF k < at THEN a[k] ELSE e
      OBVIOUS
    <3>1. Len(a) = at - 1 /\ Len(z) = 1 /\ z[1] = e
      BY <1>2, <1>4
    <3>2. k \in 1..(Len(a) + Len(z)) /\ (k < at <=> k <= Len(a)) /\ (~(k < at) => k - Len(a) = 1)
      BY <3>1
    <3> QED
      BY <2>2, <3>1, <3>2
  <2> QED
    BY <1>2, <2>1, <2>3
<1>7. PICK r \in Seq(X) : r = m \o b
  <2>1. m \o b \in Seq(X)
    BY ConcatProperties
  <2> QED
    BY <2>1
<1>8. Len(r) = l + 1 /\ \A k \in 1..(l + 1) : r[k] = IF k <= at THEN m[k] ELSE b[k - at]
  <2>1. Len(m) = at /\ Len(b) = l - at + 1
    BY <1>3, <1>6
  <2>2. Len(r) = Len(m) + Len(b)
    BY <1>7, ConcatProperties
  <2>3. Len(r) = l + 1
    BY <1>1, <2>1, <2>2
  <2>4. \A k \in 1..(Len(m) + Len(b)) : r[k] = IF k <= Len(m) THEN m[k] ELSE b[k - Len(m)]
    BY <1>7, ConcatProperties
  <2> QED
    BY <2>1, <2>2, <2>3, <2>4
<1>9. \A k \in 1..(l + 1) : r[k] = IF k < at THEN s[k] ELSE IF k = at THEN e ELSE s[k - 1]
  <2> SUFFICES ASSUME NEW k \in 1..(l + 1)
               PROVE  r[k] = IF k < at THEN s[k] ELSE IF k = at THEN e ELSE s[k - 1]
    OBVIOUS
  <2>1. CASE k <= at
    BY <1>6, <1>8, <2>1
  <2>2. CASE k > at
    <3>1. k - at \in 1..(l - at + 1) /\ at + (k - at) - 1 = k - 1
      BY <1>1, <2>2
    <3>2. r[k] = b[k - at]
      BY <1>8, <2>2
    <3> QED
      BY <1>3, <2>2, <3>1, <3>2
  <2> QED
    BY <2>1, <2>2
<1>10. Timer!InsertAt(s, at, e) = r
  BY <1>2, <1>3, <1>4, <1>5, <1>7 DEF Timer!InsertAt
<1> QED
  BY <1>1, <1>8, <1>9, <1>10

(* Times that move with the clock. *)
LEMMA TimeShifts ==
  ASSUME NEW c \in 0..(Wrap - 1), NEW x \in Int, -Wrap < x, x < Wrap
  PROVE  ((c + 1) % Wrap) + (x - 1) \in Int
         /\ (((c + 1) % Wrap) + (x - 1)) % Wrap = (c + x) % Wrap
<1>0. Wrap \in Nat /\ Wrap > 0
  BY TimeConstants
<1>1. CASE c + 1 < Wrap
  <2>1. (c + 1) % Wrap = c + 1
    BY <1>0, <1>1, Turned
  <2> QED
    BY <2>1
<1>2. CASE c + 1 = Wrap
  <2>1. (c + 1) % Wrap = 0
    BY <1>0, <1>2, Turned
  <2>2. c + x = Wrap + (x - 1)
    BY <1>2
  <2>3. (Wrap + (x - 1)) % Wrap = (x - 1) % Wrap
    BY <1>0, Turned
  <2> QED
    BY <2>1, <2>2, <2>3
<1> QED
  BY <1>0, <1>1, <1>2

(* Adding to a time that has wrapped is adding before it wraps. *)
LEMMA TimeAdds ==
  ASSUME NEW c \in 0..(Wrap - 1), NEW r \in Int, -Wrap < r, r <= 0, NEW n \in 0..Quarter
  PROVE  (((c + r) % Wrap) + n) % Wrap = (c + (r + n)) % Wrap
<1>0. Wrap \in Nat /\ Wrap > 0 /\ Wrap = 4 * Quarter /\ Quarter \in Nat
  BY TimeConstants
<1>1. CASE c + r >= 0
  <2>1. (c + r) % Wrap = c + r
    BY <1>0, <1>1, Turned
  <2> QED
    BY <2>1
<1>2. CASE c + r < 0
  <2>1. (c + r) % Wrap = c + r + Wrap
    BY <1>0, <1>2, Turned
  <2>2. PICK z \in Int : z = c + (r + n)
    OBVIOUS
  <2>3. z + Wrap = ((c + r) % Wrap) + n /\ -Wrap <= z /\ z < Wrap
    BY <1>0, <1>2, <2>1, <2>2
  <2>4. (z + Wrap) % Wrap = z % Wrap
    BY <1>0, <2>3, Turned
  <2> QED
    BY <2>2, <2>3, <2>4
<1> QED
  BY <1>1, <1>2

(* The difference of two wrapped times is how far one is ahead. *)
LEMMA TimeAhead ==
  ASSUME NEW c \in 0..(Wrap - 1), NEW z \in 0..(Wrap - 1)
  PROVE  (((c + z) % Wrap) - c) % Wrap = z
<1>0. Wrap \in Nat /\ Wrap > 0
  BY TimeConstants
<1>1. CASE c + z < Wrap
  <2>1. (c + z) % Wrap = c + z
    BY <1>0, <1>1, Turned
  <2>2. ((c + z) % Wrap) - c = z
    BY <1>0, <2>1
  <2> QED
    BY <1>0, <2>2, Turned
<1>2. CASE c + z >= Wrap
  <2>1. (c + z) % Wrap = c + z - Wrap
    BY <1>0, <1>2, Turned
  <2>2. ((c + z) % Wrap) - c = z - Wrap
    BY <1>0, <2>1
  <2>3. (z - Wrap) % Wrap = z
    BY <1>0, Turned
  <2> QED
    BY <2>2, <2>3
<1> QED
  BY <1>0, <1>1, <1>2

(* A wrapped time does not wrap again. *)
LEMMA TimeTwice ==
  ASSUME NEW x \in Int
  PROVE  x % Wrap \in 0..(Wrap - 1) /\ (x % Wrap) % Wrap = x % Wrap
<1>0. Wrap \in Nat /\ Wrap > 0
  BY TimeConstants
<1>1. PICK y \in 0..(Wrap - 1) : y = x % Wrap
  BY <1>0, Turned
<1>2. y % Wrap = y
  BY <1>0, Turned
<1> QED
  BY <1>1, <1>2

(* The list after sys_timeout_abs: what it was and the new entry. *)
OneMore(N, L, e) ==
  /\ N \in Seq(TimeEntry) /\ Len(N) = Len(L) + 1
  /\ \A k \in 1..Len(N) : N[k] = e \/ \E i \in 1..Len(L) : N[k] = L[i]

(* sys_timeout_abs puts an entry in its turn on the list. *)
LEMMA TimerSet ==
  ASSUME NEW c \in 0..(Wrap - 1), NEW L \in Seq(TimeEntry), InTurn(L),
         \A i \in 1..Len(L) : L[i].time = (c + L[i].left) % Wrap,
         NEW e \in TimeEntry, e.time = (c + e.left) % Wrap,
         \A i \in 1..Len(L) : L[i].timer # e.timer
  PROVE  /\ OneMore(Timer!sys_timeout_abs(L, e), L, e)
         /\ InTurn(Timer!sys_timeout_abs(L, e))
<1>0. PICK l \in Nat : l = Len(L)
  OBVIOUS
<1>1. \A i \in 1..l : L[i] \in TimeEntry /\ L[i].left \in Int /\ e.left \in Int
  <2>1. \A x \in TimeEntry : x.left \in Int
    BY TimeConstants DEF TimeEntry
  <2>2. \A i \in 1..l : L[i] \in TimeEntry
    BY <1>0
  <2> QED
    BY <2>1, <2>2
<1>2. \A i \in 1..l : Timer!TIME_LESS_THAN(e.time, L[i].time) <=> e.left < L[i].left
  <2> SUFFICES ASSUME NEW i \in 1..l
               PROVE  Timer!TIME_LESS_THAN(e.time, L[i].time) <=> e.left < L[i].left
    OBVIOUS
  <2>1. PICK x \in (-MaxLate)..Quarter : x = e.left /\ e.time = (c + x) % Wrap
    BY DEF TimeEntry
  <2>2. PICK y \in (-MaxLate)..Quarter : y = L[i].left /\ L[i].time = (c + y) % Wrap
    BY <1>0, <1>1 DEF TimeEntry
  <2>3. /\ x \in Int /\ y \in Int /\ -Wrap <= x /\ x < Wrap /\ -Wrap <= y /\ y < Wrap
        /\ x - y < 2 * Quarter /\ y - x <= 2 * Quarter
    BY TimeConstants
  <2>4. Timer!TIME_LESS_THAN((c + x) % Wrap, (c + y) % Wrap) <=> x < y
    BY <2>3, LessIs
  <2> QED
    BY <2>1, <2>2, <2>4
<1> DEFINE later == {i \in 1..l : e.left < L[i].left}
<1>3. PICK at \in 1..(l + 1) :
        /\ Timer!sys_timeout_abs(L, e) = Timer!InsertAt(L, at, e)
        /\ \A i \in 1..l : i < at => L[i].left <= e.left
        /\ \A i \in 1..l : at <= i => e.left <= L[i].left
  <2>1. {i \in DOMAIN L : Timer!TIME_LESS_THAN(e.time, L[i].time)} = later
    BY <1>0, <1>2
  <2>2. CASE later = {}
    <3>1. Timer!sys_timeout_abs(L, e) = Timer!InsertAt(L, l + 1, e)
      BY <1>0, <2>1, <2>2 DEF Timer!sys_timeout_abs
    <3>2. \A i \in 1..l : L[i].left <= e.left
      BY <1>1, <2>2
    <3> QED
      BY <3>1, <3>2
  <2>3. CASE later # {}
    <3>1. PICK at : at = CHOOSE i \in later : \A j \in later : i <= j
      OBVIOUS
    <3>2. Timer!sys_timeout_abs(L, e) = Timer!InsertAt(L, at, e)
      BY <2>1, <2>3, <3>1 DEF Timer!sys_timeout_abs
    <3>3. at \in later /\ \A j \in later : at <= j
      <4>1. later \in SUBSET Nat
        OBVIOUS
      <4>2. \E i \in later : \A j \in later : i <= j
        <5> HIDE DEF later
        <5> QED
          BY <2>3, <4>1, LeastNat
      <4> QED
        BY <3>1, <4>2
    <3>4. at \in 1..l /\ e.left < L[at].left
      BY <3>3
    <3>5. \A i \in 1..l : i < at => L[i].left <= e.left
      BY <1>1, <3>3
    <3>6. \A i \in 1..l : at <= i => e.left <= L[i].left
      <4> SUFFICES ASSUME NEW i \in 1..l, at <= i PROVE e.left <= L[i].left
        OBVIOUS
      <4>1. L[at].left <= L[i].left
        BY <1>0, <1>1, <3>4 DEF InTurn
      <4> QED
        BY <1>1, <3>4, <4>1
    <3> QED
      BY <3>2, <3>4, <3>5, <3>6
  <2> QED
    BY <2>2, <2>3
<1>4. PICK N : N = Timer!sys_timeout_abs(L, e)
  OBVIOUS
<1>5. /\ N \in Seq(TimeEntry) /\ Len(N) = l + 1
      /\ \A k \in 1..(l + 1) : N[k] = IF k < at THEN L[k] ELSE IF k = at THEN e ELSE L[k - 1]
  <2>1. N = Timer!InsertAt(L, at, e)
    BY <1>3, <1>4
  <2>2. at \in 1..(Len(L) + 1)
    BY <1>0
  <2>3. /\ Timer!InsertAt(L, at, e) \in Seq(TimeEntry)
        /\ Len(Timer!InsertAt(L, at, e)) = Len(L) + 1
        /\ \A k \in 1..(Len(L) + 1) :
              Timer!InsertAt(L, at, e)[k]
                = IF k < at THEN L[k] ELSE IF k = at THEN e ELSE L[k - 1]
    BY <2>2, Inserted
  <2> QED
    BY <1>0, <2>1, <2>3
<1>6. OneMore(N, L, e)
  <2> SUFFICES ASSUME NEW k \in 1..(l + 1) PROVE N[k] = e \/ \E i \in 1..l : N[k] = L[i]
    BY <1>0, <1>5 DEF OneMore
  <2>1. CASE k < at
    BY <1>5, <2>1
  <2>2. CASE k = at
    BY <1>5, <2>2
  <2>3. CASE k > at
    <3>1. k - 1 \in 1..l /\ N[k] = L[k - 1]
      BY <1>5, <2>3
    <3> QED
      BY <3>1
  <2> QED
    BY <2>1, <2>2, <2>3
<1>7. InTurn(N)
  <2> SUFFICES ASSUME NEW i \in 1..(l + 1), NEW j \in 1..(l + 1), i < j
               PROVE  N[i].left <= N[j].left /\ N[i].timer # N[j].timer
    BY <1>5 DEF InTurn
  <2>0. \A m, n \in 1..l : m < n => L[m].left <= L[n].left /\ L[m].timer # L[n].timer
    BY <1>0 DEF InTurn
  <2>00. \A m \in 1..l : L[m].timer # e.timer
    BY <1>0
  <2>1. CASE j < at
    <3>1. N[i] = L[i] /\ N[j] = L[j] /\ i \in 1..l /\ j \in 1..l
      BY <1>5, <2>1
    <3> QED
      BY <2>0, <3>1
  <2>2. CASE j = at
    <3>1. N[i] = L[i] /\ N[j] = e /\ i \in 1..l /\ i < at
      BY <1>5, <2>2
    <3> QED
      BY <1>3, <2>00, <3>1
  <2>3. CASE j > at /\ i < at
    <3>1. N[i] = L[i] /\ N[j] = L[j - 1] /\ i \in 1..l /\ j - 1 \in 1..l /\ i < j - 1
      BY <1>5, <2>3
    <3> QED
      BY <2>0, <3>1
  <2>4. CASE j > at /\ i = at
    <3>1. N[i] = e /\ j - 1 \in 1..l /\ at <= j - 1
      BY <1>5, <2>4
    <3>2. N[j] = L[j - 1]
      BY <1>5, <2>4
    <3> QED
      BY <1>3, <2>00, <3>1, <3>2
  <2>5. CASE j > at /\ i > at
    <3>1. N[i] = L[i - 1] /\ N[j] = L[j - 1] /\ i - 1 \in 1..l /\ j - 1 \in 1..l /\ i - 1 < j - 1
      BY <1>5, <2>5
    <3> QED
      BY <2>0, <3>1
  <2> QED
    BY <2>1, <2>2, <2>3, <2>4, <2>5
<1> QED
  BY <1>4, <1>6, <1>7

(* The cyclic timers are started one after the other, each once. *)
LEMMA OrderIs ==
  /\ Order \in Seq(Timers) /\ Len(Order) \in Nat /\ Len(Order) > 0
  /\ \A i \in 1..Len(Order) : Order[i] \in Timers
  /\ \A i, j \in 1..Len(Order) : Order[i] = Order[j] => i = j
<1>1. Order \in Seq(Timers) /\ Order # <<>> /\ Timer!IsInjective(Order)
  BY LwipAssumption DEF Timer!TimeoutsAssumption
<1>2. Len(Order) \in Nat /\ Len(Order) > 0 /\ DOMAIN Order = 1..Len(Order)
      /\ \A i \in 1..Len(Order) : Order[i] \in Timers
  BY <1>1
<1> QED
  BY <1>1, <1>2 DEF Timer!IsInjective

(* An entry as sys_timeout makes it. *)
LEMMA EntryIs ==
  ASSUME NEW t \in Timers, NEW c \in 0..(Wrap - 1), NEW x \in 0..Quarter, NEW due \in Int,
         due % Wrap = (c + x) % Wrap
  PROVE  /\ Timer!Entry(t, due, x) \in TimeEntry
         /\ Timer!Entry(t, due, x).timer = t
         /\ Timer!Entry(t, due, x).left = x
         /\ Timer!Entry(t, due, x).time = (c + x) % Wrap
<1>1. due % Wrap \in 0..(Wrap - 1)
  BY TimeTwice
<1>2. x \in (-MaxLate)..Quarter
  BY TimeConstants
<1> QED
  BY <1>1, <1>2 DEF Timer!Entry, TimeEntry

(* The entries of the list and their fields. *)
LEMMA ListTyped ==
  ASSUME TimerInv
  PROVE  /\ next_timeout \in Seq(TimeEntry) /\ Len(next_timeout) \in Nat
         /\ \A i \in 1..Len(next_timeout) :
              /\ next_timeout[i] \in TimeEntry
              /\ next_timeout[i].timer \in Timers
              /\ next_timeout[i].left \in (-MaxLate)..Quarter
<1>1. next_timeout \in Seq(TimeEntry)
  BY DEF TimerInv, ListInv
<1>2. Len(next_timeout) \in Nat /\ \A i \in 1..Len(next_timeout) : next_timeout[i] \in TimeEntry
  BY <1>1
<1>3. \A x \in TimeEntry : x.timer \in Timers /\ x.left \in (-MaxLate)..Quarter
  BY DEF TimeEntry
<1> QED
  BY <1>1, <1>2, <1>3

(* What it takes to put an entry on the list. *)
LEMMA ListGrows ==
  ASSUME TimerInv, NEW e \in TimeEntry,
         Paced(e, clock, credit, calls, ago),
         \A i \in 1..Len(next_timeout) : next_timeout[i].timer # e.timer,
         next_timeout' = Timer!sys_timeout_abs(next_timeout, e),
         UNCHANGED <<clock, credit, calls, ago>>
  PROVE  ListInv' /\ OneMore(next_timeout', next_timeout, e)
<1>1. clock \in 0..(Wrap - 1) /\ next_timeout \in Seq(TimeEntry) /\ InTurn(next_timeout)
  BY DEF TimerInv, ListInv
<1>2. \A i \in 1..Len(next_timeout) : Paced(next_timeout[i], clock, credit, calls, ago)
  BY DEF TimerInv, ListInv
<1>3. \A i \in 1..Len(next_timeout) : next_timeout[i].time = (clock + next_timeout[i].left) % Wrap
  BY <1>2 DEF Paced
<1>4. e.time = (clock + e.left) % Wrap
  BY DEF Paced
<1>5. OneMore(next_timeout', next_timeout, e) /\ InTurn(next_timeout')
  BY <1>1, <1>3, <1>4, TimerSet
<1>6. \A k \in 1..Len(next_timeout') : Paced(next_timeout'[k], clock, credit, calls, ago)
  BY <1>2, <1>5 DEF OneMore
<1> QED
  BY <1>5, <1>6 DEF ListInv, OneMore

(* sys_timeouts_init starts the next cyclic timer. *)
LEMMA SetInitInv ==
  ASSUME TimerInv, Timer!sys_timeouts_init
  PROVE  TimerInv'
<1>0. /\ pc = "init" /\ UNCHANGED <<clock, now, ago, running, credit, calls>>
      /\ pc' = IF Len(next_timeout) + 1 = Len(Order) THEN "away" ELSE "init"
  BY DEF Timer!sys_timeouts_init
<1>1. PICK n \in 1..Len(Order) : n = Len(next_timeout) + 1
  BY <1>0, OrderIs DEF TimerInv, Starting, ListInv
<1>2. PICK t \in Timers : t = Order[n]
  BY OrderIs
<1>3. PICK x \in 1..Quarter : x = interval_ms[t]
  BY TimeConstants
<1>4. PICK e : e = Timer!Entry(t, clock + x, x)
  OBVIOUS
<1>5. e \in TimeEntry /\ e.timer = t /\ e.left = x /\ e.time = (clock + x) % Wrap
  <2>1. x \in 0..Quarter /\ clock \in 0..(Wrap - 1) /\ clock + x \in Int
    BY TimeConstants DEF TimerInv
  <2> QED
    BY <1>4, <2>1, EntryIs
<1>6. Paced(e, clock, credit, calls, ago)
  <2>1. credit[t] \in Nat /\ calls[t] = 0
    BY <1>0 DEF TimerInv
  <2> QED
    BY <1>3, <1>5, <2>1, TimeConstants DEF Paced
<1>7. \A i \in 1..Len(next_timeout) : next_timeout[i].timer # t
  <2> SUFFICES ASSUME NEW i \in 1..Len(next_timeout), next_timeout[i].timer = t PROVE FALSE
    OBVIOUS
  <2>1. PICK k \in 1..Len(next_timeout) : next_timeout[i].timer = Order[k]
    BY <1>0 DEF TimerInv, Starting
  <2>2. k \in 1..Len(Order) /\ k # n
    BY <1>1, OrderIs, ListTyped
  <2> QED
    BY <1>2, <2>1, <2>2, OrderIs
<1>8. next_timeout' = Timer!sys_timeout_abs(next_timeout, e)
  BY <1>1, <1>2, <1>3, <1>4 DEF Timer!sys_timeouts_init
<1>9. ListInv' /\ OneMore(next_timeout', next_timeout, e)
  BY <1>0, <1>5, <1>6, <1>7, <1>8, ListGrows
<1>10. Len(next_timeout') = n
  BY <1>1, <1>9 DEF OneMore
<1>11. \A i \in 1..n : \E k \in 1..n : next_timeout'[i].timer = Order[k]
  <2> SUFFICES ASSUME NEW i \in 1..n PROVE \E k \in 1..n : next_timeout'[i].timer = Order[k]
    OBVIOUS
  <2>1. CASE next_timeout'[i] = e
    BY <1>2, <1>5, <2>1
  <2>2. CASE \E j \in 1..Len(next_timeout) : next_timeout'[i] = next_timeout[j]
    <3>1. PICK j \in 1..Len(next_timeout) : next_timeout'[i] = next_timeout[j]
      BY <2>2
    <3>2. PICK k \in 1..Len(next_timeout) : next_timeout[j].timer = Order[k]
      BY <1>0 DEF TimerInv, Starting
    <3>3. k \in 1..n
      BY <1>1, ListTyped
    <3> QED
      BY <3>1, <3>2, <3>3
  <2> QED
    BY <1>9, <1>10, <2>1, <2>2 DEF OneMore
<1>12. pc' = "init" => Starting'
  <2>1. pc' = "init" => n < Len(Order)
    BY <1>0, <1>1, OrderIs
  <2> QED
    BY <1>10, <1>11, <2>1 DEF Starting
<1>13. pc' \in {"init", "away"} /\ running' = <<>>
  BY <1>0 DEF TimerInv
<1>14. \A t1 \in Timers : calls'[t1] = 0
  BY <1>0 DEF TimerInv
<1> QED
  BY <1>0, <1>9, <1>12, <1>13, <1>14 DEF TimerInv

(* sys_check_timeouts reads the clock. *)
LEMMA BeginInv ==
  ASSUME TimerInv, Timer!Begin
  PROVE  TimerInv'
<1>0. /\ pc = "away" /\ pc' = "check" /\ now' = clock /\ ago' = 0
      /\ UNCHANGED <<clock, next_timeout, running, credit, calls>>
  BY DEF Timer!Begin
<1>1. now' = (clock' - ago') % Wrap
  <2>1. PICK c \in 0..(Wrap - 1) : c = clock
    BY DEF TimerInv
  <2>2. (c - 0) % Wrap = c
    BY Turned, TimeConstants
  <2> QED
    BY <1>0, <2>1, <2>2
<1>2. \A t \in Timers : calls[t] = 0
  BY <1>0 DEF TimerInv
<1>3. \A i \in 1..Len(next_timeout) : next_timeout[i].timer \in Timers
  BY ListTyped
<1>4. \A i \in 1..Len(next_timeout) : Paced(next_timeout[i], clock, credit, calls, 0)
  BY <1>2, <1>3 DEF TimerInv, ListInv, Paced
<1>5. ListInv'
  BY <1>0, <1>4 DEF TimerInv, ListInv
<1>6. 0 \in 0..Timer!MaxRun
  BY TimeConstants
<1> QED
  BY <1>0, <1>1, <1>2, <1>5, <1>6 DEF TimerInv

(* sys_check_timeouts finds no more that is due. *)
LEMMA LeaveInv ==
  ASSUME TimerInv, Timer!Leave
  PROVE  TimerInv'
<1>0. /\ pc = "check" /\ pc' = "away" /\ now' = 0 /\ ago' = 0
      /\ calls' = [t \in Timers |-> 0]
      /\ UNCHANGED <<clock, next_timeout, running, credit>>
  BY DEF Timer!Leave
<1>2. \A t \in Timers : calls'[t] = 0
  BY <1>0
<1>3. \A i \in 1..Len(next_timeout) : next_timeout[i].timer \in Timers
  BY ListTyped
<1>4. \A i \in 1..Len(next_timeout) : Paced(next_timeout[i], clock, credit, calls', 0)
  BY <1>2, <1>3 DEF TimerInv, ListInv, Paced
<1>5. ListInv'
  BY <1>0, <1>4 DEF TimerInv, ListInv
<1>6. 0 \in 0..Timer!MaxRun /\ 0 \in 0..(Wrap - 1)
  BY TimeConstants
<1>7. calls' \in [Timers -> 0..2]
  BY <1>0
<1> QED
  BY <1>0, <1>2, <1>5, <1>6, <1>7 DEF TimerInv

(* The first entry and what Expired says of it. *)
LEMMA ExpiredIs ==
  ASSUME TimerInv, pc = "check", NEW e \in TimeEntry, e.time = (clock + e.left) % Wrap
  PROVE  Timer!TIME_LESS_THAN(now, e.time) <=> e.left + ago > 0
<1>1. PICK x \in (-MaxLate)..Quarter : x = e.left /\ e.time = (clock + x) % Wrap
  BY DEF TimeEntry
<1>2. PICK a \in 0..Timer!MaxRun : a = ago /\ now = (clock - a) % Wrap
  BY DEF TimerInv
<1>3. PICK b \in Int : b = -a
  BY TimeConstants
<1>4. clock - a = clock + b
  BY <1>3, TimeConstants DEF TimerInv
<1>5. /\ x \in Int /\ -Wrap <= x /\ x < Wrap /\ -Wrap <= b /\ b < Wrap
      /\ b - x < 2 * Quarter /\ x - b <= 2 * Quarter
  BY <1>3, TimeConstants
<1>6. Timer!TIME_LESS_THAN((clock + b) % Wrap, (clock + x) % Wrap) <=> b < x
  BY <1>5, LessIs DEF TimerInv
<1>7. b < x <=> x + a > 0
  BY <1>3, TimeConstants
<1> QED
  BY <1>1, <1>2, <1>4, <1>6, <1>7

(* The first entry leaves the list, and its handler is called. *)
LEMMA FireInv ==
  ASSUME TimerInv, Timer!Fire
  PROVE  TimerInv'
<1>0. /\ pc = "check" /\ pc' = "handler" /\ next_timeout # <<>>
      /\ ~Timer!TIME_LESS_THAN(now, Head(next_timeout).time)
      /\ next_timeout' = Tail(next_timeout)
      /\ UNCHANGED <<clock, now, ago>>
  BY DEF Timer!Fire, Timer!Expired
<1>1. PICK l \in Nat \ {0} : l = Len(next_timeout)
  BY <1>0, ListTyped
<1>2. PICK e \in TimeEntry : e = next_timeout[1] /\ e = Head(next_timeout)
  <2>1. next_timeout[1] \in TimeEntry
    BY <1>1, ListTyped
  <2> QED
    BY <1>0, <2>1, ListTyped
<1>3. PICK t \in Timers : t = e.timer
  BY DEF TimeEntry
<1>4. PICK x \in (-MaxLate)..Quarter : x = e.left
  BY DEF TimeEntry
<1>5. PICK a \in 0..Timer!MaxRun : a = ago
  BY DEF TimerInv
<1>6. PICK n \in 1..Quarter : n = interval_ms[t]
  BY TimeConstants
<1>7. PICK m \in Nat : m = credit[t]
  BY DEF TimerInv
<1>8. PICK k \in 0..2 : k = calls[t]
  BY DEF TimerInv
<1>9. Paced(e, clock, credit, calls, ago)
  BY <1>1, <1>2 DEF TimerInv, ListInv
<1>10. e.time = (clock + x) % Wrap /\ m + x >= n /\ (k >= 1 => x + a >= 0) /\ (k >= 2 => x + a >= 1)
  BY <1>3, <1>4, <1>5, <1>6, <1>7, <1>8, <1>9 DEF Paced
<1>11. x + a <= 0
  <2>1. ~(x + a > 0)
    BY <1>0, <1>2, <1>4, <1>5, <1>10, ExpiredIs
  <2> QED
    BY <2>1, TimeConstants
<1>12. m - n \in Nat /\ m - n + x >= 0 /\ k + 1 \in 1..2 /\ (k + 1 >= 2 => x + a >= 0)
  BY <1>10, <1>11, TimeConstants
<1>13. running' = <<[timer |-> t, due |-> (clock' + x) % Wrap]>>
  BY <1>0, <1>2, <1>3, <1>10 DEF Timer!Fire
<1>14. credit' = [credit EXCEPT ![t] = m - n]
  BY <1>2, <1>3, <1>6, <1>7 DEF Timer!Fire
<1>15. calls' = [calls EXCEPT ![t] = k + 1]
  <2>1. calls' = [calls EXCEPT ![t] = IF k = 3 THEN 3 ELSE k + 1]
    BY <1>2, <1>3, <1>8 DEF Timer!Fire
  <2>2. (IF k = 3 THEN 3 ELSE k + 1) = k + 1
    OBVIOUS
  <2> QED
    BY <2>1, <2>2
<1>16. credit' \in [Timers -> Nat] /\ credit'[t] = m - n
  BY <1>12, <1>14 DEF TimerInv
<1>17. calls' \in [Timers -> 0..2] /\ calls'[t] = k + 1
  BY <1>12, <1>15 DEF TimerInv
<1>18. \A u \in Timers : u # t => credit'[u] = credit[u] /\ calls'[u] = calls[u]
  BY <1>14, <1>15 DEF TimerInv
<1>19. /\ next_timeout' \in Seq(TimeEntry) /\ Len(next_timeout') = l - 1
       /\ \A i \in 1..(l - 1) : next_timeout'[i] = next_timeout[i + 1]
  BY <1>0, <1>1, ListTyped
<1>20. \A i \in 1..(l - 1) :
         /\ next_timeout'[i].timer # t
         /\ Paced(next_timeout'[i], clock, credit', calls', ago)
  <2> SUFFICES ASSUME NEW i \in 1..(l - 1)
               PROVE  /\ next_timeout'[i].timer # t
                      /\ Paced(next_timeout'[i], clock, credit', calls', ago)
    OBVIOUS
  <2>1. i + 1 \in 1..l /\ 1 \in 1..l /\ 1 < i + 1 /\ next_timeout'[i] = next_timeout[i + 1]
    BY <1>19
  <2>2. PICK f \in TimeEntry : f = next_timeout[i + 1]
    BY <1>1, <2>1, ListTyped
  <2>3. f.timer # t /\ Paced(f, clock, credit, calls, ago) /\ f.timer \in Timers
    BY <1>1, <1>2, <1>3, <2>1, <2>2, ListTyped DEF TimerInv, ListInv, InTurn
  <2>4. Paced(f, clock, credit', calls', ago)
    BY <1>18, <2>3 DEF Paced
  <2> QED
    BY <2>1, <2>2, <2>3, <2>4
<1>21. InTurn(next_timeout')
  <2> SUFFICES ASSUME NEW i \in 1..(l - 1), NEW j \in 1..(l - 1), i < j
               PROVE  /\ next_timeout'[i].left <= next_timeout'[j].left
                      /\ next_timeout'[i].timer # next_timeout'[j].timer
    BY <1>19 DEF InTurn
  <2>1. i + 1 \in 1..l /\ j + 1 \in 1..l /\ i + 1 < j + 1
    OBVIOUS
  <2>2. /\ next_timeout[i + 1].left <= next_timeout[j + 1].left
        /\ next_timeout[i + 1].timer # next_timeout[j + 1].timer
    BY <1>1, <2>1 DEF TimerInv, ListInv, InTurn
  <2> QED
    BY <1>19, <2>2
<1>22. ListInv'
  BY <1>0, <1>19, <1>20, <1>21 DEF ListInv
<1>23. x \in (-(MaxLate + a))..(-a)
  BY <1>11, TimeConstants
<1>24. Handles(t, x)'
  BY <1>0, <1>5, <1>12, <1>13, <1>16, <1>17, <1>19, <1>20 DEF Handles
<1>25. \E u \in Timers : \E r \in (-(MaxLate + ago'))..(-ago') : Handles(u, r)'
  BY <1>0, <1>5, <1>23, <1>24
<1> QED
  BY <1>0, <1>16, <1>17, <1>22, <1>25 DEF TimerInv

(* lwip_cyclic_timer sets the timer whose handler has returned. *)
LEMMA CyclicInv ==
  ASSUME TimerInv, Timer!lwip_cyclic_timer
  PROVE  TimerInv'
<1>0. /\ pc = "handler" /\ pc' = "check" /\ running' = <<>>
      /\ UNCHANGED <<clock, now, ago, credit, calls>>
  BY DEF Timer!lwip_cyclic_timer
<1>1. PICK t \in Timers, r \in (-(MaxLate + ago))..(-ago) : Handles(t, r)
  BY <1>0 DEF TimerInv
<1>2. PICK a \in 0..Timer!MaxRun : a = ago
  BY DEF TimerInv
<1>3. r \in Int /\ r <= -a /\ r >= -(MaxLate + a) /\ r <= 0 /\ -Wrap < r /\ r > -2 * Quarter
  BY <1>2, TimeConstants
<1>4. PICK c \in 0..(Wrap - 1) : c = clock
  BY DEF TimerInv
<1>5. PICK n \in 1..Quarter : n = interval_ms[t]
  BY TimeConstants
<1>6. PICK m \in Nat : m = credit[t]
  BY DEF TimerInv
<1>7. PICK k \in 0..2 : k = calls[t]
  BY DEF TimerInv
<1>8. m + r >= 0 /\ (k >= 2 => r + a >= 0)
  BY <1>1, <1>2, <1>6, <1>7 DEF Handles
<1>9. Head(running).timer = t /\ Head(running).due = (c + r) % Wrap
  <2>1. PICK h : h = [timer |-> t, due |-> (c + r) % Wrap]
    OBVIOUS
  <2>2. running = <<h>>
    BY <1>1, <1>4, <2>1 DEF Handles
  <2>3. Head(<<h>>) = h
    OBVIOUS
  <2> QED
    BY <2>1, <2>2, <2>3
<1>10. PICK z \in Int : z = r + n
  BY <1>3
<1>11. PICK due \in 0..(Wrap - 1) : due = (c + z) % Wrap /\ due = Timer!NextDue(t)
  <2>1. (((c + r) % Wrap) + n) % Wrap = (c + (r + n)) % Wrap
    BY <1>3, TimeAdds
  <2>2. Timer!NextDue(t) = (c + z) % Wrap
    BY <1>5, <1>9, <1>10, <2>1 DEF Timer!NextDue
  <2>3. (c + z) % Wrap \in 0..(Wrap - 1)
    BY TimeTwice
  <2> QED
    BY <2>2, <2>3
<1>12. Timer!Overload(due) <=> z < 0
  <2>1. (c + 0) % Wrap = c
    BY Turned, TimeConstants
  <2>2. /\ 0 \in Int /\ -Wrap <= z /\ z < Wrap /\ -Wrap <= 0 /\ 0 < Wrap
        /\ z - 0 < 2 * Quarter /\ 0 - z <= 2 * Quarter
    BY <1>3, <1>10, TimeConstants
  <2>3. Timer!TIME_LESS_THAN((c + z) % Wrap, (c + 0) % Wrap) <=> z < 0
    BY <2>2, LessIs
  <2> QED
    BY <1>4, <1>11, <2>1, <2>3 DEF Timer!Overload
<1>13. PICK e \in TimeEntry : /\ next_timeout' = Timer!sys_timeout_abs(next_timeout, e)
                              /\ e.timer = t /\ e.time = (c + e.left) % Wrap
                              /\ e.left = IF z < 0 THEN n ELSE z
  <2>1. CASE z < 0
    <3>1. next_timeout' = Timer!sys_timeout_abs(next_timeout, Timer!Entry(t, c + n, n))
      BY <1>4, <1>5, <1>9, <1>11, <1>12, <2>1 DEF Timer!lwip_cyclic_timer
    <3>2. n \in 0..Quarter /\ c + n \in Int
      BY TimeConstants
    <3> QED
      BY <2>1, <3>1, <3>2, EntryIs
  <2>2. CASE ~(z < 0)
    <3>1. z \in 0..(Wrap - 1) /\ z \in 0..Quarter
      BY <1>3, <1>10, <2>2, TimeConstants
    <3>2. (due - c) % Wrap = z
      BY <1>11, <3>1, TimeAhead
    <3>3. ~(z > Timer!LWIP_MAX_TIMEOUT)
      BY <3>1, TimeConstants
    <3>4. next_timeout' = Timer!sys_timeout_abs(next_timeout, Timer!Entry(t, due, z))
      BY <1>4, <1>9, <1>11, <1>12, <2>2, <3>2, <3>3 DEF Timer!lwip_cyclic_timer
    <3>5. due \in Int /\ due % Wrap = (c + z) % Wrap
      BY <1>11, TimeTwice
    <3> QED
      BY <2>2, <3>1, <3>4, <3>5, EntryIs
  <2> QED
    BY <2>1, <2>2
<1>14. PICK x \in Int : x = e.left /\ x = IF z < 0 THEN n ELSE z
  BY <1>13
<1>15. m + x >= n /\ x >= 0 /\ (k >= 2 => x + a >= 1)
  BY <1>3, <1>8, <1>10, <1>14, TimeConstants
<1>16. Paced(e, clock, credit, calls, ago)
  <2>1. x + a >= 0
    BY <1>15, TimeConstants
  <2> QED
    BY <1>2, <1>4, <1>5, <1>6, <1>7, <1>13, <1>14, <1>15, <2>1 DEF Paced
<1>17. \A i \in 1..Len(next_timeout) : next_timeout[i].timer # e.timer
  BY <1>1, <1>13 DEF Handles
<1>18. ListInv'
  BY <1>0, <1>13, <1>16, <1>17, ListGrows
<1> QED
  BY <1>0, <1>18 DEF TimerInv

(* A millisecond later. *)
LEMMA PacedLater ==
  ASSUME NEW c \in 0..(Wrap - 1), NEW e \in TimeEntry, e.left > -MaxLate,
         NEW cr \in [Timers -> Nat], NEW cl \in [Timers -> 0..2], NEW a \in Nat, NEW b \in Nat,
         b = a + 1 \/ cl[e.timer] = 0,
         Paced(e, c, cr, cl, a)
  PROVE  /\ [e EXCEPT !.left = @ - 1] \in TimeEntry
         /\ [e EXCEPT !.left = @ - 1].timer = e.timer
         /\ [e EXCEPT !.left = @ - 1].left = e.left - 1
         /\ Paced([e EXCEPT !.left = @ - 1], (c + 1) % Wrap,
                  [t \in Timers |-> IF cr[t] = Timer!MaxCredit THEN Timer!MaxCredit ELSE cr[t] + 1],
                  cl, b)
<1>1. PICK t \in Timers : t = e.timer
  BY DEF TimeEntry
<1>2. PICK x \in (-MaxLate)..Quarter : x = e.left
  BY DEF TimeEntry
<1>3. PICK n \in 1..Quarter : n = interval_ms[t]
  BY TimeConstants
<1>4. PICK m \in Nat : m = cr[t]
  OBVIOUS
<1>5. PICK k \in 0..2 : k = cl[t]
  OBVIOUS
<1>6. e.time = (c + x) % Wrap /\ m + x >= n /\ (k >= 1 => x + a >= 0) /\ (k >= 2 => x + a >= 1)
  BY <1>1, <1>2, <1>3, <1>4, <1>5 DEF Paced
<1>7. x - 1 \in (-MaxLate)..Quarter /\ (b = a + 1 \/ k = 0)
  BY <1>1, <1>2, <1>5, TimeConstants
<1>8. PICK f : f = [e EXCEPT !.left = x - 1]
  OBVIOUS
<1>9. f \in TimeEntry /\ f.timer = t /\ f.left = x - 1 /\ f.time = (c + x) % Wrap
  BY <1>1, <1>6, <1>7, <1>8 DEF TimeEntry
<1>10. f.time = (((c + 1) % Wrap) + (x - 1)) % Wrap
  <2>1. x \in Int /\ -Wrap < x /\ x < Wrap
    BY TimeConstants
  <2> QED
    BY <1>9, <2>1, TimeShifts
<1>11. PICK m1 \in Nat : m1 = IF m = MaxLate + Quarter THEN MaxLate + Quarter ELSE m + 1
  BY TimeConstants
<1>12. m1 + (x - 1) >= n
  BY <1>6, <1>7, <1>11, TimeConstants
<1>13. (k >= 1 => (x - 1) + b >= 0) /\ (k >= 2 => (x - 1) + b >= 1)
  BY <1>6, <1>7
<1> DEFINE cr1 == [u \in Timers |-> IF cr[u] = Timer!MaxCredit THEN Timer!MaxCredit ELSE cr[u] + 1]
<1>14. cr1[t] = m1
  BY <1>4, <1>11, TimeConstants
<1> HIDE DEF cr1
<1>15. Paced(f, (c + 1) % Wrap, cr1, cl, b)
  BY <1>3, <1>5, <1>9, <1>10, <1>12, <1>13, <1>14 DEF Paced
<1>16. f = [e EXCEPT !.left = @ - 1]
  BY <1>2, <1>8
<1> QED
  BY <1>1, <1>2, <1>9, <1>15, <1>16 DEF cr1

(* A tick brings every entry one step nearer. *)
LEMMA TickInv ==
  ASSUME TimerInv, Timer!Tick
  PROVE  TimerInv'
<1> DEFINE more == [t \in Timers |-> IF credit[t] = Timer!MaxCredit THEN Timer!MaxCredit ELSE credit[t] + 1]
           older == [i \in DOMAIN next_timeout |-> [next_timeout[i] EXCEPT !.left = @ - 1]]
<1>0. /\ \A i \in 1..Len(next_timeout) : next_timeout[i].left > -MaxLate
      /\ ago < Timer!MaxRun
      /\ clock' = (clock + 1) % Wrap
      /\ next_timeout' = older
      /\ ago' = IF pc \in {"init", "away"} THEN ago ELSE ago + 1
      /\ credit' = more
      /\ UNCHANGED <<now, running, pc, calls>>
  <2>1. DOMAIN next_timeout = 1..Len(next_timeout)
    BY ListTyped
  <2> QED
    BY <2>1 DEF Timer!Tick
<1>1. PICK c \in 0..(Wrap - 1) : c = clock
  BY DEF TimerInv
<1>2. PICK a \in 0..Timer!MaxRun : a = ago
  BY DEF TimerInv
<1>3. PICK b \in 0..Timer!MaxRun : b = ago' /\ b = IF pc \in {"init", "away"} THEN a ELSE a + 1
  BY <1>0, <1>2, TimeConstants
<1>4. a \in Nat /\ b \in Nat /\ credit \in [Timers -> Nat] /\ calls \in [Timers -> 0..2]
  BY TimeConstants DEF TimerInv
<1>5. PICK l \in Nat : l = Len(next_timeout)
  BY ListTyped
<1>6. \A i \in 1..l : /\ older[i] = [next_timeout[i] EXCEPT !.left = @ - 1]
                      /\ older[i] \in TimeEntry
                      /\ older[i].timer = next_timeout[i].timer
                      /\ older[i].left = next_timeout[i].left - 1
                      /\ Paced(older[i], (c + 1) % Wrap, more, calls, b)
  <2> SUFFICES ASSUME NEW i \in 1..l
               PROVE  /\ older[i] = [next_timeout[i] EXCEPT !.left = @ - 1]
                      /\ older[i] \in TimeEntry
                      /\ older[i].timer = next_timeout[i].timer
                      /\ older[i].left = next_timeout[i].left - 1
                      /\ Paced(older[i], (c + 1) % Wrap, more, calls, b)
    OBVIOUS
  <2>1. i \in DOMAIN next_timeout
    BY <1>5, ListTyped
  <2>2. older[i] = [next_timeout[i] EXCEPT !.left = @ - 1]
    BY <2>1
  <2>3. PICK e \in TimeEntry : e = next_timeout[i] /\ e.timer \in Timers
    BY <1>5, ListTyped
  <2>4. Paced(e, c, credit, calls, a) /\ e.left > -MaxLate
    BY <1>0, <1>1, <1>2, <1>5, <2>3 DEF TimerInv, ListInv
  <2>5. b = a + 1 \/ calls[e.timer] = 0
    BY <1>3, <2>3 DEF TimerInv
  <2>6. /\ [e EXCEPT !.left = @ - 1] \in TimeEntry
        /\ [e EXCEPT !.left = @ - 1].timer = e.timer
        /\ [e EXCEPT !.left = @ - 1].left = e.left - 1
        /\ Paced([e EXCEPT !.left = @ - 1], (c + 1) % Wrap, more, calls, b)
    BY <1>4, <2>4, <2>5, PacedLater
  <2> HIDE DEF older, more
  <2> QED
    BY <2>2, <2>3, <2>6
<1>7. older \in Seq(TimeEntry) /\ Len(older) = l
  <2>1. DOMAIN next_timeout = 1..l
    BY <1>5, ListTyped
  <2>2. older = [i \in 1..l |-> older[i]]
    BY <2>1
  <2> HIDE DEF older
  <2>3. \A i \in 1..l : older[i] \in TimeEntry
    BY <1>6
  <2>4. [i \in 1..l |-> older[i]] \in Seq(TimeEntry)
    BY <2>3, IsASeq
  <2>5. Len([i \in 1..l |-> older[i]]) = l
    OBVIOUS
  <2> QED
    BY <2>2, <2>4, <2>5
<1>8. InTurn(older)
  <2> HIDE DEF older
  <2> SUFFICES ASSUME NEW i \in 1..l, NEW j \in 1..l, i < j
               PROVE  older[i].left <= older[j].left /\ older[i].timer # older[j].timer
    BY <1>7 DEF InTurn
  <2>1. next_timeout[i].left <= next_timeout[j].left /\ next_timeout[i].timer # next_timeout[j].timer
    BY <1>5 DEF TimerInv, ListInv, InTurn
  <2>2. next_timeout[i].left \in Int /\ next_timeout[j].left \in Int
    BY <1>5, ListTyped, TimeConstants
  <2>3. /\ older[i].timer = next_timeout[i].timer /\ older[i].left = next_timeout[i].left - 1
        /\ older[j].timer = next_timeout[j].timer /\ older[j].left = next_timeout[j].left - 1
    BY <1>6
  <2> QED
    BY <2>1, <2>2, <2>3
<1>9. ListInv'
  <2> HIDE DEF older, more
  <2> QED
    BY <1>0, <1>1, <1>3, <1>6, <1>7, <1>8 DEF ListInv
<1>10. more \in [Timers -> Nat]
  BY <1>4, TimeConstants
<1>11. clock' \in 0..(Wrap - 1)
  BY <1>0, <1>1, TimeTwice
<1>12. pc \in {"check", "handler"} => now = (clock' - ago') % Wrap
  <2> SUFFICES ASSUME pc \in {"check", "handler"} PROVE now = (clock' - ago') % Wrap
    OBVIOUS
  <2>1. b = a + 1
    BY <1>3
  <2>2. PICK x \in Int : x = -a /\ -Wrap < x /\ x < Wrap
    BY TimeConstants
  <2>3. PICK d \in 0..(Wrap - 1) : d = (c + 1) % Wrap
    BY TimeTwice
  <2>4. (d + (x - 1)) % Wrap = (c + x) % Wrap
    BY <2>2, <2>3, TimeShifts
  <2>5. d - b = d + (x - 1) /\ c - a = c + x
    BY <1>4, <2>1, <2>2, TimeConstants
  <2>6. now = (c - a) % Wrap
    BY <1>1, <1>2 DEF TimerInv
  <2> QED
    BY <1>0, <1>1, <1>3, <2>3, <2>4, <2>5, <2>6
<1>13. pc = "init" => Starting'
  <2> HIDE DEF older
  <2> SUFFICES ASSUME pc = "init" PROVE Starting'
    OBVIOUS
  <2>1. l < Len(Order) /\ \A i \in 1..l : \E k \in 1..l : next_timeout[i].timer = Order[k]
    BY <1>5 DEF TimerInv, Starting
  <2>2. ASSUME NEW i \in 1..l PROVE \E k \in 1..l : older[i].timer = Order[k]
    <3>1. PICK k \in 1..l : next_timeout[i].timer = Order[k]
      BY <2>1
    <3>2. older[i].timer = next_timeout[i].timer
      BY <1>6
    <3> QED
      BY <3>1, <3>2, Zenon
  <2> QED
    BY <1>0, <1>7, <2>1, <2>2 DEF Starting
<1>14. ASSUME pc = "handler"
       PROVE  \E t \in Timers : \E r \in (-(MaxLate + ago'))..(-ago') : Handles(t, r)'
  <2>1. PICK t \in Timers, r \in (-(MaxLate + ago))..(-ago) : Handles(t, r)
    BY <1>14 DEF TimerInv
  <2>2. b = a + 1
    BY <1>3, <1>14
  <2>3. r \in Int /\ r <= -a /\ r >= -(MaxLate + a) /\ -Wrap < r /\ r < Wrap
    BY <1>2, <2>1, TimeConstants
  <2>4. PICK s \in Int : s = r - 1
    BY <2>3
  <2>5. s \in (-(MaxLate + b))..(-b)
    BY <1>4, <2>2, <2>3, <2>4, TimeConstants
  <2>6. PICK m \in Nat : m = credit[t]
    BY <1>4
  <2>7. PICK k \in 0..2 : k = calls[t]
    BY <1>4
  <2>8. m + r >= 0 /\ k >= 1 /\ (k >= 2 => r + a >= 0)
    BY <1>2, <2>1, <2>6, <2>7 DEF Handles
  <2>9. PICK m1 \in Nat : m1 = more[t] /\ m1 = IF m = MaxLate + Quarter THEN MaxLate + Quarter ELSE m + 1
    BY <2>6, TimeConstants
  <2>10. m1 + s >= 0
    BY <1>4, <2>2, <2>3, <2>4, <2>5, <2>8, <2>9, TimeConstants
  <2>11. k >= 2 => s + b >= 0
    BY <1>4, <2>2, <2>3, <2>4, <2>8
  <2>12. (((c + 1) % Wrap) + s) % Wrap = (c + r) % Wrap
    BY <2>3, <2>4, TimeShifts
  <2>13. running' = <<[timer |-> t, due |-> (clock' + s) % Wrap]>>
    BY <1>0, <1>1, <2>1, <2>12 DEF Handles
  <2> HIDE DEF older, more
  <2>14. \A i \in 1..Len(next_timeout') : next_timeout'[i].timer # t
    BY <1>0, <1>5, <1>6, <1>7, <2>1 DEF Handles
  <2>15. Handles(t, s)'
    BY <1>0, <1>3, <2>7, <2>8, <2>9, <2>10, <2>11, <2>13, <2>14 DEF Handles
  <2> QED
    BY <1>3, <2>5, <2>15
<1>15. pc # "handler" => running' = <<>>
  BY <1>0 DEF TimerInv
<1>16. pc \in {"init", "away"} => \A t \in Timers : calls'[t] = 0
  BY <1>0 DEF TimerInv
<1> HIDE DEF more, older
<1>17. ago' \in 0..Timer!MaxRun /\ calls' \in [Timers -> 0..2] /\ credit' \in [Timers -> Nat]
       /\ now' \in 0..(Wrap - 1) /\ pc' \in {"init", "away", "check", "handler"}
  BY <1>0, <1>3, <1>10 DEF TimerInv
<1> QED
  BY <1>0, <1>9, <1>11, <1>12, <1>13, <1>14, <1>15, <1>16, <1>17 DEF TimerInv

(* The empty list satisfies the invariant. *)
LEMMA TimerInitInv ==
  ASSUME Timer!Init
  PROVE  TimerInv
<1>1. <<>> \in Seq(TimeEntry) /\ Len(<<>>) = 0
  OBVIOUS
<1>2. ListInv
  BY <1>1 DEF ListInv, InTurn, Timer!Init
<1>3. Starting
  BY <1>1, OrderIs DEF Starting, Timer!Init
<1>4. 0 \in 0..(Wrap - 1) /\ 0 \in 0..Timer!MaxRun
  BY TimeConstants
<1>5. /\ [t \in Timers |-> 0] \in [Timers -> Nat]
      /\ [t \in Timers |-> 0] \in [Timers -> 0..2]
  OBVIOUS
<1> QED
  BY <1>2, <1>3, <1>4, <1>5 DEF TimerInv, Timer!Init

(* Every step keeps the invariant of the timers. *)
LEMMA TimerStep ==
  ASSUME TimerInv, [MCNext]_all
  PROVE  TimerInv'
<1>1. CASE Timer!Next
  BY <1>1, SetInitInv, TickInv, BeginInv, FireInv, CyclicInv, LeaveInv
     DEF Timer!Next, Timer!Check
<1>2. CASE UNCHANGED timers
  <2>1. UNCHANGED <<clock, next_timeout, now, ago, running, pc, credit, calls>>
    BY <1>2 DEF timers
  <2> QED
    BY <2>1 DEF TimerInv, ListInv, Starting, Handles
<1>3. Timer!Next \/ UNCHANGED timers
  BY DEF MCNext, InArp, InReass, InTimers, InMem, all
<1> QED
  BY <1>1, <1>2, <1>3

(* The invariant of the timers holds in every state. *)
LEMMA TimerInvHolds == MCSpec => []TimerInv
<1>1. MCInit => TimerInv
  BY TimerInitInv DEF MCInit
<1>2. TimerInv /\ [MCNext]_all => TimerInv'
  BY TimerStep
<1> QED
  BY <1>1, <1>2, PTL DEF MCSpec

(* For every set of timers and intervals, and however late                  *)
(* sys_check_timeouts and the handlers are within the bounds of the code's  *)
(* clock: no handler of a cyclic timer is called more often than its        *)
(* interval allows, and none more than twice by one sys_check_timeouts.     *)
THEOREM TimersArePaced == MCSpec => []TimersPaced
<1>1. ASSUME TimerInv PROVE TimersPaced
  <2>1. Timer!TypeOK
    <3>1. next_timeout \in Seq([timer : Timers, time : 0..(Wrap - 1), left : (-MaxLate)..(Wrap \div 4)])
      BY <1>1 DEF TimerInv, ListInv, TimeEntry, Quarter
    <3>2. running \in Seq([timer : Timers, due : 0..(Wrap - 1)]) /\ Len(running) <= 1
      <4>1. CASE pc = "handler"
        <5>1. PICK t \in Timers, r \in (-(MaxLate + ago))..(-ago) : Handles(t, r)
          BY <1>1, <4>1 DEF TimerInv
        <5>2. clock + r \in Int
          BY <1>1, <5>1, TimeConstants DEF TimerInv
        <5>3. PICK h \in [timer : Timers, due : 0..(Wrap - 1)] : running = <<h>>
          <6>1. (clock + r) % Wrap \in 0..(Wrap - 1)
            BY <5>2, TimeTwice
          <6> QED
            BY <5>1, <6>1 DEF Handles
        <5> QED
          BY <5>3
      <4>2. CASE pc # "handler"
        <5>1. running = <<>>
          BY <1>1, <4>2 DEF TimerInv
        <5> QED
          BY <5>1
      <4> QED
        BY <4>1, <4>2
    <3>3. credit \in [Timers -> Int] /\ calls \in [Timers -> 0..3]
      BY <1>1 DEF TimerInv
    <3> QED
      BY <1>1, <3>1, <3>2, <3>3 DEF TimerInv, Timer!TypeOK
  <2>2. Timer!NotTooOften
    BY <1>1 DEF TimerInv, Timer!NotTooOften
  <2>3. Timer!NoBurst
    BY <1>1 DEF TimerInv, Timer!NoBurst
  <2> QED
    BY <2>1, <2>2, <2>3 DEF TimersPaced
<1> QED
  BY <1>1, TimerInvHolds, PTL

(* When sys_check_timeouts leaves, every timer on the list is due after the *)
(* time at which it began: the first entry, the only one it looks at, is    *)
(* the first to be due in true time, also across the wrap of the clock.     *)
THEOREM NoTimerMissed == MCSpec => NothingMissed
<1> DEFINE Missed == pc = "check" /\ pc' = "away" =>
                       \A i \in DOMAIN next_timeout : next_timeout[i].left + ago > 0
<1>1. ASSUME TimerInv, [MCNext]_all PROVE [Missed]_(Timer!vars)
  <2> SUFFICES ASSUME pc = "check", pc' = "away", NEW i \in DOMAIN next_timeout
               PROVE  next_timeout[i].left + ago > 0
    OBVIOUS
  <2>1. Timer!Leave
    <3>1. Timer!Next
      BY <1>1 DEF MCNext, InArp, InReass, InTimers, InMem, all, timers
    <3> QED
      BY <3>1 DEF Timer!Next, Timer!sys_timeouts_init, Timer!Tick, Timer!Begin, Timer!Check,
                  Timer!Fire, Timer!lwip_cyclic_timer
  <2>2. PICK l \in Nat : l = Len(next_timeout) /\ i \in 1..l
    BY <1>1, ListTyped
  <2>3. PICK e \in TimeEntry : e = next_timeout[1] /\ e = Head(next_timeout) /\ next_timeout # <<>>
    <3>1. next_timeout[1] \in TimeEntry
      BY <1>1, <2>2, ListTyped
    <3> QED
      BY <1>1, <2>2, <3>1, ListTyped
  <2>4. ~Timer!TIME_LESS_THAN(now, e.time) = FALSE
    BY <2>1, <2>3 DEF Timer!Leave, Timer!Expired
  <2>5. e.time = (clock + e.left) % Wrap
    BY <1>1, <2>2, <2>3 DEF TimerInv, ListInv, Paced
  <2>6. e.left + ago > 0
    BY <1>1, <2>4, <2>5, ExpiredIs
  <2>7. e.left <= next_timeout[i].left
    <3>1. CASE i = 1
      BY <1>1, <2>2, <2>3, <3>1, ListTyped, TimeConstants
    <3>2. CASE i # 1
      BY <1>1, <2>2, <2>3, <3>2 DEF TimerInv, ListInv, InTurn
    <3> QED
      BY <3>1, <3>2
  <2>8. PICK x \in Int, y \in Int, a \in Int : x = e.left /\ y = next_timeout[i].left /\ a = ago
    <3>1. next_timeout[1].left \in Int /\ next_timeout[i].left \in Int
      BY <1>1, <2>2, ListTyped, TimeConstants
    <3>2. ago \in Int /\ e.left \in Int
      BY <1>1, <2>3, <3>1, TimeConstants DEF TimerInv
    <3> QED
      BY <3>1, <3>2
  <2> QED
    BY <2>6, <2>7, <2>8
<1> QED
  BY <1>1, TimerInvHolds, PTL DEF MCSpec, NothingMissed, Timer!NothingMissed
-----------------------------------------------------------------------------
(* The heap of lwIP: a set of headers, each linked to the next. *)

MemHeader == [next : Mem!Offsets, prev : Mem!Offsets, used : {0, 1}]

(* Where there is a header: elsewhere next is 0. *)
Hd(m) == {q \in Mem!Offsets : m[q].next # 0}

Holes(m) == {q \in Hd(m) : q # Mem!ram_end /\ m[q].used = 0}

(* Nothing lies between a header and the next one, which points back. *)
Linked(m) ==
  /\ m \in [Mem!Offsets -> MemHeader]
  /\ 0 \in Hd(m) /\ m[0].prev = 0
  /\ Mem!ram_end \in Hd(m)
  /\ m[Mem!ram_end].next = Mem!ram_end /\ m[Mem!ram_end].used = 1
  /\ \A q \in Hd(m) : q # Mem!ram_end =>
       /\ q < m[q].next /\ m[q].next \in Hd(m)
       /\ \A r \in Hd(m) : ~(q < r /\ r < m[q].next)
       /\ m[q].next # Mem!ram_end => m[m[q].next].prev = q

(* What is assumed of the heap and of the sizes asked for. *)
LEMMA MemConstants ==
  /\ Mem!ram_end = MEM_SIZE_ALIGNED /\ MEM_SIZE_ALIGNED \in Nat
  /\ MEM_SIZE_ALIGNED % 4 = 0 /\ MEM_SIZE_ALIGNED >= 20
  /\ Word \in Nat /\ Word % 4 = 0 /\ MEM_SIZE_ALIGNED + 8 < Word
  /\ Wanted \in SUBSET (0..(Word - 1))
BY LwipAssumption DEF Mem!MemAssumption, Mem!ram_end, Mem!MEM_ALIGNMENT,
     Mem!SIZEOF_STRUCT_MEM, Mem!MIN_SIZE_ALIGNED

(* The offsets are the aligned ones up to the end of the heap. *)
LEMMA OffsetIs ==
  \A q : q \in Mem!Offsets <=> q \in Nat /\ q % 4 = 0 /\ q <= MEM_SIZE_ALIGNED
<1>1. PICK M \in Nat : M = MEM_SIZE_ALIGNED /\ M % 4 = 0
  BY MemConstants
<1>2. PICK k \in Nat : M = 4 * k /\ k = M \div 4
  BY <1>1
<1>3. \A q : q \in Mem!Offsets <=> \E i \in 0..k : q = 4 * i
  BY <1>1, <1>2 DEF Mem!Offsets, Mem!MEM_ALIGNMENT
<1>4. \A i \in 0..k : 4 * i \in Nat /\ (4 * i) % 4 = 0 /\ 4 * i <= M
  BY <1>2
<1>5. ASSUME NEW q \in Nat, q % 4 = 0, q <= M PROVE \E i \in 0..k : q = 4 * i
  <2>1. q \div 4 \in 0..k /\ q = 4 * (q \div 4)
    BY <1>2, <1>5
  <2> QED
    BY <2>1
<1> QED
  BY <1>1, <1>3, <1>4, <1>5

(* The first and the last of them. *)
LEMMA EndIs ==
  /\ Mem!ram_end \in Mem!Offsets /\ 0 \in Mem!Offsets
  /\ Mem!ram_end \in Nat /\ Mem!ram_end >= 20
  /\ \A q \in Mem!Offsets : q \in Nat /\ q <= Mem!ram_end
BY MemConstants, OffsetIs

(* The fields of a header on the list. *)
LEMMA LinkedIs ==
  ASSUME NEW m, Linked(m), NEW q \in Hd(m)
  PROVE  /\ q \in Mem!Offsets /\ q \in Nat /\ q <= Mem!ram_end
         /\ m[q].next \in Nat /\ m[q].next \in Hd(m) /\ m[q].prev \in Mem!Offsets /\ m[q].used \in {0, 1}
         /\ m[q].next <= Mem!ram_end
         /\ q # Mem!ram_end => q < m[q].next
<1>1. q \in Mem!Offsets /\ m[q] \in MemHeader
  BY DEF Linked, Hd
<1>2. m[q].next \in Mem!Offsets /\ m[q].prev \in Mem!Offsets /\ m[q].used \in {0, 1}
  BY <1>1 DEF MemHeader
<1>3. m[q].next \in Hd(m)
  BY DEF Linked
<1> QED
  BY <1>1, <1>2, <1>3, EndIs DEF Linked

(* Each header but the first is the next of the one before it. *)
LEMMA PrevHeader ==
  ASSUME NEW m, Linked(m), NEW q \in Hd(m), q # 0
  PROVE  \E r \in Hd(m) : /\ r < q /\ r # Mem!ram_end /\ m[r].next = q
                          /\ q # Mem!ram_end => m[q].prev = r
<1>1. q \in Nat /\ q <= Mem!ram_end /\ Mem!ram_end \in Nat
  BY LinkedIs, EndIs
<1> DEFINE D == {r \in Hd(m) : r < q}
<1>2. D \in SUBSET (0..q) /\ 0 \in D
  <2>1. \A r \in Hd(m) : r \in Nat
    BY LinkedIs
  <2>2. 0 \in Hd(m)
    BY DEF Linked
  <2>3. 0 < q
    BY <1>1
  <2>4. \A r \in D : r \in 0..q
    BY <1>1, <2>1
  <2> QED
    BY <2>2, <2>3, <2>4
<1>3. PICK r \in D : \A y \in D : y <= r
  <2>1. D # {}
    BY <1>2
  <2> HIDE DEF D
  <2> QED
    BY <1>1, <1>2, <2>1, GreatestNat
<1>4. r \in Hd(m) /\ r < q /\ r \in Nat /\ r # Mem!ram_end
  <2>1. r \in Hd(m) /\ r < q
    OBVIOUS
  <2>2. r \in Nat
    BY <2>1, LinkedIs
  <2> QED
    BY <1>1, <2>1, <2>2
<1>5. m[r].next \in Hd(m) /\ m[r].next \in Nat /\ r < m[r].next
  BY <1>4, LinkedIs
<1>6. ~(r < q /\ q < m[r].next)
  BY <1>4 DEF Linked
<1>7. ~(m[r].next < q)
  <2>1. m[r].next < q => m[r].next <= r
    BY <1>3, <1>5
  <2> QED
    BY <1>4, <1>5, <2>1
<1>8. m[r].next = q
  BY <1>1, <1>4, <1>5, <1>6, <1>7
<1>9. q # Mem!ram_end => m[q].prev = r
  BY <1>4, <1>8 DEF Linked
<1> QED
  BY <1>4, <1>8, <1>9

(* A loop over next from a header meets all headers from there on. *)
LEMMA FromIs ==
  ASSUME NEW m, Linked(m), NEW p \in Hd(m)
  PROVE  Mem!From(m, p) = {r \in Hd(m) : p <= r}
<1> DEFINE G(f) == f = [q \in Mem!Offsets |-> IF m[q].next <= q THEN {q} ELSE {q} \cup f[m[q].next]]
           f == CHOOSE h : G(h)
           S(q) == IF q \in Hd(m) THEN {r \in Hd(m) : q <= r} ELSE {q}
           g == [q \in Mem!Offsets |-> S(q)]
<1>1. Mem!From(m, p) = f[p]
  BY DEF Mem!From
<1>2. ASSUME NEW q \in Mem!Offsets
      PROVE  IF m[q].next <= q THEN S(q) = {q} ELSE m[q].next \in Mem!Offsets /\ S(q) = {q} \cup S(m[q].next)
  <2>1. q \in Nat /\ m[q] \in MemHeader
    BY EndIs DEF Linked
  <2>2. CASE q \notin Hd(m)
    <3>1. m[q].next = 0
      BY <2>2 DEF Hd
    <3> QED
      BY <2>1, <2>2, <3>1
  <2>3. CASE q = Mem!ram_end
    <3>1. m[q].next = q /\ q \in Hd(m)
      BY <2>3 DEF Linked
    <3>2. \A r \in Hd(m) : r \in Nat /\ r <= q
      BY <2>3, LinkedIs
    <3>3. {r \in Hd(m) : q <= r} = {q}
      <4>1. \A r \in Hd(m) : q <= r <=> r = q
        BY <2>1, <3>2
      <4> QED
        BY <3>1, <4>1
    <3> QED
      BY <2>1, <3>1, <3>3
  <2>4. CASE q \in Hd(m) /\ q # Mem!ram_end
    <3>1. PICK n \in Hd(m) : n = m[q].next /\ n \in Nat /\ q < n /\ n \in Mem!Offsets
      BY <2>4, LinkedIs
    <3>2. \A r \in Hd(m) : r \in Nat /\ ~(q < r /\ r < n)
      BY <2>4, <3>1, LinkedIs DEF Linked
    <3>3. \A r \in Hd(m) : q <= r <=> r = q \/ n <= r
      BY <2>1, <3>1, <3>2
    <3>4. {r \in Hd(m) : q <= r} = {q} \cup {r \in Hd(m) : n <= r}
      BY <2>4, <3>3
    <3>5. ~(m[q].next <= q)
      BY <2>1, <3>1
    <3> QED
      BY <2>4, <3>1, <3>4, <3>5
  <2> QED
    BY <2>2, <2>3, <2>4
<1>3. G(g)
  <2>1. \A q \in Mem!Offsets : g[q] = S(q)
    BY Zenon
  <2>2. \A q \in Mem!Offsets : S(q) = IF m[q].next <= q THEN {q} ELSE {q} \cup g[m[q].next]
    <3> HIDE DEF S, g
    <3> QED
      BY <1>2, <2>1
  <2> QED
    BY <2>2
<1>4. G(f)
  <2> HIDE DEF G, g
  <2> QED
    BY <1>3
<1>5. \A q \in Mem!Offsets : f[q] = IF m[q].next <= q THEN {q} ELSE {q} \cup f[m[q].next]
  <2> HIDE DEF f
  <2> QED
    BY <1>4, Zenon
<1> DEFINE B == {q \in Mem!Offsets : f[q] # S(q)}
<1>6. B = {}
  <2> HIDE DEF f, S
  <2> SUFFICES ASSUME B # {} PROVE FALSE
    OBVIOUS
  <2>1. B \in SUBSET (0..Mem!ram_end) /\ Mem!ram_end \in Nat
    <3>1. Mem!ram_end \in Nat /\ \A q \in Mem!Offsets : q \in 0..Mem!ram_end
      BY EndIs
    <3> QED
      BY <3>1
  <2>2. PICK b \in B : \A y \in B : y <= b
    <3> HIDE DEF B
    <3> QED
      BY <2>1, GreatestNat
  <2>3. b \in Mem!Offsets /\ f[b] # S(b)
    OBVIOUS
  <2>4. ~(m[b].next <= b) /\ m[b].next \in Mem!Offsets /\ S(b) = {b} \cup S(m[b].next)
    BY <1>2, <1>5, <2>3
  <2>5. f[b] = {b} \cup f[m[b].next]
    BY <1>5, <2>3, <2>4
  <2>6. m[b].next \in B
    BY <2>3, <2>4, <2>5
  <2> QED
    BY <2>2, <2>4, <2>6
<1>7. f[p] = S(p)
  <2>1. p \in Mem!Offsets
    BY LinkedIs
  <2> HIDE DEF f, S
  <2> QED
    BY <1>6, <2>1
<1> QED
  BY <1>1, <1>7

(* The fields after Insert. *)
LEMMA InsertIs ==
  ASSUME NEW m, m \in [Mem!Offsets -> MemHeader], NEW p \in Mem!Offsets, NEW q \in Mem!Offsets,
         NEW n \in Mem!Offsets, n = m[p].next, p # q, q # n, p # n
  PROVE  /\ Mem!Insert(m, p, q) \in [Mem!Offsets -> MemHeader]
         /\ \A r \in Mem!Offsets :
              /\ Mem!Insert(m, p, q)[r].next = IF r = q THEN n ELSE IF r = p THEN q ELSE m[r].next
              /\ Mem!Insert(m, p, q)[r].used = IF r = q THEN 0 ELSE m[r].used
              /\ Mem!Insert(m, p, q)[r].prev
                   = IF r = q THEN p ELSE IF r = n /\ n # Mem!ram_end THEN q ELSE m[r].prev
<1>1. PICK h \in MemHeader : h = [next |-> n, prev |-> p, used |-> 0]
  BY DEF MemHeader
<1>2. PICK k \in MemHeader : k = [m[p] EXCEPT !.next = q]
  BY DEF MemHeader
<1>3. k.next = q /\ k.prev = m[p].prev /\ k.used = m[p].used
  BY <1>2 DEF MemHeader
<1>4. PICK M \in [Mem!Offsets -> MemHeader] :
        \A r \in Mem!Offsets : M[r] = IF r = q THEN h ELSE IF r = p THEN k ELSE m[r]
  <2>1. [r \in Mem!Offsets |-> IF r = q THEN h ELSE IF r = p THEN k ELSE m[r]] \in [Mem!Offsets -> MemHeader]
    OBVIOUS
  <2> QED
    BY <2>1
<1>5. M = [m EXCEPT ![q] = [next |-> m[p].next, prev |-> p, used |-> 0], ![p].next = q]
  BY <1>1, <1>2, <1>4
<1>6. Mem!Insert(m, p, q) = IF n = Mem!ram_end THEN M ELSE [M EXCEPT ![n].prev = q]
  BY <1>5 DEF Mem!Insert, Mem!SetPrev
<1>7. CASE n = Mem!ram_end
  BY <1>1, <1>3, <1>4, <1>6, <1>7
<1>8. CASE n # Mem!ram_end
  <2>1. M[n] = m[n] /\ m[n] \in MemHeader
    BY <1>4
  <2>2. PICK j \in MemHeader : j = [M[n] EXCEPT !.prev = q]
    BY <2>1 DEF MemHeader
  <2>3. j.next = m[n].next /\ j.prev = q /\ j.used = m[n].used
    BY <2>1, <2>2 DEF MemHeader
  <2>4. PICK N : N = Mem!Insert(m, p, q)
    OBVIOUS
  <2>5. N = [M EXCEPT ![n] = j]
    BY <1>6, <1>8, <2>2, <2>4
  <2>6. N \in [Mem!Offsets -> MemHeader] /\ \A r \in Mem!Offsets : N[r] = IF r = n THEN j ELSE M[r]
    BY <2>5
  <2>7. \A r \in Mem!Offsets : N[r] = IF r = n THEN j ELSE IF r = q THEN h ELSE IF r = p THEN k ELSE m[r]
    BY <1>4, <2>6
  <2>8. h.next = n /\ h.prev = p /\ h.used = 0
    BY <1>1
  <2> SUFFICES ASSUME NEW r \in Mem!Offsets
               PROVE /\ N[r].next = IF r = q THEN n ELSE IF r = p THEN q ELSE m[r].next
                     /\ N[r].used = IF r = q THEN 0 ELSE m[r].used
                     /\ N[r].prev = IF r = q THEN p ELSE IF r = n THEN q ELSE m[r].prev
    BY <1>8, <2>4, <2>6
  <2>9. CASE r = n
    <3>1. N[r] = j
      BY <2>7, <2>9
    <3> QED
      BY <2>3, <2>9, <3>1
  <2>10. CASE r = q
    <3>1. N[r] = h
      BY <2>7, <2>10
    <3> QED
      BY <2>8, <2>10, <3>1
  <2>11. CASE r = p
    <3>1. N[r] = k
      BY <2>7, <2>11
    <3> QED
      BY <1>3, <2>11, <3>1
  <2>12. CASE r # n /\ r # q /\ r # p
    <3>1. N[r] = m[r]
      BY <2>7, <2>12
    <3> QED
      BY <2>12, <3>1
  <2> QED
    BY <2>9, <2>10, <2>11, <2>12
<1> QED
  BY <1>7, <1>8

(* A header between two others. *)
LEMMA InsertLinked ==
  ASSUME NEW m, Linked(m), NEW p \in Hd(m), p # Mem!ram_end,
         NEW q \in Mem!Offsets, p < q, q < m[p].next,
         NEW M, M = Mem!Insert(m, p, q)
  PROVE  /\ Linked(M) /\ Hd(M) = Hd(m) \cup {q} /\ q \notin Hd(m)
         /\ M[p].next = q /\ M[q].next = m[p].next /\ M[q].used = 0
         /\ \A r \in Hd(m) : M[r].used = m[r].used /\ (r # p => M[r].next = m[r].next)
<1>1. PICK n \in Hd(m) : n = m[p].next /\ n \in Nat /\ n \in Mem!Offsets /\ n <= Mem!ram_end
  BY LinkedIs
<1>2. p \in Mem!Offsets /\ p \in Nat /\ q \in Nat /\ Mem!ram_end \in Nat
  BY LinkedIs, EndIs
<1>3. p # q /\ q # n /\ p # n /\ q < n /\ q # Mem!ram_end /\ n # 0 /\ q # 0
  BY <1>1, <1>2
<1>4. /\ M \in [Mem!Offsets -> MemHeader]
      /\ \A r \in Mem!Offsets :
           /\ M[r].next = IF r = q THEN n ELSE IF r = p THEN q ELSE m[r].next
           /\ M[r].used = IF r = q THEN 0 ELSE m[r].used
           /\ M[r].prev = IF r = q THEN p ELSE IF r = n /\ n # Mem!ram_end THEN q ELSE m[r].prev
  BY <1>1, <1>2, <1>3, InsertIs DEF Linked
<1>5. q \notin Hd(m)
  BY <1>1, <1>3 DEF Linked
<1>6. Hd(m) \in SUBSET Mem!Offsets
  BY DEF Hd
<1>7. Hd(M) = Hd(m) \cup {q}
  <2>1. \A r \in Mem!Offsets : r \in Hd(M) <=> r \in Hd(m) \/ r = q
    <3> SUFFICES ASSUME NEW r \in Mem!Offsets PROVE r \in Hd(M) <=> r \in Hd(m) \/ r = q
      OBVIOUS
    <3>1. CASE r = q
      BY <1>3, <1>4, <3>1 DEF Hd
    <3>2. CASE r = p
      BY <1>3, <1>4, <3>2 DEF Hd
    <3>3. CASE r # q /\ r # p
      BY <1>4, <3>3 DEF Hd
    <3> QED
      BY <3>1, <3>2, <3>3
  <2>2. Hd(M) \in SUBSET Mem!Offsets
    BY DEF Hd
  <2> QED
    BY <1>6, <2>1, <2>2
<1>8. M[p].next = q /\ M[q].next = n /\ M[q].used = 0
  BY <1>2, <1>3, <1>4
<1>9. \A r \in Hd(m) : M[r].used = m[r].used /\ (r # p => M[r].next = m[r].next)
  BY <1>4, <1>5, <1>6
<1>10. Linked(M)
  <2>1. 0 \in Hd(m) /\ 0 \in Mem!Offsets /\ m[0].prev = 0 /\ Mem!ram_end \in Hd(m)
        /\ m[Mem!ram_end].next = Mem!ram_end /\ m[Mem!ram_end].used = 1
    BY EndIs DEF Linked
  <2>2. M[0].prev = 0
    BY <1>3, <1>4, <2>1
  <2>3. M[Mem!ram_end].next = Mem!ram_end /\ M[Mem!ram_end].used = 1
    BY <1>9, <2>1
  <2>4. ASSUME NEW r \in Hd(m), r # Mem!ram_end, r # p
        PROVE  /\ r < M[r].next /\ M[r].next \in Hd(M)
               /\ \A s \in Hd(M) : ~(r < s /\ s < M[r].next)
               /\ M[r].next # Mem!ram_end => M[M[r].next].prev = r
    <3>1. PICK k \in Hd(m) : k = m[r].next /\ k \in Nat /\ r \in Nat /\ r < k /\ M[r].next = k /\ k \in Mem!Offsets
      BY <1>9, <2>4, LinkedIs
    <3>2. \A s \in Hd(m) : ~(r < s /\ s < k)
      BY <2>4, <3>1 DEF Linked
    <3>3. ~(r < q /\ q < k)
      <4> SUFFICES ASSUME r < q, q < k PROVE FALSE
        OBVIOUS
      <4>1. ~(r < p /\ p < k)
        BY <3>2
      <4>2. p <= r
        BY <1>2, <3>1, <4>1
      <4>3. ~(p < r /\ r < n)
        BY <1>1 DEF Linked
      <4> QED
        BY <1>1, <1>2, <1>3, <2>4, <3>1, <4>2, <4>3
    <3>4. k # Mem!ram_end => M[k].prev = r
      <4> SUFFICES ASSUME k # Mem!ram_end PROVE M[k].prev = r
        OBVIOUS
      <4>1. m[k].prev = r /\ k # q
        BY <1>5, <2>4, <3>1 DEF Linked
      <4>2. k # n
        <5>1. k = n => m[k].prev = p
          BY <1>1 DEF Linked
        <5> QED
          BY <2>4, <4>1, <5>1
      <4> QED
        BY <1>4, <3>1, <4>1, <4>2
    <3> QED
      BY <1>7, <3>1, <3>2, <3>3, <3>4
  <2>5. /\ p < M[p].next /\ M[p].next \in Hd(M)
        /\ \A s \in Hd(M) : ~(p < s /\ s < M[p].next)
        /\ M[M[p].next].prev = p
    <3>1. \A s \in Hd(m) : s \in Nat /\ ~(p < s /\ s < n)
      BY <1>1, LinkedIs DEF Linked
    <3>2. \A s \in Hd(M) : ~(p < s /\ s < q)
      <4> SUFFICES ASSUME NEW s \in Hd(M), p < s, s < q PROVE FALSE
        OBVIOUS
      <4>1. s # q
        BY <1>2
      <4>2. s \in Hd(m)
        BY <1>7, <4>1
      <4>3. s \in Nat /\ q \in Nat /\ n \in Nat /\ q < n
        BY <1>1, <1>2, <1>3, <3>1, <4>2, Zenon
      <4>4. s < n
        BY <4>3
      <4> QED
        BY <3>1, <4>2, <4>4
    <3> QED
      BY <1>4, <1>7, <1>8, <3>2
  <2>6. /\ q < M[q].next /\ M[q].next \in Hd(M)
        /\ \A s \in Hd(M) : ~(q < s /\ s < M[q].next)
        /\ M[q].next # Mem!ram_end => M[M[q].next].prev = q
    <3>1. \A s \in Hd(m) : s \in Nat /\ ~(p < s /\ s < n)
      BY <1>1, LinkedIs DEF Linked
    <3>2. \A s \in Hd(M) : ~(q < s /\ s < n)
      <4> SUFFICES ASSUME NEW s \in Hd(M), q < s, s < n PROVE FALSE
        OBVIOUS
      <4>1. s # q
        BY <1>2
      <4>2. s \in Hd(m)
        BY <1>7, <4>1
      <4>3. p < s
        BY <1>2, <3>1, <4>2
      <4> QED
        BY <3>1, <4>2, <4>3
    <3>3. n # Mem!ram_end => M[n].prev = q
      BY <1>1, <1>3, <1>4
    <3> QED
      BY <1>1, <1>3, <1>7, <1>8, <3>2, <3>3
  <2>7. \A r \in Hd(M) : r = p \/ r = q \/ (r \in Hd(m) /\ r # p)
    BY <1>7
  <2> QED
    BY <1>4, <1>7, <2>1, <2>2, <2>3, <2>4, <2>5, <2>6, <2>7 DEF Linked
<1> QED
  BY <1>1, <1>5, <1>7, <1>8, <1>9, <1>10

(* The fields after Join. *)
LEMMA JoinIs ==
  ASSUME NEW m, m \in [Mem!Offsets -> MemHeader], NEW p \in Mem!Offsets, NEW q \in Mem!Offsets,
         NEW n \in Mem!Offsets, n = m[q].next, p # q, q # n, p # n
  PROVE  /\ Mem!Join(m, p, q) \in [Mem!Offsets -> MemHeader]
         /\ \A r \in Mem!Offsets :
              /\ Mem!Join(m, p, q)[r].next = IF r = q THEN 0 ELSE IF r = p THEN n ELSE m[r].next
              /\ r # q => Mem!Join(m, p, q)[r].used = m[r].used
              /\ r # q => Mem!Join(m, p, q)[r].prev = IF r = n /\ n # Mem!ram_end THEN p ELSE m[r].prev
<1>1. PICK h \in MemHeader : h = Mem!NoHeader /\ h.next = 0
  <2>1. Mem!NoHeader.next = 0
    BY DEF Mem!NoHeader
  <2>2. Mem!NoHeader \in MemHeader
    BY EndIs DEF MemHeader, Mem!NoHeader
  <2> QED
    BY <2>1, <2>2
<1>2. PICK k \in MemHeader : k = [m[p] EXCEPT !.next = n]
  BY DEF MemHeader
<1>3. k.next = n /\ k.prev = m[p].prev /\ k.used = m[p].used
  BY <1>2 DEF MemHeader
<1>4. PICK M \in [Mem!Offsets -> MemHeader] :
        \A r \in Mem!Offsets : M[r] = IF r = q THEN h ELSE IF r = p THEN k ELSE m[r]
  <2>1. [r \in Mem!Offsets |-> IF r = q THEN h ELSE IF r = p THEN k ELSE m[r]] \in [Mem!Offsets -> MemHeader]
    OBVIOUS
  <2> QED
    BY <2>1
<1>5. M = [m EXCEPT ![p].next = m[q].next, ![q] = Mem!NoHeader]
  BY <1>1, <1>2, <1>4
<1>6. Mem!Join(m, p, q) = IF n = Mem!ram_end THEN M ELSE [M EXCEPT ![n].prev = p]
  BY <1>5 DEF Mem!Join, Mem!SetPrev
<1>7. CASE n = Mem!ram_end
  BY <1>1, <1>3, <1>4, <1>6, <1>7
<1>8. CASE n # Mem!ram_end
  <2>1. M[n] = m[n] /\ m[n] \in MemHeader
    BY <1>4
  <2>2. PICK j \in MemHeader : j = [M[n] EXCEPT !.prev = p]
    BY <2>1 DEF MemHeader
  <2>3. j.next = m[n].next /\ j.prev = p /\ j.used = m[n].used
    BY <2>1, <2>2 DEF MemHeader
  <2>4. PICK N : N = Mem!Join(m, p, q)
    OBVIOUS
  <2>5. N = [M EXCEPT ![n] = j]
    BY <1>6, <1>8, <2>2, <2>4
  <2>6. N \in [Mem!Offsets -> MemHeader] /\ \A r \in Mem!Offsets : N[r] = IF r = n THEN j ELSE M[r]
    BY <2>5
  <2>7. \A r \in Mem!Offsets : N[r] = IF r = n THEN j ELSE IF r = q THEN h ELSE IF r = p THEN k ELSE m[r]
    BY <1>4, <2>6
  <2> SUFFICES ASSUME NEW r \in Mem!Offsets
               PROVE /\ N[r].next = IF r = q THEN 0 ELSE IF r = p THEN n ELSE m[r].next
                     /\ r # q => N[r].used = m[r].used
                     /\ r # q => N[r].prev = IF r = n THEN p ELSE m[r].prev
    BY <1>8, <2>4, <2>6
  <2>9. CASE r = n
    <3>1. N[r] = j
      BY <2>7, <2>9
    <3> QED
      BY <2>3, <2>9, <3>1
  <2>10. CASE r = q
    <3>1. N[r] = h
      BY <2>7, <2>10
    <3> QED
      BY <1>1, <2>10, <3>1
  <2>11. CASE r = p
    <3>1. N[r] = k
      BY <2>7, <2>11
    <3> QED
      BY <1>3, <2>11, <3>1
  <2>12. CASE r # n /\ r # q /\ r # p
    <3>1. N[r] = m[r]
      BY <2>7, <2>12
    <3> QED
      BY <2>12, <3>1
  <2> QED
    BY <2>9, <2>10, <2>11, <2>12
<1> QED
  BY <1>7, <1>8

(* A header becomes part of the one before it. *)
LEMMA JoinLinked ==
  ASSUME NEW m, Linked(m), NEW p \in Hd(m), p # Mem!ram_end,
         NEW q \in Hd(m), q = m[p].next, q # Mem!ram_end,
         NEW M, M = Mem!Join(m, p, q)
  PROVE  /\ Linked(M) /\ Hd(M) = Hd(m) \ {q}
         /\ M[p].next = m[q].next /\ m[q].next \in Hd(m) /\ q < m[q].next
         /\ \A r \in Hd(m) \ {q} : M[r].used = m[r].used /\ (r # p => M[r].next = m[r].next)
<1>1. PICK n \in Hd(m) : n = m[q].next /\ n \in Nat /\ n \in Mem!Offsets /\ n <= Mem!ram_end /\ q < n
  BY LinkedIs
<1>2. /\ p \in Mem!Offsets /\ p \in Nat /\ q \in Mem!Offsets /\ q \in Nat /\ p < q /\ Mem!ram_end \in Nat
  BY LinkedIs, EndIs
<1>3. p # q /\ q # n /\ p # n /\ p < n /\ n # 0 /\ q # 0
  BY <1>1, <1>2
<1>4. /\ M \in [Mem!Offsets -> MemHeader]
      /\ \A r \in Mem!Offsets :
           /\ M[r].next = IF r = q THEN 0 ELSE IF r = p THEN n ELSE m[r].next
           /\ r # q => M[r].used = m[r].used
           /\ r # q => M[r].prev = IF r = n /\ n # Mem!ram_end THEN p ELSE m[r].prev
  BY <1>1, <1>2, <1>3, JoinIs DEF Linked
<1>5. Hd(m) \in SUBSET Mem!Offsets
  BY DEF Hd
<1>6. Hd(M) = Hd(m) \ {q}
  <2>1. \A r \in Mem!Offsets : r \in Hd(M) <=> r \in Hd(m) /\ r # q
    <3> SUFFICES ASSUME NEW r \in Mem!Offsets PROVE r \in Hd(M) <=> r \in Hd(m) /\ r # q
      OBVIOUS
    <3>1. CASE r = q
      BY <1>4, <3>1 DEF Hd
    <3>2. CASE r = p
      BY <1>3, <1>4, <3>2 DEF Hd
    <3>3. CASE r # q /\ r # p
      BY <1>4, <3>3 DEF Hd
    <3> QED
      BY <3>1, <3>2, <3>3
  <2>2. Hd(M) \in SUBSET Mem!Offsets
    BY DEF Hd
  <2> QED
    BY <1>5, <2>1, <2>2
<1>7. M[p].next = n
  BY <1>2, <1>3, <1>4
<1>8. \A r \in Hd(m) \ {q} : M[r].used = m[r].used /\ (r # p => M[r].next = m[r].next)
  BY <1>4, <1>5
<1>9. Linked(M)
  <2>1. 0 \in Hd(m) /\ 0 \in Mem!Offsets /\ m[0].prev = 0 /\ Mem!ram_end \in Hd(m)
        /\ m[Mem!ram_end].next = Mem!ram_end /\ m[Mem!ram_end].used = 1
    BY EndIs DEF Linked
  <2>2. M[0].prev = 0
    BY <1>3, <1>4, <2>1
  <2>3. M[Mem!ram_end].next = Mem!ram_end /\ M[Mem!ram_end].used = 1
    BY <1>8, <2>1
  <2>4. ASSUME NEW r \in Hd(M), r # Mem!ram_end, r # p
        PROVE  /\ r < M[r].next /\ M[r].next \in Hd(M)
               /\ \A s \in Hd(M) : ~(r < s /\ s < M[r].next)
               /\ M[r].next # Mem!ram_end => M[M[r].next].prev = r
    <3>0. r \in Hd(m) /\ r # q
      BY <1>6
    <3>1. PICK k \in Hd(m) : k = m[r].next /\ k \in Nat /\ r \in Nat /\ r < k /\ M[r].next = k /\ k \in Mem!Offsets
      BY <1>8, <2>4, <3>0, LinkedIs
    <3>2. \A s \in Hd(m) : ~(r < s /\ s < k)
      BY <2>4, <3>0, <3>1 DEF Linked
    <3>3. k # q
      <4>1. m[q].prev = p
        BY DEF Linked
      <4>2. k # Mem!ram_end => m[k].prev = r
        BY <2>4, <3>0, <3>1 DEF Linked
      <4> QED
        BY <2>4, <4>1, <4>2
    <3>4. k # Mem!ram_end => M[k].prev = r
      <4> SUFFICES ASSUME k # Mem!ram_end PROVE M[k].prev = r
        OBVIOUS
      <4>1. m[k].prev = r
        BY <2>4, <3>0, <3>1 DEF Linked
      <4>2. k # n
        <5>1. k = n => m[k].prev = q
          BY <1>1 DEF Linked
        <5> QED
          BY <3>0, <4>1, <5>1
      <4> QED
        BY <1>4, <3>1, <3>3, <4>1, <4>2
    <3> QED
      BY <1>6, <3>1, <3>2, <3>3, <3>4
  <2>5. /\ p < M[p].next /\ M[p].next \in Hd(M)
        /\ \A s \in Hd(M) : ~(p < s /\ s < M[p].next)
        /\ M[p].next # Mem!ram_end => M[M[p].next].prev = p
    <3>1. \A s \in Hd(m) : s \in Nat /\ ~(p < s /\ s < q) /\ ~(q < s /\ s < n)
      BY <1>1, LinkedIs DEF Linked
    <3>2. \A s \in Hd(M) : ~(p < s /\ s < n)
      <4> SUFFICES ASSUME NEW s \in Hd(M), p < s, s < n PROVE FALSE
        OBVIOUS
      <4>1. s \in Hd(m) /\ s # q /\ s \in Nat
        BY <1>6, <3>1
      <4> QED
        BY <1>2, <3>1, <4>1
    <3>3. n # Mem!ram_end => M[n].prev = p
      BY <1>1, <1>3, <1>4
    <3> QED
      BY <1>1, <1>3, <1>6, <1>7, <3>2, <3>3
  <2>6. 0 \in Hd(M) /\ Mem!ram_end \in Hd(M)
    BY <1>3, <1>6, <2>1
  <2> QED
    BY <1>4, <2>2, <2>3, <2>4, <2>5, <2>6 DEF Linked
<1> QED
  BY <1>1, <1>6, <1>7, <1>8, <1>9

SetUsed(m, p, u) == [m EXCEPT ![p].used = u]

(* Changing used of a header but the last one. *)
LEMMA UsedLinked ==
  ASSUME NEW m, Linked(m), NEW p \in Hd(m), p # Mem!ram_end, NEW u \in {0, 1},
         NEW M, M = SetUsed(m, p, u)
  PROVE  /\ Linked(M) /\ Hd(M) = Hd(m)
         /\ \A r \in Hd(m) : M[r].next = m[r].next /\ M[r].used = IF r = p THEN u ELSE m[r].used
<1>1. p \in Mem!Offsets /\ m \in [Mem!Offsets -> MemHeader]
  BY DEF Linked, Hd
<1>2. PICK k \in MemHeader : k = [m[p] EXCEPT !.used = u]
  <2>1. m[p] \in MemHeader
    BY <1>1
  <2>2. [m[p] EXCEPT !.used = u] \in MemHeader
    BY <2>1 DEF MemHeader
  <2> QED
    BY <2>2
<1>3. k.next = m[p].next /\ k.prev = m[p].prev /\ k.used = u
  BY <1>1, <1>2 DEF MemHeader
<1>4. M \in [Mem!Offsets -> MemHeader] /\ \A r \in Mem!Offsets : M[r] = IF r = p THEN k ELSE m[r]
  BY <1>1, <1>2 DEF SetUsed
<1>5. \A r \in Mem!Offsets : /\ M[r].next = m[r].next /\ M[r].prev = m[r].prev
                             /\ M[r].used = IF r = p THEN u ELSE m[r].used
  BY <1>3, <1>4
<1>6. Hd(M) = Hd(m)
  BY <1>5 DEF Hd
<1>7. Hd(m) \in SUBSET Mem!Offsets
  BY DEF Hd
<1>8. Linked(M)
  <2>1. M[0].prev = 0 /\ M[Mem!ram_end].next = Mem!ram_end /\ M[Mem!ram_end].used = 1
    BY <1>5, EndIs DEF Linked
  <2>2. \A r \in Hd(m) : M[r].next = m[r].next /\ M[r].prev = m[r].prev
    BY <1>5, <1>7
  <2>3. ASSUME NEW r \in Hd(m), r # Mem!ram_end
        PROVE  /\ r < M[r].next /\ M[r].next \in Hd(M)
               /\ \A s \in Hd(M) : ~(r < s /\ s < M[r].next)
               /\ M[r].next # Mem!ram_end => M[M[r].next].prev = r
    <3>1. m[r].next \in Hd(m)
      BY LinkedIs
    <3>2. M[r].next = m[r].next /\ M[m[r].next].prev = m[m[r].next].prev
      BY <2>2, <3>1
    <3> QED
      BY <1>6, <2>3, <3>2 DEF Linked
  <2>4. 0 \in Hd(M) /\ Mem!ram_end \in Hd(M)
    BY <1>6 DEF Linked
  <2> QED
    BY <1>4, <1>6, <2>1, <2>3, <2>4 DEF Linked
<1> QED
  BY <1>5, <1>6, <1>7, <1>8

HeapOK(m, low) ==
  /\ Linked(m) /\ low \in Hd(m)
  /\ \A r \in Holes(m) : low <= r
  /\ \A r \in Holes(m) : m[r].next \notin Holes(m)

OwnersOK(m, own) ==
  /\ own \in [DOMAIN own -> Wanted] /\ Mem!ram_end \notin DOMAIN own
  /\ \A r \in Hd(m) : m[r].used = 1 <=> r \in DOMAIN own \/ r = Mem!ram_end
  /\ DOMAIN own \in SUBSET Hd(m)
  /\ \A r \in DOMAIN own : own[r] <= m[r].next - (r + 8)

MemInv == HeapOK(mem, lfree) /\ OwnersOK(mem, owned)

(* Of the headers on the list the holes are the ones that are not used. *)
LEMMA HoleIs ==
  ASSUME NEW m, Linked(m)
  PROVE  /\ Holes(m) \in SUBSET Hd(m) /\ Mem!ram_end \notin Holes(m)
         /\ \A r \in Hd(m) : r \in Holes(m) <=> m[r].used = 0
         /\ \A r \in Hd(m) : r \notin Holes(m) <=> m[r].used = 1
<1>1. \A r \in Hd(m) : m[r].used \in {0, 1}
  BY LinkedIs
<1>2. m[Mem!ram_end].used = 1
  BY DEF Linked
<1> QED
  BY <1>1, <1>2 DEF Holes

(* The least element of a set of numbers. *)
LEMMA MemMin ==
  ASSUME NEW S \in SUBSET Nat, S # {}
  PROVE  Mem!Min(S) \in S /\ \A y \in S : Mem!Min(S) <= y
BY LeastNat DEF Mem!Min

(* The least of two numbers. *)
LEMMA MemMinOf ==
  ASSUME NEW x \in Nat, NEW y \in Nat
  PROVE  Mem!Min({x, y}) \in {x, y} /\ Mem!Min({x, y}) <= x /\ Mem!Min({x, y}) <= y
<1>1. {x, y} \in SUBSET Nat /\ {x, y} # {}
  OBVIOUS
<1> QED
  BY <1>1, MemMin

(* mem_malloc and mem_trim round the size; what is refused is left aside. *)
LEMMA BlockDataIs ==
  ASSUME NEW n \in Wanted, ~Mem!Refused(n)
  PROVE  /\ n \in Nat /\ Mem!BlockData(n) \in Nat /\ Mem!BlockData(n) % 4 = 0
         /\ Mem!BlockData(n) >= 12 /\ n <= Mem!BlockData(n)
<1>1. n \in Nat /\ n < Word /\ Word \in Nat /\ Word % 4 = 0 /\ Word > 0
  BY MemConstants
<1>2. PICK x \in Nat : x = ((n + 3) \div 4) * 4 /\ x % 4 = 0 /\ n <= x /\ x <= n + 3
  <2>1. PICK k \in Nat : k = (n + 3) \div 4 /\ 4 * k <= n + 3 /\ n + 3 < 4 * k + 4
    BY <1>1
  <2>2. k * 4 \in Nat /\ (k * 4) % 4 = 0 /\ n <= k * 4 /\ k * 4 <= n + 3
    BY <1>1, <2>1
  <2> QED
    BY <2>1, <2>2
<1>3. x <= Word
  BY <1>1, <1>2
<1>4. Mem!AlignSize(n) = x % Word
  <2>1. n + 4 - 1 = n + 3
    BY <1>1
  <2> QED
    BY <1>2, <2>1 DEF Mem!AlignSize, Mem!MEM_ALIGNMENT
<1>5. PICK a \in Nat : a = Mem!AlignSize(n) /\ a % 4 = 0
  <2>1. CASE x < Word
    <3>1. x % Word = x
      BY <1>1, <2>1, Turned
    <3> QED
      BY <1>2, <1>4, <3>1
  <2>2. CASE x = Word
    <3>1. x % Word = x - Word
      BY <1>1, <2>2, Turned
    <3>2. x % Word = 0
      BY <1>1, <2>2, <3>1
    <3> QED
      BY <1>4, <3>2
  <2> QED
    BY <1>1, <1>3, <2>1, <2>2
<1>6. Mem!BlockData(n) = Mem!Max({a, 12})
  BY <1>5 DEF Mem!BlockData, Mem!MIN_SIZE_ALIGNED
<1>7. Mem!Max({a, 12}) \in {a, 12} /\ \A y \in {a, 12} : y <= Mem!Max({a, 12})
  <2>1. {a, 12} \in SUBSET (0..(a + 12)) /\ {a, 12} # {} /\ a + 12 \in Nat
    BY <1>5
  <2>2. \E y \in {a, 12} : \A z \in {a, 12} : z <= y
    BY <2>1, GreatestNat
  <2>3. \E y \in {a, 12} : \A z \in {a, 12} : y >= z
    BY <1>5, <2>2
  <2>4. Mem!Max({a, 12}) \in {a, 12} /\ \A y \in {a, 12} : Mem!Max({a, 12}) >= y
    BY <2>3, Zenon DEF Mem!Max
  <2> QED
    BY <1>5, <2>4
<1>8. PICK s \in Nat : s = Mem!BlockData(n) /\ s % 4 = 0 /\ s >= 12
  BY <1>5, <1>6, <1>7
<1>9. ~(s < n)
  BY <1>8 DEF Mem!Refused
<1> QED
  BY <1>1, <1>8, <1>9

(* Where a header is put behind data. *)
LEMMA BehindIs ==
  ASSUME NEW p \in Mem!Offsets, NEW s \in Nat, s % 4 = 0, NEW n \in Mem!Offsets, p + 8 + s < n
  PROVE  /\ p + 8 + s \in Mem!Offsets /\ p < p + 8 + s
<1>1. p \in Nat /\ p % 4 = 0 /\ n \in Nat /\ n <= MEM_SIZE_ALIGNED /\ MEM_SIZE_ALIGNED \in Nat
  BY OffsetIs, MemConstants
<1>2. PICK q \in Nat : q = p + 8 + s
  BY <1>1
<1>3. q % 4 = 0
  BY <1>1, <1>2
<1>4. q <= MEM_SIZE_ALIGNED /\ p < q
  BY <1>1, <1>2
<1> QED
  BY <1>2, <1>3, <1>4, OffsetIs

(* The free blocks after each change of the headers. *)
LEMMA InsertHoles ==
  ASSUME NEW m, Linked(m), NEW p \in Hd(m), p # Mem!ram_end,
         NEW q \in Mem!Offsets, p < q, q < m[p].next,
         NEW M, M = Mem!Insert(m, p, q)
  PROVE  Holes(M) = Holes(m) \cup {q}
<1>1. /\ Linked(M) /\ Hd(M) = Hd(m) \cup {q} /\ M[q].used = 0
      /\ \A r \in Hd(m) : M[r].used = m[r].used
  BY InsertLinked
<1>2. q # Mem!ram_end
  <2>1. m[p].next \in Nat /\ m[p].next <= Mem!ram_end /\ q \in Nat /\ Mem!ram_end \in Nat
    BY LinkedIs, EndIs
  <2> QED
    BY <2>1
<1> QED
  BY <1>1, <1>2 DEF Holes

(* Joining a block with the next one leaves one hole less. *)
LEMMA JoinHoles ==
  ASSUME NEW m, Linked(m), NEW p \in Hd(m), p # Mem!ram_end,
         NEW q \in Hd(m), q = m[p].next, q # Mem!ram_end,
         NEW M, M = Mem!Join(m, p, q)
  PROVE  Holes(M) = Holes(m) \ {q}
<1>1. Hd(M) = Hd(m) \ {q} /\ \A r \in Hd(m) \ {q} : M[r].used = m[r].used
  BY JoinLinked
<1> QED
  BY <1>1 DEF Holes

(* What mem_malloc makes of a free block that is large enough. *)
LEMMA TakenIs ==
  ASSUME MemInv, NEW p \in Holes(mem), NEW s \in Nat, s % 4 = 0, s >= 12, Mem!Room(p) >= s,
         NEW M, M = Mem!Taken(p, s)
  PROVE  /\ Linked(M) /\ Hd(mem) \in SUBSET Hd(M) /\ M[p].used = 1 /\ M[p].next - (p + 8) >= s
         /\ \A r \in Hd(mem) : r # p => M[r].used = mem[r].used /\ M[r].next = mem[r].next
         /\ \/ Holes(M) = Holes(mem) \ {p} /\ Hd(M) = Hd(mem)
            \/ \E q \in Hd(M) \ Hd(mem) :
                 /\ p < q /\ Hd(M) = Hd(mem) \cup {q} /\ M[q].used = 0
                 /\ Holes(M) = (Holes(mem) \ {p}) \cup {q} /\ M[q].next = mem[p].next
<1>1. Linked(mem) /\ p \in Hd(mem) /\ p # Mem!ram_end /\ mem[p].used = 0
  BY DEF MemInv, HeapOK, Holes
<1>2. PICK n \in Hd(mem) : n = mem[p].next /\ n \in Nat /\ n \in Mem!Offsets
  BY <1>1, LinkedIs
<1>3. p \in Mem!Offsets /\ p \in Nat
  BY <1>1, LinkedIs
<1>4. n - (p + 8) >= s
  BY <1>2 DEF Mem!Room, Mem!SIZEOF_STRUCT_MEM
<1>5. CASE Mem!Splits(Mem!Room(p), s)
  <2>1. p + 8 + s < n
    BY <1>2, <1>3, <1>5 DEF Mem!Splits, Mem!Room, Mem!SIZEOF_STRUCT_MEM, Mem!MIN_SIZE_ALIGNED
  <2>2. PICK q \in Mem!Offsets : q = p + 8 + s /\ p < q /\ q < n
    BY <1>2, <1>3, <2>1, BehindIs
  <2>3. PICK m : m = Mem!Insert(mem, p, q)
    OBVIOUS
  <2>4. M = SetUsed(m, p, 1)
    BY <1>5, <2>2, <2>3 DEF Mem!Taken, Mem!SIZEOF_STRUCT_MEM, SetUsed
  <2>5. /\ Linked(m) /\ Hd(m) = Hd(mem) \cup {q} /\ q \notin Hd(mem)
        /\ m[p].next = q /\ m[q].next = n /\ m[q].used = 0
        /\ \A r \in Hd(mem) : m[r].used = mem[r].used /\ (r # p => m[r].next = mem[r].next)
    <3>1. Linked(mem) /\ p \in Hd(mem) /\ p # Mem!ram_end /\ p < q /\ q < mem[p].next
      BY <1>1, <1>2, <2>2
    <3>2. /\ Linked(m) /\ Hd(m) = Hd(mem) \cup {q} /\ q \notin Hd(mem)
          /\ m[p].next = q /\ m[q].next = mem[p].next /\ m[q].used = 0
          /\ \A r \in Hd(mem) : m[r].used = mem[r].used /\ (r # p => m[r].next = mem[r].next)
      BY <2>3, <3>1, InsertLinked
    <3> QED
      BY <1>2, <3>2, Zenon
  <2>6. Holes(m) = Holes(mem) \cup {q}
    <3>1. Linked(mem) /\ p \in Hd(mem) /\ p # Mem!ram_end /\ p < q /\ q < mem[p].next
      BY <1>1, <1>2, <2>2
    <3> QED
      BY <2>3, <3>1, InsertHoles, Zenon
  <2>7. /\ Linked(M) /\ Hd(M) = Hd(m)
        /\ \A r \in Hd(m) : M[r].next = m[r].next /\ M[r].used = IF r = p THEN 1 ELSE m[r].used
    <3>1. Linked(m) /\ p \in Hd(m) /\ p # Mem!ram_end /\ 1 \in {0, 1}
      BY <1>1, <2>5
    <3> QED
      BY <2>4, <3>1, UsedLinked
  <2>8. Holes(M) = Holes(m) \ {p}
    BY <2>7 DEF Holes
  <2>9. p # q
    BY <1>1, <2>5
  <2>10. q \in Hd(M) \ Hd(mem) /\ Hd(M) = Hd(mem) \cup {q} /\ M[q].used = 0
         /\ Holes(M) = (Holes(mem) \ {p}) \cup {q} /\ M[q].next = n
    BY <2>5, <2>6, <2>7, <2>8, <2>9
  <2>11. M[p].used = 1 /\ M[p].next = q /\ q - (p + 8) >= s
    BY <1>1, <1>3, <2>2, <2>5, <2>7
  <2>12. \A r \in Hd(mem) : r # p => M[r].used = mem[r].used /\ M[r].next = mem[r].next
    BY <2>5, <2>7
  <2> QED
    BY <1>2, <2>2, <2>7, <2>10, <2>11, <2>12
<1>6. CASE ~Mem!Splits(Mem!Room(p), s)
  <2>1. M = SetUsed(mem, p, 1)
    BY <1>6 DEF Mem!Taken, SetUsed
  <2>2. /\ Linked(M) /\ Hd(M) = Hd(mem)
        /\ \A r \in Hd(mem) : M[r].next = mem[r].next /\ M[r].used = IF r = p THEN 1 ELSE mem[r].used
    <3>1. PICK m : m = mem
      OBVIOUS
    <3>2. Linked(m) /\ p \in Hd(m) /\ p # Mem!ram_end /\ 1 \in {0, 1} /\ M = SetUsed(m, p, 1)
      BY <1>1, <2>1, <3>1
    <3>3. /\ Linked(M) /\ Hd(M) = Hd(m)
          /\ \A r \in Hd(m) : M[r].next = m[r].next /\ M[r].used = IF r = p THEN 1 ELSE m[r].used
      BY <3>2, UsedLinked
    <3> QED
      BY <3>1, <3>3
  <2>3. Holes(M) = Holes(mem) \ {p}
    BY <2>2 DEF Holes
  <2> QED
    BY <1>1, <1>2, <1>4, <2>2, <2>3
<1> QED
  BY <1>5, <1>6

(* mem_malloc *)
LEMMA MallocMem ==
  ASSUME MemInv, NEW n \in Wanted, Mem!mem_malloc(n)
  PROVE  MemInv'
<1>1. CASE n = 0 \/ Mem!Refused(n) \/ Mem!Fitting(Mem!BlockData(n)) = {}
  <2>1. mem' = mem /\ lfree' = lfree /\ owned' = owned
    BY <1>1 DEF Mem!mem_malloc, Mem!vars
  <2> QED
    BY <2>1 DEF MemInv
<1>2. CASE ~(n = 0 \/ Mem!Refused(n) \/ Mem!Fitting(Mem!BlockData(n)) = {})
  <2>1. PICK s \in Nat : s = Mem!BlockData(n) /\ s % 4 = 0 /\ s >= 12 /\ n <= s /\ n \in Nat
    BY <1>2, BlockDataIs
  <2>2. HeapOK(mem, lfree) /\ OwnersOK(mem, owned) /\ Linked(mem) /\ lfree \in Hd(mem)
    BY DEF MemInv, HeapOK
  <2>3. Mem!From(mem, lfree) = {r \in Hd(mem) : lfree <= r}
    BY <2>2, FromIs
  <2>4. Mem!Fitting(s) \in SUBSET Nat /\ Mem!Fitting(s) # {}
    <3>1. \A r \in Hd(mem) : r \in Nat
      BY <2>2, LinkedIs
    <3> QED
      BY <1>2, <2>1, <2>3, <3>1 DEF Mem!Fitting
  <2>5. PICK p \in Mem!Fitting(s) : p = Mem!Min(Mem!Fitting(s))
    BY <2>4, MemMin
  <2>6. p \in Hd(mem) /\ lfree <= p /\ mem[p].used = 0 /\ Mem!Room(p) >= s
    BY <2>3 DEF Mem!Fitting
  <2>7. p \in Holes(mem)
    BY <2>2, <2>6, HoleIs
  <2>8. /\ mem' = Mem!Taken(p, s) /\ lfree' = Mem!NextLowest(mem', p)
        /\ owned' = [q \in DOMAIN owned \cup {p} |-> IF q = p THEN n ELSE owned[q]]
    BY <1>2, <2>1, <2>5 DEF Mem!mem_malloc
  <2>9. PICK M : M = mem'
    OBVIOUS
  <2>10. /\ Linked(M) /\ Hd(mem) \in SUBSET Hd(M) /\ M[p].used = 1 /\ M[p].next - (p + 8) >= s
         /\ \A r \in Hd(mem) : r # p => M[r].used = mem[r].used /\ M[r].next = mem[r].next
         /\ \/ Holes(M) = Holes(mem) \ {p} /\ Hd(M) = Hd(mem)
            \/ \E q \in Hd(M) \ Hd(mem) :
                 /\ p < q /\ Hd(M) = Hd(mem) \cup {q} /\ M[q].used = 0
                 /\ Holes(M) = (Holes(mem) \ {p}) \cup {q} /\ M[q].next = mem[p].next
    BY <2>1, <2>6, <2>7, <2>8, <2>9, TakenIs
  <2>11. \A r \in Holes(mem) : lfree <= r /\ mem[r].next \notin Holes(mem) /\ r \in Hd(mem)
    BY <2>2 DEF HeapOK, Holes
  <2>12. \A r \in Holes(M) : lfree <= r
    <3>1. lfree \in Nat /\ p \in Nat /\ \A r \in Hd(M) : r \in Nat
      BY <2>2, <2>6, <2>10, LinkedIs
    <3>2. CASE Holes(M) = Holes(mem) \ {p}
      BY <2>11, <3>2
    <3>3. ASSUME NEW q \in Hd(M), p < q, Holes(M) = (Holes(mem) \ {p}) \cup {q}
          PROVE  \A r \in Holes(M) : lfree <= r
      <4>1. lfree <= q
        <5>1. q \in Nat /\ lfree <= p /\ p < q /\ lfree \in Nat /\ p \in Nat
          BY <2>6, <3>1, <3>3
        <5> HIDE DEF MemInv
        <5> QED
          BY <5>1
      <4> QED
        BY <2>11, <3>3, <4>1
    <3> QED
      BY <2>10, <3>2, <3>3
  <2>13. \A r \in Holes(M) : M[r].next \notin Holes(M)
    <3>1. mem[p].next \in Hd(mem)
      BY <2>2, <2>6, LinkedIs
    <3>2. CASE Holes(M) = Holes(mem) \ {p}
      BY <2>10, <2>11, <3>2
    <3>3. ASSUME NEW q \in Hd(M) \ Hd(mem), p < q, M[q].next = mem[p].next,
                 Holes(M) = (Holes(mem) \ {p}) \cup {q}
          PROVE  \A r \in Holes(M) : M[r].next \notin Holes(M)
      <4>1. M[q].next \notin Holes(M)
        <5>1. mem[p].next \notin Holes(mem) /\ mem[p].next # q
          BY <2>7, <2>11, <3>1, <3>3
        <5> QED
          BY <3>3, <5>1
      <4>2. ASSUME NEW r \in Holes(mem) \ {p} PROVE M[r].next \notin Holes(M)
        <5>1. M[r].next = mem[r].next /\ mem[r].next \notin Holes(mem) /\ mem[r].next \in Hd(mem)
          BY <2>2, <2>10, <2>11, LinkedIs
        <5> QED
          BY <3>3, <5>1
      <4> QED
        BY <3>3, <4>1, <4>2
    <3> QED
      BY <2>10, <3>2, <3>3
  <2>14. lfree' \in Hd(M) /\ \A r \in Holes(M) : lfree' <= r
    <3>1. CASE p # lfree
      <4>1. lfree' = lfree
        BY <2>8, <3>1 DEF Mem!NextLowest
      <4> QED
        BY <2>2, <2>10, <2>12, <4>1
    <3>2. CASE p = lfree
      <4>1. lfree' = Mem!Min({q \in Mem!From(M, lfree) : M[q].used = 0 \/ q = Mem!ram_end})
        BY <2>8, <2>9, <3>2 DEF Mem!NextLowest
      <4>2. Mem!From(M, lfree) = {r \in Hd(M) : lfree <= r}
        BY <2>2, <2>10, FromIs
      <4>3. PICK S : S = {q \in Hd(M) : lfree <= q /\ (M[q].used = 0 \/ q = Mem!ram_end)}
        OBVIOUS
      <4>4. lfree' = Mem!Min(S)
        BY <4>1, <4>2, <4>3
      <4>5. S \in SUBSET Nat /\ Mem!ram_end \in S
        <5>1. \A r \in Hd(M) : r \in Nat
          BY <2>10, LinkedIs
        <5>2. Mem!ram_end \in Hd(M) /\ lfree <= Mem!ram_end
          BY <2>2, <2>10, LinkedIs DEF Linked
        <5> QED
          BY <4>3, <5>1, <5>2
      <4>6. lfree' \in S /\ \A y \in S : lfree' <= y
        BY <4>4, <4>5, MemMin
      <4>7. \A r \in Holes(M) : r \in S
        BY <2>12, <4>3 DEF Holes
      <4> QED
        BY <4>3, <4>6, <4>7
    <3> QED
      BY <3>1, <3>2
  <2>15. OwnersOK(M, owned')
    <3>1. DOMAIN owned' = DOMAIN owned \cup {p} /\ p \notin DOMAIN owned /\ p # Mem!ram_end
      <4>1. p \notin DOMAIN owned
        BY <2>2, <2>6 DEF OwnersOK
      <4> QED
        BY <2>2, <2>7, <2>8, <4>1, HoleIs
    <3>2. \A q \in DOMAIN owned' : owned'[q] = IF q = p THEN n ELSE owned[q]
      BY <2>8
    <3>3. owned' \in [DOMAIN owned' -> Wanted]
      <4>1. \A q \in DOMAIN owned : owned[q] \in Wanted
        BY <2>2 DEF OwnersOK
      <4> QED
        BY <2>8, <4>1
    <3>4. Mem!ram_end \notin DOMAIN owned' /\ DOMAIN owned' \in SUBSET Hd(M)
      BY <2>2, <2>6, <2>10, <3>1 DEF OwnersOK
    <3>5. \A r \in Hd(M) : M[r].used = 1 <=> r \in DOMAIN owned' \/ r = Mem!ram_end
      <4>1. \A r \in Hd(mem) : mem[r].used = 1 <=> r \in DOMAIN owned \/ r = Mem!ram_end
        BY <2>2 DEF OwnersOK
      <4>2. \A r \in Hd(mem) : M[r].used = 1 <=> r \in DOMAIN owned' \/ r = Mem!ram_end
        BY <2>10, <3>1, <4>1
      <4>3. \A q \in Hd(M) \ Hd(mem) : M[q].used = 0
        BY <2>10
      <4>4. \A r \in Hd(M) \ Hd(mem) : r \notin DOMAIN owned' /\ r # Mem!ram_end
        BY <2>2, <2>6, <3>1 DEF OwnersOK, Linked
      <4> QED
        BY <4>2, <4>3, <4>4
    <3>6. \A r \in DOMAIN owned' : owned'[r] <= M[r].next - (r + 8)
      <4>1. owned'[p] <= M[p].next - (p + 8)
        <5>1. M[p].next \in Nat /\ p \in Nat
          BY <2>6, <2>10, LinkedIs
        <5> QED
          BY <2>1, <2>10, <3>1, <3>2, <5>1
      <4>2. \A r \in DOMAIN owned : owned'[r] <= M[r].next - (r + 8)
        BY <2>2, <2>10, <3>1, <3>2 DEF OwnersOK
      <4> QED
        BY <3>1, <4>1, <4>2
    <3> QED
      BY <3>3, <3>4, <3>5, <3>6 DEF OwnersOK
  <2> QED
    BY <2>9, <2>10, <2>13, <2>14, <2>15 DEF MemInv, HeapOK
<1> QED
  BY <1>1, <1>2

(* What joining leaves: no block in use changes, no header appears. *)
UsedKept(m, M) ==
  /\ Hd(M) \in SUBSET Hd(m)
  /\ \A r \in Hd(M) : M[r].used = m[r].used
  /\ \A r \in Hd(m) : m[r].used = 1 => r \in Hd(M) /\ M[r].next = m[r].next

(* What holds but for the holes next to p. *)
HeapBut(m, low, p) ==
  /\ Linked(m) /\ low \in Hd(m)
  /\ p \in Holes(m)
  /\ \A r \in Holes(m) : low <= r

(* plug_holes, forward. *)
LEMMA JoinNextIs ==
  ASSUME NEW m, NEW low, NEW p, HeapBut(m, low, p),
         \A r \in Holes(m) : r # p /\ m[r].next # p => m[r].next \notin Holes(m)
  PROVE  \E M, l : /\ Mem!JoinNext(Mem!Heap(m, low), p) = Mem!Heap(M, l)
                   /\ HeapBut(M, l, p) /\ UsedKept(m, M)
                   /\ \A r \in Holes(M) : M[r].next # p => M[r].next \notin Holes(M)
<1>1. /\ Linked(m) /\ low \in Hd(m) /\ p \in Holes(m) /\ p \in Hd(m) /\ p # Mem!ram_end
      /\ \A r \in Holes(m) : low <= r /\ r \in Hd(m)
  BY DEF HeapBut, Holes
<1>2. PICK q \in Hd(m) : q = m[p].next /\ p < q /\ q \in Nat /\ p \in Nat /\ low \in Nat
  BY <1>1, LinkedIs
<1>3. p # q
  BY <1>2
<1>4. q \in Holes(m) <=> Mem!IsHole(m, q)
  BY <1>2 DEF Holes, Mem!IsHole
<1>5. /\ q \notin Holes(m) => Mem!JoinNext(Mem!Heap(m, low), p) = Mem!Heap(m, low)
      /\ q \in Holes(m) => Mem!JoinNext(Mem!Heap(m, low), p)
                             = Mem!Heap(Mem!Join(m, p, q), IF low = q THEN p ELSE low)
  BY <1>2, <1>3, <1>4, Zenon DEF Mem!JoinNext, Mem!Heap
<1>6. CASE q \notin Holes(m)
  <2>1. UsedKept(m, m)
    BY DEF UsedKept
  <2>2. \A r \in Holes(m) : m[r].next # p => m[r].next \notin Holes(m)
    BY <1>2, <1>6
  <2> QED
    BY <1>5, <1>6, <2>1, <2>2
<1>7. CASE q \in Holes(m)
  <2>1. q # Mem!ram_end /\ m[q].used = 0 /\ m[p].used = 0
    BY <1>1, <1>7 DEF Holes
  <2>2. PICK M : M = Mem!Join(m, p, q)
    OBVIOUS
  <2>3. /\ Linked(M) /\ Hd(M) = Hd(m) \ {q}
        /\ M[p].next = m[q].next /\ m[q].next \in Hd(m) /\ q < m[q].next
        /\ \A r \in Hd(m) \ {q} : M[r].used = m[r].used /\ (r # p => M[r].next = m[r].next)
    BY <1>1, <1>2, <2>1, <2>2, JoinLinked
  <2>4. Holes(M) = Holes(m) \ {q}
    BY <1>1, <1>2, <2>1, <2>2, JoinHoles
  <2>5. low # q
    BY <1>1, <1>2
  <2>6. Mem!JoinNext(Mem!Heap(m, low), p) = Mem!Heap(M, low)
    BY <1>5, <1>7, <2>2, <2>5
  <2>7. HeapBut(M, low, p)
    BY <1>1, <1>3, <2>3, <2>4, <2>5 DEF HeapBut
  <2>8. UsedKept(m, M)
    BY <2>1, <2>3 DEF UsedKept
  <2>9. ASSUME NEW r \in Holes(M), M[r].next # p PROVE M[r].next \notin Holes(M)
    <3>1. CASE r = p
      <4>1. m[q].next \in Nat
        BY <1>2, <1>1, LinkedIs
      <4>2. m[q].next # p
        BY <1>2, <2>3, <4>1
      <4>3. m[q].next \notin Holes(m)
        BY <1>3, <1>7, <4>2
      <4> QED
        BY <2>3, <2>4, <3>1, <4>3
    <3>2. CASE r # p
      <4>1. r \in Holes(m) /\ r \in Hd(m) \ {q}
        BY <1>1, <2>4
      <4>2. M[r].next = m[r].next
        BY <2>3, <3>2, <4>1
      <4> QED
        BY <2>4, <2>9, <3>2, <4>1, <4>2
    <3> QED
      BY <3>1, <3>2
  <2> QED
    BY <2>6, <2>7, <2>8, <2>9
<1> QED
  BY <1>6, <1>7

(* plug_holes, backward. *)
LEMMA JoinPrevIs ==
  ASSUME NEW m, NEW low, NEW p, HeapBut(m, low, p),
         \A r \in Holes(m) : m[r].next # p => m[r].next \notin Holes(m)
  PROVE  \E M, l : /\ Mem!JoinPrev(Mem!Heap(m, low), p) = Mem!Heap(M, l)
                   /\ HeapOK(M, l) /\ UsedKept(m, M)
<1>1. /\ Linked(m) /\ low \in Hd(m) /\ p \in Holes(m) /\ p \in Hd(m) /\ p # Mem!ram_end
      /\ \A r \in Holes(m) : low <= r /\ r \in Hd(m) /\ r # Mem!ram_end
      /\ m[p].used = 0
  BY DEF HeapBut, Holes
<1>2. PICK q : q = m[p].prev
  OBVIOUS
<1>3. /\ (q # p /\ m[q].used = 0) => Mem!JoinPrev(Mem!Heap(m, low), p)
                             = Mem!Heap(Mem!Join(m, q, p), IF low = p THEN q ELSE low)
      /\ ~(q # p /\ m[q].used = 0) => Mem!JoinPrev(Mem!Heap(m, low), p) = Mem!Heap(m, low)
  BY <1>2, Zenon DEF Mem!JoinPrev, Mem!Heap
<1>4. \A r \in Hd(m) : /\ r \in Nat /\ m[r].next \in Nat
                       /\ r # Mem!ram_end /\ m[r].next = p => r = q /\ r < p
  <2>1. \A r \in Hd(m) : r \in Nat /\ m[r].next \in Nat /\ (r # Mem!ram_end => r < m[r].next)
    BY <1>1, LinkedIs
  <2>2. \A r \in Hd(m) : r # Mem!ram_end /\ m[r].next = p => m[p].prev = r
    BY <1>1 DEF Linked
  <2> QED
    BY <1>2, <2>1, <2>2
<1>5. CASE ~(q # p /\ m[q].used = 0)
  <2>1. UsedKept(m, m)
    BY DEF UsedKept
  <2>2. ASSUME NEW r \in Holes(m) PROVE m[r].next # p
    <3> SUFFICES ASSUME m[r].next = p PROVE FALSE
      OBVIOUS
    <3>1. r \in Hd(m) /\ r # Mem!ram_end /\ m[r].used = 0
      BY <1>1 DEF Holes
    <3>2. r = q /\ r < p /\ r \in Nat /\ p \in Nat
      BY <1>1, <1>4, <3>1
    <3>3. r # p
      BY <3>2
    <3> QED
      BY <1>5, <3>1, <3>2, <3>3
  <2>3. HeapOK(m, low)
    BY <1>1, <2>2 DEF HeapOK
  <2> QED
    BY <1>3, <1>5, <2>1, <2>3
<1>6. CASE q # p /\ m[q].used = 0
  <2>1. p # 0
    BY <1>2, <1>6 DEF Linked, HeapBut
  <2>2. PICK r \in Hd(m) : r < p /\ r # Mem!ram_end /\ m[r].next = p /\ m[p].prev = r
    BY <1>1, <2>1, PrevHeader
  <2>3. /\ q \in Hd(m) /\ q # Mem!ram_end /\ p = m[q].next /\ q < p /\ q \in Holes(m)
        /\ q \in Nat /\ p \in Nat /\ low \in Nat /\ p # q
    <3>1. q = r
      BY <1>2, <2>2
    <3> QED
      BY <1>1, <1>4, <1>6, <2>2, <3>1 DEF Holes
  <2>4. PICK M : M = Mem!Join(m, q, p)
    OBVIOUS
  <2>5. /\ Linked(M) /\ Hd(M) = Hd(m) \ {p}
        /\ M[q].next = m[p].next /\ m[p].next \in Hd(m) /\ p < m[p].next
        /\ \A i \in Hd(m) \ {p} : M[i].used = m[i].used /\ (i # q => M[i].next = m[i].next)
    BY <1>1, <2>3, <2>4, JoinLinked
  <2>6. Holes(M) = Holes(m) \ {p}
    BY <1>1, <2>3, <2>4, JoinHoles
  <2>7. low # p
    BY <1>1, <2>3
  <2>8. Mem!JoinPrev(Mem!Heap(m, low), p) = Mem!Heap(M, low)
    BY <1>3, <1>6, <2>4, <2>7
  <2>9. UsedKept(m, M)
    BY <1>1, <1>6, <2>5 DEF UsedKept
  <2>10. ASSUME NEW i \in Holes(M) PROVE M[i].next \notin Holes(M)
    <3>1. CASE i = q
      <4>1. m[p].next \in Nat /\ m[p].next # p
        BY <1>1, <1>4, <2>3, <2>5
      <4>2. m[p].next \notin Holes(m)
        BY <1>1, <4>1
      <4> QED
        BY <2>5, <2>6, <3>1, <4>2
    <3>2. CASE i # q
      <4>1. i \in Holes(m) /\ i \in Hd(m) \ {p} /\ i # Mem!ram_end
        BY <1>1, <2>6
      <4>2. M[i].next = m[i].next
        BY <2>5, <3>2, <4>1
      <4>3. m[i].next # p
        BY <1>4, <3>2, <4>1
      <4> QED
        BY <2>6, <4>1, <4>2, <4>3
    <3> QED
      BY <3>1, <3>2
  <2>11. HeapOK(M, low)
    BY <1>1, <2>5, <2>6, <2>7, <2>10 DEF HeapOK
  <2> QED
    BY <2>8, <2>9, <2>11
<1> QED
  BY <1>5, <1>6

(* A block that its owner holds passes the check of mem_free. *)
LEMMA LinkIsValid ==
  ASSUME MemInv, NEW p \in DOMAIN owned
  PROVE  mem[p].used = 1 /\ Mem!mem_link_valid(p)
<1>1. Linked(mem) /\ p \in Hd(mem) /\ p # Mem!ram_end /\ mem[p].used = 1
  BY DEF MemInv, HeapOK, OwnersOK
<1>2. /\ mem[p].next <= MEM_SIZE_ALIGNED /\ mem[p].prev <= MEM_SIZE_ALIGNED
  <2>1. mem[p].next <= Mem!ram_end /\ mem[p].prev \in Mem!Offsets
    BY <1>1, LinkedIs
  <2> QED
    BY <2>1, EndIs, MemConstants
<1>3. mem[p].prev = p \/ mem[mem[p].prev].next = p
  <2>1. CASE p = 0
    BY <1>1, <2>1 DEF Linked
  <2>2. CASE p # 0
    <3>1. PICK r \in Hd(mem) : mem[r].next = p /\ mem[p].prev = r
      BY <1>1, <2>2, PrevHeader
    <3> QED
      BY <3>1
  <2> QED
    BY <2>1, <2>2
<1>4. mem[p].next = Mem!ram_end \/ mem[mem[p].next].prev = p
  BY <1>1 DEF Linked
<1> QED
  BY <1>1, <1>2, <1>3, <1>4 DEF Mem!mem_link_valid

(* mem_free *)
LEMMA FreeMem ==
  ASSUME MemInv, NEW p \in DOMAIN owned, Mem!mem_free(p)
  PROVE  MemInv'
<1>1. /\ HeapOK(mem, lfree) /\ OwnersOK(mem, owned) /\ Linked(mem) /\ lfree \in Hd(mem)
      /\ p \in Hd(mem) /\ p # Mem!ram_end
  BY DEF MemInv, HeapOK, OwnersOK
<1>2. PICK m, low : m = SetUsed(mem, p, 0) /\ low = Mem!Min({p, lfree})
  OBVIOUS
<1>3. PICK h : h = Mem!plug_holes(Mem!Heap(m, low), p)
  OBVIOUS
<1>4. mem' = h.mem /\ lfree' = h.lfree /\ owned' = Mem!Restrict(owned, DOMAIN owned \ {p})
  BY <1>2, <1>3, LinkIsValid DEF Mem!mem_free, SetUsed
<1>5. /\ Linked(m) /\ Hd(m) = Hd(mem)
      /\ \A r \in Hd(mem) : m[r].next = mem[r].next /\ m[r].used = IF r = p THEN 0 ELSE mem[r].used
  <2>1. PICK k : k = mem
    OBVIOUS
  <2>2. Linked(k) /\ p \in Hd(k) /\ p # Mem!ram_end /\ 0 \in {0, 1} /\ m = SetUsed(k, p, 0)
    BY <1>1, <1>2, <2>1
  <2>3. /\ Linked(m) /\ Hd(m) = Hd(k)
        /\ \A r \in Hd(k) : m[r].next = k[r].next /\ m[r].used = IF r = p THEN 0 ELSE k[r].used
    BY <2>2, UsedLinked
  <2> QED
    BY <2>1, <2>3
<1>6. Holes(m) = Holes(mem) \cup {p}
  BY <1>1, <1>5 DEF Holes
<1>7. low \in Hd(m) /\ low <= p /\ low <= lfree /\ low \in Nat /\ lfree \in Nat /\ p \in Nat
  <2>1. p \in Nat /\ lfree \in Nat
    BY <1>1, LinkedIs
  <2>2. low \in {p, lfree} /\ low <= p /\ low <= lfree
    BY <1>2, <2>1, MemMinOf
  <2> QED
    BY <1>1, <1>5, <2>1, <2>2
<1>8. HeapBut(m, low, p)
  <2>1. \A r \in Holes(mem) : lfree <= r /\ r \in Nat
    BY <1>1, LinkedIs DEF HeapOK, Holes
  <2>2. \A r \in Holes(m) : low <= r
    BY <1>6, <1>7, <2>1
  <2> QED
    BY <1>5, <1>6, <1>7, <2>2 DEF HeapBut
<1>9. \A r \in Holes(m) : r # p /\ m[r].next # p => m[r].next \notin Holes(m)
  <2>1. \A r \in Holes(mem) : mem[r].next \notin Holes(mem) /\ r \in Hd(mem)
    BY <1>1 DEF HeapOK, Holes
  <2> QED
    BY <1>5, <1>6, <2>1
<1>10. PICK M, l : /\ Mem!JoinNext(Mem!Heap(m, low), p) = Mem!Heap(M, l)
                   /\ HeapBut(M, l, p) /\ UsedKept(m, M)
                   /\ \A r \in Holes(M) : M[r].next # p => M[r].next \notin Holes(M)
  BY <1>8, <1>9, JoinNextIs
<1>11. PICK N, k : /\ Mem!JoinPrev(Mem!Heap(M, l), p) = Mem!Heap(N, k)
                   /\ HeapOK(N, k) /\ UsedKept(M, N)
  BY <1>10, JoinPrevIs
<1>12. mem' = N /\ lfree' = k
  <2>1. h = Mem!Heap(N, k)
    BY <1>3, <1>10, <1>11 DEF Mem!plug_holes
  <2> QED
    BY <1>4, <2>1 DEF Mem!Heap
<1>13. UsedKept(m, N)
  BY <1>10, <1>11 DEF UsedKept
<1>14. OwnersOK(N, owned')
  <2>1. /\ owned' = [r \in DOMAIN owned \ {p} |-> owned[r]]
    BY <1>4 DEF Mem!Restrict
  <2>2. DOMAIN owned' = DOMAIN owned \ {p} /\ \A r \in DOMAIN owned' : owned'[r] = owned[r]
    BY <2>1
  <2>3. owned' \in [DOMAIN owned' -> Wanted]
    <3>1. \A r \in DOMAIN owned : owned[r] \in Wanted
      BY <1>1 DEF OwnersOK
    <3> QED
      BY <2>1, <3>1
  <2>4. /\ \A r \in Hd(mem) : mem[r].used = 1 <=> r \in DOMAIN owned \/ r = Mem!ram_end
        /\ DOMAIN owned \in SUBSET Hd(mem) /\ Mem!ram_end \notin DOMAIN owned
    BY <1>1 DEF OwnersOK
  <2>5. \A r \in Hd(mem) : m[r].used = 1 <=> r \in DOMAIN owned' \/ r = Mem!ram_end
    BY <1>1, <1>5, <2>2, <2>4
  <2>6. \A r \in Hd(N) : N[r].used = 1 <=> r \in DOMAIN owned' \/ r = Mem!ram_end
    BY <1>5, <1>13, <2>5 DEF UsedKept
  <2>7. \A r \in DOMAIN owned' : r \in Hd(N) /\ N[r].next = mem[r].next
    BY <1>5, <1>13, <2>2, <2>4, <2>5 DEF UsedKept
  <2>8. \A r \in DOMAIN owned' : owned'[r] <= N[r].next - (r + 8)
    BY <1>1, <2>2, <2>7 DEF OwnersOK
  <2> QED
    BY <2>2, <2>3, <2>4, <2>6, <2>7, <2>8 DEF OwnersOK
<1> QED
  BY <1>11, <1>12, <1>14 DEF MemInv

(* The owner keeps n bytes of its block, which ends at q. *)
LEMMA OwnerKeeps ==
  ASSUME NEW m, NEW own, OwnersOK(m, own), Linked(m), NEW p \in DOMAIN own, NEW n \in Wanted,
         NEW M, NEW q, Hd(M) \in SUBSET (Hd(m) \cup {q}), q \notin Hd(m), M[q].used = 0,
         \A r \in Hd(m) : m[r].used = 1 => r \in Hd(M),
         \A r \in Hd(m) \cap Hd(M) : M[r].used = m[r].used /\ (r # p => M[r].next = m[r].next),
         n <= M[p].next - (p + 8)
  PROVE  OwnersOK(M, [own EXCEPT ![p] = n])
<1>1. PICK o : o = [own EXCEPT ![p] = n]
  OBVIOUS
<1>2. own \in [DOMAIN own -> Wanted]
  BY DEF OwnersOK
<1>3. /\ o \in [DOMAIN own -> Wanted] /\ DOMAIN o = DOMAIN own
      /\ \A r \in DOMAIN own : o[r] = IF r = p THEN n ELSE own[r]
  BY <1>1, <1>2
<1>4. \A r \in Hd(m) : m[r].used = 1 <=> r \in DOMAIN own \/ r = Mem!ram_end
  BY DEF OwnersOK
<1>5. /\ DOMAIN own \in SUBSET Hd(m) /\ Mem!ram_end \notin DOMAIN own /\ Mem!ram_end \in Hd(m)
  BY DEF OwnersOK, Linked
<1>6. \A r \in DOMAIN own : r \in Hd(m) /\ r \in Hd(M)
  BY <1>4, <1>5
<1>7. \A r \in Hd(M) : M[r].used = 1 <=> r \in DOMAIN own \/ r = Mem!ram_end
  <2> SUFFICES ASSUME NEW r \in Hd(M) PROVE M[r].used = 1 <=> r \in DOMAIN own \/ r = Mem!ram_end
    OBVIOUS
  <2>1. CASE r = q
    BY <1>5, <2>1
  <2>2. CASE r # q
    <3>1. r \in Hd(m) \cap Hd(M)
      BY <2>2
    <3> QED
      BY <1>4, <3>1
  <2> QED
    BY <2>1, <2>2
<1>8. \A r \in DOMAIN own : own[r] <= m[r].next - (r + 8)
  BY DEF OwnersOK
<1>9. \A r \in DOMAIN own : o[r] <= M[r].next - (r + 8)
  BY <1>3, <1>6, <1>8
<1>10. OwnersOK(M, o)
  BY <1>3, <1>5, <1>6, <1>7, <1>9 DEF OwnersOK
<1> QED
  BY <1>1, <1>10

(* mem_trim cuts the tail off a block with no free block behind it. *)
LEMMA TailCut ==
  ASSUME NEW m, NEW low, HeapOK(m, low), NEW p \in Hd(m), p # Mem!ram_end, m[p].used = 1,
         m[p].next \notin Holes(m), NEW q \in Mem!Offsets, p < q, q < m[p].next,
         NEW M, M = Mem!Insert(m, p, q)
  PROVE  HeapOK(M, Mem!Min({q, low}))
<1>1. Linked(m) /\ low \in Hd(m) /\ \A r \in Holes(m) : low <= r /\ m[r].next \notin Holes(m) /\ r \in Hd(m)
  BY DEF HeapOK, Holes
<1>2. /\ Linked(M) /\ Hd(M) = Hd(m) \cup {q} /\ q \notin Hd(m)
      /\ M[p].next = q /\ M[q].next = m[p].next /\ M[q].used = 0
      /\ \A r \in Hd(m) : M[r].used = m[r].used /\ (r # p => M[r].next = m[r].next)
  BY <1>1, InsertLinked
<1>3. Holes(M) = Holes(m) \cup {q}
  BY <1>1, InsertHoles
<1>4. q \in Nat /\ low \in Nat /\ \A r \in Hd(m) : r \in Nat /\ m[r].next \in Hd(m)
  BY <1>1, LinkedIs, EndIs
<1>5. PICK l \in {q, low} : l = Mem!Min({q, low}) /\ l <= q /\ l <= low
  BY <1>4, MemMinOf
<1>6. l \in Hd(M)
  BY <1>1, <1>2
<1>7. \A r \in Holes(M) : l <= r
  <2>1. l \in Nat
    BY <1>4
  <2>2. \A r \in Holes(m) : r \in Nat /\ low <= r
    BY <1>1, <1>4
  <2>3. \A r \in Holes(m) : l <= r
    BY <1>4, <1>5, <2>1, <2>2
  <2> QED
    BY <1>3, <1>5, <2>3
<1>8. ASSUME NEW r \in Holes(M) PROVE M[r].next \notin Holes(M)
  <2>1. CASE r = q
    <3>1. m[p].next # q
      BY <1>2, <1>4
    <3> QED
      BY <1>2, <1>3, <2>1, <3>1
  <2>2. CASE r # q
    <3>1. r \in Holes(m) /\ r \in Hd(m) /\ r # p
      BY <1>1, <1>3, <2>2 DEF Holes
    <3>2. M[r].next = m[r].next /\ m[r].next # q /\ m[r].next \notin Holes(m)
      BY <1>1, <1>2, <1>4, <3>1
    <3> QED
      BY <1>3, <3>2
  <2> QED
    BY <2>1, <2>2
<1> QED
  BY <1>2, <1>5, <1>6, <1>7, <1>8 DEF HeapOK

(* mem_trim moves the free block behind a block down to q. *)
LEMMA HoleMoved ==
  ASSUME NEW m, NEW low, HeapOK(m, low), NEW p \in Hd(m), p # Mem!ram_end, m[p].used = 1,
         NEW hole \in Holes(m), hole = m[p].next, NEW q \in Mem!Offsets, p < q, q < hole,
         NEW M, M = Mem!Insert(Mem!Join(m, p, hole), p, q)
  PROVE  /\ HeapOK(M, IF low = hole THEN q ELSE low)
         /\ Hd(M) = (Hd(m) \ {hole}) \cup {q} /\ q \notin Hd(m) /\ M[q].used = 0 /\ M[p].next = q
         /\ \A r \in Hd(m) \ {hole} : M[r].used = m[r].used /\ (r # p => M[r].next = m[r].next)
<1>1. /\ Linked(m) /\ low \in Hd(m) /\ hole \in Hd(m) /\ hole # Mem!ram_end
      /\ \A r \in Holes(m) : low <= r /\ m[r].next \notin Holes(m) /\ r \in Hd(m)
  BY DEF HeapOK, Holes
<1>2. PICK k : k = Mem!Join(m, p, hole)
  OBVIOUS
<1>3. /\ Linked(k) /\ Hd(k) = Hd(m) \ {hole}
      /\ k[p].next = m[hole].next /\ m[hole].next \in Hd(m) /\ hole < m[hole].next
      /\ \A r \in Hd(m) \ {hole} : k[r].used = m[r].used /\ (r # p => k[r].next = m[r].next)
  BY <1>1, <1>2, JoinLinked
<1>4. Holes(k) = Holes(m) \ {hole}
  BY <1>1, <1>2, JoinHoles
<1>5. /\ q \in Nat /\ low \in Nat /\ p \in Nat /\ hole \in Nat /\ m[hole].next \in Nat
      /\ \A r \in Hd(m) : r \in Nat /\ m[r].next \in Hd(m)
  BY <1>1, LinkedIs, EndIs
<1>6. p # hole /\ p \in Hd(k) /\ q < k[p].next
  <2>1. p # hole
    BY <1>5
  <2>2. q < m[hole].next
    BY <1>3, <1>5
  <2> QED
    BY <1>3, <2>1, <2>2
<1>7. M = Mem!Insert(k, p, q)
  BY <1>2
<1>8. /\ Linked(M) /\ Hd(M) = Hd(k) \cup {q} /\ q \notin Hd(k)
      /\ M[p].next = q /\ M[q].next = k[p].next /\ M[q].used = 0
      /\ \A r \in Hd(k) : M[r].used = k[r].used /\ (r # p => M[r].next = k[r].next)
  BY <1>3, <1>6, <1>7, InsertLinked
<1>9. Holes(M) = Holes(k) \cup {q}
  BY <1>3, <1>6, <1>7, InsertHoles
<1>10. \A r \in Hd(m) : ~(p < r /\ r < hole)
  BY <1>1 DEF Linked
<1>11. q \notin Hd(m)
  BY <1>10
<1>12. \A r \in Hd(m) \ {hole} : M[r].used = m[r].used /\ (r # p => M[r].next = m[r].next)
  BY <1>3, <1>8
<1>13. PICK l : l = IF low = hole THEN q ELSE low
  OBVIOUS
<1>14. l \in Hd(M)
  BY <1>1, <1>3, <1>8, <1>13
<1>15. \A r \in Holes(M) : l <= r
  <2>1. \A r \in Holes(M) : r = q \/ (r \in Holes(m) /\ low <= r /\ r \in Nat)
    BY <1>1, <1>4, <1>5, <1>9
  <2>2. CASE low = hole
    <3>1. l = q
      BY <1>13, <2>2
    <3>2. \A r \in Nat : low <= r => q <= r
      BY <1>5, <2>2
    <3> QED
      BY <1>5, <2>1, <3>1, <3>2
  <2>3. CASE low # hole
    <3>1. l = low
      BY <1>13, <2>3
    <3>2. low <= hole /\ ~(p < low /\ low < hole)
      BY <1>1, <1>10
    <3>3. low <= q
      BY <1>5, <2>3, <3>2
    <3> QED
      BY <2>1, <3>1, <3>3
  <2> QED
    BY <2>2, <2>3
<1>16. ASSUME NEW r \in Holes(M) PROVE M[r].next \notin Holes(M)
  <2>1. CASE r = q
    <3>1. M[r].next = m[hole].next /\ m[hole].next \notin Holes(m) /\ m[hole].next # q
      BY <1>1, <1>3, <1>8, <1>11, <2>1
    <3> QED
      BY <1>4, <1>9, <3>1
  <2>2. CASE r # q
    <3>1. r \in Holes(m) /\ r \in Hd(m) \ {hole} /\ r # p
      BY <1>1, <1>4, <1>9, <2>2 DEF Holes
    <3>2. M[r].next = m[r].next /\ m[r].next # q /\ m[r].next \notin Holes(m)
      BY <1>1, <1>5, <1>11, <1>12, <3>1
    <3> QED
      BY <1>4, <1>9, <3>2
  <2> QED
    BY <2>1, <2>2
<1>17. HeapOK(M, l)
  BY <1>8, <1>14, <1>15, <1>16 DEF HeapOK
<1> QED
  BY <1>3, <1>8, <1>11, <1>12, <1>13, <1>17

(* mem_trim *)
LEMMA TrimMem ==
  ASSUME MemInv, NEW p \in DOMAIN owned, NEW n \in Wanted, Mem!mem_trim(p, n)
  PROVE  MemInv'
<1>1. /\ HeapOK(mem, lfree) /\ OwnersOK(mem, owned) /\ Linked(mem)
      /\ p \in Hd(mem) /\ p # Mem!ram_end /\ mem[p].used = 1 /\ lfree \in Hd(mem)
      /\ n <= owned[p] /\ owned[p] <= mem[p].next - (p + 8)
  BY DEF MemInv, HeapOK, OwnersOK, Mem!mem_trim
<1>2. PICK s \in Nat : s = Mem!BlockData(n) /\ s % 4 = 0 /\ n <= s /\ n \in Nat
  BY BlockDataIs DEF Mem!mem_trim
<1>3. /\ s < Mem!Room(p) /\ owned' = [owned EXCEPT ![p] = n]
      /\ mem' = Mem!Trimmed(p, s).mem /\ lfree' = Mem!Trimmed(p, s).lfree
  BY <1>2 DEF Mem!mem_trim
<1>4. PICK k \in Hd(mem) : k = mem[p].next /\ k \in Nat /\ p \in Nat /\ k \in Mem!Offsets /\ p \in Mem!Offsets
  BY <1>1, LinkedIs
<1>5. p + 8 + s < k
  BY <1>3, <1>4 DEF Mem!Room, Mem!SIZEOF_STRUCT_MEM
<1>6. PICK q \in Mem!Offsets : q = p + 8 + s /\ p < q /\ q < k /\ n <= q - (p + 8)
  <2>1. p + 8 + s \in Mem!Offsets /\ p < p + 8 + s
    BY <1>2, <1>4, <1>5, BehindIs
  <2>2. n <= (p + 8 + s) - (p + 8)
    BY <1>2, <1>4
  <2> QED
    BY <1>5, <2>1, <2>2
<1>7. k \in Holes(mem) <=> Mem!IsHole(mem, k)
  BY <1>4 DEF Holes, Mem!IsHole
<1>8. Mem!Trimmed(p, s) = IF k \in Holes(mem) THEN Mem!MoveHole(p, q)
                          ELSE IF Mem!Splits(Mem!Room(p), s) THEN Mem!CutTail(p, q)
                          ELSE Mem!Heap(mem, lfree)
  BY <1>4, <1>6, <1>7 DEF Mem!Trimmed, Mem!SIZEOF_STRUCT_MEM
<1>9. \A r \in Hd(mem) : mem[r].used = 1 <=> r \in DOMAIN owned \/ r = Mem!ram_end
  BY <1>1 DEF OwnersOK
<1>10. CASE k \in Holes(mem)
  <2>1. mem' = Mem!Insert(Mem!Join(mem, p, k), p, q) /\ lfree' = IF lfree = k THEN q ELSE lfree
    <3>1. Mem!Trimmed(p, s) = Mem!Heap(Mem!Insert(Mem!Join(mem, p, k), p, q), IF lfree = k THEN q ELSE lfree)
      BY <1>4, <1>8, <1>10 DEF Mem!MoveHole
    <3> QED
      BY <1>3, <3>1 DEF Mem!Heap
  <2>2. PICK m, low, M : m = mem /\ low = lfree /\ M = mem'
    OBVIOUS
  <2>3. /\ HeapOK(m, low) /\ p \in Hd(m) /\ p # Mem!ram_end /\ m[p].used = 1
        /\ k \in Holes(m) /\ k = m[p].next /\ p < q /\ q < k
        /\ M = Mem!Insert(Mem!Join(m, p, k), p, q)
    BY <1>1, <1>4, <1>6, <1>10, <2>1, <2>2
  <2>4. /\ HeapOK(M, IF low = k THEN q ELSE low)
        /\ Hd(M) = (Hd(m) \ {k}) \cup {q} /\ q \notin Hd(m) /\ M[q].used = 0 /\ M[p].next = q
        /\ \A r \in Hd(m) \ {k} : M[r].used = m[r].used /\ (r # p => M[r].next = m[r].next)
    BY <2>3, HoleMoved
  <2>5. m[k].used = 0
    BY <2>3 DEF Holes
  <2>6. /\ \A r \in Hd(m) : m[r].used = 1 => r \in Hd(M)
        /\ \A r \in Hd(m) \cap Hd(M) : M[r].used = m[r].used /\ (r # p => M[r].next = m[r].next)
        /\ Hd(M) \in SUBSET (Hd(m) \cup {q})
    <3>1. k # q
      BY <2>3, <2>4 DEF Holes
    <3> QED
      BY <2>4, <2>5, <3>1
  <2>7. OwnersOK(M, owned')
    <3>1. PICK own : own = owned
      OBVIOUS
    <3>2. OwnersOK(m, own) /\ Linked(m) /\ p \in DOMAIN own /\ n <= M[p].next - (p + 8)
      BY <1>1, <1>6, <2>2, <2>4, <3>1
    <3>3. OwnersOK(M, [own EXCEPT ![p] = n])
      BY <2>4, <2>6, <3>2, OwnerKeeps
    <3> QED
      BY <1>3, <3>1, <3>3
  <2> QED
    BY <2>1, <2>2, <2>4, <2>7 DEF MemInv
<1>11. CASE k \notin Holes(mem) /\ Mem!Splits(Mem!Room(p), s)
  <2>1. mem' = Mem!Insert(mem, p, q) /\ lfree' = Mem!Min({q, lfree})
    <3>1. Mem!Trimmed(p, s) = Mem!Heap(Mem!Insert(mem, p, q), Mem!Min({q, lfree}))
      BY <1>8, <1>11 DEF Mem!CutTail
    <3> QED
      BY <1>3, <3>1 DEF Mem!Heap
  <2>2. PICK m, low, M : m = mem /\ low = lfree /\ M = mem'
    OBVIOUS
  <2>3. /\ HeapOK(m, low) /\ Linked(m) /\ p \in Hd(m) /\ p # Mem!ram_end /\ m[p].used = 1
        /\ m[p].next \notin Holes(m) /\ p < q /\ q < m[p].next
        /\ M = Mem!Insert(m, p, q)
    BY <1>1, <1>4, <1>6, <1>11, <2>1, <2>2
  <2>4. HeapOK(M, Mem!Min({q, low}))
    BY <2>3, TailCut
  <2>5. /\ Hd(M) = Hd(m) \cup {q} /\ q \notin Hd(m)
        /\ M[p].next = q /\ M[q].used = 0
        /\ \A r \in Hd(m) : M[r].used = m[r].used /\ (r # p => M[r].next = m[r].next)
    BY <2>3, InsertLinked
  <2>6. /\ \A r \in Hd(m) : m[r].used = 1 => r \in Hd(M)
        /\ \A r \in Hd(m) \cap Hd(M) : M[r].used = m[r].used /\ (r # p => M[r].next = m[r].next)
        /\ Hd(M) \in SUBSET (Hd(m) \cup {q})
    BY <2>5
  <2>7. OwnersOK(M, owned')
    <3>1. PICK own : own = owned
      OBVIOUS
    <3>2. OwnersOK(m, own) /\ p \in DOMAIN own /\ n <= M[p].next - (p + 8)
      BY <1>1, <1>6, <2>2, <2>5, <3>1
    <3>3. OwnersOK(M, [own EXCEPT ![p] = n])
      BY <2>3, <2>5, <2>6, <3>2, OwnerKeeps
    <3> QED
      BY <1>3, <3>1, <3>3
  <2> QED
    BY <2>1, <2>2, <2>4, <2>7 DEF MemInv
<1>12. CASE k \notin Holes(mem) /\ ~Mem!Splits(Mem!Room(p), s)
  <2>1. mem' = mem /\ lfree' = lfree
    BY <1>3, <1>8, <1>12 DEF Mem!Heap
  <2>2. OwnersOK(mem, owned')
    <3>1. DOMAIN owned' = DOMAIN owned /\ \A r \in DOMAIN owned : owned'[r] = IF r = p THEN n ELSE owned[r]
      BY <1>3
    <3>2. owned' \in [DOMAIN owned' -> Wanted]
      <4>1. owned \in [DOMAIN owned -> Wanted]
        BY <1>1 DEF OwnersOK
      <4> QED
        BY <1>3, <4>1
    <3>3. n <= mem[p].next - (p + 8)
      <4>1. n <= k - (p + 8)
        BY <1>2, <1>4, <1>5
      <4> QED
        BY <1>4, <4>1
    <3>4. \A r \in DOMAIN owned : owned'[r] <= mem[r].next - (r + 8)
      BY <1>1, <3>1, <3>3 DEF OwnersOK
    <3> QED
      BY <1>1, <3>1, <3>2, <3>4 DEF OwnersOK
  <2> QED
    BY <1>1, <2>1, <2>2 DEF MemInv
<1> QED
  BY <1>10, <1>11, <1>12

(* mem_init *)
LEMMA MemInitInv ==
  ASSUME Mem!Init
  PROVE  MemInv
<1>1. PICK e \in Nat : e = Mem!ram_end /\ e > 0 /\ e \in Mem!Offsets /\ 0 \in Mem!Offsets
  BY EndIs
<1>2. \A q \in Mem!Offsets :
        /\ q = 0 => mem[q] = [next |-> e, prev |-> 0, used |-> 0]
        /\ q = e => mem[q] = [next |-> e, prev |-> e, used |-> 1]
        /\ q # 0 /\ q # e => mem[q] = [next |-> 0, prev |-> 0, used |-> 0]
  BY <1>1 DEF Mem!Init, Mem!NoHeader
<1>3. mem \in [Mem!Offsets -> MemHeader]
  <2>1. /\ [next |-> e, prev |-> 0, used |-> 0] \in MemHeader
        /\ [next |-> e, prev |-> e, used |-> 1] \in MemHeader
        /\ [next |-> 0, prev |-> 0, used |-> 0] \in MemHeader
    BY <1>1 DEF MemHeader
  <2>2. \A q \in Mem!Offsets : mem[q] \in MemHeader
    BY <1>2, <2>1
  <2>3. mem = [q \in Mem!Offsets |-> mem[q]]
    BY DEF Mem!Init
  <2> QED
    BY <2>2, <2>3
<1>4. /\ mem[0].next = e /\ mem[0].prev = 0 /\ mem[0].used = 0
      /\ mem[e].next = e /\ mem[e].used = 1
      /\ \A q \in Mem!Offsets : q # 0 /\ q # e => mem[q].next = 0
  BY <1>1, <1>2
<1>5. Hd(mem) = {0, e}
  <2>1. e # 0
    BY <1>1
  <2>2. \A q \in Mem!Offsets : mem[q].next # 0 <=> q \in {0, e}
    BY <1>1, <1>4, <2>1
  <2> QED
    BY <1>1, <2>2 DEF Hd
<1>6. Linked(mem)
  BY <1>1, <1>3, <1>4, <1>5 DEF Linked
<1>7. Holes(mem) = {0}
  BY <1>1, <1>4, <1>5 DEF Holes
<1>8. HeapOK(mem, lfree)
  BY <1>1, <1>4, <1>5, <1>6, <1>7 DEF HeapOK, Mem!Init
<1>9. OwnersOK(mem, owned)
  <2>1. owned = <<>> /\ DOMAIN owned = {}
    BY DEF Mem!Init
  <2>2. owned \in [DOMAIN owned -> Wanted]
    BY <2>1
  <2> QED
    BY <1>1, <1>4, <1>5, <2>1, <2>2 DEF OwnersOK
<1> QED
  BY <1>8, <1>9 DEF MemInv

(* The invariant of the heap of lwIP in every state. *)
LEMMA MemInvHolds == MCSpec => []MemInv
<1>1. MCInit => MemInv
  BY MemInitInv DEF MCInit
<1>2. MemInv /\ [MCNext]_all => MemInv'
  <2> SUFFICES ASSUME MemInv, [MCNext]_all PROVE MemInv'
    OBVIOUS
  <2>1. CASE UNCHANGED ram
    <3>1. mem' = mem /\ lfree' = lfree /\ owned' = owned
      BY <2>1 DEF ram
    <3> QED
      BY <3>1 DEF MemInv
  <2>2. CASE Mem!Next
    BY <2>2, MallocMem, FreeMem, TrimMem DEF Mem!Next
  <2> QED
    BY <2>1, <2>2 DEF MCNext, InArp, InReass, InTimers, InMem, all
<1> QED
  BY <1>1, <1>2, PTL DEF MCSpec

(* For every size of the heap, every set of sizes asked for and every width *)
(* of mem_size_t: whatever is asked for, trimmed and given back, and in     *)
(* which order, each owner has the bytes it asked for to itself, mem_free   *)
(* accepts every block that is owned, no two free blocks are neighbours,    *)
(* and no free block is below lfree, where mem_malloc begins to search.     *)
THEOREM MemIsSound == MCSpec => []MemSound
<1>1. ASSUME MemInv PROVE MemSound
  <2>1. HeapOK(mem, lfree) /\ OwnersOK(mem, owned) /\ Linked(mem) /\ lfree \in Hd(mem)
    BY <1>1 DEF MemInv, HeapOK
  <2>2. Mem!Headers = Hd(mem)
    <3>1. 0 \in Hd(mem) /\ \A r \in Hd(mem) : r \in Nat
      BY <2>1, LinkedIs DEF Linked
    <3>2. Mem!From(mem, 0) = {r \in Hd(mem) : 0 <= r}
      BY <2>1, <3>1, FromIs
    <3> QED
      BY <3>1, <3>2 DEF Mem!Headers
  <2>3. Mem!TypeOK
    <3>1. lfree \in Mem!Offsets /\ Hd(mem) \in SUBSET Mem!Offsets
      BY <2>1 DEF Hd
    <3> QED
      BY <2>1, <3>1 DEF Mem!TypeOK, Linked, MemHeader, OwnersOK
  <2>4. Mem!OwnersApart
    <3>1. Mem!ram_end \in Hd(mem)
      BY <2>1 DEF Linked
    <3>2. {p \in Hd(mem) : mem[p].used = 1} = DOMAIN owned \cup {Mem!ram_end}
      BY <2>1, <3>1 DEF OwnersOK
    <3>3. \A p \in DOMAIN owned : owned[p] <= Mem!Room(p)
      BY <2>1 DEF OwnersOK, Mem!Room, Mem!SIZEOF_STRUCT_MEM
    <3> QED
      BY <2>2, <3>1, <3>2, <3>3 DEF Mem!OwnersApart
  <2>5. Mem!FreeAccepted
    BY <1>1, LinkIsValid DEF Mem!FreeAccepted
  <2>6. \A p \in Hd(mem) : Mem!IsHole(mem, p) <=> p \in Holes(mem)
    BY DEF Mem!IsHole, Holes
  <2>7. Mem!NoAdjacentHoles
    <3>1. \A p \in Hd(mem) : mem[p].next \in Hd(mem)
      BY <2>1, LinkedIs
    <3> QED
      BY <2>1, <2>2, <2>6, <3>1 DEF Mem!NoAdjacentHoles, HeapOK
  <2>8. Mem!SearchComplete
    BY <2>1, <2>2, <2>6 DEF Mem!SearchComplete, HeapOK
  <2> QED
    BY <2>3, <2>4, <2>5, <2>7, <2>8 DEF MemSound
<1> QED
  BY <1>1, MemInvHolds, PTL

-----------------------------------------------------------------------------
(* Reassembly: the queue as a sequence of entries. *)

(* A set of numbers with 0 that is closed under successor holds them all. *)
LEMMA NatSetInduction ==
  ASSUME NEW S \in SUBSET Nat, 0 \in S, \A n \in S : n + 1 \in S
  PROVE  S = Nat
<1> SUFFICES ASSUME S # Nat PROVE FALSE
  OBVIOUS
<1>1. PICK T \in SUBSET Nat : T = Nat \ S /\ T # {}
  OBVIOUS
<1>2. PICK x \in T : \A y \in T : x <= y
  BY <1>1, LeastNat
<1>3. x \in Nat /\ x # 0
  BY <1>1
<1>4. x - 1 \in Nat /\ ~(x <= x - 1)
  BY <1>3
<1>5. x - 1 \in S
  BY <1>1, <1>2, <1>4
<1>6. (x - 1) + 1 \in S
  BY <1>5
<1>7. (x - 1) + 1 = x
  BY <1>3
<1> QED
  BY <1>1, <1>6, <1>7

(* g begins with x0, and each value comes from the one before it by F. *)
Iterates(g, n, X, x0, F) ==
  /\ g \in [0..n -> X]
  /\ g[0] = x0
  /\ \A i \in 1..n : g[i] = F[i][g[i - 1]]

(* A function may be defined by recursion over an interval. *)
LEMMA RecursionExists ==
  ASSUME NEW X, NEW x0 \in X, NEW F \in [Nat -> [X -> X]], NEW n \in Nat
  PROVE  \E g : Iterates(g, n, X, x0, F)
<1> DEFINE P(m, g) == g[0] = x0 /\ \A i \in 1..m : g[i] = F[i][g[i - 1]]
           S == {m \in Nat : \E g \in [0..m -> X] : P(m, g)}
<1>1. 0 \in S
  <2>1. [i \in 0..0 |-> x0] \in [0..0 -> X] /\ P(0, [i \in 0..0 |-> x0])
    OBVIOUS
  <2> QED
    BY <2>1
<1>2. ASSUME NEW m \in S PROVE m + 1 \in S
  <2>1. PICK g \in [0..m -> X] : P(m, g)
    OBVIOUS
  <2>2. F[m + 1] \in [X -> X] /\ g[m] \in X
    OBVIOUS
  <2> DEFINE h == [i \in 0..(m + 1) |-> IF i = m + 1 THEN F[m + 1][g[m]] ELSE g[i]]
  <2>3. h \in [0..(m + 1) -> X]
    BY <2>2
  <2>4. P(m + 1, h)
    BY <2>1
  <2>5. \E f \in [0..(m + 1) -> X] : P(m + 1, f)
    <3> HIDE DEF P, h
    <3> QED
      BY <2>3, <2>4
  <2>6. m + 1 \in Nat
    OBVIOUS
  <2> HIDE DEF P
  <2> QED
    BY <2>5, <2>6
<1>3. S = Nat
  <2> HIDE DEF S
  <2>1. S \in SUBSET Nat
    BY DEF S
  <2> QED
    BY <1>1, <1>2, <2>1, NatSetInduction
<1> QED
  BY <1>3 DEF Iterates

In(q) == {q[i] : i \in 1..Len(q)}

(* No two entries for one datagram. *)
OneEach(q) == \A i, j \in 1..Len(q) : q[i].id = q[j].id => i = j

(* r holds the first i entries of q, in order, but for those in ids. *)
Rest(q, ids, i, r) ==
  /\ Len(r) <= i
  /\ (\E l \in 1..i : q[l].id \in ids) => Len(r) < i
  /\ \A k \in 1..Len(r) : \E l \in 1..i : r[k] = q[l] /\ q[l].id \notin ids
  /\ \A l \in 1..i : q[l].id \notin ids => \E k \in 1..Len(r) : r[k] = q[l]
  /\ OneEach(r)

(* One more entry is looked at, and kept or not. *)
LEMMA RestGrows ==
  ASSUME NEW E, NEW q \in Seq(E), OneEach(q), NEW ids, NEW i \in Nat, i + 1 <= Len(q),
         NEW r \in Seq(E), Rest(q, ids, i, r)
  PROVE  IF q[i + 1].id \in ids THEN Rest(q, ids, i + 1, r) ELSE Rest(q, ids, i + 1, Append(r, q[i + 1]))
<1>0. PICK n \in Nat : n = Len(r) /\ n <= i /\ ((\E l \in 1..i : q[l].id \in ids) => n < i)
  BY LenProperties DEF Rest
<1>1. /\ \A k \in 1..n : \E l \in 1..i : r[k] = q[l] /\ q[l].id \notin ids
      /\ \A l \in 1..i : q[l].id \notin ids => \E k \in 1..n : r[k] = q[l]
      /\ \A k, m \in 1..n : r[k].id = r[m].id => k = m
  BY <1>0 DEF Rest, OneEach
<1>2. \A l \in 1..(i + 1) : l \in 1..i \/ l = i + 1
  OBVIOUS
<1>3. (\A l \in 1..i : l \in 1..(i + 1)) /\ i + 1 \in 1..(i + 1)
  OBVIOUS
<1>4. CASE q[i + 1].id \in ids
  <2>1. n <= i + 1 /\ n < i + 1
    BY <1>0
  <2> QED
    BY <1>0, <1>1, <1>2, <1>3, <1>4, <2>1 DEF Rest, OneEach
<1>5. CASE q[i + 1].id \notin ids
  <2>1. q[i + 1] \in E /\ Len(q) \in Nat
    <3>1. i + 1 \in 1..Len(q)
      BY LenProperties
    <3> QED
      BY <3>1, ElementOfSeq, LenProperties
  <2>2. PICK s \in Seq(E) : s = Append(r, q[i + 1])
    BY <2>1, AppendProperties
  <2>3. Len(s) = n + 1 /\ s[n + 1] = q[i + 1] /\ \A k \in 1..n : s[k] = r[k]
    BY <1>0, <2>1, <2>2, AppendProperties
  <2>4. \A k \in 1..(n + 1) : k \in 1..n \/ k = n + 1
    OBVIOUS
  <2>5. (\A k \in 1..n : k \in 1..(n + 1)) /\ n + 1 \in 1..(n + 1)
    OBVIOUS
  <2>6. n + 1 <= i + 1 /\ ((\E l \in 1..(i + 1) : q[l].id \in ids) => n + 1 < i + 1)
    BY <1>0, <1>2, <1>5
  <2>7. \A k \in 1..(n + 1) : \E l \in 1..(i + 1) : s[k] = q[l] /\ q[l].id \notin ids
    <3>1. ASSUME NEW k \in 1..n PROVE \E l \in 1..(i + 1) : s[k] = q[l] /\ q[l].id \notin ids
      <4>1. PICK l \in 1..i : r[k] = q[l] /\ q[l].id \notin ids
        BY <1>1
      <4>2. l \in 1..(i + 1) /\ s[k] = q[l]
        BY <1>3, <2>3, <4>1
      <4> QED
        BY <4>1, <4>2
    <3>2. \E l \in 1..(i + 1) : s[n + 1] = q[l] /\ q[l].id \notin ids
      BY <1>3, <1>5, <2>3, Zenon
    <3> QED
      BY <2>4, <3>1, <3>2, Zenon
  <2>8. ASSUME NEW l \in 1..(i + 1), q[l].id \notin ids PROVE \E k \in 1..(n + 1) : s[k] = q[l]
    <3>1. CASE l = i + 1
      BY <2>3, <2>5, <3>1
    <3>2. CASE l \in 1..i
      <4>1. PICK k \in 1..n : r[k] = q[l]
        BY <1>1, <2>8, <3>2
      <4>2. k \in 1..(n + 1) /\ s[k] = q[l]
        BY <2>3, <2>5, <4>1
      <4> QED
        BY <4>2
    <3> QED
      BY <1>2, <3>1, <3>2
  <2>9. \A k \in 1..n : s[k].id # s[n + 1].id
    <3> SUFFICES ASSUME NEW k \in 1..n, s[k].id = s[n + 1].id PROVE FALSE
      OBVIOUS
    <3>1. PICK l \in 1..i : r[k] = q[l]
      BY <1>1
    <3>2. q[l].id = q[i + 1].id /\ l \in 1..Len(q) /\ i + 1 \in 1..Len(q)
      BY <2>1, <2>3, <3>1
    <3>3. l = i + 1
      BY <3>2 DEF OneEach
    <3> QED
      BY <3>3
  <2>10. ASSUME NEW k \in 1..(n + 1), NEW m \in 1..(n + 1), s[k].id = s[m].id PROVE k = m
    <3>1. CASE k \in 1..n /\ m \in 1..n
      BY <1>1, <2>3, <2>10, <3>1
    <3>2. CASE k = n + 1 /\ m \in 1..n
      BY <2>9, <2>10, <3>2
    <3>3. CASE k \in 1..n /\ m = n + 1
      BY <2>9, <2>10, <3>3
    <3> QED
      BY <2>4, <3>1, <3>2, <3>3
  <2> QED
    <3>1. PICK m : m = Len(s) /\ m = n + 1
      BY <2>3
    <3>2. OneEach(s)
      BY <2>10, <3>1, Zenon DEF OneEach
    <3>3. Rest(q, ids, i + 1, s)
      <4>1. Len(s) <= i + 1 /\ ((\E l \in 1..(i + 1) : q[l].id \in ids) => Len(s) < i + 1)
        BY <2>3, <2>6, Zenon
      <4>2. \A k \in 1..Len(s) : \E l \in 1..(i + 1) : s[k] = q[l] /\ q[l].id \notin ids
        BY <2>3, <2>7, Zenon
      <4>3. \A l \in 1..(i + 1) : q[l].id \notin ids => \E k \in 1..Len(s) : s[k] = q[l]
        BY <2>3, <2>8, Zenon
      <4> QED
        BY <3>2, <4>1, <4>2, <4>3, Zenon DEF Rest
    <3> QED
      BY <1>5, <2>2, <3>3
<1> QED
  BY <1>4, <1>5

(* ip_reass_dequeue_datagram takes out the entries it is given, and keeps  *)
(* the others.                                                             *)
LEMMA DequeueIs ==
  ASSUME NEW E, NEW q \in Seq(E), OneEach(q), NEW ids
  PROVE  /\ Reass!Dequeue(q, ids) \in Seq(E)
         /\ Rest(q, ids, Len(q), Reass!Dequeue(q, ids))
<1> DEFINE X == Seq(E)
           keep(i, r) == IF q[i].id \in ids THEN r ELSE Append(r, q[i])
           F == [i \in Nat |-> [r \in X |-> IF i \in 1..Len(q) THEN keep(i, r) ELSE r]]
           G(g) == g = [i \in 0..Len(q) |-> IF i = 0 THEN <<>>
                         ELSE IF q[i].id \in ids THEN g[i - 1] ELSE Append(g[i - 1], q[i])]
           f == CHOOSE g : G(g)
<1>0. Len(q) \in Nat /\ \A i \in 1..Len(q) : q[i] \in E
  OBVIOUS
<1>1. <<>> \in X
  OBVIOUS
<1>2. \A i \in Nat : F[i] \in [X -> X]
  <2> SUFFICES ASSUME NEW i \in Nat, NEW r \in X
               PROVE  (IF i \in 1..Len(q) THEN keep(i, r) ELSE r) \in X
    BY Zenon
  <2> QED
    BY <1>0
<1>3. F \in [Nat -> [X -> X]]
  <2>1. F = [i \in Nat |-> F[i]]
    OBVIOUS
  <2> HIDE DEF F, X
  <2> QED
    BY <1>2, <2>1
<1>4. PICK h \in [0..Len(q) -> X] : h[0] = <<>> /\ \A i \in 1..Len(q) : h[i] = F[i][h[i - 1]]
  <2> HIDE DEF F, X
  <2>1. \E g : Iterates(g, Len(q), X, <<>>, F)
    BY <1>0, <1>1, <1>3, RecursionExists
  <2> QED
    BY <2>1 DEF Iterates
<1>5. \A i \in 1..Len(q) : h[i] = keep(i, h[i - 1])
  <2> TAKE i \in 1..Len(q)
  <2>1. h[i - 1] \in X /\ i \in Nat
    BY <1>0
  <2> HIDE DEF X, keep
  <2>2. F[i][h[i - 1]] = keep(i, h[i - 1])
    BY <2>1
  <2> QED
    BY <2>2, <1>4
<1>6. G(h)
  <2> DEFINE e == [i \in 0..Len(q) |-> IF i = 0 THEN <<>>
                         ELSE IF q[i].id \in ids THEN h[i - 1] ELSE Append(h[i - 1], q[i])]
  <2>1. \A i \in 0..Len(q) : h[i] = e[i]
    <3> TAKE i \in 0..Len(q)
    <3>1. CASE i = 0
      BY <3>1, <1>0, <1>4
    <3>2. CASE i # 0
      <4>1. i \in 1..Len(q)
        BY <3>2, <1>0
      <4>2. h[i] = keep(i, h[i - 1])
        BY <4>1, <1>5
      <4> HIDE DEF X, F
      <4> QED
        BY <3>2, <4>2
    <3> QED
      BY <3>1, <3>2
  <2>2. h = [i \in 0..Len(q) |-> h[i]]
    OBVIOUS
  <2> QED
    BY <2>1, <2>2
<1>7. G(f)
  <2> HIDE DEF G
  <2> QED
    BY <1>6
<1>8. Reass!Dequeue(q, ids) = f[Len(q)]
  BY DEF Reass!Dequeue
<1> HIDE DEF f
<1>9. /\ f[0] = <<>>
      /\ \A i \in 1..Len(q) : f[i] = IF q[i].id \in ids THEN f[i - 1] ELSE Append(f[i - 1], q[i])
  <2>1. \A i \in 0..Len(q) :
          f[i] = IF i = 0 THEN <<>>
                 ELSE IF q[i].id \in ids THEN f[i - 1] ELSE Append(f[i - 1], q[i])
    BY <1>7, Zenon
  <2>2. 0 \in 0..Len(q) /\ \A i \in 1..Len(q) : i \in 0..Len(q) /\ i # 0
    BY <1>0
  <2> QED
    BY <2>1, <2>2, Zenon
<1> DEFINE P(i) == f[i] \in X /\ Rest(q, ids, i, f[i])
           S == {i \in Nat : i <= Len(q) => P(i)}
<1>10. P(0)
  BY <1>9 DEF Rest, OneEach
<1>11. ASSUME NEW i \in Nat, i + 1 <= Len(q), P(i) PROVE P(i + 1)
  <2>0. i + 1 \in 1..Len(q) /\ (i + 1) - 1 = i
    BY <1>11, <1>0
  <2>1. PICK r \in Seq(E) : r = f[i] /\ Rest(q, ids, i, r)
    BY <1>11
  <2>2. f[i + 1] = IF q[i + 1].id \in ids THEN r ELSE Append(r, q[i + 1])
    BY <1>9, <2>0, <2>1
  <2>3. IF q[i + 1].id \in ids THEN Rest(q, ids, i + 1, r) ELSE Rest(q, ids, i + 1, Append(r, q[i + 1]))
    BY <1>11, <2>1, RestGrows
  <2>4. Append(r, q[i + 1]) \in Seq(E)
    BY <1>0, <2>0, AppendProperties
  <2> QED
    BY <2>1, <2>2, <2>3, <2>4
<1>12. P(Len(q))
  <2> HIDE DEF P
  <2>1. 0 \in S
    BY <1>10
  <2>2. \A i \in S : i + 1 \in S
    BY <1>11, <1>0
  <2>3. S \in SUBSET Nat
    OBVIOUS
  <2>4. S = Nat
    <3> HIDE DEF S
    <3> QED
      BY <2>1, <2>2, <2>3, NatSetInduction
  <2> QED
    BY <2>4, <1>0
<1> QED
  BY <1>8, <1>12

(* The same, of the set of entries. *)
LEMMA Dequeued ==
  ASSUME NEW E, NEW q \in Seq(E), OneEach(q), NEW ids, NEW r, r = Reass!Dequeue(q, ids)
  PROVE  /\ r \in Seq(E) /\ OneEach(r) /\ Len(r) <= Len(q)
         /\ In(r) = {d \in In(q) : d.id \notin ids}
         /\ (\E d \in In(q) : d.id \in ids) => Len(r) < Len(q)
<1>1. r \in Seq(E) /\ Rest(q, ids, Len(q), r)
  BY DequeueIs
<1>2. /\ \A k \in 1..Len(r) : \E l \in 1..Len(q) : r[k] = q[l] /\ q[l].id \notin ids
      /\ \A l \in 1..Len(q) : q[l].id \notin ids => \E k \in 1..Len(r) : r[k] = q[l]
      /\ (\E l \in 1..Len(q) : q[l].id \in ids) => Len(r) < Len(q)
  BY <1>1, Zenon DEF Rest
<1>3. In(r) = {d \in In(q) : d.id \notin ids}
  <2>1. ASSUME NEW d \in In(r) PROVE d \in In(q) /\ d.id \notin ids
    <3>1. PICK k \in 1..Len(r) : d = r[k]
      BY DEF In
    <3>2. PICK l \in 1..Len(q) : r[k] = q[l] /\ q[l].id \notin ids
      BY <1>2
    <3> QED
      BY <3>1, <3>2 DEF In
  <2>2. ASSUME NEW d \in In(q), d.id \notin ids PROVE d \in In(r)
    <3>1. PICK l \in 1..Len(q) : d = q[l]
      BY DEF In
    <3>2. PICK k \in 1..Len(r) : r[k] = q[l]
      BY <1>2, <2>2, <3>1
    <3> QED
      BY <3>1, <3>2 DEF In
  <2> QED
    BY <2>1, <2>2, Zenon
<1>4. (\E d \in In(q) : d.id \in ids) => Len(r) < Len(q)
  BY <1>2, Zenon DEF In
<1> QED
  BY <1>1, <1>3, <1>4, Zenon DEF Rest

(* The entries of a queue are finitely many. *)
LEMMA InFinite ==
  ASSUME NEW E, NEW q \in Seq(E)
  PROVE  /\ IsFiniteSet(In(q)) /\ In(q) \in SUBSET E /\ Len(q) \in Nat
         /\ Reass!Range(q) = In(q)
<1>1. Len(q) \in Nat /\ DOMAIN q = 1..Len(q) /\ \A i \in 1..Len(q) : q[i] \in E
  OBVIOUS
<1>2. IsFiniteSet(1..Len(q))
  BY <1>1, FS_Interval
<1>3. [i \in 1..Len(q) |-> q[i]] \in Surjection(1..Len(q), In(q))
  BY DEF Surjection, In
<1>4. IsFiniteSet(In(q))
  BY <1>2, <1>3, FS_Surjection
<1> QED
  BY <1>1, <1>4 DEF In, Reass!Range

(* The pbufs that entries hold, and entries for different datagrams. *)
Held(S) == UNION {{d.id} \X (1..Len(d.frags)) : d \in S}
Unlike(S) == \A d, e \in S : d.id = e.id => d = e

(* A queue that holds each datagram once holds no two alike. *)
LEMMA UnlikeIn ==
  ASSUME NEW q, OneEach(q)
  PROVE  Unlike(In(q))
BY DEF OneEach, Unlike, In

(* The pbufs of some entries and those of the others. *)
LEMMA HeldSplit ==
  ASSUME NEW S, IsFiniteSet(S), Unlike(S), \A d \in S : Len(d.frags) \in Nat, NEW T \in SUBSET S
  PROVE  /\ Cardinality(Held(S)) = Cardinality(Held(T)) + Cardinality(Held(S \ T))
         /\ Cardinality(Held(S)) \in Nat /\ Cardinality(Held(T)) \in Nat
         /\ Cardinality(Held(S \ T)) \in Nat
<1> DEFINE I(U) == {d.id : d \in U}
           f == [i \in I(S) |-> Len((CHOOSE d \in S : d.id = i).frags)]
<1>1. ASSUME NEW d \in S PROVE f[d.id] = Len(d.frags) /\ d.id \in I(S)
  <2>1. d.id \in I(S)
    OBVIOUS
  <2>2. (CHOOSE e \in S : e.id = d.id) = d
    BY DEF Unlike
  <2> QED
    BY <2>1, <2>2
<1>2. IsFiniteSet(I(S))
  <2>1. [d \in S |-> d.id] \in Surjection(S, I(S))
    BY DEF Surjection
  <2> QED
    BY <2>1, FS_Surjection
<1>3. \A i \in I(S) : f[i] \in Nat
  <2> HIDE DEF f
  <2> QED
    BY <1>1
<1>4. ASSUME NEW U \in SUBSET S PROVE Held(U) = Pairs(f, I(U))
  <2> HIDE DEF f
  <2>1. \A d \in U : f[d.id] = Len(d.frags)
    BY <1>1
  <2>2. {{d.id} \X (1..Len(d.frags)) : d \in U} = {{i} \X (1..f[i]) : i \in I(U)}
    BY <2>1, Zenon
  <2> QED
    BY <2>2, Zenon DEF Held, Pairs
<1>5. I(T) \in SUBSET I(S) /\ I(S \ T) = I(S) \ I(T)
  BY DEF Unlike
<1> HIDE DEF f, I
<1>6. /\ Cardinality(Pairs(f, I(S))) = Cardinality(Pairs(f, I(T))) + Cardinality(Pairs(f, I(S) \ I(T)))
      /\ Cardinality(Pairs(f, I(S))) \in Nat
      /\ Cardinality(Pairs(f, I(T))) \in Nat
      /\ Cardinality(Pairs(f, I(S) \ I(T))) \in Nat
  BY <1>2, <1>3, <1>5, PairsSplit
<1>7. Held(S) = Pairs(f, I(S)) /\ Held(T) = Pairs(f, I(T)) /\ Held(S \ T) = Pairs(f, I(S) \ I(T))
  <2>1. S \in SUBSET S /\ T \in SUBSET S /\ S \ T \in SUBSET S
    OBVIOUS
  <2> QED
    BY <1>4, <1>5, <2>1
<1> QED
  BY <1>6, <1>7

(* One entry holds as many pbufs as it has fragments. *)
LEMMA HeldOne ==
  ASSUME NEW d, Len(d.frags) \in Nat
  PROVE  Cardinality(Held({d})) = Len(d.frags)
<1> DEFINE f == [i \in {d.id} |-> Len(d.frags)]
<1>1. f[d.id] = Len(d.frags)
  OBVIOUS
<1>2. Held({d}) = Pairs(f, {d.id})
  <2> HIDE DEF f
  <2>1. {{e.id} \X (1..Len(e.frags)) : e \in {d}} = {{d.id} \X (1..Len(d.frags))}
    OBVIOUS
  <2>2. {{i} \X (1..f[i]) : i \in {d.id}} = {{d.id} \X (1..Len(d.frags))}
    BY <1>1
  <2> QED
    BY <2>1, <2>2, Zenon DEF Held, Pairs
<1> HIDE DEF f
<1> QED
  BY <1>1, <1>2, PairsOfOne

(* One entry's pbufs and those of the others. *)
LEMMA HeldBut ==
  ASSUME NEW S, IsFiniteSet(S), Unlike(S), \A d \in S : Len(d.frags) \in Nat, NEW d \in S
  PROVE  /\ Cardinality(Held(S)) = Len(d.frags) + Cardinality(Held(S \ {d}))
         /\ Cardinality(Held(S)) \in Nat /\ Cardinality(Held(S \ {d})) \in Nat
<1>1. {d} \in SUBSET S
  OBVIOUS
<1>2. Cardinality(Held({d})) = Len(d.frags)
  BY HeldOne
<1> QED
  BY <1>1, <1>2, HeldSplit

-----------------------------------------------------------------------------
(* Reassembly: the fragments of one datagram. *)

(* Intervals in order and apart. *)
InRow(s) ==
  /\ \A k \in 1..Len(s) : s[k][1] < s[k][2]
  /\ \A j, k \in 1..Len(s) : j < k => s[j][2] <= s[k][1]

(* What is at each place after InsertAt. *)
LEMMA InsertAtIs ==
  ASSUME NEW X, NEW s \in Seq(X), NEW k \in 0..Len(s), NEW x \in X,
         NEW r, r = Reass!InsertAt(s, k + 1, x)
  PROVE  /\ r \in Seq(X) /\ Len(r) = Len(s) + 1
         /\ \A j \in 1..(Len(s) + 1) : r[j] = IF j <= k THEN s[j] ELSE IF j = k + 1 THEN x ELSE s[j - 1]
<1>1. PICK l \in Nat : l = Len(s)
  OBVIOUS
<1>2. PICK A \in Seq(X) : A = SubSeq(s, 1, k) /\ Len(A) = k /\ \A j \in 1..k : A[j] = s[j]
  <2>1. SubSeq(s, 1, k) \in Seq(X)
    BY <1>1
  <2>2. Len(SubSeq(s, 1, k)) = k
    BY <1>1
  <2>3. \A j \in 1..k : SubSeq(s, 1, k)[j] = s[j]
    BY <1>1
  <2> QED
    BY <2>1, <2>2, <2>3
<1>3. PICK B \in Seq(X) : /\ B = SubSeq(s, k + 1, Len(s)) /\ Len(B) = l - k
                          /\ \A j \in 1..(l - k) : B[j] = s[j + k]
  <2>1. SubSeq(s, k + 1, l) \in Seq(X)
    BY <1>1
  <2>2. Len(SubSeq(s, k + 1, l)) = l - k
    BY <1>1
  <2>3. \A j \in 1..(l - k) : SubSeq(s, k + 1, l)[j] = s[j + k]
    BY <1>1
  <2> QED
    BY <1>1, <2>1, <2>2, <2>3
<1>4. PICK z \in Seq(X) : z = <<x>> /\ Len(z) = 1 /\ z[1] = x
  <2>1. <<x>> \in Seq(X) /\ Len(<<x>>) = 1 /\ <<x>>[1] = x
    OBVIOUS
  <2> QED
    BY <2>1
<1>5. PICK M \in Seq(X) : M = A \o z
  <2>1. A \o z \in Seq(X)
    BY ConcatProperties
  <2> QED
    BY <2>1
<1>6. Len(M) = k + 1 /\ \A j \in 1..(k + 1) : M[j] = IF j <= k THEN s[j] ELSE x
  <2>1. Len(M) = Len(A) + Len(z) /\ \A j \in 1..(Len(A) + Len(z)) : M[j] = IF j <= Len(A) THEN A[j] ELSE z[j - Len(A)]
    BY <1>5, ConcatProperties
  <2>2. Len(M) = k + 1 /\ \A j \in 1..(k + 1) : M[j] = IF j <= k THEN A[j] ELSE z[j - k]
    BY <1>2, <1>4, <2>1
  <2>3. ASSUME NEW j \in 1..(k + 1) PROVE M[j] = IF j <= k THEN s[j] ELSE x
    <3>1. CASE j <= k
      BY <1>2, <2>2, <3>1
    <3>2. CASE ~(j <= k)
      <4>1. j - k = 1
        BY <3>2
      <4> QED
        BY <1>4, <2>2, <3>2, <4>1
    <3> QED
      BY <3>1, <3>2
  <2> QED
    BY <2>2, <2>3
<1>7. r = M \o B
  <2>1. (k + 1) - 1 = k
    OBVIOUS
  <2> QED
    BY <1>2, <1>3, <1>4, <1>5, <2>1 DEF Reass!InsertAt
<1>8. r \in Seq(X) /\ Len(r) = Len(M) + Len(B)
      /\ \A j \in 1..(Len(M) + Len(B)) : r[j] = IF j <= Len(M) THEN M[j] ELSE B[j - Len(M)]
  <2>1. /\ M \o B \in Seq(X) /\ Len(M \o B) = Len(M) + Len(B)
        /\ \A j \in 1..(Len(M) + Len(B)) : (M \o B)[j] = IF j <= Len(M) THEN M[j] ELSE B[j - Len(M)]
    BY ConcatProperties
  <2> QED
    BY <1>7, <2>1, Zenon
<1>9. Len(M) + Len(B) = l + 1 /\ Len(M) = k + 1
  <2>1. k \in Nat /\ (k + 1) + (l - k) = l + 1
    BY <1>1
  <2> QED
    BY <1>3, <1>6, <2>1, Zenon
<1>10. ASSUME NEW j \in 1..(l + 1) PROVE r[j] = IF j <= k THEN s[j] ELSE IF j = k + 1 THEN x ELSE s[j - 1]
  <2>1. CASE j <= k + 1
    <3>1. r[j] = M[j] /\ j \in 1..(k + 1)
      BY <1>8, <1>9, <2>1
    <3> QED
      BY <1>6, <2>1, <3>1
  <2>2. CASE ~(j <= k + 1)
    <3>1. r[j] = B[j - (k + 1)]
      BY <1>8, <1>9, <2>2
    <3>2. j - (k + 1) \in 1..(l - k) /\ (j - (k + 1)) + k = j - 1
      BY <1>1, <2>2
    <3>3. B[j - (k + 1)] = s[j - 1]
      BY <1>3, <3>2
    <3>4. ~(j <= k) /\ j # k + 1
      BY <2>2
    <3> QED
      BY <3>1, <3>3, <3>4, Zenon
  <2> QED
    BY <2>1, <2>2
<1> QED
  BY <1>1, <1>8, <1>9, <1>10

Extent == Nat \X Nat

(* The instance counts as the module does. *)
LEMMA ReassCardinality == \A S : Reass!Cardinality(S) = Cardinality(S)
BY Zenon DEF Reass!Cardinality, Cardinality

(* Before counts the fragments that begin no later: they are the first ones. *)
LEMMA BeforeIs ==
  ASSUME NEW s \in Seq(Extent), InRow(s), NEW f, f.start \in Nat
  PROVE  /\ Reass!Before(s, f) \in 0..Len(s)
         /\ \A i \in 1..Len(s) : i <= Reass!Before(s, f) <=> s[i][1] <= f.start
<1> DEFINE S == {i \in 1..Len(s) : s[i][1] <= f.start}
<1>1. PICK l \in Nat : l = Len(s)
  OBVIOUS
<1>2. \A i \in 1..l : s[i][1] \in Nat /\ s[i][2] \in Nat /\ s[i] \in Extent
  BY <1>1 DEF Extent
<1>3. \A i, j \in 1..l : i < j => s[i][1] <= s[j][1]
  <2> SUFFICES ASSUME NEW i \in 1..l, NEW j \in 1..l, i < j PROVE s[i][1] <= s[j][1]
    OBVIOUS
  <2>1. s[i][1] < s[i][2] /\ s[i][2] <= s[j][1]
    BY <1>1 DEF InRow
  <2> QED
    BY <1>2, <2>1
<1>4. \E m \in 0..l : S = 1..m
  <2>1. CASE S = {}
    <3>1. 0 \in 0..l /\ 1..0 = {}
      BY <1>1
    <3> HIDE DEF S
    <3> QED
      BY <2>1, <3>1
  <2>2. CASE S # {}
    <3>1. S \in SUBSET (0..l)
      BY <1>1
    <3>2. PICK m \in S : \A y \in S : y <= m
      <4> HIDE DEF S
      <4> QED
        BY <1>1, <2>2, <3>1, GreatestNat
    <3>3. m \in 1..l /\ s[m][1] <= f.start
      BY <1>1
    <3>4. ASSUME NEW i \in 1..m PROVE i \in S
      <4>1. i \in 1..l
        BY <3>3
      <4>2. s[i][1] <= s[m][1]
        <5>1. CASE i = m
          BY <1>2, <3>3, <5>1
        <5>2. CASE i < m
          BY <1>3, <3>3, <4>1, <5>2
        <5> QED
          BY <3>3, <5>1, <5>2
      <4>3. PICK a \in Nat, b \in Nat, c \in Nat : a = s[i][1] /\ b = s[m][1] /\ c = f.start
        BY <1>2, <3>3, <4>1
      <4>4. a <= c
        BY <3>3, <4>2, <4>3
      <4> QED
        BY <1>1, <4>1, <4>3, <4>4
    <3>5. ASSUME NEW i \in S PROVE i \in 1..m
      <4>1. i \in 1..l /\ i <= m
        BY <1>1, <3>2
      <4> QED
        BY <3>3, <4>1
    <3>6. S = 1..m
      <4> HIDE DEF S
      <4> QED
        BY <3>4, <3>5
    <3>7. m \in 0..l
      BY <3>3
    <3> HIDE DEF S
    <3> QED
      BY <3>6, <3>7
  <2> QED
    BY <2>1, <2>2
<1>5. PICK m \in 0..l : S = 1..m
  BY <1>4
<1>6. Reass!Before(s, f) = Cardinality(S)
  BY ReassCardinality DEF Reass!Before
<1>7. Cardinality(1..m) = m
  BY FS_Interval
<1>8. Reass!Before(s, f) = m
  BY <1>5, <1>6, <1>7
<1>9. \A i \in 1..l : i <= m <=> s[i][1] <= f.start
  <2>1. \A i \in 1..l : i \in S <=> i \in 1..m
    BY <1>5
  <2>2. \A i \in 1..l : i \in S <=> s[i][1] <= f.start
    BY <1>1
  <2>3. \A i \in 1..l : i \in 1..m <=> i <= m
    OBVIOUS
  <2> HIDE DEF S
  <2> QED
    BY <2>1, <2>2, <2>3
<1> QED
  BY <1>1, <1>8, <1>9

(* r is s with x in its place. *)
AddedTo(s, x, r) ==
  /\ r \in Seq(Extent) /\ Len(r) = Len(s) + 1 /\ InRow(r)
  /\ \E j \in 1..Len(r) : r[j] = x
  /\ \A j \in 1..Len(r) : r[j] = x \/ \E i \in 1..Len(s) : r[j] = s[i]
  /\ \A i \in 1..Len(s) : \E j \in 1..Len(r) : r[j] = s[i]

(* A fragment that is not dropped finds its place between the others. *)
LEMMA ChainIs ==
  ASSUME NEW s \in Seq(Extent), InRow(s), NEW f, f.start \in Nat, f.end \in Nat, f.start < f.end,
         ~Reass!Dropped(s, f), NEW r, r = Reass!Chain(s, f)
  PROVE  AddedTo(s, <<f.start, f.end>>, r)
<1>1. PICK l \in Nat : l = Len(s)
  OBVIOUS
<1>2. PICK k \in 0..l : /\ k = Reass!Before(s, f)
                        /\ \A i \in 1..l : i <= k <=> s[i][1] <= f.start
  BY <1>1, BeforeIs
<1>3. \A i \in 1..l : s[i][1] \in Nat /\ s[i][2] \in Nat /\ s[i] \in Extent
  BY <1>1 DEF Extent
<1>4. PICK x \in Extent : x = <<f.start, f.end>> /\ x[1] = f.start /\ x[2] = f.end
  <2>1. <<f.start, f.end>> \in Extent /\ <<f.start, f.end>>[1] = f.start /\ <<f.start, f.end>>[2] = f.end
    BY DEF Extent
  <2> QED
    BY <2>1, Zenon
<1>5. r = Reass!InsertAt(s, k + 1, x)
  BY <1>2, <1>4 DEF Reass!Chain
<1>6. /\ r \in Seq(Extent) /\ Len(r) = l + 1
      /\ \A j \in 1..(l + 1) : r[j] = IF j <= k THEN s[j] ELSE IF j = k + 1 THEN x ELSE s[j - 1]
  <2>1. k \in 0..Len(s)
    BY <1>1
  <2>2. ASSUME NEW i \in 0..Len(s)
        PROVE  LET y == Reass!InsertAt(s, i + 1, x)
               IN  /\ y \in Seq(Extent) /\ Len(y) = Len(s) + 1
                   /\ \A j \in 1..(Len(s) + 1) : y[j] = IF j <= i THEN s[j] ELSE IF j = i + 1 THEN x ELSE s[j - 1]
    BY InsertAtIs
  <2>3. /\ r \in Seq(Extent) /\ Len(r) = Len(s) + 1
        /\ \A j \in 1..(Len(s) + 1) : r[j] = IF j <= k THEN s[j] ELSE IF j = k + 1 THEN x ELSE s[j - 1]
    BY <1>5, <2>1, <2>2
  <2> QED
    BY <1>1, <2>3, Zenon
<1>7. /\ \A i \in 1..k : s[i][2] <= f.start
      /\ k < l => f.end <= s[k + 1][1]
  <2>1. /\ \A i \in 1..k : ~(f.start < s[i][2])
        /\ k < l => ~(f.end > s[k + 1][1])
    BY <1>1, <1>2 DEF Reass!Dropped
  <2>2. \A i \in 1..k : i \in 1..l
    OBVIOUS
  <2>3. k < l => k + 1 \in 1..l
    OBVIOUS
  <2> QED
    BY <1>3, <2>1, <2>2, <2>3
<1>8. \A i \in 1..l : k < i => f.end <= s[i][1]
  <2> SUFFICES ASSUME NEW i \in 1..l, k < i PROVE f.end <= s[i][1]
    OBVIOUS
  <2>1. k < l /\ k + 1 \in 1..l
    OBVIOUS
  <2>2. CASE i = k + 1
    BY <1>7, <2>1, <2>2
  <2>3. CASE k + 1 < i
    <3>1. s[k + 1][1] < s[k + 1][2] /\ s[k + 1][2] <= s[i][1]
      BY <1>1, <2>1, <2>3 DEF InRow
    <3>2. PICK a \in Nat, b \in Nat, c \in Nat, e \in Nat :
            a = s[k + 1][1] /\ b = s[k + 1][2] /\ c = s[i][1] /\ e = f.end
      BY <1>3, <2>1
    <3>3. e <= a /\ a < b /\ b <= c
      BY <1>7, <2>1, <3>1, <3>2
    <3>4. e <= c
      BY <3>3
    <3> QED
      BY <3>2, <3>4
  <2> QED
    BY <2>2, <2>3
<1>9. \A j \in 1..(l + 1) : \/ j \in 1..k /\ j \in 1..l /\ r[j] = s[j]
                            \/ j = k + 1 /\ r[j] = x
                            \/ j > k + 1 /\ j - 1 \in 1..l /\ j - 1 > k /\ r[j] = s[j - 1]
  <2> SUFFICES ASSUME NEW j \in 1..(l + 1)
               PROVE  \/ j \in 1..k /\ j \in 1..l /\ r[j] = s[j]
                      \/ j = k + 1 /\ r[j] = x
                      \/ j > k + 1 /\ j - 1 \in 1..l /\ j - 1 > k /\ r[j] = s[j - 1]
    OBVIOUS
  <2>1. CASE j <= k
    <3>1. j \in 1..k /\ j \in 1..l
      BY <2>1
    <3> QED
      BY <1>6, <2>1, <3>1
  <2>2. CASE j = k + 1
    <3>1. ~(j <= k)
      BY <2>2
    <3> QED
      BY <1>6, <2>2, <3>1
  <2>3. CASE j > k + 1
    <3>1. ~(j <= k) /\ j # k + 1 /\ j - 1 \in 1..l /\ j - 1 > k
      BY <2>3
    <3> QED
      BY <1>6, <2>3, <3>1
  <2> QED
    BY <2>1, <2>2, <2>3
<1>10. InRow(r)
  <2>1. ASSUME NEW j \in 1..(l + 1) PROVE r[j][1] < r[j][2]
    <3>1. r[j] = x \/ \E i \in 1..l : r[j] = s[i]
      BY <1>9
    <3>2. \A i \in 1..l : s[i][1] < s[i][2]
      BY <1>1 DEF InRow
    <3> QED
      BY <1>4, <3>1, <3>2
  <2>2. ASSUME NEW j \in 1..(l + 1), NEW m \in 1..(l + 1), j < m PROVE r[j][2] <= r[m][1]
    <3>0. \A a, b \in 1..l : a < b => s[a][2] <= s[b][1]
      BY <1>1 DEF InRow
    <3>1. CASE j \in 1..k /\ j \in 1..l /\ r[j] = s[j]
      <4>1. CASE m \in 1..k /\ m \in 1..l /\ r[m] = s[m]
        BY <2>2, <3>0, <3>1, <4>1
      <4>2. CASE m = k + 1 /\ r[m] = x
        BY <1>4, <1>7, <3>1, <4>2
      <4>3. CASE m > k + 1 /\ m - 1 \in 1..l /\ m - 1 > k /\ r[m] = s[m - 1]
        <5>1. j < m - 1
          BY <3>1, <4>3
        <5> QED
          BY <3>0, <3>1, <4>3, <5>1
      <4> QED
        BY <1>9, <4>1, <4>2, <4>3
    <3>2. CASE j = k + 1 /\ r[j] = x
      <4>1. m > k + 1
        BY <2>2, <3>2
      <4>2. m - 1 \in 1..l /\ m - 1 > k /\ r[m] = s[m - 1]
        BY <1>9, <4>1
      <4>3. f.end <= s[m - 1][1]
        BY <1>8, <4>2
      <4> QED
        BY <1>4, <3>2, <4>2, <4>3
    <3>3. CASE j > k + 1 /\ j - 1 \in 1..l /\ j - 1 > k /\ r[j] = s[j - 1]
      <4>1. m > k + 1 /\ j - 1 < m - 1
        BY <2>2, <3>3
      <4>2. m - 1 \in 1..l /\ r[m] = s[m - 1]
        BY <1>9, <4>1
      <4> QED
        BY <3>0, <3>3, <4>1, <4>2
    <3> QED
      BY <1>9, <3>1, <3>2, <3>3
  <2> QED
    BY <1>6, <2>1, <2>2 DEF InRow
<1>11. \E j \in 1..(l + 1) : r[j] = x
  <2>1. k + 1 \in 1..(l + 1) /\ ~(k + 1 <= k)
    OBVIOUS
  <2>2. r[k + 1] = x
    BY <1>6, <2>1
  <2> QED
    BY <2>1, <2>2
<1>12. \A j \in 1..(l + 1) : r[j] = x \/ \E i \in 1..l : r[j] = s[i]
  BY <1>9
<1>13. ASSUME NEW i \in 1..l PROVE \E j \in 1..(l + 1) : r[j] = s[i]
  <2>1. CASE i <= k
    <3>1. i \in 1..(l + 1) /\ r[i] = s[i]
      BY <1>6, <2>1
    <3> QED
      BY <3>1
  <2>2. CASE ~(i <= k)
    <3>1. i + 1 \in 1..(l + 1) /\ ~(i + 1 <= k) /\ i + 1 # k + 1 /\ (i + 1) - 1 = i
      BY <2>2
    <3>2. r[i + 1] = s[(i + 1) - 1]
      BY <1>6, <3>1
    <3> QED
      BY <3>1, <3>2
  <2> QED
    BY <2>1, <2>2
<1>14. /\ \E j \in 1..Len(r) : r[j] = <<f.start, f.end>>
       /\ \A j \in 1..Len(r) : r[j] = <<f.start, f.end>> \/ \E i \in 1..Len(s) : r[j] = s[i]
       /\ \A i \in 1..Len(s) : \E j \in 1..Len(r) : r[j] = s[i]
  <2>1. \E j \in 1..Len(r) : r[j] = <<f.start, f.end>>
    BY <1>4, <1>6, <1>11, Zenon
  <2>2. \A j \in 1..Len(r) : r[j] = <<f.start, f.end>> \/ \E i \in 1..Len(s) : r[j] = s[i]
    BY <1>1, <1>4, <1>6, <1>12
  <2>3. \A i \in 1..Len(s) : \E j \in 1..Len(r) : r[j] = s[i]
    BY <1>1, <1>6, <1>13
  <2> QED
    BY <2>1, <2>2, <2>3, Zenon
<1> QED
  BY <1>1, <1>6, <1>10, <1>14, Zenon DEF AddedTo

-----------------------------------------------------------------------------
(* Reassembly: the inductive invariant. *)

ReassEntry ==
  [id : Reass!Ids, frags : Seq(Extent), timer : 0..MaxAge, flags : BOOLEAN, len : Nat]

(* The fragments of an entry are in order, apart, and of its datagram; when *)
(* flags says so the last one is among them.                                *)
Chained(d) ==
  /\ InRow(d.frags)
  /\ \A k \in 1..Len(d.frags) : \E g \in Fragments : g.id = d.id /\ d.frags[k] = <<g.start, g.end>>
  /\ d.flags => \E g \in Fragments : \E k \in 1..Len(d.frags) :
                  g.id = d.id /\ g.last /\ d.len = g.end /\ d.frags[k] = <<g.start, g.end>>

(* An entry of the queue: not empty and not whole. *)
Waiting(d) == Chained(d) /\ d.frags # <<>> /\ ~(d.flags /\ Reass!NoHoles(d.frags))

QueueOK(q, count) ==
  /\ q \in Seq(ReassEntry) /\ OneEach(q) /\ Len(q) <= MaxData
  /\ \A d \in In(q) : Waiting(d)
  /\ count = Cardinality(Held(In(q))) /\ count <= MaxPbufs

ReassInv ==
  /\ QueueOK(reassdatagrams, pbufcount)
  /\ result = Reass!NULL \/ result.id \in Reass!Ids
  /\ Reass!DeliveredWhole

(* What is assumed of the fragments and of the limits. *)
LEMMA ReassConstants ==
  /\ \A f \in Fragments : f.start \in Nat /\ f.end \in Nat /\ f.start < f.end
                          /\ f.last \in BOOLEAN /\ f.id \in Reass!Ids
  /\ \A f, g \in Fragments : f.id = g.id /\ f.last => g.end <= f.end
  /\ MaxPbufs \in Nat /\ MaxData \in Nat /\ MaxData > 0 /\ MaxAge \in Nat
BY LwipAssumption DEF Reass!ReassAssumption, Reass!Ids

(* The fields of an entry. *)
LEMMA EntryTyped ==
  ASSUME NEW d \in ReassEntry
  PROVE  /\ d.id \in Reass!Ids /\ d.frags \in Seq(Extent) /\ d.timer \in 0..MaxAge
         /\ d.flags \in BOOLEAN /\ d.len \in Nat /\ Len(d.frags) \in Nat
BY DEF ReassEntry

(* An entry after ip_reass_chain_frag_into_datagram_and_validate. *)
Grown(d, f) ==
  [d EXCEPT !.frags = Reass!Chain(d.frags, f), !.flags = @ \/ f.last,
            !.len = IF f.last THEN f.end ELSE @]

(* It has one fragment more, in its place. *)
LEMMA NewEntryIs ==
  ASSUME NEW d \in ReassEntry, Chained(d), NEW f \in Fragments, f.id = d.id, ~Reass!Dropped(d.frags, f),
         NEW e, e = Grown(d, f)
  PROVE  /\ e \in ReassEntry /\ e.id = d.id /\ Chained(e)
         /\ Len(e.frags) = Len(d.frags) + 1 /\ e.frags # <<>>
<1>1. f.start \in Nat /\ f.end \in Nat /\ f.start < f.end /\ f.last \in BOOLEAN
  BY ReassConstants
<1>2. PICK s \in Seq(Extent) : s = d.frags /\ InRow(s)
  BY EntryTyped DEF Chained
<1>3. PICK r : r = Reass!Chain(s, f)
  OBVIOUS
<1>4. /\ r \in Seq(Extent) /\ Len(r) = Len(s) + 1 /\ InRow(r)
      /\ \E j \in 1..Len(r) : r[j] = <<f.start, f.end>>
      /\ \A j \in 1..Len(r) : r[j] = <<f.start, f.end>> \/ \E i \in 1..Len(s) : r[j] = s[i]
      /\ \A i \in 1..Len(s) : \E j \in 1..Len(r) : r[j] = s[i]
  <2>1. InRow(s) /\ ~Reass!Dropped(s, f)
    BY <1>2
  <2>2. AddedTo(s, <<f.start, f.end>>, r)
    BY <1>1, <1>3, <2>1, ChainIs
  <2> QED
    BY <2>2, Zenon DEF AddedTo
<1>5. /\ e.id = d.id /\ e.frags = r /\ e.timer = d.timer
      /\ e.flags = (d.flags \/ f.last) /\ e.len = IF f.last THEN f.end ELSE d.len
  BY <1>2, <1>3 DEF ReassEntry, Grown
<1>6. e \in ReassEntry
  <2>1. r \in Seq(Extent) /\ (d.flags \/ f.last) \in BOOLEAN /\ (IF f.last THEN f.end ELSE d.len) \in Nat
    BY <1>1, <1>4, EntryTyped
  <2>2. e = [d EXCEPT !.frags = r, !.flags = (d.flags \/ f.last), !.len = IF f.last THEN f.end ELSE d.len]
    BY <1>2, <1>3 DEF Grown
  <2> QED
    BY <2>1, <2>2 DEF ReassEntry
<1>7. \A j \in 1..Len(r) : \E g \in Fragments : g.id = e.id /\ r[j] = <<g.start, g.end>>
  <2>1. \A i \in 1..Len(s) : \E g \in Fragments : g.id = d.id /\ s[i] = <<g.start, g.end>>
    BY <1>2 DEF Chained
  <2> SUFFICES ASSUME NEW j \in 1..Len(r)
               PROVE  \E g \in Fragments : g.id = e.id /\ r[j] = <<g.start, g.end>>
    OBVIOUS
  <2>2. CASE r[j] = <<f.start, f.end>>
    BY <1>5, <2>2, Zenon
  <2>3. CASE \E i \in 1..Len(s) : r[j] = s[i]
    BY <1>5, <2>1, <2>3, Zenon
  <2> QED
    BY <1>4, <2>2, <2>3
<1>8. e.flags => \E g \in Fragments : \E k \in 1..Len(r) :
                   g.id = e.id /\ g.last /\ e.len = g.end /\ r[k] = <<g.start, g.end>>
  <2>1. CASE f.last
    <3>1. PICK j \in 1..Len(r) : r[j] = <<f.start, f.end>>
      BY <1>4
    <3>2. e.len = f.end
      BY <1>5, <2>1
    <3> QED
      BY <1>5, <2>1, <3>1, <3>2, Zenon
  <2>2. CASE ~f.last
    <3> SUFFICES ASSUME e.flags
                 PROVE  \E g \in Fragments : \E k \in 1..Len(r) :
                          g.id = e.id /\ g.last /\ e.len = g.end /\ r[k] = <<g.start, g.end>>
      OBVIOUS
    <3>1. d.flags /\ e.len = d.len
      BY <1>5, <2>2
    <3>2. PICK g \in Fragments : \E k \in 1..Len(s) :
            g.id = d.id /\ g.last /\ d.len = g.end /\ s[k] = <<g.start, g.end>>
      BY <1>2, <3>1 DEF Chained
    <3>3. PICK k \in 1..Len(s) : s[k] = <<g.start, g.end>>
      BY <3>2
    <3>4. PICK j \in 1..Len(r) : r[j] = s[k]
      BY <1>4
    <3> QED
      BY <1>5, <3>1, <3>2, <3>3, <3>4, Zenon
  <2> QED
    BY <2>1, <2>2
<1>9. Chained(e)
  <2>1. InRow(e.frags)
    BY <1>4, <1>5, Zenon
  <2>2. \A k \in 1..Len(e.frags) : \E g \in Fragments : g.id = e.id /\ e.frags[k] = <<g.start, g.end>>
    BY <1>5, <1>7, Zenon
  <2>3. e.flags => \E g \in Fragments : \E k \in 1..Len(e.frags) :
                     g.id = e.id /\ g.last /\ e.len = g.end /\ e.frags[k] = <<g.start, g.end>>
    BY <1>5, <1>8, Zenon
  <2> QED
    BY <2>1, <2>2, <2>3, Zenon DEF Chained
<1>10. r # <<>>
  BY <1>2, <1>4
<1> QED
  BY <1>2, <1>4, <1>5, <1>6, <1>9, <1>10

(* What ip4_reass returns when the fragments leave no hole. *)
LEMMA WholeIs ==
  ASSUME NEW e \in ReassEntry, Chained(e), e.frags # <<>>, e.flags, Reass!NoHoles(e.frags)
  PROVE  \E f \in Fragments : /\ f.id = e.id /\ f.last /\ f.end = e.len
                              /\ e.frags[Len(e.frags)][2] = f.end
<1>1. PICK s \in Seq(Extent) : s = e.frags /\ InRow(s) /\ s # <<>>
  BY EntryTyped DEF Chained
<1>2. PICK n \in Nat : n = Len(s) /\ n \in 1..n
  BY <1>1
<1>3. PICK g \in Fragments : \E k \in 1..n : g.id = e.id /\ g.last /\ e.len = g.end /\ s[k] = <<g.start, g.end>>
  BY <1>1, <1>2 DEF Chained
<1>4. PICK k \in 1..n : g.id = e.id /\ g.last /\ e.len = g.end /\ s[k] = <<g.start, g.end>>
  BY <1>3
<1>5. PICK h \in Fragments : h.id = e.id /\ s[n] = <<h.start, h.end>>
  BY <1>1, <1>2 DEF Chained
<1>6. h.end <= g.end /\ h.end \in Nat /\ g.end \in Nat /\ h.start \in Nat /\ h.start < h.end
  BY <1>4, <1>5, ReassConstants
<1>7. s[k][2] = g.end /\ s[n][2] = h.end /\ s[n][1] = h.start
  BY <1>4, <1>5
<1>8. k < n => g.end <= h.start
  BY <1>1, <1>2, <1>7 DEF InRow
<1>9. k = n
  BY <1>2, <1>6, <1>8
<1> QED
  BY <1>1, <1>2, <1>4, <1>7, <1>9

(* Somewhere in an entry that has the last fragment a byte is missing. *)
LEMMA ByteMissing ==
  ASSUME NEW d \in ReassEntry, Waiting(d), d.flags, NEW f \in Fragments, f.id = d.id, f.last
  PROVE  \E x \in 0..(f.end - 1) :
           \A k \in 1..Len(d.frags) : ~(d.frags[k][1] <= x /\ x < d.frags[k][2])
<1>1. PICK s \in Seq(Extent) : s = d.frags /\ InRow(s) /\ s # <<>> /\ ~Reass!NoHoles(s)
  BY EntryTyped DEF Waiting, Chained
<1>2. PICK n \in Nat : n = Len(s) /\ 1 \in 1..n
  BY <1>1
<1>3. \A k \in 1..n : s[k][1] \in Nat /\ s[k][2] \in Nat /\ s[k][2] <= f.end /\ s[k][1] < s[k][2]
  <2> SUFFICES ASSUME NEW k \in 1..n
               PROVE  s[k][1] \in Nat /\ s[k][2] \in Nat /\ s[k][2] <= f.end /\ s[k][1] < s[k][2]
    OBVIOUS
  <2>1. PICK g \in Fragments : g.id = d.id /\ s[k] = <<g.start, g.end>>
    BY <1>1, <1>2 DEF Waiting, Chained
  <2>2. s[k][1] = g.start /\ s[k][2] = g.end
    BY <2>1
  <2> QED
    BY <2>1, <2>2, ReassConstants
<1>4. f.end \in Nat
  BY ReassConstants
<1>5. \A j, k \in 1..n : j < k => s[j][2] <= s[k][1]
  BY <1>1, <1>2 DEF InRow
<1>6. CASE s[1][1] # 0
  <2>1. 0 \in 0..(f.end - 1)
    BY <1>2, <1>3, <1>4
  <2>2. \A k \in 1..n : ~(s[k][1] <= 0)
    <3> SUFFICES ASSUME NEW k \in 1..n PROVE s[k][1] > 0
      BY <1>3
    <3>1. CASE k = 1
      BY <1>3, <1>6, <3>1
    <3>2. CASE k # 1
      <4>1. s[1][2] <= s[k][1]
        BY <1>2, <1>5, <3>2
      <4>2. PICK a \in Nat, b \in Nat, c \in Nat : a = s[1][1] /\ b = s[1][2] /\ c = s[k][1]
        BY <1>2, <1>3
      <4>3. a < b /\ b <= c
        BY <1>2, <1>3, <4>1, <4>2
      <4> QED
        BY <4>2, <4>3
    <3> QED
      BY <3>1, <3>2
  <2> QED
    BY <1>1, <1>2, <2>1, <2>2
<1>7. CASE s[1][1] = 0
  <2>1. PICK i \in 2..n : s[i - 1][2] # s[i][1]
    BY <1>1, <1>2, <1>7 DEF Reass!NoHoles
  <2>2. i \in 1..n /\ i - 1 \in 1..n /\ i - 1 < i
    OBVIOUS
  <2>3. PICK x \in Nat, y \in Nat, z \in Nat : x = s[i - 1][2] /\ y = s[i][1] /\ z = s[i][2]
    BY <1>3, <2>2
  <2>4. x < y
    BY <1>5, <2>1, <2>2, <2>3
  <2>5. y < z /\ z <= f.end
    BY <1>3, <2>2, <2>3
  <2>6. x \in 0..(f.end - 1)
    BY <1>4, <2>4, <2>5
  <2>7. ASSUME NEW k \in 1..n PROVE ~(s[k][1] <= x /\ x < s[k][2])
    <3>1. PICK a \in Nat, b \in Nat : a = s[k][1] /\ b = s[k][2]
      BY <1>3
    <3>2. CASE k = i - 1
      BY <2>3, <3>1, <3>2
    <3>3. CASE k < i - 1
      <4>1. b <= s[i - 1][1]
        BY <1>5, <2>2, <3>1, <3>3
      <4>2. s[i - 1][1] < x /\ s[i - 1][1] \in Nat
        BY <1>3, <2>2, <2>3
      <4> QED
        BY <3>1, <4>1, <4>2
    <3>4. CASE k = i
      BY <2>3, <2>4, <3>1, <3>4
    <3>5. CASE k > i
      <4>1. z <= a
        BY <1>5, <2>2, <2>3, <3>1, <3>5
      <4> QED
        BY <2>4, <2>5, <3>1, <4>1
    <3> QED
      BY <3>2, <3>3, <3>4, <3>5
  <2> QED
    BY <1>1, <1>2, <2>6, <2>7
<1> QED
  BY <1>6, <1>7

(* The queue with e in the place of d. *)
Replaced(q, d, e) == [i \in 1..Len(q) |-> IF q[i].id = d.id THEN e ELSE q[i]]

(* It is as long, and holds e instead of d. *)
LEMMA ReplacedIs ==
  ASSUME NEW q \in Seq(ReassEntry), OneEach(q), NEW d \in In(q), NEW e \in ReassEntry, e.id = d.id,
         NEW r, r = Replaced(q, d, e)
  PROVE  /\ r \in Seq(ReassEntry) /\ OneEach(r) /\ Len(r) = Len(q)
         /\ In(r) = (In(q) \ {d}) \cup {e}
<1>1. PICK n \in Nat : n = Len(q) /\ \A i \in 1..n : q[i] \in ReassEntry
  OBVIOUS
<1>2. PICK m \in 1..n : d = q[m]
  BY <1>1 DEF In
<1>3. \A i \in 1..n : q[i].id = d.id <=> i = m
  BY <1>1, <1>2 DEF OneEach
<1>4. \A i \in 1..n : r[i] = (IF i = m THEN e ELSE q[i]) /\ r[i] \in ReassEntry
  BY <1>1, <1>3 DEF Replaced
<1>5. r \in Seq(ReassEntry) /\ Len(r) = n
  <2>1. r = [i \in 1..n |-> r[i]]
    BY <1>1 DEF Replaced
  <2>2. \A i \in 1..n : r[i] \in ReassEntry
    BY <1>4
  <2>3. [i \in 1..n |-> r[i]] \in Seq(ReassEntry) /\ Len([i \in 1..n |-> r[i]]) = n
    BY <1>1, <2>2, IsASeq
  <2> QED
    BY <2>1, <2>3
<1>6. \A i \in 1..n : r[i].id = q[i].id
  BY <1>2, <1>4
<1>7. OneEach(r)
  <2>1. \A i, j \in 1..n : r[i].id = r[j].id => i = j
    BY <1>1, <1>6 DEF OneEach
  <2> QED
    BY <1>5, <2>1, Zenon DEF OneEach
<1>8. In(r) = (In(q) \ {d}) \cup {e}
  <2>1. ASSUME NEW i \in 1..n PROVE r[i] \in (In(q) \ {d}) \cup {e}
    <3>1. CASE i = m
      BY <1>4, <3>1
    <3>2. CASE i # m
      <4>1. r[i] = q[i] /\ q[i] # d
        BY <1>3, <1>4, <3>2
      <4> QED
        BY <1>1, <4>1 DEF In
    <3> QED
      BY <3>1, <3>2
  <2>2. e \in In(r)
    BY <1>4, <1>5 DEF In
  <2>3. ASSUME NEW x \in In(q) \ {d} PROVE x \in In(r)
    <3>1. PICK i \in 1..n : x = q[i]
      BY <1>1 DEF In
    <3>2. i # m
      BY <1>2, <3>1
    <3>3. r[i] = x
      BY <1>4, <3>1, <3>2
    <3> QED
      BY <1>5, <3>3 DEF In
  <2>4. \A x \in In(r) : \E i \in 1..n : x = r[i]
    BY <1>5 DEF In
  <2>5. ASSUME NEW x \in In(r) PROVE x \in (In(q) \ {d}) \cup {e}
    <3>1. PICK i \in 1..n : x = r[i]
      BY <2>4
    <3>2. r[i] \in (In(q) \ {d}) \cup {e}
      BY <2>1
    <3> QED
      BY <3>1, <3>2, Zenon
  <2>6. \A x \in (In(q) \ {d}) \cup {e} : x \in In(r)
    BY <2>2, <2>3
  <2> QED
    BY <2>5, <2>6, Zenon
<1> QED
  BY <1>1, <1>5, <1>7, <1>8

(* The pbufs after an entry is replaced by another one of its datagram. *)
LEMMA HeldReplaced ==
  ASSUME NEW S, IsFiniteSet(S), Unlike(S), \A x \in S : Len(x.frags) \in Nat,
         NEW d \in S, NEW e, e.id = d.id, Len(e.frags) \in Nat
  PROVE  Cardinality(Held((S \ {d}) \cup {e})) = Cardinality(Held(S)) - Len(d.frags) + Len(e.frags)
<1>1. PICK T : T = (S \ {d}) \cup {e}
  OBVIOUS
<1>2. IsFiniteSet(T) /\ e \in T
  <2>1. IsFiniteSet(S \ {d})
    BY FS_Difference
  <2>2. IsFiniteSet({e})
    BY FS_Singleton
  <2>3. IsFiniteSet((S \ {d}) \cup {e})
    BY <2>1, <2>2, FS_Union
  <2> QED
    BY <1>1, <2>3
<1>3. \A x \in S \ {d} : x.id # e.id
  BY DEF Unlike
<1>4. Unlike(T) /\ \A x \in T : Len(x.frags) \in Nat
  BY <1>1, <1>3 DEF Unlike
<1>5. T \ {e} = S \ {d}
  BY <1>1, <1>3
<1>6. /\ Cardinality(Held(T)) = Len(e.frags) + Cardinality(Held(T \ {e}))
      /\ Cardinality(Held(T \ {e})) \in Nat
  BY <1>2, <1>4, HeldBut
<1>7. /\ Cardinality(Held(S)) = Len(d.frags) + Cardinality(Held(S \ {d}))
  BY HeldBut
<1>8. PICK a \in Nat, b \in Nat, c \in Nat : a = Len(e.frags) /\ b = Len(d.frags) /\ c = Cardinality(Held(S \ {d}))
  BY <1>5, <1>6
<1>9. Cardinality(Held(T)) = a + c /\ Cardinality(Held(S)) = b + c
  BY <1>5, <1>6, <1>7, <1>8
<1>10. a + c = (b + c) - b + a
  BY <1>8
<1> QED
  BY <1>1, <1>8, <1>9, <1>10

(* A queue whose entries wait, but for d, which may be empty. *)
QueueBut(q, count, d) ==
  /\ q \in Seq(ReassEntry) /\ OneEach(q) /\ Len(q) <= MaxData
  /\ d \in In(q) /\ Chained(d) /\ \A e \in In(q) \ {d} : Waiting(e)
  /\ count = Cardinality(Held(In(q)))

(* The entries of a queue are finitely many and so are their pbufs. *)
LEMMA QueueCounts ==
  ASSUME NEW q \in Seq(ReassEntry), OneEach(q)
  PROVE  /\ IsFiniteSet(In(q)) /\ Unlike(In(q)) /\ In(q) \in SUBSET ReassEntry
         /\ \A e \in In(q) : Len(e.frags) \in Nat
         /\ Len(q) \in Nat /\ Cardinality(Held(In(q))) \in Nat
<1>1. IsFiniteSet(In(q)) /\ In(q) \in SUBSET ReassEntry /\ Len(q) \in Nat
  BY InFinite
<1>2. Unlike(In(q))
  BY UnlikeIn
<1>3. \A e \in In(q) : Len(e.frags) \in Nat
  BY <1>1, EntryTyped
<1>4. In(q) \in SUBSET In(q)
  OBVIOUS
<1>5. Cardinality(Held(In(q))) \in Nat
  BY <1>1, <1>2, <1>3, <1>4, HeldSplit
<1> QED
  BY <1>1, <1>2, <1>3, <1>5

(* Taking an entry out. *)
LEMMA TakenOut ==
  ASSUME NEW q \in Seq(ReassEntry), OneEach(q), NEW d \in In(q),
         NEW r, r = Reass!Dequeue(q, {d.id})
  PROVE  /\ r \in Seq(ReassEntry) /\ OneEach(r) /\ Len(r) < Len(q)
         /\ In(r) = In(q) \ {d}
         /\ Cardinality(Held(In(r))) = Cardinality(Held(In(q))) - Len(d.frags)
         /\ Cardinality(Held(In(r))) \in Nat /\ Len(d.frags) \in Nat
<1>1. /\ r \in Seq(ReassEntry) /\ OneEach(r)
      /\ In(r) = {e \in In(q) : e.id \notin {d.id}}
      /\ (\E e \in In(q) : e.id \in {d.id}) => Len(r) < Len(q)
  BY Dequeued
<1>2. /\ IsFiniteSet(In(q)) /\ Unlike(In(q)) /\ \A e \in In(q) : Len(e.frags) \in Nat
  BY QueueCounts
<1>3. In(r) = In(q) \ {d}
  BY <1>1, <1>2 DEF Unlike
<1>4. Len(r) < Len(q)
  BY <1>1
<1>5. /\ Cardinality(Held(In(q))) = Len(d.frags) + Cardinality(Held(In(q) \ {d}))
      /\ Cardinality(Held(In(q) \ {d})) \in Nat
  BY <1>2, HeldBut
<1>6. PICK a \in Nat, b \in Nat : a = Len(d.frags) /\ b = Cardinality(Held(In(q) \ {d}))
  BY <1>2, <1>5
<1>7. b = (a + b) - a
  BY <1>6
<1> QED
  BY <1>1, <1>2, <1>3, <1>4, <1>5, <1>6, <1>7

(* A fragment is chained into the entry d. *)
LEMMA ChainFragInv ==
  ASSUME NEW q, NEW count, NEW d, QueueBut(q, count, d), NEW f \in Fragments, f.id = d.id,
         count + 1 <= MaxPbufs, ~Reass!Dropped(d.frags, f), Reass!ChainFrag(q, count, d, f)
  PROVE  ReassInv'
<1>1. /\ q \in Seq(ReassEntry) /\ OneEach(q) /\ Len(q) <= MaxData
      /\ d \in In(q) /\ Chained(d) /\ \A x \in In(q) \ {d} : Waiting(x)
      /\ count = Cardinality(Held(In(q)))
  BY DEF QueueBut
<1>2. /\ IsFiniteSet(In(q)) /\ Unlike(In(q)) /\ d \in ReassEntry
      /\ \A x \in In(q) : Len(x.frags) \in Nat
      /\ Len(q) \in Nat /\ count \in Nat
  BY <1>1, QueueCounts
<1>3. PICK e : e = Grown(d, f)
  OBVIOUS
<1>4. /\ e \in ReassEntry /\ e.id = d.id /\ Chained(e)
      /\ Len(e.frags) = Len(d.frags) + 1 /\ e.frags # <<>>
  BY <1>1, <1>2, <1>3, NewEntryIs
<1>5. PICK n \in Nat : n = Len(d.frags) /\ Len(e.frags) = n + 1
  BY <1>1, <1>2, <1>4
<1>6. CASE e.flags /\ Reass!NoHoles(e.frags)
  <2>1. /\ reassdatagrams' = Reass!Dequeue(q, {d.id})
        /\ pbufcount' = count + 1 - Len(e.frags)
        /\ result' = [id |-> d.id, frags |-> e.frags, len |-> e.len]
    BY <1>3, <1>6, Zenon DEF Reass!ChainFrag, Grown
  <2>2. PICK r : r = Reass!Dequeue(q, {d.id})
    OBVIOUS
  <2>3. /\ r \in Seq(ReassEntry) /\ OneEach(r) /\ Len(r) < Len(q)
        /\ In(r) = In(q) \ {d}
        /\ Cardinality(Held(In(r))) = Cardinality(Held(In(q))) - Len(d.frags)
        /\ Cardinality(Held(In(r))) \in Nat
    BY <1>1, <2>2, TakenOut
  <2>4. count + 1 - Len(e.frags) = Cardinality(Held(In(r))) /\ count + 1 - Len(e.frags) <= MaxPbufs
    <3>1. count + 1 - (n + 1) = count - n /\ count - n <= MaxPbufs
      BY <1>2, <1>5, ReassConstants
    <3> QED
      BY <1>1, <1>5, <2>3, <3>1
  <2>5. Len(r) <= MaxData
    <3>1. Len(r) \in Nat
      BY <2>3
    <3> QED
      BY <1>1, <1>2, <2>3, <3>1, ReassConstants
  <2>6. QueueOK(r, count + 1 - Len(e.frags))
    BY <1>1, <2>3, <2>4, <2>5 DEF QueueOK
  <2>7. result'.id \in Reass!Ids /\ result'.frags = e.frags /\ result'.len = e.len /\ result'.id = e.id
    BY <1>4, <2>1, EntryTyped
  <2>8. Reass!DeliveredWhole'
    <3>1. \E g \in Fragments : /\ g.id = e.id /\ g.last /\ g.end = e.len
                               /\ e.frags[Len(e.frags)][2] = g.end
      BY <1>4, <1>6, WholeIs
    <3>2. /\ e.frags[1][1] = 0
          /\ \A i \in 2..Len(e.frags) : e.frags[i - 1][2] = e.frags[i][1]
      BY <1>6 DEF Reass!NoHoles
    <3> QED
      BY <2>7, <3>1, <3>2, Zenon DEF Reass!DeliveredWhole
  <2> QED
    BY <2>1, <2>2, <2>6, <2>7, <2>8 DEF ReassInv
<1>7. CASE ~(e.flags /\ Reass!NoHoles(e.frags))
  <2>1. /\ reassdatagrams' = [i \in 1..Len(q) |-> IF q[i].id = d.id THEN e ELSE q[i]]
        /\ pbufcount' = count + 1 - 0
        /\ result' = Reass!NULL
    BY <1>3, <1>7, Zenon DEF Reass!ChainFrag, Grown
  <2>2. PICK r : r = reassdatagrams'
    OBVIOUS
  <2>3. r \in Seq(ReassEntry) /\ OneEach(r) /\ Len(r) = Len(q) /\ In(r) = (In(q) \ {d}) \cup {e}
    <3>1. r = Replaced(q, d, e)
      BY <2>1, <2>2, Zenon DEF Replaced
    <3>2. q \in Seq(ReassEntry) /\ OneEach(q) /\ d \in In(q) /\ e \in ReassEntry /\ e.id = d.id
      BY <1>1, <1>4
    <3> QED
      BY <3>1, <3>2, ReplacedIs
  <2>4. Cardinality(Held(In(r))) = Cardinality(Held(In(q))) - Len(d.frags) + Len(e.frags)
    <3>1. PICK S : S = In(q)
      OBVIOUS
    <3>2. /\ IsFiniteSet(S) /\ Unlike(S) /\ d \in S /\ e.id = d.id /\ Len(e.frags) \in Nat
          /\ \A x \in S : Len(x.frags) \in Nat
      BY <1>1, <1>2, <1>4, <1>5, <3>1
    <3>3. Cardinality(Held((S \ {d}) \cup {e})) = Cardinality(Held(S)) - Len(d.frags) + Len(e.frags)
      BY <3>2, HeldReplaced
    <3> QED
      BY <2>3, <3>1, <3>3, Zenon
  <2>5. Cardinality(Held(In(r))) = count + 1 - 0 /\ count + 1 - 0 <= MaxPbufs
    <3>1. count + 1 - 0 = count - n + (n + 1) /\ count + 1 - 0 = count + 1
      BY <1>2, <1>5
    <3> QED
      BY <1>1, <1>5, <2>4, <3>1
  <2>6. \A x \in In(r) : Waiting(x)
    BY <1>1, <1>4, <1>7, <2>3 DEF Waiting
  <2>7. QueueOK(r, count + 1 - 0)
    BY <1>1, <2>3, <2>5, <2>6 DEF QueueOK
  <2>8. Reass!DeliveredWhole'
    BY <2>1 DEF Reass!DeliveredWhole
  <2> QED
    BY <2>1, <2>2, <2>7, <2>8 DEF ReassInv
<1> QED
  BY <1>6, <1>7

(* ip_reass_remove_oldest_datagram *)
LEMMA OldestIs ==
  ASSUME QueueOK(reassdatagrams, pbufcount), NEW id, Reass!Others(id) # {}
  PROVE  Reass!Oldest(id) \in Reass!Others(id)
<1>1. PICK n \in Nat : /\ n = Len(reassdatagrams)
                       /\ \A i \in 1..n : reassdatagrams[i].timer \in Nat
  <2>1. reassdatagrams \in Seq(ReassEntry)
    BY DEF QueueOK
  <2>2. \A i \in 1..Len(reassdatagrams) : reassdatagrams[i] \in ReassEntry
    BY <2>1
  <2>3. \A i \in 1..Len(reassdatagrams) : reassdatagrams[i].timer \in Nat
    BY <2>2, ReassConstants, EntryTyped
  <2> QED
    BY <2>1, <2>3
<1>2. PICK O \in SUBSET (1..n) : O = Reass!Others(id) /\ O # {}
  BY <1>1 DEF Reass!Others
<1> DEFINE t(i) == reassdatagrams[i].timer
           Ages == {t(i) : i \in O}
<1>3. \A i \in O : t(i) \in Nat /\ i \in 0..n
  BY <1>1
<1>4. PICK a \in Ages : \A b \in Ages : a <= b
  <2>1. Ages \in SUBSET Nat /\ Ages # {}
    BY <1>2, <1>3
  <2> HIDE DEF Ages
  <2> QED
    BY <2>1, LeastNat
<1> DEFINE Eldest == {i \in O : t(i) = a}
<1>5. PICK i \in Eldest : \A j \in Eldest : j <= i
  <2>1. Eldest \in SUBSET (0..n) /\ Eldest # {}
    BY <1>3
  <2> HIDE DEF Eldest
  <2> QED
    BY <2>1, GreatestNat
<1>6. i \in O /\ \A j \in O : t(i) <= t(j) /\ (t(i) = t(j) => j <= i)
  BY <1>4, <1>5
<1>7. Reass!Oldest(id) = CHOOSE k \in O : \A j \in O : t(k) <= t(j) /\ (t(k) = t(j) => j <= k)
  BY <1>2 DEF Reass!Oldest
<1> HIDE DEF t
<1>8. Reass!Oldest(id) \in O
  BY <1>6, <1>7
<1> QED
  BY <1>2, <1>8

(* What is left is a sound queue, and a shorter one if there was another datagram. *)
LEMMA RemoveOldestIs ==
  ASSUME QueueOK(reassdatagrams, pbufcount), NEW id, NEW r, r = Reass!RemoveOldest(id)
  PROVE  /\ QueueOK(r.queue, r.count) /\ r.count <= pbufcount
         /\ Reass!Others(id) # {} => Len(r.queue) < Len(reassdatagrams)
         /\ Reass!Others(id) = {} => r.queue = reassdatagrams
<1>1. PICK q \in Seq(ReassEntry) : /\ q = reassdatagrams /\ OneEach(q) /\ Len(q) <= MaxData
                                   /\ \A d \in In(q) : Waiting(d)
                                   /\ pbufcount = Cardinality(Held(In(q))) /\ pbufcount <= MaxPbufs
  BY DEF QueueOK
<1>2. Len(q) \in Nat /\ pbufcount \in Nat
  BY <1>1, QueueCounts
<1>3. CASE Reass!Others(id) = {}
  <2>1. r.queue = reassdatagrams /\ r.count = pbufcount
    BY <1>3 DEF Reass!RemoveOldest
  <2> QED
    BY <1>2, <1>3, <2>1
<1>4. CASE Reass!Others(id) # {}
  <2>1. PICK d : d = reassdatagrams[Reass!Oldest(id)]
    OBVIOUS
  <2>2. d \in In(q)
    <3>1. Reass!Oldest(id) \in 1..Len(q)
      BY <1>1, <1>4, OldestIs DEF Reass!Others
    <3> QED
      BY <1>1, <2>1, <3>1 DEF In
  <2>3. r.queue = Reass!Dequeue(q, {d.id}) /\ r.count = pbufcount - Len(d.frags)
    BY <1>1, <1>4, <2>1 DEF Reass!RemoveOldest, Reass!Freed
  <2>4. PICK p : p = Reass!Dequeue(q, {d.id})
    OBVIOUS
  <2>5. /\ p \in Seq(ReassEntry) /\ OneEach(p) /\ Len(p) < Len(q)
        /\ In(p) = In(q) \ {d}
        /\ Cardinality(Held(In(p))) = Cardinality(Held(In(q))) - Len(d.frags)
        /\ Cardinality(Held(In(p))) \in Nat /\ Len(d.frags) \in Nat
    BY <1>1, <2>2, <2>4, TakenOut
  <2>6. Len(p) \in Nat
    BY <2>5
  <2>7. Len(p) <= MaxData /\ pbufcount - Len(d.frags) <= pbufcount /\ pbufcount - Len(d.frags) <= MaxPbufs
    <3>1. PICK a \in Nat, b \in Nat, c \in Nat, l \in Nat :
            a = pbufcount /\ b = Len(d.frags) /\ c = Len(p) /\ l = Len(q)
      BY <1>2, <2>5, <2>6
    <3>2. c < l /\ l <= MaxData /\ a <= MaxPbufs
      BY <1>1, <2>5, <3>1
    <3>3. c <= MaxData /\ a - b <= a /\ a - b <= MaxPbufs
      BY <3>2, ReassConstants
    <3> QED
      BY <3>1, <3>3
  <2>8. QueueOK(p, pbufcount - Len(d.frags))
    BY <1>1, <2>5, <2>7 DEF QueueOK
  <2> QED
    BY <1>1, <1>4, <2>3, <2>4, <2>5, <2>7, <2>8
<1> QED
  BY <1>3, <1>4

(* A new entry at the front of the queue. *)
LEMMA FreshFirst ==
  ASSUME NEW q, NEW count, QueueOK(q, count), Len(q) < MaxData,
         NEW id \in Reass!Ids, ~Reass!IsQueued(q, id)
  PROVE  QueueBut(<<Reass!Fresh(id)>> \o q, count, Reass!Fresh(id))
<1>1. /\ q \in Seq(ReassEntry) /\ OneEach(q) /\ \A d \in In(q) : Waiting(d)
      /\ count = Cardinality(Held(In(q)))
  BY DEF QueueOK
<1>2. PICK d \in ReassEntry : d = Reass!Fresh(id) /\ d.id = id /\ d.frags = <<>> /\ ~d.flags
  <2>1. <<>> \in Seq(Extent) /\ MaxAge \in 0..MaxAge
    BY ReassConstants
  <2>2. Reass!Fresh(id) \in ReassEntry
    BY <2>1 DEF Reass!Fresh, ReassEntry
  <2>3. Reass!Fresh(id).id = id /\ Reass!Fresh(id).frags = <<>> /\ ~Reass!Fresh(id).flags
    BY DEF Reass!Fresh
  <2> QED
    BY <2>2, <2>3
<1>3. PICK n \in Nat : n = Len(q) /\ n < MaxData
  BY <1>1
<1>4. PICK z \in Seq(ReassEntry) : z = <<d>> /\ Len(z) = 1 /\ z[1] = d
  <2>1. <<d>> \in Seq(ReassEntry) /\ Len(<<d>>) = 1 /\ <<d>>[1] = d
    OBVIOUS
  <2> QED
    BY <2>1
<1>5. PICK r \in Seq(ReassEntry) : r = z \o q
  <2>1. z \o q \in Seq(ReassEntry)
    BY <1>1, ConcatProperties
  <2> QED
    BY <2>1
<1>6. Len(r) = 1 + n /\ r[1] = d /\ \A i \in 2..(1 + n) : r[i] = q[i - 1]
  <2>1. /\ Len(r) = Len(z) + Len(q)
        /\ \A i \in 1..(Len(z) + Len(q)) : r[i] = IF i <= Len(z) THEN z[i] ELSE q[i - Len(z)]
    BY <1>1, <1>5, ConcatProperties
  <2>2. Len(r) = 1 + n /\ \A i \in 1..(1 + n) : r[i] = IF i <= 1 THEN z[i] ELSE q[i - 1]
    BY <1>3, <1>4, <2>1, Zenon
  <2>3. 1 \in 1..(1 + n) /\ \A i \in 2..(1 + n) : i \in 1..(1 + n) /\ ~(i <= 1)
    OBVIOUS
  <2> QED
    BY <1>4, <2>2, <2>3
<1>7. \A i \in 1..n : q[i].id # id
  BY <1>3 DEF Reass!IsQueued
<1>8. /\ \A i \in 1..(1 + n) : i = 1 \/ (i \in 2..(1 + n) /\ i - 1 \in 1..n)
      /\ \A i \in 1..n : i + 1 \in 2..(1 + n) /\ i + 1 \in 1..(1 + n) /\ (i + 1) - 1 = i
  OBVIOUS
<1>9. OneEach(r)
  <2>1. \A i \in 2..(1 + n) : i - 1 \in 1..n /\ r[i].id = q[i - 1].id
    BY <1>6
  <2>2. \A i \in 2..(1 + n) : r[i].id # r[1].id
    BY <1>2, <1>6, <1>7, <2>1
  <2>3. ASSUME NEW i \in 2..(1 + n), NEW j \in 2..(1 + n), r[i].id = r[j].id PROVE i - 1 = j - 1
    <3>1. i - 1 \in 1..Len(q) /\ j - 1 \in 1..Len(q) /\ q[i - 1].id = q[j - 1].id
      BY <1>3, <2>1, <2>3
    <3> QED
      BY <1>1, <3>1 DEF OneEach
  <2>4. \A i, j \in 2..(1 + n) : i - 1 = j - 1 => i = j
    OBVIOUS
  <2>5. ASSUME NEW i \in 1..(1 + n), NEW j \in 1..(1 + n), r[i].id = r[j].id PROVE i = j
    <3>1. CASE i = 1 /\ j = 1
      BY <3>1
    <3>2. CASE i = 1 /\ j # 1
      BY <1>8, <2>2, <2>5, <3>2
    <3>3. CASE i # 1 /\ j = 1
      BY <1>8, <2>2, <2>5, <3>3
    <3>4. CASE i # 1 /\ j # 1
      BY <1>8, <2>3, <2>4, <2>5, <3>4
    <3> QED
      BY <3>1, <3>2, <3>3, <3>4
  <2> QED
    BY <1>6, <2>5, Zenon DEF OneEach
<1>10. In(r) = In(q) \cup {d}
  <2>1. \A x \in In(r) : x \in In(q) \cup {d}
    <3> SUFFICES ASSUME NEW x \in In(r) PROVE x \in In(q) \cup {d}
      OBVIOUS
    <3>1. PICK i \in 1..(1 + n) : x = r[i]
      BY <1>6 DEF In
    <3>2. CASE i = 1
      BY <1>6, <3>1, <3>2
    <3>3. CASE i # 1
      <4>1. i - 1 \in 1..n /\ x = q[i - 1]
        BY <1>6, <1>8, <3>1, <3>3
      <4> QED
        BY <1>3, <4>1 DEF In
    <3> QED
      BY <3>2, <3>3
  <2>2. d \in In(r)
    <3>1. 1 \in 1..Len(r)
      BY <1>6
    <3> QED
      BY <1>6, <3>1 DEF In
  <2>3. ASSUME NEW x \in In(q) PROVE x \in In(r)
    <3>1. PICK i \in 1..n : x = q[i]
      BY <1>3 DEF In
    <3>2. i + 1 \in 1..(1 + n) /\ r[i + 1] = x
      BY <1>6, <1>8, <3>1
    <3> QED
      BY <1>6, <3>2 DEF In
  <2> QED
    BY <2>1, <2>2, <2>3
<1>11. d \notin In(q)
  BY <1>2, <1>3, <1>7 DEF In
<1>12. In(r) \ {d} = In(q)
  BY <1>10, <1>11
<1>13. count = Cardinality(Held(In(r)))
  <2>1. /\ IsFiniteSet(In(r)) /\ Unlike(In(r)) /\ \A x \in In(r) : Len(x.frags) \in Nat
    BY <1>9, QueueCounts
  <2>2. d \in In(r)
    BY <1>10
  <2>3. /\ Cardinality(Held(In(r))) = Len(d.frags) + Cardinality(Held(In(r) \ {d}))
        /\ Cardinality(Held(In(r) \ {d})) \in Nat
    BY <2>1, <2>2, HeldBut
  <2>4. Len(d.frags) = 0
    BY <1>2
  <2>5. PICK c \in Nat : c = Cardinality(Held(In(q)))
    BY <1>12, <2>3
  <2>6. Cardinality(Held(In(r))) = 0 + c
    BY <1>12, <2>3, <2>4, <2>5
  <2>7. 0 + c = c
    OBVIOUS
  <2> QED
    BY <1>1, <2>5, <2>6, <2>7, Zenon
<1>14. Chained(d)
  BY <1>2 DEF Chained, InRow
<1>15. Len(r) <= MaxData
  BY <1>3, <1>6, ReassConstants
<1>16. QueueBut(r, count, d)
  BY <1>1, <1>9, <1>10, <1>12, <1>13, <1>14, <1>15 DEF QueueBut
<1> QED
  BY <1>2, <1>4, <1>5, <1>16

(* ip4_reass, once there is room. *)
LEMMA EnqueueInv ==
  ASSUME NEW q, NEW count, QueueOK(q, count), count + 1 <= MaxPbufs, NEW f \in Fragments,
         ~Reass!IsQueued(q, f.id) => Len(q) < MaxData, Reass!Enqueue(q, count, f)
  PROVE  ReassInv'
<1>1. ASSUME Reass!Nullreturn(q, count) PROVE ReassInv'
  <2>1. reassdatagrams' = q /\ pbufcount' = count /\ result' = Reass!NULL
    BY <1>1 DEF Reass!Nullreturn
  <2>2. Reass!DeliveredWhole'
    BY <2>1 DEF Reass!DeliveredWhole
  <2> QED
    BY <2>1, <2>2 DEF ReassInv
<1>2. CASE Reass!IsQueued(q, f.id)
  <2>1. PICK d : d = Reass!Entry(q, f.id)
    OBVIOUS
  <2>2. d \in In(q) /\ d.id = f.id
    BY <1>2, <2>1 DEF Reass!IsQueued, Reass!Entry, In
  <2>3. Reass!Nullreturn(q, count) \/ (~Reass!Dropped(d.frags, f) /\ Reass!ChainFrag(q, count, d, f))
    BY <1>2, <2>1 DEF Reass!Enqueue
  <2>4. QueueBut(q, count, d)
    BY <2>2 DEF QueueOK, QueueBut, Waiting
  <2> QED
    BY <1>1, <2>2, <2>3, <2>4, ChainFragInv
<1>3. CASE ~Reass!IsQueued(q, f.id)
  <2>1. PICK d, r : d = Reass!Fresh(f.id) /\ r = <<d>> \o q
    OBVIOUS
  <2>2. d.id = f.id /\ d.frags = <<>>
    BY <2>1 DEF Reass!Fresh
  <2>3. Reass!Nullreturn(q, count) \/ (~Reass!Dropped(<<>>, f) /\ Reass!ChainFrag(r, count, d, f))
    BY <1>3, <2>1 DEF Reass!Enqueue
  <2>4. QueueBut(r, count, d)
    <3>1. f.id \in Reass!Ids /\ Len(q) < MaxData
      BY <1>3, ReassConstants
    <3> QED
      BY <1>3, <2>1, <3>1, FreshFirst
  <2>5. ~Reass!Dropped(<<>>, f) => ~Reass!Dropped(d.frags, f)
    BY <2>2
  <2> QED
    BY <1>1, <2>2, <2>3, <2>4, <2>5, ChainFragInv
<1> QED
  BY <1>2, <1>3

(* A fragment is queued, completes its datagram or is dropped; whatever is  *)
(* pushed out for it, there is room for it before it is chained.            *)
LEMMA ReassStep ==
  ASSUME ReassInv, NEW f \in Fragments, Reass!ip4_reass(f)
  PROVE  ReassInv'
<1>1. QueueOK(reassdatagrams, pbufcount)
  BY DEF ReassInv
<1>2. PICK old : old = Reass!RemoveOldest(f.id)
  OBVIOUS
<1>3. /\ QueueOK(old.queue, old.count) /\ old.count <= pbufcount
      /\ Reass!Others(f.id) # {} => Len(old.queue) < Len(reassdatagrams)
      /\ Reass!Others(f.id) = {} => old.queue = reassdatagrams
  BY <1>1, <1>2, RemoveOldestIs
<1>5. PICK n \in Nat, l \in Nat, c \in Nat, m \in Nat :
        n = Len(reassdatagrams) /\ l = Len(old.queue) /\ c = pbufcount /\ m = old.count
  <2>1. \A q, count : QueueOK(q, count) => Len(q) \in Nat /\ count \in Nat
    BY QueueCounts DEF QueueOK
  <2> QED
    BY <1>1, <1>3, <2>1
<1>6. n <= MaxData /\ m <= c
  BY <1>1, <1>3, <1>5 DEF QueueOK
(* Where an entry is taken out for a new one, one is there to be taken. *)
<1>7. ASSUME ~Reass!IsQueued(old.queue, f.id), n = MaxData PROVE l < MaxData
  <2>1. CASE Reass!Others(f.id) # {}
    BY <1>3, <1>5, <1>7, <2>1
  <2>2. CASE Reass!Others(f.id) = {}
    <3>1. 1 \in 1..n
      BY <1>7, ReassConstants
    <3>2. 1 \in 1..Len(reassdatagrams) /\ reassdatagrams[1].id = f.id
      BY <1>5, <2>2, <3>1 DEF Reass!Others
    <3>3. Reass!IsQueued(reassdatagrams, f.id)
      BY <3>2 DEF Reass!IsQueued
    <3> QED
      BY <1>3, <1>7, <2>2, <3>3
  <2> QED
    BY <2>1, <2>2
<1>8. ASSUME ~Reass!IsQueued(reassdatagrams, f.id), n = MaxData PROVE l < MaxData
  <2>1. 1 \in 1..n
    BY <1>8, ReassConstants
  <2>2. 1 \in 1..Len(reassdatagrams) /\ reassdatagrams[1].id # f.id
    BY <1>5, <1>8, <2>1 DEF Reass!IsQueued
  <2>3. Reass!Others(f.id) # {}
    BY <2>2 DEF Reass!Others
  <2> QED
    BY <1>3, <1>5, <1>8, <2>3
<1>9. ASSUME NEW q, NEW count, QueueOK(q, count), Reass!Nullreturn(q, count) PROVE ReassInv'
  <2>1. reassdatagrams' = q /\ pbufcount' = count /\ result' = Reass!NULL
    BY <1>9 DEF Reass!Nullreturn
  <2>2. Reass!DeliveredWhole'
    BY <2>1 DEF Reass!DeliveredWhole
  <2> QED
    BY <1>9, <2>1, <2>2 DEF ReassInv
<1>10. CASE pbufcount + 1 > MaxPbufs
  <2>1. IF old.count + 1 > MaxPbufs THEN Reass!Nullreturn(old.queue, old.count)
        ELSE Reass!Enqueue(old.queue, old.count, f)
    BY <1>2, <1>10 DEF Reass!ip4_reass
  <2>2. CASE old.count + 1 > MaxPbufs
    BY <1>3, <1>9, <2>1, <2>2
  <2>3. CASE ~(old.count + 1 > MaxPbufs)
    <3>1. old.count + 1 <= MaxPbufs
      BY <1>5, <2>3, ReassConstants
    <3>2. ~Reass!IsQueued(old.queue, f.id) => Len(old.queue) < MaxData
      <4> SUFFICES ASSUME ~Reass!IsQueued(old.queue, f.id) PROVE l < MaxData
        BY <1>5
      <4>1. CASE n = MaxData
        BY <1>7, <4>1
      <4>2. CASE n # MaxData
        <5>1. l <= n
          BY <1>3, <1>5
        <5> QED
          BY <1>6, <4>2, <5>1, ReassConstants
      <4> QED
        BY <4>1, <4>2
    <3> QED
      BY <1>3, <2>1, <2>3, <3>1, <3>2, EnqueueInv
  <2> QED
    BY <2>2, <2>3
<1>11. CASE ~(pbufcount + 1 > MaxPbufs)
  <2>1. pbufcount + 1 <= MaxPbufs /\ old.count + 1 <= MaxPbufs
    BY <1>5, <1>6, <1>11, ReassConstants
  <2>2. CASE ~Reass!IsQueued(reassdatagrams, f.id) /\ Len(reassdatagrams) = MaxData
    <3>1. Reass!Enqueue(old.queue, old.count, f)
      BY <1>2, <1>11, <2>2 DEF Reass!ip4_reass
    <3>2. Len(old.queue) < MaxData
      BY <1>5, <1>8, <2>2
    <3> QED
      BY <1>3, <2>1, <3>1, <3>2, EnqueueInv
  <2>3. CASE ~(~Reass!IsQueued(reassdatagrams, f.id) /\ Len(reassdatagrams) = MaxData)
    <3>1. Reass!Enqueue(reassdatagrams, pbufcount, f)
      BY <1>11, <2>3 DEF Reass!ip4_reass
    <3>2. ~Reass!IsQueued(reassdatagrams, f.id) => Len(reassdatagrams) < MaxData
      BY <1>5, <1>6, <2>3, ReassConstants
    <3> QED
      BY <1>1, <2>1, <3>1, <3>2, EnqueueInv
  <2> QED
    BY <2>2, <2>3
<1> QED
  BY <1>10, <1>11

(* An entry one second older is the same to its fragments. *)
LEMMA CountedIs ==
  ASSUME NEW d \in ReassEntry, d.timer # 0, NEW e, e = Reass!Counted(d)
  PROVE  /\ e \in ReassEntry /\ e.id = d.id /\ e.frags = d.frags
         /\ Waiting(d) => Waiting(e)
<1>1. MaxAge \in Nat /\ d.timer \in 0..MaxAge
  BY ReassConstants, EntryTyped
<1>2. d.timer - 1 \in 0..MaxAge
  BY <1>1
<1>3. e = [d EXCEPT !.timer = d.timer - 1]
  BY DEF Reass!Counted
<1>4. /\ e \in ReassEntry /\ e.id = d.id /\ e.frags = d.frags /\ e.flags = d.flags /\ e.len = d.len
  BY <1>2, <1>3 DEF ReassEntry
<1>5. ASSUME Chained(d) PROVE Chained(e)
  <2>1. PICK F, x, b, l : F = d.frags /\ x = d.id /\ b = d.flags /\ l = d.len
    OBVIOUS
  <2>2. /\ InRow(F)
        /\ \A k \in 1..Len(F) : \E g \in Fragments : g.id = x /\ F[k] = <<g.start, g.end>>
        /\ b => \E g \in Fragments : \E k \in 1..Len(F) :
                  g.id = x /\ g.last /\ l = g.end /\ F[k] = <<g.start, g.end>>
    BY <1>5, <2>1 DEF Chained
  <2>3. e.frags = F /\ e.id = x /\ e.flags = b /\ e.len = l
    BY <1>4, <2>1
  <2> QED
    BY <2>2, <2>3 DEF Chained
<1>6. Waiting(d) => Waiting(e)
  BY <1>4, <1>5, Zenon DEF Waiting
<1> QED
  BY <1>4, <1>6

(* A second passes: the entries whose time is up go with their pbufs, the   *)
(* others stay with theirs.                                                 *)
LEMMA ReassTimer ==
  ASSUME ReassInv, Reass!ip_reass_tmr
  PROVE  ReassInv'
<1>1. PICK q \in Seq(ReassEntry) : /\ q = reassdatagrams /\ OneEach(q) /\ Len(q) <= MaxData
                                   /\ \A d \in In(q) : Waiting(d)
                                   /\ pbufcount = Cardinality(Held(In(q))) /\ pbufcount <= MaxPbufs
  BY DEF ReassInv, QueueOK
<1>2. /\ IsFiniteSet(In(q)) /\ Unlike(In(q)) /\ In(q) \in SUBSET ReassEntry
      /\ \A d \in In(q) : Len(d.frags) \in Nat
      /\ Len(q) \in Nat /\ pbufcount \in Nat /\ Reass!Range(q) = In(q)
  BY <1>1, QueueCounts, InFinite
<1>3. PICK old \in SUBSET In(q) : old = {d \in In(q) : d.timer = 0}
  OBVIOUS
<1>4. PICK ids : ids = {d.id : d \in old}
  OBVIOUS
<1>5. PICK p : p = Reass!Dequeue(q, ids)
  OBVIOUS
<1>6. /\ reassdatagrams' = [i \in 1..Len(p) |-> Reass!Counted(p[i])]
      /\ pbufcount' = pbufcount - Cardinality(Reass!FreedWith(old))
      /\ result' = Reass!NULL
  <2>1. {d \in Reass!Range(reassdatagrams) : d.timer = 0} = old
    BY <1>1, <1>2, <1>3
  <2> QED
    BY <1>1, <1>4, <1>5, <2>1, ReassCardinality DEF Reass!ip_reass_tmr
<1>7. /\ p \in Seq(ReassEntry) /\ OneEach(p) /\ Len(p) <= Len(q)
      /\ In(p) = {d \in In(q) : d.id \notin ids}
  BY <1>1, <1>5, Dequeued
<1>8. In(p) = In(q) \ old
  BY <1>2, <1>3, <1>4, <1>7 DEF Unlike
<1>9. PICK n \in Nat : n = Len(p) /\ \A i \in 1..n : p[i] \in ReassEntry /\ p[i] \in In(p)
  <2>1. Len(p) \in Nat /\ \A i \in 1..Len(p) : p[i] \in ReassEntry
    BY <1>7
  <2> QED
    BY <2>1 DEF In
<1>10. PICK r : r = [i \in 1..n |-> Reass!Counted(p[i])]
  OBVIOUS
<1>11. \A i \in 1..n : /\ r[i] \in ReassEntry /\ r[i].id = p[i].id /\ r[i].frags = p[i].frags
                       /\ Waiting(r[i])
  <2> SUFFICES ASSUME NEW i \in 1..n
               PROVE  /\ r[i] \in ReassEntry /\ r[i].id = p[i].id /\ r[i].frags = p[i].frags
                      /\ Waiting(r[i])
    OBVIOUS
  <2>1. r[i] = Reass!Counted(p[i])
    BY <1>10
  <2>2. p[i] \in In(q) /\ p[i] \notin old
    BY <1>8, <1>9
  <2>3. p[i].timer # 0 /\ Waiting(p[i]) /\ p[i] \in ReassEntry
    BY <1>1, <1>2, <1>3, <2>2
  <2> QED
    BY <2>1, <2>3, CountedIs
<1>12. r \in Seq(ReassEntry) /\ Len(r) = n
  <2>1. r = [i \in 1..n |-> r[i]]
    BY <1>10
  <2>2. \A i \in 1..n : r[i] \in ReassEntry
    BY <1>11
  <2>3. [i \in 1..n |-> r[i]] \in Seq(ReassEntry) /\ Len([i \in 1..n |-> r[i]]) = n
    BY <2>2, IsASeq
  <2> QED
    BY <2>1, <2>3
<1>13. OneEach(r)
  <2>1. \A i, j \in 1..n : r[i].id = r[j].id => i = j
    BY <1>7, <1>9, <1>11 DEF OneEach
  <2> QED
    BY <1>12, <2>1, Zenon DEF OneEach
<1>14. \A d \in In(r) : Waiting(d)
  BY <1>11, <1>12 DEF In
<1>15. Held(In(r)) = Held(In(p))
  <2>1. \A i \in 1..n : {r[i].id} \X (1..Len(r[i].frags)) = {p[i].id} \X (1..Len(p[i].frags))
    BY <1>11
  <2>2. {{d.id} \X (1..Len(d.frags)) : d \in In(r)} = {{r[i].id} \X (1..Len(r[i].frags)) : i \in 1..n}
    BY <1>12, Zenon DEF In
  <2>3. {{d.id} \X (1..Len(d.frags)) : d \in In(p)} = {{p[i].id} \X (1..Len(p[i].frags)) : i \in 1..n}
    <3>1. In(p) = {p[i] : i \in 1..n}
      BY <1>9 DEF In
    <3> QED
      BY <3>1, Zenon
  <2>4. {{r[i].id} \X (1..Len(r[i].frags)) : i \in 1..n} = {{p[i].id} \X (1..Len(p[i].frags)) : i \in 1..n}
    BY <2>1, Zenon
  <2> QED
    BY <2>2, <2>3, <2>4, Zenon DEF Held
<1>16. Reass!FreedWith(old) = Held(old)
  BY DEF Reass!FreedWith, Reass!Freed, Held
<1>17. /\ Cardinality(Held(In(q))) = Cardinality(Held(old)) + Cardinality(Held(In(q) \ old))
       /\ Cardinality(Held(old)) \in Nat /\ Cardinality(Held(In(q) \ old)) \in Nat
  BY <1>2, HeldSplit
<1>18. PICK a \in Nat, b \in Nat : /\ a = Cardinality(Held(old)) /\ b = Cardinality(Held(In(r)))
                                   /\ pbufcount = a + b
  BY <1>1, <1>8, <1>15, <1>17
<1>19. pbufcount' = b /\ b <= MaxPbufs
  <2>1. pbufcount' = (a + b) - a
    BY <1>6, <1>16, <1>18
  <2>2. (a + b) - a = b /\ (a + b <= MaxPbufs => b <= MaxPbufs)
    BY ReassConstants
  <2> QED
    BY <1>1, <1>18, <2>1, <2>2
<1>20. Len(r) <= MaxData
  BY <1>1, <1>2, <1>7, <1>9, <1>12, ReassConstants
<1>21. QueueOK(r, b)
  BY <1>12, <1>13, <1>14, <1>18, <1>19, <1>20 DEF QueueOK
<1>22. reassdatagrams' = r
  BY <1>6, <1>9, <1>10
<1>23. Reass!DeliveredWhole'
  BY <1>6 DEF Reass!DeliveredWhole
<1> QED
  BY <1>6, <1>19, <1>21, <1>22, <1>23 DEF ReassInv

(* Nothing is queued at first. *)
LEMMA ReassInitInv ==
  ASSUME Reass!Init
  PROVE  ReassInv
<1>1. reassdatagrams = <<>> /\ pbufcount = 0 /\ result = Reass!NULL
  BY DEF Reass!Init
<1>2. PICK q : q = <<>>
  OBVIOUS
<1>3. q \in Seq(ReassEntry) /\ Len(q) = 0
  BY <1>2
<1>4. In(q) = {} /\ OneEach(q)
  BY <1>3 DEF In, OneEach
<1>5. Held(In(q)) = {}
  BY <1>4 DEF Held
<1>6. Cardinality(Held(In(q))) = 0
  BY <1>5, FS_EmptySet
<1>7. 0 <= MaxData /\ 0 <= MaxPbufs
  BY ReassConstants
<1>8. QueueOK(q, 0)
  BY <1>3, <1>4, <1>6, <1>7 DEF QueueOK
<1>9. Reass!DeliveredWhole
  BY <1>1 DEF Reass!DeliveredWhole
<1> QED
  BY <1>1, <1>2, <1>8, <1>9 DEF ReassInv

(* The invariant of reassembly holds in every state. *)
LEMMA ReassInvHolds == MCSpec => []ReassInv
<1>1. MCInit => ReassInv
  BY ReassInitInv DEF MCInit
<1>2. ReassInv /\ [MCNext]_all => ReassInv'
  <2> SUFFICES ASSUME ReassInv, [MCNext]_all PROVE ReassInv'
    OBVIOUS
  <2>1. CASE UNCHANGED reass
    <3>1. reassdatagrams' = reassdatagrams /\ pbufcount' = pbufcount /\ result' = result
      BY <2>1 DEF reass
    <3> QED
      BY <3>1 DEF ReassInv, Reass!DeliveredWhole
  <2>2. CASE Reass!Next
    BY <2>2, ReassStep, ReassTimer DEF Reass!Next
  <2> QED
    BY <2>1, <2>2 DEF MCNext, InArp, InReass, InTimers, InMem, all
<1> QED
  BY <1>1, <1>2, PTL DEF MCSpec

(* For every set of fragments that senders cut their datagrams into, lost,  *)
(* repeated, reordered and overlapping as they may be, and for all limits   *)
(* of the queue: what ip4_reass returns is whole, the queue holds each      *)
(* datagram once, with its fragments in order and with a byte missing, and  *)
(* ip_reass_pbufcount is the number of pbufs in the queue and in its limit. *)
THEOREM ReassIsSound == MCSpec => []ReassSound
<1>1. ASSUME ReassInv PROVE ReassSound
  <2>1. PICK q \in Seq(ReassEntry) : /\ q = reassdatagrams /\ OneEach(q) /\ Len(q) <= MaxData
                                     /\ \A d \in In(q) : Waiting(d)
                                     /\ pbufcount = Cardinality(Held(In(q))) /\ pbufcount <= MaxPbufs
    BY <1>1 DEF ReassInv, QueueOK
  <2>2. In(q) \in SUBSET ReassEntry /\ pbufcount \in Nat /\ Reass!Range(q) = In(q)
    BY <2>1, QueueCounts, InFinite
  <2>3. \A i \in 1..Len(q) : q[i] \in In(q) /\ q[i] \in ReassEntry /\ Waiting(q[i])
    BY <2>1, <2>2 DEF In
  <2>4. Reass!TypeOK
    <3>1. \A i \in 1..Len(q) : /\ q[i].id \in Reass!Ids /\ q[i].timer \in 0..MaxAge
                               /\ q[i].flags \in BOOLEAN /\ q[i].len \in Nat
                               /\ q[i].frags \in Seq(Nat \X Nat)
      BY <2>3, EntryTyped DEF Extent
    <3>2. result.id \in Reass!Ids \cup {"none"}
      BY <1>1 DEF ReassInv, Reass!NULL
    <3> QED
      BY <2>1, <2>2, <3>1, <3>2 DEF Reass!TypeOK
  <2>5. Reass!PbufCountExact
    BY <2>1, <2>2, ReassCardinality DEF Reass!PbufCountExact, Held
  <2>6. Reass!QueueSound
    <3>1. ASSUME NEW d \in ReassEntry, Waiting(d)
          PROVE  \A k \in 2..Len(d.frags) : d.frags[k - 1][2] <= d.frags[k][1]
      <4>1. InRow(d.frags) /\ Len(d.frags) \in Nat
        BY <3>1, EntryTyped DEF Waiting, Chained
      <4>2. \A k \in 2..Len(d.frags) : k - 1 \in 1..Len(d.frags) /\ k \in 1..Len(d.frags) /\ k - 1 < k
        BY <4>1
      <4> QED
        BY <4>1, <4>2 DEF InRow
    <3>2. ASSUME NEW d \in ReassEntry, Waiting(d)
          PROVE  \A f \in Fragments : f.id = d.id /\ f.last /\ d.flags =>
                   \E x \in 0..(f.end - 1) :
                     \A k \in 1..Len(d.frags) : ~(d.frags[k][1] <= x /\ x < d.frags[k][2])
      BY <3>2, ByteMissing
    <3>3. \A i \in 1..Len(q) :
            /\ q[i].frags # <<>>
            /\ \A k \in 2..Len(q[i].frags) : q[i].frags[k - 1][2] <= q[i].frags[k][1]
            /\ \A f \in Fragments : f.id = q[i].id /\ f.last /\ q[i].flags =>
                 \E x \in 0..(f.end - 1) :
                   \A k \in 1..Len(q[i].frags) : ~(q[i].frags[k][1] <= x /\ x < q[i].frags[k][2])
      BY <2>3, <3>1, <3>2, Zenon DEF Waiting
    <3> QED
      BY <2>1, <3>3, Zenon DEF Reass!QueueSound, OneEach
  <2> QED
    BY <1>1, <2>4, <2>5, <2>6 DEF ReassInv, ReassSound
<1> QED
  BY <1>1, ReassInvHolds, PTL
=============================================================================

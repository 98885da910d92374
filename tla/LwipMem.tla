------------------------------ MODULE LwipMem ------------------------------
(***************************************************************************)
(* The heap of lwIP, mem.c, from which PBUF_RAM buffers and the DHCP state *)
(* come: mem_malloc, mem_trim and mem_free over headers linked both ways.  *)
(* The build has NO_SYS = 1 and MEM_OVERFLOW_CHECK = 0, so each is a step. *)
(* A struct mem is known by its offset in ram.                             *)
(***************************************************************************)
EXTENDS Integers, FiniteSets, FiniteSetsExt, Functions

CONSTANTS
  MEM_SIZE_ALIGNED,
  Word,     \* number of values of mem_size_t
  Wanted    \* sizes asked for

MEM_ALIGNMENT == 4
SIZEOF_STRUCT_MEM == 8
MIN_SIZE_ALIGNED == 12

MemAssumption ==
  /\ MEM_SIZE_ALIGNED \in Nat /\ MEM_SIZE_ALIGNED % MEM_ALIGNMENT = 0
  /\ MEM_SIZE_ALIGNED >= SIZEOF_STRUCT_MEM + MIN_SIZE_ALIGNED
  /\ Word \in Nat /\ MEM_SIZE_ALIGNED + SIZEOF_STRUCT_MEM < Word
  /\ Word % MEM_ALIGNMENT = 0
  /\ Wanted \subseteq 0..(Word - 1)

VARIABLES
  mem,     \* what is at each offset, as a header
  lfree,   \* the lowest free header
  owned    \* ghost: bytes promised to the owner of each block in use

vars == <<mem, lfree, owned>>

Offsets == {MEM_ALIGNMENT * i : i \in 0..(MEM_SIZE_ALIGNED \div MEM_ALIGNMENT)}
ram_end == MEM_SIZE_ALIGNED

(* Bytes that are no header, or no longer. *)
NoHeader == [next |-> 0, prev |-> 0, used |-> 0]

(* mem_init *)
Init ==
  /\ mem = [p \in Offsets |->
              CASE p = 0 -> [next |-> ram_end, prev |-> 0, used |-> 0]
                [] p = ram_end -> [next |-> ram_end, prev |-> ram_end, used |-> 1]
                [] OTHER -> NoHeader]
  /\ lfree = 0
  /\ owned = <<>>

(* Headers that a loop over next meets from p on, ram_end included. *)
From(m, p) ==
  LET f[q \in Offsets] == IF m[q].next <= q THEN {q} ELSE {q} \cup f[m[q].next] IN f[p]

(* Bytes of user data in a block. *)
Room(p) == mem[p].next - (p + SIZEOF_STRUCT_MEM)

AlignSize(n) == (((n + MEM_ALIGNMENT - 1) \div MEM_ALIGNMENT) * MEM_ALIGNMENT) % Word

(* A size rounded up, and no smaller than a block can be. *)
BlockData(n) == Max({AlignSize(n), MIN_SIZE_ALIGNED})

(* Mutant: no look at the wrap of the rounding. *)
TooLargeOnly(n) == BlockData(n) > MEM_SIZE_ALIGNED

Refused(n) == BlockData(n) > MEM_SIZE_ALIGNED \/ BlockData(n) < n

(* next's header gets its prev, unless it is the end of the heap. *)
SetPrev(m, p, prev) == IF p = ram_end THEN m ELSE [m EXCEPT ![p].prev = prev]

(* A free header at q, between p and p's next. *)
Insert(m, p, q) ==
  SetPrev([m EXCEPT ![q] = [next |-> m[p].next, prev |-> p, used |-> 0], ![p].next = q],
          m[p].next, q)

(* q, which follows p, becomes part of it. *)
Join(m, p, q) == SetPrev([m EXCEPT ![p].next = m[q].next, ![q] = NoHeader], m[q].next, p)

-----------------------------------------------------------------------------
(* mem_malloc *)

(* Is there room for another block behind the data? *)
Splits(room, size) == room >= size + SIZEOF_STRUCT_MEM + MIN_SIZE_ALIGNED

(* Blocks the search would take, from the lowest free one on. *)
Fitting(size) ==
  {p \in From(mem, lfree) : p < MEM_SIZE_ALIGNED - size /\ mem[p].used = 0 /\ Room(p) >= size}

Taken(p, size) ==
  LET m == IF Splits(Room(p), size) THEN Insert(mem, p, p + SIZEOF_STRUCT_MEM + size) ELSE mem
  IN  [m EXCEPT ![p].used = 1]

(* Mutant: the search for the next free block starts too late. *)
SkipLowest(m, p) == IF p = lfree THEN ram_end ELSE lfree

(* The next free block, when the lowest was taken. *)
NextLowest(m, p) ==
  IF p = lfree THEN Min({q \in From(m, lfree) : m[q].used = 0 \/ q = ram_end}) ELSE lfree

mem_malloc(n) ==
  LET size == BlockData(n)
  IN  IF n = 0 \/ Refused(n) \/ Fitting(size) = {} THEN UNCHANGED vars
      ELSE LET p == Min(Fitting(size))
           IN  /\ mem' = Taken(p, size)
               /\ lfree' = NextLowest(mem', p)
               /\ owned' = [q \in DOMAIN owned \cup {p} |-> IF q = p THEN n ELSE owned[q]]

-----------------------------------------------------------------------------
(* mem_free *)

mem_link_valid(p) ==
  LET next == mem[p].next
      prev == mem[p].prev
  IN  /\ next <= MEM_SIZE_ALIGNED /\ prev <= MEM_SIZE_ALIGNED
      /\ prev = p \/ mem[prev].next = p
      /\ next = ram_end \/ mem[next].prev = p

Heap(m, low) == [mem |-> m, lfree |-> low]

(* Is the header free, and not the end? *)
IsHole(m, p) == p # ram_end /\ m[p].used = 0

JoinNext(h, p) ==
  LET q == h.mem[p].next
  IN  IF q # p /\ IsHole(h.mem, q)
      THEN Heap(Join(h.mem, p, q), IF h.lfree = q THEN p ELSE h.lfree) ELSE h

JoinPrev(h, p) ==
  LET q == h.mem[p].prev
  IN  IF q # p /\ h.mem[q].used = 0
      THEN Heap(Join(h.mem, q, p), IF h.lfree = p THEN q ELSE h.lfree) ELSE h

(* Mutant: holes are joined backward only. *)
PlugBackward(h, p) == JoinPrev(h, p)

plug_holes(h, p) == JoinPrev(JoinNext(h, p), p)

(* Of a block that its owner holds. *)
mem_free(p) ==
  /\ p \in DOMAIN owned
  /\ owned' = Restrict(owned, DOMAIN owned \ {p})
  /\ IF mem[p].used = 1 /\ mem_link_valid(p)
     THEN LET h == plug_holes(Heap([mem EXCEPT ![p].used = 0], Min({p, lfree})), p)
          IN  mem' = h.mem /\ lfree' = h.lfree
     ELSE UNCHANGED <<mem, lfree>>

-----------------------------------------------------------------------------
(* mem_trim *)

(* The free block behind p moves to q. *)
MoveHole(p, q) ==
  LET hole == mem[p].next
  IN  Heap(Insert(Join(mem, p, hole), p, q), IF lfree = hole THEN q ELSE lfree)

(* What p no longer needs becomes a free block. *)
CutTail(p, q) == Heap(Insert(mem, p, q), Min({q, lfree}))

Trimmed(p, size) ==
  LET q == p + SIZEOF_STRUCT_MEM + size
  IN  IF IsHole(mem, mem[p].next) THEN MoveHole(p, q)
      ELSE IF Splits(Room(p), size) THEN CutTail(p, q) ELSE Heap(mem, lfree)

(* Cutting the tail off the last block of the heap fails an assertion,      *)
(* which stops the firmware (cc.h).  Its one caller, dhcp.c, trims to what  *)
(* it asked for and does not get there.                                     *)
Asserts(p, size) == mem[p].next = ram_end /\ Splits(Room(p), size)

mem_trim(p, n) ==
  LET size == BlockData(n)
  IN  /\ p \in DOMAIN owned /\ n <= owned[p]
      /\ ~Refused(n) /\ size < Room(p)
      /\ ~Asserts(p, size)
      /\ mem' = Trimmed(p, size).mem
      /\ lfree' = Trimmed(p, size).lfree
      /\ owned' = [owned EXCEPT ![p] = n]

Next ==
  \/ \E n \in Wanted : mem_malloc(n)
  \/ \E p \in DOMAIN owned : mem_free(p)
  \/ \E p \in DOMAIN owned, n \in Wanted : mem_trim(p, n)

Spec == Init /\ [][Next]_vars

-----------------------------------------------------------------------------
Headers == From(mem, 0)

TypeOK ==
  /\ mem \in [Offsets -> [next : Offsets, prev : Offsets, used : {0, 1}]]
  /\ lfree \in Offsets
  /\ owned \in [DOMAIN owned -> Wanted] /\ DOMAIN owned \subseteq Offsets

(* Each owner has the bytes it asked for, and they are in no other block:   *)
(* the blocks in use are the owned ones, the headers link the whole heap,   *)
(* and none is inside another's data.  Rounding near the largest mem_size_t *)
(* does not give a block that is too short.                                 *)
OwnersApart ==
  /\ ram_end \in Headers
  /\ {p \in Headers : mem[p].used = 1} = DOMAIN owned \cup {ram_end}
  /\ \A p \in DOMAIN owned : owned[p] <= Room(p)

(* mem_free takes back every block that an owner holds: its header is in    *)
(* use and passes mem_link_valid, whatever was cut, moved and joined around *)
(* it.  (A block that is refused is lost for ever.)                         *)
FreeAccepted == \A p \in DOMAIN owned : mem[p].used = 1 /\ mem_link_valid(p)

(* plug_holes: "there should not exist one empty struct mem pointing to     *)
(* another empty struct mem", so what is freed can be used in one piece.    *)
NoAdjacentHoles == \A p \in Headers : IsHole(mem, p) => ~IsHole(mem, mem[p].next)

(* The search that starts at lfree finds a block whenever there is one, and *)
(* lfree is a header: it never points into a block that was joined.         *)
SearchComplete ==
  /\ lfree \in Headers
  /\ \A p \in Headers : IsHole(mem, p) => lfree <= p
=============================================================================

-------------------------------- MODULE Heap4 --------------------------------
(***************************************************************************)
(* The kernel's heap, heap_4.c: pvPortMalloc and vPortFree, which run with *)
(* the scheduler suspended, each a step.  A block is [a, n]: the address   *)
(* of its header and its size with the header.                             *)
(***************************************************************************)
EXTENDS Integers, Sequences, FiniteSets, SequencesExt, FiniteSetsExt

CONSTANTS
  Heap,     \* address of ucHeap
  Totals,   \* values of configTOTAL_HEAP_SIZE
  Wanted    \* sizes asked for

portBYTE_ALIGNMENT == 8
xHeapStructSize == 8
heapMINIMUM_BLOCK_SIZE == 2 * xHeapStructSize

Aligned(n) == n % portBYTE_ALIGNMENT = 0
AlignUp(n) == ((n + portBYTE_ALIGNMENT - 1) \div portBYTE_ALIGNMENT) * portBYTE_ALIGNMENT
AlignDown(n) == (n \div portBYTE_ALIGNMENT) * portBYTE_ALIGNMENT

HeapAssumption ==
  /\ Heap \in Nat \ {0}
  /\ \A t \in Totals : t \in Nat /\ t >= 32
  /\ Wanted \subseteq Nat

VARIABLES
  total,   \* configTOTAL_HEAP_SIZE
  free,    \* the list from xStart to pxEnd, neither included
  used,    \* blocks with heapBLOCK_ALLOCATED_BITMASK
  xFreeBytesRemaining,
  xMinimumEverFreeBytesRemaining

heap == <<total, free, used, xFreeBytesRemaining, xMinimumEverFreeBytesRemaining>>

Block(a, n) == [a |-> a, n |-> n]
End(b) == b.a + b.n

(* prvHeapInit *)
uxStartAddress == AlignUp(Heap)
pxEnd(t) == AlignDown(Heap + t - xHeapStructSize)

HeapInit ==
  \E t \in Totals :
    LET n == pxEnd(t) - uxStartAddress
    IN  /\ total = t
        /\ free = <<Block(uxStartAddress, n)>>
        /\ used = {}
        /\ xFreeBytesRemaining = n
        /\ xMinimumEverFreeBytesRemaining = n

-----------------------------------------------------------------------------
(* pvPortMalloc *)

(* The wanted size with the header, rounded; 0 is refused. *)
BlockSize(wanted) == IF wanted = 0 THEN 0 ELSE AlignUp(wanted + xHeapStructSize)

FitsIn(size) == {i \in 1..Len(free) : free[i].n >= size}

CanMalloc(wanted) ==
  LET size == BlockSize(wanted)
  IN  size > 0 /\ size <= xFreeBytesRemaining /\ FitsIn(size) # {}

Split(rest) == rest > heapMINIMUM_BLOCK_SIZE

(* The block that a successful call returns, first fit. *)
Found(wanted) ==
  LET size == BlockSize(wanted)
      b == free[Min(FitsIn(size))]
  IN  IF Split(b.n - size) THEN Block(b.a, size) ELSE b

(* Mutant: what was asked for is counted, not what was given. *)
WantedBytes(wanted) == BlockSize(wanted)

TakenBytes(wanted) == Found(wanted).n

Malloc(wanted) ==
  LET i == Min(FitsIn(BlockSize(wanted)))
      b == Found(wanted)
      rest == Block(End(b), free[i].n - b.n)
  IN  /\ free' = IF Split(free[i].n - BlockSize(wanted)) THEN [free EXCEPT ![i] = rest]
                 ELSE RemoveAt(free, i)
      /\ used' = used \cup {b}
      /\ xFreeBytesRemaining' = xFreeBytesRemaining - TakenBytes(wanted)
      /\ xMinimumEverFreeBytesRemaining' = Min({xMinimumEverFreeBytesRemaining, xFreeBytesRemaining'})
      /\ UNCHANGED total

pvPortMalloc(wanted) == IF CanMalloc(wanted) THEN Malloc(wanted) ELSE UNCHANGED heap

-----------------------------------------------------------------------------
(* Is the block joined to the free one before it?  (xStart has no bytes.)   *)
JoinsBefore(k, b) == k > 0 /\ End(free[k]) = b.a

(* Mutant: never to the one after it. *)
NotAfter(k, b) == FALSE

(* And to the one after it?  (pxEnd, which is not in free, is not joined.)  *)
JoinsAfter(k, b) == k < Len(free) /\ End(b) = free[k + 1].a

(* prvInsertBlockIntoFreeList *)
Inserted(b) ==
  LET k == Cardinality({i \in 1..Len(free) : free[i].a < b.a})
      before == SubSeq(free, 1, IF JoinsBefore(k, b) THEN k - 1 ELSE k)
      after == SubSeq(free, IF JoinsAfter(k, b) THEN k + 2 ELSE k + 1, Len(free))
      a == IF JoinsBefore(k, b) THEN free[k].a ELSE b.a
      e == IF JoinsAfter(k, b) THEN End(free[k + 1]) ELSE End(b)
  IN  before \o <<Block(a, e - a)>> \o after

(* vPortFree of a block that its user holds. *)
vPortFree(b) ==
  /\ b \in used
  /\ free' = Inserted(b)
  /\ used' = used \ {b}
  /\ xFreeBytesRemaining' = xFreeBytesRemaining + b.n
  /\ UNCHANGED <<total, xMinimumEverFreeBytesRemaining>>

HeapNext == (\E w \in Wanted : pvPortMalloc(w)) \/ (\E b \in used : vPortFree(b))

HeapSpec == HeapInit /\ [][HeapNext]_heap

-----------------------------------------------------------------------------
AllBlocks == used \cup Range(free)

Bytes(S) == UNION {b.a..(End(b) - 1) : b \in S}

HeapTypeOK ==
  /\ total \in Totals
  /\ free \in Seq([a : Nat, n : Nat])
  /\ \A b \in used : b.a \in Nat /\ b.n \in Nat /\ b.n > xHeapStructSize
  /\ {xFreeBytesRemaining, xMinimumEverFreeBytesRemaining} \subseteq Nat

(* Whatever was allocated and freed, in whatever order, the blocks tile the *)
(* heap: every byte from its start to pxEnd is in one block, either in use  *)
(* or free, and every header is aligned.  So no two owners share a byte and *)
(* none is lost.                                                            *)
Tiled ==
  /\ \A b \in AllBlocks : b.n > 0 /\ Aligned(b.a) /\ Aligned(b.n)
  /\ used \cap Range(free) = {}
  /\ \A b, c \in AllBlocks : b # c => End(b) <= c.a \/ End(c) <= b.a
  /\ Bytes(AllBlocks) = uxStartAddress..(pxEnd(total) - 1)

(* The free list is in order of addresses and no two of its blocks touch:   *)
(* freeing everything gives back one block, and memory does not crumble.    *)
Coalesced == \A i \in 2..Len(free) : End(free[i - 1]) < free[i].a

(* The count by which pvPortMalloc decides whether to search at all is that *)
(* of the bytes in the list, and the low-water mark is not above it.        *)
FreeBytesExact ==
  /\ xFreeBytesRemaining = Cardinality(Bytes(Range(free)))
  /\ xMinimumEverFreeBytesRemaining <= xFreeBytesRemaining
=============================================================================

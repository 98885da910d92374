---------------------------- MODULE KernelProofs ----------------------------
(***************************************************************************)
(* Proofs about KernelQueue, for every number of tasks, queues and         *)
(* priorities, every length of a queue, every width of the tick count and  *)
(* every set of calls; and about Heap4 and Boot, for every heap and all    *)
(* sizes of requests and of the objects that the start makes.              *)
(***************************************************************************)
EXTENDS MCKernel, FiniteSetTheorems, SequenceTheorems, WellFoundedInduction, TLAPS

-----------------------------------------------------------------------------
(* Induction and recursion over the natural numbers, in first-order form.   *)

(* A set of numbers with 0 that is closed under successor holds them all. *)
LEMMA NatSetInduction ==
  ASSUME NEW S \in SUBSET Nat, 0 \in S, \A n \in S : n + 1 \in S
  PROVE  S = Nat
<1> SUFFICES ASSUME S # Nat PROVE FALSE
  OBVIOUS
<1> DEFINE T == Nat \ S
           R == OpToRel(<, Nat)
<1>0. T # {} /\ T \subseteq Nat
  OBVIOUS
<1>1. PICK x \in T : \A y \in T : ~(<<y, x>> \in R)
  <2> HIDE DEF T, R
  <2>1. IsWellFoundedOn(R, Nat)
    BY NatLessThanWellFounded DEF R
  <2> QED
    BY <1>0, <2>1, WFMin
<1>2. \A y \in Nat : y < x => y \in S
  BY <1>1 DEF OpToRel
<1> QED
  BY <1>2

(* g starts with x0 and goes on, from i - 1 to i, by F[i]. *)
Iterates(g, n, X, x0, F) ==
  /\ g \in [0..n -> X]
  /\ g[0] = x0
  /\ \A i \in 1..n : g[i] = F[i][g[i - 1]]

(* A function may be defined by recursion over an interval. *)
LEMMA RecursionExists ==
  ASSUME NEW X, NEW x0 \in X, NEW F \in [Nat -> [X -> X]], NEW n \in Nat
  PROVE  \E g : Iterates(g, n, X, x0, F)
<1> DEFINE P(m, g) == g[0] = x0 /\ \A i \in 1..m : g[i] = F[i][g[i - 1]]
           S == {m \in Nat : \E g \in [0..m -> X] : P(m, g)}
<1>1. 0 \in S
  <2>1. [i \in 0..0 |-> x0] \in [0..0 -> X] /\ P(0, [i \in 0..0 |-> x0])
    OBVIOUS
  <2> QED
    BY <2>1
<1>2. ASSUME NEW m \in S PROVE m + 1 \in S
  <2>1. PICK g \in [0..m -> X] : P(m, g)
    OBVIOUS
  <2>2. F[m + 1] \in [X -> X] /\ g[m] \in X
    OBVIOUS
  <2> DEFINE h == [i \in 0..(m + 1) |-> IF i = m + 1 THEN F[m + 1][g[m]] ELSE g[i]]
  <2>3. h \in [0..(m + 1) -> X]
    BY <2>2
  <2>4. P(m + 1, h)
    BY <2>1
  <2>5. \E f \in [0..(m + 1) -> X] : P(m + 1, f)
    <3> HIDE DEF P, h
    <3> QED
      BY <2>3, <2>4
  <2>6. m + 1 \in Nat
    OBVIOUS
  <2> HIDE DEF P
  <2> QED
    BY <2>5, <2>6
<1>3. S = Nat
  <2> HIDE DEF S
  <2>1. S \subseteq Nat
    BY DEF S
  <2> QED
    BY <1>1, <1>2, <2>1, NatSetInduction
<1> QED
  BY <1>3 DEF Iterates

-----------------------------------------------------------------------------
(* The lists of list.c. *)

(* In ascending order of values. *)
Sorted(s) ==
  \A i, j \in 1..Len(s) : i < j => s[i].xItemValue <= s[j].xItemValue

(* Each task owns at most one item. *)
Distinct(s) ==
  \A i, j \in 1..Len(s) : s[i].pvOwner = s[j].pvOwner => i = j

(* The owners of a list depend on its items only, not on their order. *)
LEMMA OwnersOfRange ==
  ASSUME NEW s
  PROVE  Owners(s) = {x.pvOwner : x \in Range(s)}
BY DEF Owners, Range

(* The values in a typed list are numbers. *)
LEMMA ItemValues ==
  ASSUME NEW V \in SUBSET Int, NEW s \in Seq(ListItem(V))
  PROVE  /\ Len(s) \in Nat
         /\ \A i \in 1..Len(s) :
              s[i] \in ListItem(V) /\ s[i].xItemValue \in Int /\ s[i].pvOwner \in Tasks
<1>1. Len(s) \in Nat /\ \A i \in 1..Len(s) : s[i] \in ListItem(V)
  OBVIOUS
<1>2. \A x \in ListItem(V) : x.xItemValue \in Int /\ x.pvOwner \in Tasks
  BY DEF ListItem
<1> QED
  BY <1>1, <1>2

(* FirstAbove stops at the first item above the value, and there only. *)
LEMMA FirstAboveIs ==
  ASSUME NEW V \in SUBSET Int, NEW s \in Seq(ListItem(V)), NEW v \in Int
  PROVE  /\ FirstAbove(s, v) \in 1..(Len(s) + 1)
         /\ \A i \in 1..Len(s) : i < FirstAbove(s, v) => s[i].xItemValue <= v
         /\ FirstAbove(s, v) <= Len(s) => s[FirstAbove(s, v)].xItemValue > v
<1> DEFINE A == {i \in 1..Len(s) : s[i].xItemValue > v} \cup {Len(s) + 1}
           R == OpToRel(<, Nat)
<1>1. A \subseteq Nat /\ A # {}
  OBVIOUS
<1>2. PICK x \in A : \A y \in A : ~(<<y, x>> \in R)
  <2> HIDE DEF A, R
  <2>1. IsWellFoundedOn(R, Nat)
    BY NatLessThanWellFounded DEF R
  <2> QED
    BY <1>1, <2>1, WFMin
<1>3. \A y \in A : x <= y
  <2> HIDE DEF A
  <2>1. x \in Nat /\ \A y \in A : y \in Nat
    BY <1>1
  <2>2. \A y \in A : ~(y < x)
    BY <1>2, <2>1 DEF OpToRel
  <2> QED
    BY <2>1, <2>2
<1>4. FirstAbove(s, v) \in A /\ \A y \in A : FirstAbove(s, v) <= y
  <2> HIDE DEF A
  <2>1. FirstAbove(s, v) = CHOOSE z \in A : \A y \in A : z <= y
    BY DEF FirstAbove, Min, A
  <2> QED
    BY <1>3, <2>1
<1>5. Len(s) \in Nat /\ \A i \in 1..Len(s) : s[i].xItemValue \in Int
  BY ItemValues
<1> QED
  BY <1>4, <1>5

(* r is t with one element more, x. *)
OneMore(S, t, x, r) ==
  /\ r \in Seq(S)
  /\ Len(r) = Len(t) + 1
  /\ r[Len(t) + 1] = x
  /\ \A k \in 1..Len(t) : r[k] = t[k]

(* An element that is added comes last and moves no other. *)
LEMMA OneMoreIs ==
  ASSUME NEW S, NEW t \in Seq(S), NEW x \in S
  PROVE  OneMore(S, t, x, t \o <<x>>)
<1>0. PICK r : r = t \o <<x>>
  OBVIOUS
<1>1. PICK u : u = <<x>>
  OBVIOUS
<1>2. u \in Seq(S) /\ Len(u) = 1 /\ u[1] = x
  BY <1>1
<1>3. /\ r \in Seq(S)
      /\ Len(r) = Len(t) + Len(u)
      /\ \A k \in 1..(Len(t) + Len(u)) :
           r[k] = IF k <= Len(t) THEN t[k] ELSE u[k - Len(t)]
  BY <1>0, <1>1, <1>2, ConcatProperties
<1>4. Len(t) \in Nat
  OBVIOUS
<1>5. OneMore(S, t, x, r)
  BY <1>2, <1>3, <1>4 DEF OneMore
<1> QED
  BY <1>0, <1>5, Zenon

(* vListInsert keeps a list sorted, adds the item and nothing else. *)
LEMMA InsertIs ==
  ASSUME NEW V \in SUBSET Int, NEW s \in Seq(ListItem(V)), NEW x \in ListItem(V)
  PROVE  /\ vListInsert(s, x) \in Seq(ListItem(V))
         /\ vListInsert(s, x) # <<>>
         /\ Range(vListInsert(s, x)) = Range(s) \cup {x}
         /\ Sorted(s) => Sorted(vListInsert(s, x))
         /\ Distinct(s) /\ x.pvOwner \notin Owners(s) => Distinct(vListInsert(s, x))
<1> DEFINE k == FirstAbove(s, x.xItemValue)
           r == vListInsert(s, x)
<1>0. /\ x.xItemValue \in Int
      /\ Len(s) \in Nat
      /\ \A i \in 1..Len(s) : s[i] \in ListItem(V) /\ s[i].xItemValue \in Int
  BY ItemValues DEF ListItem
<1>1. /\ k \in 1..(Len(s) + 1)
      /\ \A i \in 1..Len(s) : i < k => s[i].xItemValue <= x.xItemValue
      /\ k <= Len(s) => s[k].xItemValue > x.xItemValue
  BY <1>0, FirstAboveIs
<1> HIDE DEF k
<1>2. /\ r \in Seq(ListItem(V))
      /\ Len(r) = Len(s) + 1
      /\ \A i \in 1..(Len(s) + 1) : r[i] = IF i < k THEN s[i] ELSE IF i = k THEN x ELSE s[i - 1]
  <2>1. /\ SubSeq(s, 1, k - 1) \in Seq(ListItem(V))
        /\ Len(SubSeq(s, 1, k - 1)) = k - 1
        /\ \A i \in 1..(k - 1) : SubSeq(s, 1, k - 1)[i] = s[i]
    BY <1>0, <1>1
  <2>2. /\ SubSeq(s, k, Len(s)) \in Seq(ListItem(V))
        /\ Len(SubSeq(s, k, Len(s))) = Len(s) - k + 1
        /\ \A i \in 1..(Len(s) - k + 1) : SubSeq(s, k, Len(s))[i] = s[k + i - 1]
    BY <1>0, <1>1
  <2>3. r = SubSeq(s, 1, k - 1) \o <<x>> \o SubSeq(s, k, Len(s))
    BY DEF vListInsert, InsertAt, k
  <2> DEFINE a == SubSeq(s, 1, k - 1)
             b == SubSeq(s, k, Len(s))
  <2> HIDE DEF a, b, r
  <2>4. /\ a \o <<x>> \in Seq(ListItem(V))
        /\ Len(a \o <<x>>) = k
        /\ \A i \in 1..k : (a \o <<x>>)[i] = IF i < k THEN s[i] ELSE x
    <3>1. PICK L : L = ListItem(V)
      OBVIOUS
    <3>2. /\ a \in Seq(L) /\ Len(a) = k - 1 /\ x \in L
          /\ \A i \in 1..(k - 1) : a[i] = s[i]
      BY <2>1, <3>1 DEF a
    <3>3. OneMore(L, a, x, a \o <<x>>)
      BY <3>2, OneMoreIs, Zenon
    <3>4. k \in Nat /\ k >= 1
      BY <1>0, <1>1
    <3>5. PICK u : u = a \o <<x>>
      OBVIOUS
    <3>6. /\ u \in Seq(L) /\ Len(u) = Len(a) + 1 /\ u[Len(a) + 1] = x
          /\ \A i \in 1..Len(a) : u[i] = a[i]
      BY <3>3, <3>5, Zenon DEF OneMore
    <3>7. PICK m : m = Len(a)
      OBVIOUS
    <3>8. m = k - 1 /\ m + 1 = k
      BY <3>2, <3>4, <3>7
    <3>9. Len(u) = k /\ u[k] = x
      BY <3>6, <3>7, <3>8, Zenon
    <3>10. ASSUME NEW i \in 1..k PROVE u[i] = IF i < k THEN s[i] ELSE x
      <4>1. CASE i = k
        BY <4>1, <3>4, <3>9
      <4>2. CASE i < k
        <5>1. i \in 1..(k - 1)
          BY <4>2, <3>4
        <5>2. u[i] = a[i] /\ a[i] = s[i]
          BY <5>1, <3>2, <3>6, Zenon
        <5> QED
          BY <4>2, <5>2
      <4> QED
        BY <4>1, <4>2, <3>4
    <3> QED
      BY <3>1, <3>5, <3>6, <3>9, <3>10, Zenon
  <2> DEFINE c == a \o <<x>>
  <2> HIDE DEF c
  <2>5. /\ c \o b \in Seq(ListItem(V))
        /\ Len(c \o b) = Len(s) + 1
        /\ \A i \in 1..(Len(s) + 1) :
             (c \o b)[i] = IF i < k THEN s[i] ELSE IF i = k THEN x ELSE s[i - 1]
    <3>1. /\ c \in Seq(ListItem(V)) /\ Len(c) = k
          /\ b \in Seq(ListItem(V)) /\ Len(b) = Len(s) - k + 1
      BY <2>2, <2>4 DEF b, c
    <3>2. c \o b \in Seq(ListItem(V)) /\ Len(c \o b) = Len(s) + 1
      <4>1. Len(c) + Len(b) = Len(s) + 1
        BY <3>1, <1>0, <1>1
      <4> QED
        BY <3>1, <4>1
    <3>3. \A i \in 1..(Len(s) + 1) : (c \o b)[i] = IF i <= k THEN c[i] ELSE b[i - k]
      BY <3>1, <1>0, <1>1
    <3>4. \A i \in 1..(Len(s) + 1) : i > k => b[i - k] = s[i - 1]
      <4> TAKE i \in 1..(Len(s) + 1)
      <4> HAVE i > k
      <4>1. i - k \in 1..(Len(s) - k + 1) /\ k + (i - k) - 1 = i - 1
        BY <1>0, <1>1
      <4> QED
        BY <4>1, <2>2 DEF b
    <3>5. \A i \in 1..k : c[i] = IF i < k THEN s[i] ELSE x
      BY <2>4 DEF c
    <3> QED
      BY <3>2, <3>3, <3>4, <3>5, <1>0, <1>1
  <2> QED
    BY <2>3, <2>5 DEF a, b, c
<1> HIDE DEF r
<1>3. r # <<>>
  BY <1>2
<1>4. Range(r) = Range(s) \cup {x}
  <2>1. \A i \in 1..Len(r) : r[i] \in Range(s) \cup {x}
    BY <1>1, <1>2 DEF Range
  <2>2. \A i \in 1..Len(s) : s[i] \in Range(r)
    <3> TAKE i \in 1..Len(s)
    <3>1. CASE i < k
      BY <3>1, <1>2, <1>1 DEF Range
    <3>2. CASE i >= k
      <4>1. r[i + 1] = s[i] /\ i + 1 \in 1..Len(r)
        BY <3>2, <1>2, <1>1
      <4> QED
        BY <4>1, <1>2 DEF Range
    <3> QED
      BY <3>1, <3>2, <1>1
  <2>3. x \in Range(r)
    <3>1. r[k] = x /\ k \in 1..Len(r)
      BY <1>0, <1>1, <1>2
    <3>2. DOMAIN r = 1..Len(r)
      BY <1>2
    <3> QED
      BY <3>1, <3>2 DEF Range
  <2> QED
    BY <2>1, <2>2, <2>3, <1>2 DEF Range
<1>5. ASSUME Sorted(s) PROVE Sorted(r)
  <2>2. \A i \in 1..Len(s) : i >= k => s[i].xItemValue > x.xItemValue
    BY <1>0, <1>1, <1>5 DEF Sorted
  <2> SUFFICES ASSUME NEW i \in 1..Len(r), NEW j \in 1..Len(r), i < j
               PROVE  r[i].xItemValue <= r[j].xItemValue
    BY DEF Sorted
  <2>3. CASE j < k
    <3>1. r[i] = s[i] /\ r[j] = s[j] /\ j \in 1..Len(s) /\ i \in 1..Len(s)
      BY <2>3, <1>0, <1>1, <1>2
    <3> QED
      BY <3>1, <1>5 DEF Sorted
  <2>4. CASE j = k
    BY <2>4, <1>0, <1>1, <1>2
  <2>5. CASE j > k /\ i < k
    <3>1. r[i] = s[i] /\ r[j] = s[j - 1] /\ i < j - 1 /\ j - 1 \in 1..Len(s) /\ i \in 1..Len(s)
      BY <2>5, <1>0, <1>1, <1>2
    <3> QED
      BY <3>1, <1>5 DEF Sorted
  <2>6. CASE j > k /\ i = k
    <3>1. r[i] = x /\ r[j] = s[j - 1] /\ j - 1 >= k /\ j - 1 \in 1..Len(s)
      BY <2>6, <1>0, <1>1, <1>2
    <3> QED
      BY <3>1, <2>2, <1>0
  <2>7. CASE i > k
    <3>1. r[i] = s[i - 1] /\ r[j] = s[j - 1] /\ i - 1 < j - 1 /\ j - 1 \in 1..Len(s) /\ i - 1 \in 1..Len(s)
      BY <2>7, <1>0, <1>1, <1>2
    <3> QED
      BY <3>1, <1>5 DEF Sorted
  <2> QED
    BY <2>3, <2>4, <2>5, <2>6, <2>7, <1>0, <1>1, <1>2
<1>6. ASSUME Distinct(s), x.pvOwner \notin Owners(s) PROVE Distinct(r)
  <2>1. \A i \in 1..Len(s) : s[i].pvOwner # x.pvOwner
    BY <1>6 DEF Owners
  <2> DEFINE of(i) == IF i < k THEN i ELSE i - 1
  <2>2. \A i \in 1..Len(r) : i # k => of(i) \in 1..Len(s) /\ r[i] = s[of(i)]
    BY <1>0, <1>1, <1>2
  <2>3. r[k] = x
    BY <1>0, <1>1, <1>2
  <2> SUFFICES ASSUME NEW i \in 1..Len(r), NEW j \in 1..Len(r), r[i].pvOwner = r[j].pvOwner
               PROVE  i = j
    BY DEF Distinct
  <2>4. CASE i # k /\ j # k
    <3>1. of(i) = of(j)
      <4> HIDE DEF of
      <4> QED
        BY <2>2, <2>4, <1>6 DEF Distinct
    <3> QED
      BY <3>1, <2>4, <1>0, <1>1, <1>2
  <2>5. CASE i = k /\ j # k
    BY <2>1, <2>2, <2>3, <2>5
  <2>6. CASE i # k /\ j = k
    BY <2>1, <2>2, <2>3, <2>6
  <2> QED
    BY <2>4, <2>5, <2>6
<1> QED
  BY <1>2, <1>3, <1>4, <1>5, <1>6 DEF r

(* The same for an event list, whose values are priorities. *)
LEMMA InsertEvent ==
  ASSUME NEW s \in Seq(ListItem(Int)), NEW x \in ListItem(Int),
         Distinct(s), x.pvOwner \notin Owners(s)
  PROVE  /\ vListInsert(s, x) \in Seq(ListItem(Int))
         /\ Range(vListInsert(s, x)) = Range(s) \cup {x}
         /\ Distinct(vListInsert(s, x))
<1>1. PICK V : V = Int
  OBVIOUS
<1>2. V \in SUBSET Int /\ s \in Seq(ListItem(V)) /\ x \in ListItem(V)
  BY <1>1
<1>3. /\ vListInsert(s, x) \in Seq(ListItem(V))
      /\ Range(vListInsert(s, x)) = Range(s) \cup {x}
      /\ Distinct(vListInsert(s, x))
  <2>1. /\ vListInsert(s, x) \in Seq(ListItem(V))
        /\ vListInsert(s, x) # <<>>
        /\ Range(vListInsert(s, x)) = Range(s) \cup {x}
        /\ Sorted(s) => Sorted(vListInsert(s, x))
        /\ Distinct(s) /\ x.pvOwner \notin Owners(s) => Distinct(vListInsert(s, x))
    BY <1>2, InsertIs, Zenon
  <2> QED
    BY <2>1, Zenon
<1> QED
  BY <1>1, <1>3

(* What is left of a sorted list when the items up to a value are taken. *)
LEMMA PopIs ==
  ASSUME NEW V \in SUBSET Int, NEW s \in Seq(ListItem(V)), NEW v \in Int, Sorted(s)
  PROVE  LET r == SubSeq(s, FirstAbove(s, v), Len(s))
         IN  /\ r \in Seq(ListItem(V))
             /\ Sorted(r)
             /\ Range(r) = {x \in Range(s) : x.xItemValue > v}
<1> DEFINE k == FirstAbove(s, v)
           r == SubSeq(s, k, Len(s))
<1>0. /\ Len(s) \in Nat
      /\ \A i \in 1..Len(s) : s[i] \in ListItem(V) /\ s[i].xItemValue \in Int
  BY ItemValues
<1>1. /\ k \in 1..(Len(s) + 1)
      /\ \A i \in 1..Len(s) : i < k => s[i].xItemValue <= v
      /\ k <= Len(s) => s[k].xItemValue > v
  BY FirstAboveIs
<1> HIDE DEF k
<1>2. /\ r \in Seq(ListItem(V))
      /\ Len(r) = Len(s) - k + 1
      /\ \A i \in 1..(Len(s) - k + 1) : r[i] = s[k + i - 1]
  BY <1>0, <1>1
<1> HIDE DEF r
<1>3. \A i \in 1..Len(s) : i >= k <=> s[i].xItemValue > v
  <2> TAKE i \in 1..Len(s)
  <2>1. CASE i < k
    BY <2>1, <1>0, <1>1
  <2>2. CASE i >= k
    <3>1. k \in 1..Len(s) /\ s[k].xItemValue <= s[i].xItemValue
      BY <2>2, <1>0, <1>1 DEF Sorted
    <3> QED
      BY <2>2, <3>1, <1>0, <1>1
  <2> QED
    BY <2>1, <2>2, <1>0, <1>1
<1>4. Sorted(r)
  <2> SUFFICES ASSUME NEW i \in 1..Len(r), NEW j \in 1..Len(r), i < j
               PROVE  r[i].xItemValue <= r[j].xItemValue
    BY DEF Sorted
  <2>1. /\ r[i] = s[k + i - 1] /\ r[j] = s[k + j - 1] /\ k + i - 1 < k + j - 1
        /\ k + i - 1 \in 1..Len(s) /\ k + j - 1 \in 1..Len(s)
    BY <1>0, <1>1, <1>2
  <2> QED
    BY <2>1 DEF Sorted
<1>5. Range(r) = {x \in Range(s) : x.xItemValue > v}
  <2>0. DOMAIN r = 1..Len(r) /\ DOMAIN s = 1..Len(s)
    BY <1>2
  <2>1. \A i \in 1..Len(r) : r[i] \in Range(s) /\ r[i].xItemValue > v
    <3> TAKE i \in 1..Len(r)
    <3>1. r[i] = s[k + i - 1] /\ k + i - 1 \in 1..Len(s) /\ k + i - 1 >= k
      BY <1>0, <1>1, <1>2
    <3> QED
      BY <3>1, <1>3, <2>0 DEF Range
  <2>2. \A i \in 1..Len(s) : s[i].xItemValue > v => s[i] \in Range(r)
    <3> TAKE i \in 1..Len(s)
    <3> HAVE s[i].xItemValue > v
    <3>1. i - k + 1 \in 1..Len(r) /\ r[i - k + 1] = s[k + (i - k + 1) - 1] /\ k + (i - k + 1) - 1 = i
      BY <1>0, <1>1, <1>2, <1>3
    <3> QED
      BY <3>1, <2>0 DEF Range
  <2> QED
    BY <2>0, <2>1, <2>2 DEF Range
<1> QED
  BY <1>2, <1>4, <1>5 DEF r, k

(* uxListRemove takes out exactly the tasks named and keeps the order. *)
LEMMA WithoutIs ==
  ASSUME NEW V \in SUBSET Int, NEW s \in Seq(ListItem(V)), NEW T
  PROVE  /\ Without(s, T) \in Seq(ListItem(V))
         /\ Range(Without(s, T)) = {x \in Range(s) : x.pvOwner \notin T}
         /\ Sorted(s) => Sorted(Without(s, T))
         /\ Distinct(s) => Distinct(Without(s, T))
<1> DEFINE X == Seq(ListItem(V))
           keep(i, r) == IF s[i].pvOwner \in T THEN r ELSE Append(r, s[i])
           F == [i \in Nat |-> [r \in X |-> IF i \in 1..Len(s) THEN keep(i, r) ELSE r]]
           G(g) == g = [i \in 0..Len(s) |-> IF i = 0 THEN <<>>
                         ELSE IF s[i].pvOwner \in T THEN g[i - 1] ELSE Append(g[i - 1], s[i])]
           f == CHOOSE g : G(g)
<1>0. /\ Len(s) \in Nat
      /\ \A i \in 1..Len(s) : /\ s[i] \in ListItem(V)
                              /\ s[i].xItemValue \in Int /\ s[i].pvOwner \in Tasks
      /\ DOMAIN s = 1..Len(s)
  BY ItemValues
<1>1. <<>> \in X
  OBVIOUS
<1>2. \A i \in Nat : F[i] \in [X -> X]
  <2> SUFFICES ASSUME NEW i \in Nat, NEW r \in X
               PROVE  (IF i \in 1..Len(s) THEN keep(i, r) ELSE r) \in X
    BY Zenon
  <2> QED
    BY <1>0
<1>3. F \in [Nat -> [X -> X]]
  <2>1. F = [i \in Nat |-> F[i]]
    OBVIOUS
  <2> HIDE DEF F, X
  <2> QED
    BY <1>2, <2>1
<1>4. PICK h \in [0..Len(s) -> X] : h[0] = <<>> /\ \A i \in 1..Len(s) : h[i] = F[i][h[i - 1]]
  <2> HIDE DEF F, X
  <2>1. \E g : Iterates(g, Len(s), X, <<>>, F)
    BY <1>0, <1>1, <1>3, RecursionExists
  <2> QED
    BY <2>1 DEF Iterates
<1>5. \A i \in 1..Len(s) : h[i] = keep(i, h[i - 1])
  <2> TAKE i \in 1..Len(s)
  <2>1. h[i - 1] \in X /\ i \in Nat
    BY <1>0
  <2> HIDE DEF X, keep
  <2>2. F[i][h[i - 1]] = keep(i, h[i - 1])
    BY <2>1
  <2> QED
    BY <2>2, <1>4
<1>6. G(h)
  <2> DEFINE e == [i \in 0..Len(s) |-> IF i = 0 THEN <<>>
                         ELSE IF s[i].pvOwner \in T THEN h[i - 1] ELSE Append(h[i - 1], s[i])]
  <2>1. \A i \in 0..Len(s) : h[i] = e[i]
    <3> TAKE i \in 0..Len(s)
    <3>1. CASE i = 0
      BY <3>1, <1>0, <1>4
    <3>2. CASE i # 0
      <4>1. i \in 1..Len(s)
        BY <3>2, <1>0
      <4>2. h[i] = keep(i, h[i - 1])
        BY <4>1, <1>5
      <4> HIDE DEF X, F
      <4> QED
        BY <3>2, <4>2
    <3> QED
      BY <3>1, <3>2
  <2>2. h = [i \in 0..Len(s) |-> h[i]]
    OBVIOUS
  <2> QED
    BY <2>1, <2>2
<1>7. G(f)
  <2> HIDE DEF G
  <2> QED
    BY <1>6
<1>8. Without(s, T) = f[Len(s)]
  BY DEF Without
<1> HIDE DEF f
<1>9. /\ f[0] = <<>>
      /\ \A i \in 1..Len(s) :
           f[i] = IF s[i].pvOwner \in T THEN f[i - 1] ELSE Append(f[i - 1], s[i])
  <2>1. \A i \in 0..Len(s) :
          f[i] = IF i = 0 THEN <<>>
                 ELSE IF s[i].pvOwner \in T THEN f[i - 1] ELSE Append(f[i - 1], s[i])
    BY <1>7, Zenon
  <2>2. 0 \in 0..Len(s) /\ \A i \in 1..Len(s) : i \in 0..Len(s) /\ i # 0
    BY <1>0
  <2> QED
    BY <2>1, <2>2, Zenon
<1> DEFINE P(i) == /\ f[i] \in X
                   /\ Range(f[i]) = {s[j] : j \in {l \in 1..i : s[l].pvOwner \notin T}}
                   /\ Sorted(s) => Sorted(f[i])
                   /\ Distinct(s) => Distinct(f[i])
           S == {i \in Nat : i <= Len(s) => P(i)}
<1>10. P(0)
  BY <1>9 DEF Range, Sorted, Distinct
<1>11. ASSUME NEW i \in Nat, i + 1 <= Len(s), P(i) PROVE P(i + 1)
  <2>0. i + 1 \in 1..Len(s) /\ (i + 1) - 1 = i
    BY <1>11, <1>0
  <2>1. CASE s[i + 1].pvOwner \in T
    <3>1. f[i + 1] = f[i]
      BY <1>9, <2>0, <2>1
    <3>2. {l \in 1..(i + 1) : s[l].pvOwner \notin T} = {l \in 1..i : s[l].pvOwner \notin T}
      BY <2>1
    <3> QED
      BY <3>1, <3>2, <1>11
  <2>2. CASE s[i + 1].pvOwner \notin T
    <3> DEFINE a == f[i]
               b == f[i + 1]
               n == Len(a)
    <3>1. b = Append(a, s[i + 1]) /\ a \in X
      BY <1>9, <2>0, <2>2, <1>11
    <3>1a. /\ Range(a) = {s[j] : j \in {l \in 1..i : s[l].pvOwner \notin T}}
           /\ Sorted(s) => Sorted(a)
           /\ Distinct(s) => Distinct(a)
      BY <1>11
    <3> HIDE DEF a, b
    <3>2. /\ n \in Nat /\ b \in X /\ Len(b) = n + 1 /\ b[n + 1] = s[i + 1]
          /\ \A j \in 1..n : b[j] = a[j]
          /\ DOMAIN a = 1..n /\ DOMAIN b = 1..(n + 1)
      BY <3>1, <2>0, <1>0
    <3> HIDE DEF n, X
    <3>3. Range(b) = Range(a) \cup {s[i + 1]}
      <4>1. Range(a) = {a[j] : j \in 1..n} /\ Range(b) = {b[j] : j \in 1..(n + 1)}
        BY <3>2, Zenon DEF Range
      <4>2. \A j \in 1..(n + 1) : j \in 1..n \/ j = n + 1
        BY <3>2
      <4>3. n + 1 \in 1..(n + 1) /\ \A j \in 1..n : j \in 1..(n + 1)
        BY <3>2
      <4>4. ASSUME NEW y \in Range(b) PROVE y \in Range(a) \cup {s[i + 1]}
        BY <3>2, <4>1, <4>2, Zenon
      <4>5. ASSUME NEW y \in Range(a) \cup {s[i + 1]} PROVE y \in Range(b)
        BY <3>2, <4>1, <4>3, Zenon
      <4> QED
        BY <4>4, <4>5, Zenon
    <3>4. {l \in 1..(i + 1) : s[l].pvOwner \notin T} = {l \in 1..i : s[l].pvOwner \notin T} \cup {i + 1}
      BY <2>2
    <3>5. Range(b) = {s[j] : j \in {l \in 1..(i + 1) : s[l].pvOwner \notin T}}
      BY <3>1a, <3>3, <3>4
    <3>6. \A j \in 1..n : \E l \in 1..i : b[j] = s[l]
      <4>1. \A j \in 1..n : b[j] \in Range(a)
        BY <3>2, Zenon DEF Range
      <4>2. \A y \in Range(a) : \E l \in 1..i : y = s[l]
        BY <3>1a, Zenon
      <4> QED
        BY <4>1, <4>2, Zenon
    <3>7. ASSUME Sorted(s) PROVE Sorted(b)
      <4> SUFFICES ASSUME NEW j \in 1..(n + 1), NEW m \in 1..(n + 1), j < m
                   PROVE  b[j].xItemValue <= b[m].xItemValue
        BY <3>2 DEF Sorted
      <4>1. CASE m \in 1..n
        BY <4>1, <3>1a, <3>2, <3>7 DEF Sorted, n
      <4>2. CASE m = n + 1
        <5>0. j \in 1..n
          BY <3>2, <4>2
        <5>1. PICK l \in 1..i : b[j] = s[l]
          BY <5>0, <3>6
        <5> QED
          BY <5>1, <4>2, <3>2, <3>7, <2>0, <1>0 DEF Sorted
      <4> QED
        BY <4>1, <4>2, <3>2
    <3>8. ASSUME Distinct(s) PROVE Distinct(b)
      <4>1. \A j \in 1..n : b[j].pvOwner # b[n + 1].pvOwner
        BY <3>2, <3>6, <3>8, <2>0, <1>0 DEF Distinct
      <4>2. \A j, m \in 1..n : b[j].pvOwner = b[m].pvOwner => j = m
        BY <3>1a, <3>2, <3>8 DEF Distinct, n
      <4> QED
        BY <4>1, <4>2, <3>2 DEF Distinct
    <3> QED
      BY <3>2, <3>5, <3>7, <3>8 DEF b, X
  <2> QED
    BY <2>1, <2>2
<1>12. P(Len(s))
  <2> HIDE DEF P
  <2>1. 0 \in S
    BY <1>10
  <2>2. \A i \in S : i + 1 \in S
    BY <1>11, <1>0
  <2>3. S \subseteq Nat
    OBVIOUS
  <2>4. S = Nat
    <3> HIDE DEF S
    <3> QED
      BY <2>1, <2>2, <2>3, NatSetInduction
  <2> QED
    BY <2>4, <1>0
<1>13. {s[j] : j \in {l \in 1..Len(s) : s[l].pvOwner \notin T}} = {x \in Range(s) : x.pvOwner \notin T}
  BY <1>0 DEF Range
<1> QED
  BY <1>8, <1>12, <1>13

(* The same for an event list. *)
LEMMA WithoutEvent ==
  ASSUME NEW s \in Seq(ListItem(Int)), NEW T, Distinct(s)
  PROVE  /\ Without(s, T) \in Seq(ListItem(Int))
         /\ Range(Without(s, T)) = {x \in Range(s) : x.pvOwner \notin T}
         /\ Distinct(Without(s, T))
<1>1. PICK V : V = Int
  OBVIOUS
<1>2. V \in SUBSET Int /\ s \in Seq(ListItem(V))
  BY <1>1
<1>3. /\ Without(s, T) \in Seq(ListItem(V))
      /\ Range(Without(s, T)) = {x \in Range(s) : x.pvOwner \notin T}
      /\ Distinct(Without(s, T))
  BY <1>2, WithoutIs
<1> QED
  BY <1>1, <1>3

(* Only the empty list has no items. *)
LEMMA EmptyRange ==
  ASSUME NEW X, NEW s \in Seq(X)
  PROVE  Range(s) = {} <=> s = <<>>
<1>1. DOMAIN s = 1..Len(s) /\ Len(s) \in Nat
  OBVIOUS
<1>2. s # <<>> => s[1] \in Range(s)
  <2>1. s # <<>> => 1 \in DOMAIN s
    BY <1>1
  <2> QED
    BY <2>1 DEF Range
<1>3. s = <<>> => Range(s) = {}
  BY DEF Range
<1> QED
  BY <1>2, <1>3

-----------------------------------------------------------------------------
(* The tick. *)

MaxDelay == 0..portMAX_DELAY

(* The part of the state that xTaskIncrementTick works on. *)
ClockState ==
  {k \in [tick : MaxDelay, over : Nat, next : MaxDelay,
          delayed : Seq(ListItem(MaxDelay)), later : Seq(ListItem(MaxDelay))] :
     Sorted(k.delayed) /\ Sorted(k.later)}

Time(k) == k.over * Ticks + k.tick

(* The two lists hold what is due, by d, in this turn of the count and in   *)
(* the next, nothing of it over, and xNextTaskUnblockTime is not too late.  *)
OnTime(k, d) ==
  /\ \A x \in Range(k.delayed) :
       /\ x.xItemValue > k.tick
       /\ k.next <= x.xItemValue
       /\ d[x.pvOwner] = k.over * Ticks + x.xItemValue
  /\ \A x \in Range(k.later) : d[x.pvOwner] = (k.over + 1) * Ticks + x.xItemValue

SleepingIn(k) == Owners(k.delayed) \cup Owners(k.later)

(* The largest tick count. *)
LEMMA MaxDelayIs ==
  /\ Ticks \in Nat /\ Ticks > 1 /\ portMAX_DELAY = Ticks - 1
  /\ MaxDelay \in SUBSET Int /\ \A v \in MaxDelay : v \in Nat /\ v < Ticks
  /\ \A v \in Nat : v < Ticks => v \in MaxDelay
BY KernelAssumption DEF MaxDelay, portMAX_DELAY

(* No item of a sorted list is due before its head. *)
LEMMA HeadTimeIs ==
  ASSUME NEW s \in Seq(ListItem(MaxDelay)), Sorted(s)
  PROVE  /\ HeadTime(s) \in MaxDelay
         /\ \A x \in Range(s) : HeadTime(s) <= x.xItemValue
<1>0. DOMAIN s = 1..Len(s) /\ Len(s) \in Nat /\ (s # <<>> => Len(s) >= 1 /\ Head(s) = s[1])
  OBVIOUS
<1>1. CASE s = <<>>
  <2>1. HeadTime(s) = portMAX_DELAY
    BY <1>1 DEF HeadTime
  <2>2. Range(s) = {}
    BY <1>1 DEF Range
  <2> QED
    BY <2>1, <2>2, MaxDelayIs
<1>2. CASE s # <<>>
  <2>1. HeadTime(s) = s[1].xItemValue /\ 1 \in 1..Len(s)
    BY <1>0, <1>2 DEF HeadTime
  <2>2. s[1] \in ListItem(MaxDelay)
    BY <2>1
  <2>3. s[1].xItemValue \in MaxDelay
    BY <2>2 DEF ListItem
  <2>4. \A i \in 1..Len(s) : s[1].xItemValue <= s[i].xItemValue
    <3> TAKE i \in 1..Len(s)
    <3>1. s[1].xItemValue \in Int
      BY <2>3, MaxDelayIs
    <3>2. i = 1 \/ 1 < i
      BY <1>0
    <3> QED
      BY <3>1, <3>2, <2>1 DEF Sorted
  <2> QED
    BY <2>1, <2>3, <2>4, <1>0 DEF Range
<1> QED
  BY <1>1, <1>2

(* What one tick does, by cases of the wrap. *)
Wraps(k) == k.tick = portMAX_DELAY
TickAfter(k) == IF Wraps(k) THEN 0 ELSE k.tick + 1
Current(k) == IF Wraps(k) THEN k.later ELSE k.delayed
NextLook(k) == IF Wraps(k) THEN HeadTime(k.later) ELSE k.next
Pop(s, v) == SubSeq(s, FirstAbove(s, v), Len(s))

(* One tick, with and without the wrap of the count. *)
LEMMA TickIs ==
  ASSUME NEW k \in ClockState
  PROVE  LET r == xTaskIncrementTick(k)
         IN  /\ r = [tick |-> TickAfter(k),
                     over |-> IF Wraps(k) THEN k.over + 1 ELSE k.over,
                     next |-> IF TickAfter(k) < NextLook(k) THEN NextLook(k)
                              ELSE HeadTime(Pop(Current(k), TickAfter(k))),
                     delayed |-> IF TickAfter(k) < NextLook(k) THEN Current(k)
                                 ELSE Pop(Current(k), TickAfter(k)),
                     later |-> IF Wraps(k) THEN k.delayed ELSE k.later]
             /\ r \in ClockState
<1>0. /\ k = [tick |-> k.tick, over |-> k.over, next |-> k.next, delayed |-> k.delayed, later |-> k.later]
      /\ k.tick \in MaxDelay /\ k.over \in Nat /\ k.next \in MaxDelay
      /\ k.delayed \in Seq(ListItem(MaxDelay)) /\ k.later \in Seq(ListItem(MaxDelay))
      /\ Sorted(k.delayed) /\ Sorted(k.later)
  BY DEF ClockState
<1>1. (k.tick + 1) % Ticks = TickAfter(k) /\ TickAfter(k) \in MaxDelay /\ (TickAfter(k) = 0 <=> Wraps(k))
  <2>1. k.tick \in Nat /\ k.tick < Ticks
    BY <1>0, MaxDelayIs
  <2>2. k.tick + 1 = Ticks => (k.tick + 1) % Ticks = 0
    BY <2>1, MaxDelayIs
  <2>3. k.tick + 1 < Ticks => (k.tick + 1) % Ticks = k.tick + 1
    BY <2>1, MaxDelayIs
  <2> QED
    BY <2>1, <2>2, <2>3, MaxDelayIs DEF TickAfter, Wraps
<1> DEFINE n == [k EXCEPT !.tick = (@ + 1) % Ticks]
           m == IF n.tick = 0 THEN taskSWITCH_DELAYED_LISTS(n) ELSE n
<1>2. n = [tick |-> TickAfter(k), over |-> k.over, next |-> k.next, delayed |-> k.delayed, later |-> k.later]
  BY <1>0, <1>1
<1> HIDE DEF n
<1>3. m = [tick |-> TickAfter(k), over |-> IF Wraps(k) THEN k.over + 1 ELSE k.over,
           next |-> NextLook(k), delayed |-> Current(k),
           later |-> IF Wraps(k) THEN k.delayed ELSE k.later]
  <2>1. CASE Wraps(k)
    BY <2>1, <1>1, <1>2 DEF taskSWITCH_DELAYED_LISTS, NextLook, Current
  <2>2. CASE ~Wraps(k)
    BY <2>2, <1>1, <1>2 DEF NextLook, Current
  <2> QED
    BY <2>1, <2>2
<1>4. xTaskIncrementTick(k) = Unblock(m)
  BY DEF xTaskIncrementTick, n
<1> HIDE DEF m
<1>5. /\ Current(k) \in Seq(ListItem(MaxDelay)) /\ Sorted(Current(k))
      /\ NextLook(k) \in MaxDelay
  BY <1>0, HeadTimeIs DEF Current, NextLook
<1> DEFINE p == Pop(Current(k), TickAfter(k))
<1>6. p \in Seq(ListItem(MaxDelay)) /\ Sorted(p)
  <2>1. TickAfter(k) \in Int
    BY <1>1, MaxDelayIs
  <2> QED
    BY <1>5, <2>1, PopIs, MaxDelayIs DEF Pop
<1>7. HeadTime(p) \in MaxDelay
  BY <1>6, HeadTimeIs
<1>8. Unblock(m) = IF TickAfter(k) < NextLook(k) THEN m ELSE [m EXCEPT !.delayed = p, !.next = HeadTime(p)]
  BY <1>3 DEF Unblock, Pop
<1> HIDE DEF p
<1> DEFINE r == [tick |-> TickAfter(k),
                 over |-> IF Wraps(k) THEN k.over + 1 ELSE k.over,
                 next |-> IF TickAfter(k) < NextLook(k) THEN NextLook(k) ELSE HeadTime(p),
                 delayed |-> IF TickAfter(k) < NextLook(k) THEN Current(k) ELSE p,
                 later |-> IF Wraps(k) THEN k.delayed ELSE k.later]
<1>9. xTaskIncrementTick(k) = r
  BY <1>3, <1>4, <1>8
<1>10. r \in ClockState
  BY <1>0, <1>1, <1>5, <1>6, <1>7 DEF ClockState
<1> QED
  BY <1>9, <1>10 DEF p

(* A tick wakes the tasks that are due then and leaves the others in place. *)
LEMMA TickOnTime ==
  ASSUME NEW k \in ClockState, NEW d \in [Tasks -> Nat], OnTime(k, d)
  PROVE  LET r == xTaskIncrementTick(k)
         IN  /\ Time(r) = Time(k) + 1
             /\ OnTime(r, d)
             /\ SleepingIn(r) \subseteq SleepingIn(k)
             /\ \A t \in SleepingIn(k) \ SleepingIn(r) : d[t] <= Time(r)
<1> DEFINE r == xTaskIncrementTick(k)
<1>1. /\ r.tick = TickAfter(k)
      /\ r.over = IF Wraps(k) THEN k.over + 1 ELSE k.over
      /\ r.next = IF TickAfter(k) < NextLook(k) THEN NextLook(k)
                  ELSE HeadTime(Pop(Current(k), TickAfter(k)))
      /\ r.delayed = IF TickAfter(k) < NextLook(k) THEN Current(k)
                     ELSE Pop(Current(k), TickAfter(k))
      /\ r.later = IF Wraps(k) THEN k.delayed ELSE k.later
  BY TickIs
<1> HIDE DEF r
<1>2. /\ k.tick \in Nat /\ k.tick < Ticks /\ k.over \in Nat
      /\ k.delayed \in Seq(ListItem(MaxDelay)) /\ k.later \in Seq(ListItem(MaxDelay))
      /\ Sorted(k.delayed) /\ Sorted(k.later)
  BY MaxDelayIs DEF ClockState
<1>3. \A s \in Seq(ListItem(MaxDelay)) : \A x \in Range(s) :
        x.xItemValue \in Nat /\ x.xItemValue < Ticks /\ x.pvOwner \in Tasks
  <2> TAKE s \in Seq(ListItem(MaxDelay))
  <2>1. \A x \in Range(s) : x \in ListItem(MaxDelay)
    BY DEF Range
  <2> QED
    BY <2>1, MaxDelayIs DEF ListItem
<1>4. Wraps(k) => Range(k.delayed) = {}
  BY <1>2, <1>3, MaxDelayIs DEF OnTime, Wraps
<1>5. /\ Current(k) \in Seq(ListItem(MaxDelay)) /\ Sorted(Current(k))
      /\ TickAfter(k) \in Int
      /\ \A x \in Range(Current(k)) :
           /\ x.xItemValue >= TickAfter(k)
           /\ NextLook(k) <= x.xItemValue
           /\ d[x.pvOwner] = r.over * Ticks + x.xItemValue
  <2>1. CASE Wraps(k)
    <3>1. Current(k) = k.later /\ TickAfter(k) = 0 /\ NextLook(k) = HeadTime(k.later) /\ r.over = k.over + 1
      BY <2>1, <1>1 DEF Current, TickAfter, NextLook
    <3>2. \A x \in Range(k.later) : HeadTime(k.later) <= x.xItemValue
      BY <1>2, HeadTimeIs
    <3> QED
      BY <3>1, <3>2, <1>2, <1>3 DEF OnTime
  <2>2. CASE ~Wraps(k)
    <3>1. Current(k) = k.delayed /\ TickAfter(k) = k.tick + 1 /\ NextLook(k) = k.next /\ r.over = k.over
      BY <2>2, <1>1 DEF Current, TickAfter, NextLook
    <3> QED
      BY <3>1, <1>2, <1>3 DEF OnTime
  <2> QED
    BY <2>1, <2>2
<1>6. Time(r) = Time(k) + 1 /\ Time(k) \in Nat
  <2>1. k.over * Ticks \in Nat /\ (k.over + 1) * Ticks = k.over * Ticks + Ticks
    BY <1>2, MaxDelayIs
  <2>2. CASE Wraps(k)
    <3>1. r.tick = 0 /\ r.over = k.over + 1 /\ k.tick = Ticks - 1
      BY <2>2, <1>1, MaxDelayIs DEF TickAfter, Wraps
    <3>2. Time(k) = k.over * Ticks + (Ticks - 1) /\ Time(r) = (k.over * Ticks + Ticks) + 0
      BY <2>1, <3>1 DEF Time
    <3>3. Ticks \in Nat /\ Ticks > 1
      BY MaxDelayIs
    <3> QED
      BY <2>1, <3>2, <3>3
  <2>3. CASE ~Wraps(k)
    <3>1. r.tick = k.tick + 1 /\ r.over = k.over
      BY <2>3, <1>1 DEF TickAfter
    <3>2. Time(k) = k.over * Ticks + k.tick /\ Time(r) = k.over * Ticks + (k.tick + 1)
      BY <3>1 DEF Time
    <3>3. k.tick \in Nat /\ k.over * Ticks \in Nat
      BY <1>2, <2>1
    <3> QED
      BY <3>2, <3>3
  <2> QED
    BY <2>2, <2>3
<1> DEFINE p == Pop(Current(k), TickAfter(k))
<1>7. /\ p \in Seq(ListItem(MaxDelay))
      /\ Sorted(p)
      /\ Range(p) = {x \in Range(Current(k)) : x.xItemValue > TickAfter(k)}
  BY <1>5, PopIs, MaxDelayIs DEF Pop
<1>8. \A x \in Range(p) : HeadTime(p) <= x.xItemValue
  BY <1>7, HeadTimeIs
<1> HIDE DEF p
<1>9. Range(r.delayed) = {x \in Range(Current(k)) : x.xItemValue > TickAfter(k)}
  <2>1. CASE TickAfter(k) < NextLook(k)
    <3>1. r.delayed = Current(k)
      BY <2>1, <1>1
    <3>2. NextLook(k) \in Int
      BY MaxDelayIs, HeadTimeIs, <1>2 DEF NextLook, ClockState
    <3>3. \A x \in Range(Current(k)) : x.xItemValue > TickAfter(k)
      BY <2>1, <3>2, <1>3, <1>5
    <3> QED
      BY <3>1, <3>3
  <2>2. CASE ~(TickAfter(k) < NextLook(k))
    BY <2>2, <1>1, <1>7 DEF p
  <2> QED
    BY <2>1, <2>2
<1>10. OnTime(r, d)
  <2>1. \A x \in Range(r.delayed) : r.next <= x.xItemValue
    BY <1>1, <1>5, <1>8, <1>9 DEF p
  <2>2. \A x \in Range(r.delayed) : x.xItemValue > r.tick /\ d[x.pvOwner] = r.over * Ticks + x.xItemValue
    BY <1>1, <1>5, <1>9
  <2>3. \A x \in Range(r.later) : d[x.pvOwner] = (r.over + 1) * Ticks + x.xItemValue
    BY <1>1, <1>4 DEF OnTime
  <2> QED
    BY <2>1, <2>2, <2>3 DEF OnTime
<1>11. SleepingIn(k) = {x.pvOwner : x \in Range(Current(k))} \cup {x.pvOwner : x \in Range(r.later)}
  BY <1>1, OwnersOfRange DEF SleepingIn, Current
<1>12. SleepingIn(r) = {x.pvOwner : x \in Range(r.delayed)} \cup {x.pvOwner : x \in Range(r.later)}
  BY OwnersOfRange DEF SleepingIn
<1>13. \A x \in Range(Current(k)) : x \notin Range(r.delayed) => d[x.pvOwner] <= Time(r)
  <2> TAKE x \in Range(Current(k))
  <2> HAVE x \notin Range(r.delayed)
  <2>1. x.xItemValue = TickAfter(k)
    BY <1>3, <1>5, <1>9
  <2>2. d[x.pvOwner] = r.over * Ticks + TickAfter(k)
    BY <2>1, <1>5
  <2> QED
    BY <2>2, <1>1, <1>6 DEF Time
<1>14. SleepingIn(r) \subseteq SleepingIn(k)
  BY <1>9, <1>11, <1>12
<1>15. \A t \in SleepingIn(k) \ SleepingIn(r) : d[t] <= Time(r)
  BY <1>11, <1>12, <1>13
<1> QED
  BY <1>6, <1>10, <1>14, <1>15 DEF r

ClockNow ==
  [tick |-> xTickCount, over |-> xNumOfOverflows, next |-> xNextTaskUnblockTime,
   delayed |-> pxDelayedTaskList, later |-> pxOverflowDelayedTaskList]

(* ClockNow names the state of the clock that the variables hold. *)
LEMMA ClockNowIs == Time(ClockNow) = Now /\ SleepingIn(ClockNow) = Sleeping
BY DEF ClockNow, Time, Now, SleepingIn, Sleeping

(* Any number of ticks. *)
LEMMA TicksOnTime ==
  ASSUME NEW k0 \in ClockState, NEW d \in [Tasks -> Nat], OnTime(k0, d), NEW n \in Nat,
         NEW f, f = CHOOSE g : g = [i \in 0..n |-> IF i = 0 THEN k0 ELSE xTaskIncrementTick(g[i - 1])]
  PROVE  /\ f[n] \in ClockState
         /\ OnTime(f[n], d)
         /\ Time(f[n]) = Time(k0) + n
         /\ SleepingIn(f[n]) \subseteq SleepingIn(k0)
         /\ \A t \in SleepingIn(k0) \ SleepingIn(f[n]) : d[t] <= Time(f[n])
<1> DEFINE X == ClockState
           F == [i \in Nat |-> [k \in X |-> xTaskIncrementTick(k)]]
           G(g) == g = [i \in 0..n |-> IF i = 0 THEN k0 ELSE xTaskIncrementTick(g[i - 1])]
<1>1. \A k \in X : xTaskIncrementTick(k) \in X
  BY TickIs
<1>2. F \in [Nat -> [X -> X]]
  <2> HIDE DEF X
  <2> QED
    BY <1>1
<1>3. PICK h : Iterates(h, n, X, k0, F)
  <2> HIDE DEF F
  <2> QED
    BY <1>2, RecursionExists
<1>4. /\ h \in [0..n -> X] /\ h[0] = k0
      /\ \A i \in 1..n : h[i] = xTaskIncrementTick(h[i - 1])
  <2>1. h \in [0..n -> X] /\ h[0] = k0 /\ \A i \in 1..n : h[i] = F[i][h[i - 1]]
    BY <1>3 DEF Iterates
  <2> HIDE DEF X
  <2>2. \A i \in 1..n : i \in Nat /\ h[i - 1] \in X
    BY <2>1
  <2> QED
    BY <2>1, <2>2
<1>5. G(h)
  <2> HIDE DEF X
  <2> DEFINE e == [i \in 0..n |-> IF i = 0 THEN k0 ELSE xTaskIncrementTick(h[i - 1])]
  <2>1. \A i \in 0..n : h[i] = e[i]
    <3> TAKE i \in 0..n
    <3>1. CASE i = 0
      BY <3>1, <1>4
    <3>2. CASE i # 0
      <4>1. i \in 1..n
        BY <3>2
      <4> QED
        BY <3>2, <4>1, <1>4
    <3> QED
      BY <3>1, <3>2
  <2>2. h = [i \in 0..n |-> h[i]]
    BY <1>4
  <2> QED
    BY <2>1, <2>2
<1>6. G(f)
  <2>1. f = CHOOSE g : G(g)
    OBVIOUS
  <2> HIDE DEF G
  <2> QED
    BY <1>5, <2>1
<1>7. f[0] = k0 /\ \A i \in 1..n : f[i] = xTaskIncrementTick(f[i - 1])
  <2>1. \A i \in 0..n : f[i] = IF i = 0 THEN k0 ELSE xTaskIncrementTick(f[i - 1])
    BY <1>6, Zenon
  <2>2. 0 \in 0..n /\ \A i \in 1..n : i \in 0..n /\ i # 0
    OBVIOUS
  <2> QED
    BY <2>1, <2>2, Zenon
<1> DEFINE P(i) == /\ f[i] \in ClockState
                   /\ OnTime(f[i], d)
                   /\ Time(f[i]) = Time(k0) + i
                   /\ SleepingIn(f[i]) \subseteq SleepingIn(k0)
                   /\ \A t \in SleepingIn(k0) \ SleepingIn(f[i]) : d[t] <= Time(f[i])
           S == {i \in Nat : i <= n => P(i)}
<1>8. Time(k0) \in Nat
  <2>1. k0.over \in Nat /\ k0.tick \in Nat /\ Ticks \in Nat
    BY MaxDelayIs DEF ClockState
  <2>2. k0.over * Ticks \in Nat
    BY <2>1
  <2> QED
    BY <2>1, <2>2 DEF Time
<1>9. P(0)
  <2>1. f[0] = k0 /\ Time(k0) = Time(k0) + 0
    BY <1>7, <1>8
  <2>2. \A t \in SleepingIn(k0) \ SleepingIn(k0) : d[t] <= Time(k0)
    OBVIOUS
  <2> QED
    BY <2>1, <2>2, Zenon
<1>10. ASSUME NEW i \in Nat, i + 1 <= n, P(i) PROVE P(i + 1)
  <2>1. f[i + 1] = xTaskIncrementTick(f[i])
    <3>1. i + 1 \in 1..n /\ (i + 1) - 1 = i
      BY <1>10
    <3> QED
      BY <3>1, <1>7
  <2>2. f[i + 1] \in ClockState
    BY <2>1, <1>10, TickIs
  <2>3. /\ Time(f[i + 1]) = Time(f[i]) + 1
        /\ OnTime(f[i + 1], d)
        /\ SleepingIn(f[i + 1]) \subseteq SleepingIn(f[i])
        /\ \A t \in SleepingIn(f[i]) \ SleepingIn(f[i + 1]) : d[t] <= Time(f[i + 1])
    BY <2>1, <1>10, TickOnTime
  <2>4. \A t \in SleepingIn(k0) \ SleepingIn(f[i + 1]) : d[t] <= Time(f[i + 1])
    <3> TAKE t \in SleepingIn(k0) \ SleepingIn(f[i + 1])
    <3>1. CASE t \in SleepingIn(f[i])
      BY <3>1, <2>3
    <3>2. CASE t \notin SleepingIn(f[i])
      <4>1. t \in Tasks
        BY ItemValues, MaxDelayIs DEF SleepingIn, Owners, ClockState
      <4>2. d[t] <= Time(f[i]) /\ d[t] \in Nat
        BY <3>2, <4>1, <1>10
      <4>3. Time(f[i]) = Time(k0) + i
        BY <1>10
      <4> QED
        BY <4>2, <4>3, <2>3, <1>8
    <3> QED
      BY <3>1, <3>2
  <2>5. Time(f[i + 1]) = Time(k0) + (i + 1)
    BY <2>3, <1>8, <1>10
  <2> QED
    BY <2>2, <2>3, <2>4, <2>5, <1>10
<1>11. P(n)
  <2> HIDE DEF P
  <2>1. 0 \in S
    BY <1>9
  <2>2. \A i \in S : i + 1 \in S
    BY <1>10
  <2>3. S \subseteq Nat
    OBVIOUS
  <2>4. S = Nat
    <3> HIDE DEF S
    <3> QED
      BY <2>1, <2>2, <2>3, NatSetInduction
  <2> QED
    BY <2>4
<1> QED
  BY <1>11

(* Advance is that many ticks: time goes on, and only who is due is woken. *)
LEMMA AdvanceIs ==
  ASSUME NEW n \in Nat, ClockNow \in ClockState, due \in [Tasks -> Nat],
         OnTime(ClockNow, due), Advance(n)
  PROVE  /\ ClockNow' \in ClockState
         /\ OnTime(ClockNow', due)
         /\ Now' = Now + n
         /\ Sleeping' \subseteq Sleeping
         /\ \A t \in Sleeping \ Sleeping' : due[t] <= Now'
         /\ queue' = [q \in Queues |->
              [queue[q] EXCEPT
                 !.xTasksWaitingToSend = Without(@, Sleeping \ Sleeping'),
                 !.xTasksWaitingToReceive = Without(@, Sleeping \ Sleeping')]]
         /\ xSuspendedTaskList' = xSuspendedTaskList
<1> DEFINE f == CHOOSE g : g = [i \in 0..n |-> IF i = 0 THEN ClockNow ELSE xTaskIncrementTick(g[i - 1])]
           k == f[n]
           woken == Sleeping \ (Owners(k.delayed) \cup Owners(k.later))
<1>1. /\ xTickCount' = k.tick
      /\ xNumOfOverflows' = k.over
      /\ xNextTaskUnblockTime' = k.next
      /\ pxDelayedTaskList' = k.delayed
      /\ pxOverflowDelayedTaskList' = k.later
      /\ queue' = [q \in Queues |->
          [queue[q] EXCEPT
             !.xTasksWaitingToSend = Without(@, woken),
             !.xTasksWaitingToReceive = Without(@, woken)]]
      /\ xSuspendedTaskList' = xSuspendedTaskList
  BY Zenon DEF Advance, ClockNow
<1> HIDE DEF f
<1>2. /\ k \in ClockState
      /\ OnTime(k, due)
      /\ Time(k) = Time(ClockNow) + n
      /\ SleepingIn(k) \subseteq SleepingIn(ClockNow)
      /\ \A t \in SleepingIn(ClockNow) \ SleepingIn(k) : due[t] <= Time(k)
  BY TicksOnTime DEF f
<1> HIDE DEF k
<1>3. ClockNow' = k
  <2>1. k = [tick |-> k.tick, over |-> k.over, next |-> k.next, delayed |-> k.delayed, later |-> k.later]
    BY <1>2 DEF ClockState
  <2> QED
    BY <1>1, <2>1 DEF ClockNow
<1>4. Now' = Time(k) /\ Sleeping' = SleepingIn(k)
  BY <1>1 DEF Now, Time, Sleeping, SleepingIn
<1>5. woken = Sleeping \ Sleeping'
  BY <1>4 DEF SleepingIn
<1>6. /\ Now' = Now + n
      /\ Sleeping' \subseteq Sleeping
      /\ \A t \in Sleeping \ Sleeping' : due[t] <= Now'
  BY <1>2, <1>4, ClockNowIs, Zenon
<1>7. ClockNow' \in ClockState /\ OnTime(ClockNow', due)
  BY <1>2, <1>3, Zenon
<1> HIDE DEF woken
<1>8. queue' = [q \in Queues |->
        [queue[q] EXCEPT
           !.xTasksWaitingToSend = Without(@, Sleeping \ Sleeping'),
           !.xTasksWaitingToReceive = Without(@, Sleeping \ Sleeping')]]
  BY <1>1, <1>5, Zenon
<1> QED
  BY <1>1, <1>6, <1>7, <1>8, Zenon

-----------------------------------------------------------------------------
(* The inductive invariant. *)

(* A task that is not ready is in the last steps of a call that waits; the  *)
(* scheduler is suspended exactly while a task is in its steps with it; and *)
(* ticks are pending only then.                                             *)
Placed ==
  /\ \A t \in Tasks :
       /\ pc[t] \in {"user", "check", "expired", "last", "delay"} => t \in Ready
       /\ suspender = t <=> pc[t] \in {"resume", "expired", "asleep"}
       /\ pc[t] \in {"delay", "asleep", "delayed"} => call[t].op = "delay"
       /\ pc[t] \in {"try", "check", "resume", "expired", "last"} =>
            call[t].op \in {"send", "receive"}
  /\ suspender = "none" => xPendedTicks = 0

(* An event list holds tasks that wait for this queue, each once. *)
Waiting(s, q, op) ==
  /\ Distinct(s)
  /\ \A x \in Range(s) : /\ x.pvOwner \notin Ready
                         /\ pc[x.pvOwner] \in {"try", "resume"}
                         /\ call[x.pvOwner].op = op
                         /\ call[x.pvOwner].q = q

EventLists ==
  \A q \in Queues :
    /\ Waiting(queue[q].xTasksWaitingToSend, q, "send")
    /\ Waiting(queue[q].xTasksWaitingToReceive, q, "receive")

(* The tasks that are about to look at a queue. *)
Tryers(q, op) == {t \in Ready : pc[t] = "try" /\ call[t].op = op /\ call[t].q = q}

(* While a task waits for an item, every item that is there has a task that *)
(* is about to fetch it: one wake-up per item, however many tasks wait.     *)
Served ==
  \A q \in Queues :
    /\ queue[q].xTasksWaitingToReceive # <<>> =>
         Cardinality(Tryers(q, "receive")) >= queue[q].uxMessagesWaiting
    /\ queue[q].xTasksWaitingToSend # <<>> =>
         Cardinality(Tryers(q, "send")) >= uxLength[q] - queue[q].uxMessagesWaiting

(* The two ends of the ring. *)
Ring ==
  \A q \in Queues :
    IF q \in Semaphores
    THEN queue[q].pcHead = [i \in 0..(uxLength[q] - 1) |-> Token]
    ELSE queue[q].pcWriteTo =
           (queue[q].pcReadFrom + 1 + queue[q].uxMessagesWaiting) % uxLength[q]

(* The time in xTimeOut, without the wrap. *)
Entry(t) == xTimeOut[t].xOverflowCount * Ticks + xTimeOut[t].xTimeOnEntering

(* A call that waits for a limited time knows how much of it is left. *)
TimeKnown(t) ==
  /\ Entry(t) <= Now
  /\ Now + xPendedTicks <= Entry(t) + Ticks
  /\ IF xTicksToWait[t] = 0 THEN due[t] <= Now
     ELSE due[t] = Entry(t) + xTicksToWait[t]

TimedCall(t) ==
  /\ call[t].wait = portMAX_DELAY <=> xTicksToWait[t] = portMAX_DELAY
  /\ ~xEntryTimeSet[t] => pc[t] = "try" /\ xTicksToWait[t] = call[t].wait
  /\ pc[t] \in {"expired", "last"} => xTicksToWait[t] = 0
  /\ pc[t] = "check" => xTicksToWait[t] # 0
  /\ xEntryTimeSet[t] /\ call[t].wait # portMAX_DELAY => TimeKnown(t)

Timed ==
  \A t \in Tasks : IF InQueueCall(t) THEN TimedCall(t) ELSE ~xEntryTimeSet[t]

Clocked ==
  /\ Sorted(pxDelayedTaskList) /\ Sorted(pxOverflowDelayedTaskList)
  /\ OnTime(ClockNow, due)
  /\ \A t \in Tasks : pc[t] \in {"asleep", "delayed"} /\ t \notin Sleeping => due[t] <= Now

IInv ==
  /\ TypeOK
  /\ Placed
  /\ EventLists
  /\ Served
  /\ Ring
  /\ Timed
  /\ Clocked

ListsTyped ==
  /\ xTickCount \in 0..portMAX_DELAY
  /\ xNumOfOverflows \in Nat
  /\ xNextTaskUnblockTime \in 0..portMAX_DELAY
  /\ pxDelayedTaskList \in Seq(ListItem(0..portMAX_DELAY))
  /\ pxOverflowDelayedTaskList \in Seq(ListItem(0..portMAX_DELAY))
  /\ xSuspendedTaskList \subseteq Tasks \ Sleeping
  /\ xPendedTicks \in 0..MaxPended
  /\ suspender \in Tasks \cup {"none"}

QueuesTyped ==
  /\ DOMAIN queue = Queues
  /\ \A q \in Queues : queue[q] \in QueueDefinition(q)

LocalsTyped ==
  /\ pc \in [Tasks -> {"user", "try", "check", "resume", "expired", "last",
                       "delay", "asleep", "delayed"}]
  /\ DOMAIN call = Tasks
  /\ \A t \in Tasks :
       IF pc[t] = "user" THEN call[t] = [op |-> "none"] ELSE call[t] \in Calls[t]
  /\ xEntryTimeSet \in [Tasks -> BOOLEAN]
  /\ xTimeOut \in [Tasks -> [xOverflowCount: Nat,
                             xTimeOnEntering: 0..portMAX_DELAY]]
  /\ xTicksToWait \in [Tasks -> 0..portMAX_DELAY]
  /\ due \in [Tasks -> Nat]

(* TypeOK by the parts that the steps change separately. *)
LEMMA TypeParts == TypeOK <=> ListsTyped /\ QueuesTyped /\ LocalsTyped
BY DEF TypeOK, ListsTyped, QueuesTyped, LocalsTyped

(* The same after a step. *)
LEMMA TypePartsNext == TypeOK' <=> ListsTyped' /\ QueuesTyped' /\ LocalsTyped'
BY DEF TypeOK, ListsTyped, QueuesTyped, LocalsTyped

(* Numbers that the arithmetic of time needs to be typed. *)
LEMMA ListsFacts ==
  ASSUME ListsTyped
  PROVE  /\ Sleeping \subseteq Tasks /\ Ready \subseteq Tasks
         /\ xSuspendedTaskList \subseteq Tasks
         /\ pxDelayedTaskList \in Seq(ListItem(MaxDelay))
         /\ pxOverflowDelayedTaskList \in Seq(ListItem(MaxDelay))
         /\ Now \in Nat /\ xTickCount \in Nat /\ xNumOfOverflows \in Nat
         /\ xPendedTicks \in Nat
<1>1. /\ pxDelayedTaskList \in Seq(ListItem(MaxDelay))
      /\ pxOverflowDelayedTaskList \in Seq(ListItem(MaxDelay))
  BY DEF ListsTyped, MaxDelay
<1>2. \A s \in Seq(ListItem(MaxDelay)) : Owners(s) \subseteq Tasks
  <2> TAKE s \in Seq(ListItem(MaxDelay))
  <2>1. \A i \in DOMAIN s : s[i] \in ListItem(MaxDelay)
    OBVIOUS
  <2> QED
    BY <2>1 DEF Owners, ListItem
<1>3. Sleeping \subseteq Tasks /\ Ready \subseteq Tasks
  BY <1>1, <1>2 DEF Sleeping, Ready
<1>4. xTickCount \in Nat /\ xNumOfOverflows \in Nat /\ Ticks \in Nat /\ xPendedTicks \in Nat
  BY MaxDelayIs, KernelAssumption DEF ListsTyped
<1>5. xNumOfOverflows * Ticks \in Nat
  BY <1>4
<1> QED
  BY <1>1, <1>3, <1>4, <1>5 DEF Now, ListsTyped

(* The clock and the delayed lists are typed. *)
LEMMA ClockStateNow ==
  ASSUME ListsTyped, Clocked
  PROVE  ClockNow \in ClockState
BY ListsFacts DEF ListsTyped, Clocked, ClockNow, ClockState, MaxDelay

(* The fields of a control block are typed. *)
LEMMA QueueFields ==
  ASSUME QueuesTyped, NEW q \in Queues
  PROVE  /\ uxLength[q] \in Nat /\ uxLength[q] > 0
         /\ queue[q].uxMessagesWaiting \in Nat
         /\ queue[q].uxMessagesWaiting <= uxLength[q]
         /\ queue[q].uxMessagesWaiting \in 0..uxLength[q]
         /\ queue[q].pcWriteTo \in 0..(uxLength[q] - 1)
         /\ queue[q].pcReadFrom \in 0..(uxLength[q] - 1)
         /\ queue[q].pcHead \in [0..(uxLength[q] - 1) -> Items \cup {Token}]
         /\ queue[q].xTasksWaitingToSend \in Seq(ListItem(Int))
         /\ queue[q].xTasksWaitingToReceive \in Seq(ListItem(Int))
         /\ queue[q] = [uxMessagesWaiting |-> queue[q].uxMessagesWaiting,
                        pcWriteTo |-> queue[q].pcWriteTo, pcReadFrom |-> queue[q].pcReadFrom,
                        pcHead |-> queue[q].pcHead,
                        xTasksWaitingToSend |-> queue[q].xTasksWaitingToSend,
                        xTasksWaitingToReceive |-> queue[q].xTasksWaitingToReceive]
<1>1. uxLength[q] \in Nat /\ uxLength[q] > 0
  BY KernelAssumption
<1>2. queue[q] \in QueueDefinition(q)
  BY DEF QueuesTyped
<1> QED
  BY <1>1, <1>2 DEF QueueDefinition

(* A record with typed fields is a control block. *)
LEMMA QueueTyped ==
  ASSUME NEW q \in Queues, NEW z,
         z.uxMessagesWaiting \in 0..uxLength[q],
         z.pcWriteTo \in 0..(uxLength[q] - 1), z.pcReadFrom \in 0..(uxLength[q] - 1),
         z.pcHead \in [0..(uxLength[q] - 1) -> Items \cup {Token}],
         z.xTasksWaitingToSend \in Seq(ListItem(Int)),
         z.xTasksWaitingToReceive \in Seq(ListItem(Int)),
         z = [uxMessagesWaiting |-> z.uxMessagesWaiting,
              pcWriteTo |-> z.pcWriteTo, pcReadFrom |-> z.pcReadFrom, pcHead |-> z.pcHead,
              xTasksWaitingToSend |-> z.xTasksWaitingToSend,
              xTasksWaitingToReceive |-> z.xTasksWaitingToReceive]
  PROVE  z \in QueueDefinition(q)
BY DEF QueueDefinition

(* A call has the fields that its operation needs. *)
LEMMA CallFields ==
  ASSUME NEW t \in Tasks, NEW c \in Calls[t]
  PROVE  /\ c.op \in {"send", "receive", "delay"}
         /\ c.wait \in 0..portMAX_DELAY
         /\ c.op \in {"send", "receive"} => c.q \in Queues
         /\ c.op \in {"receive", "delay"} => c.wait # 0
         /\ c.op = "delay" => c.wait # portMAX_DELAY
         /\ c.op = "send" => c.item \in Items \cup {Token}
         /\ c.op = "send" /\ c.q \in Semaphores => c.item = Token
<1>1. c \in AllCalls /\ (c.op = "send" => (c.q \in Semaphores => c.item = Token))
  BY KernelAssumption
<1>2. portMAX_DELAY \in Nat /\ portMAX_DELAY > 0
  BY MaxDelayIs
<1>3. CASE c \in [op: {"send"}, q: Queues, wait: 0..portMAX_DELAY, item: Items \cup {Token}]
  BY <1>1, <1>2, <1>3
<1>4. CASE c \in [op: {"receive"}, q: Queues, wait: 1..portMAX_DELAY]
  BY <1>1, <1>2, <1>4
<1>5. CASE c \in [op: {"delay"}, wait: 1..(portMAX_DELAY - 1)]
  BY <1>1, <1>2, <1>5
<1> QED
  BY <1>1, <1>3, <1>4, <1>5 DEF AllCalls

(* Except for the steps in which it has the scheduler suspended, a task     *)
(* that runs is ready and nobody has the scheduler suspended.               *)
LEMMA RunsAlone ==
  ASSUME TypeOK, Placed, NEW t \in Tasks, Runs(t),
         pc[t] \notin {"resume", "expired", "asleep"}
  PROVE  /\ suspender = "none" /\ t \in Ready /\ xPendedTicks = 0
         /\ \A u \in Tasks : pc[u] \notin {"resume", "expired", "asleep"}
<1>1. suspender # t
  BY DEF Placed
<1>2. suspender = "none"
  BY <1>1 DEF Runs
<1>3. "none" \notin Tasks
  BY KernelAssumption
<1> QED
  BY <1>2, <1>3 DEF Runs, Placed

(* The locals of the other tasks are left alone. *)
Own(t) ==
  \A u \in Tasks \ {t} :
    /\ pc'[u] = pc[u] /\ call'[u] = call[u]
    /\ xTicksToWait'[u] = xTicksToWait[u] /\ xEntryTimeSet'[u] = xEntryTimeSet[u]
    /\ xTimeOut'[u] = xTimeOut[u] /\ due'[u] = due[u]

-----------------------------------------------------------------------------
(* Steps of a ready task that leave the lists and the queues alone. *)

(* A quiet step, of the locals of one task, leaves time and the lists alone. *)
LEMMA QuietSets ==
  ASSUME UNCHANGED <<clock, lists>>
  PROVE  Sleeping' = Sleeping /\ Ready' = Ready /\ ClockNow' = ClockNow /\ Now' = Now
BY DEF clock, lists, Sleeping, Ready, ClockNow, Now

(* A quiet step keeps EventLists. *)
LEMMA QuietEventLists ==
  ASSUME TypeOK, EventLists, UNCHANGED <<clock, lists, queue>>, NEW t \in Ready, Own(t)
  PROVE  EventLists'
<1>0. Ready' = Ready /\ queue' = queue
  BY QuietSets
<1>1. ASSUME NEW q \in Queues, NEW s \in Seq(ListItem(Int)), NEW op, Waiting(s, q, op)
      PROVE  Waiting(s, q, op)'
  <2>1. ASSUME NEW x \in Range(s)
        PROVE  /\ x.pvOwner \notin Ready'
               /\ pc'[x.pvOwner] \in {"try", "resume"}
               /\ call'[x.pvOwner].op = op
               /\ call'[x.pvOwner].q = q
    <3>1. x.pvOwner \in Tasks \ {t}
      <4>1. x \in ListItem(Int)
        BY DEF Range
      <4> QED
        BY <4>1, <1>1 DEF ListItem, Waiting
    <3>2. pc'[x.pvOwner] = pc[x.pvOwner] /\ call'[x.pvOwner] = call[x.pvOwner]
      BY <3>1 DEF Own
    <3> QED
      BY <3>2, <1>0, <1>1 DEF Waiting
  <2> QED
    BY <2>1, <1>1 DEF Waiting
<1>2. QueuesTyped
  BY TypeParts
<1> QED
  BY <1>0, <1>1, <1>2, QueueFields DEF EventLists

(* Everything that can be added to a finite set of tasks makes it larger.   *)
LEMMA MoreTasks ==
  ASSUME NEW A, NEW B, A \subseteq B, B \subseteq Tasks
  PROVE  /\ Cardinality(A) \in Nat /\ Cardinality(B) \in Nat
         /\ Cardinality(A) <= Cardinality(B)
<1>1. IsFiniteSet(B)
  BY KernelAssumption, FS_Subset
<1>2. IsFiniteSet(A) /\ Cardinality(A) <= Cardinality(B)
  BY <1>1, FS_Subset
<1> QED
  BY <1>1, <1>2, FS_CardinalityType

(* A quiet step keeps Served. *)
LEMMA QuietServed ==
  ASSUME TypeOK, Served, UNCHANGED <<clock, lists, queue>>, NEW t \in Ready, Own(t),
         pc[t] = "try" => StillBlocked(t)
  PROVE  Served'
<1>0. Ready' = Ready /\ queue' = queue /\ Ready \subseteq Tasks /\ QueuesTyped
  BY QuietSets, TypeParts, ListsFacts
<1>1. ASSUME NEW q \in Queues, NEW op, t \notin Tryers(q, op)
      PROVE  Cardinality(Tryers(q, op)) <= Cardinality(Tryers(q, op)')
  <2>1. Tryers(q, op) \subseteq Tryers(q, op)'
    BY <1>0, <1>1 DEF Tryers, Own
  <2>2. Tryers(q, op)' \subseteq Tasks
    BY <1>0 DEF Tryers
  <2> QED
    BY <2>1, <2>2, MoreTasks
<1>2. ASSUME NEW q \in Queues, NEW op
      PROVE  Cardinality(Tryers(q, op)) \in Nat /\ Cardinality(Tryers(q, op)') \in Nat
  <2>1. Tryers(q, op)' \subseteq Tasks /\ Tryers(q, op) \subseteq Tasks
    BY <1>0 DEF Tryers
  <2> QED
    BY <2>1, MoreTasks
<1> SUFFICES ASSUME NEW q \in Queues
             PROVE  /\ queue[q].xTasksWaitingToReceive # <<>> =>
                         Cardinality(Tryers(q, "receive")') >= queue[q].uxMessagesWaiting
                    /\ queue[q].xTasksWaitingToSend # <<>> =>
                         Cardinality(Tryers(q, "send")') >= uxLength[q] - queue[q].uxMessagesWaiting
  BY <1>0 DEF Served
<1>3. /\ queue[q].uxMessagesWaiting \in Nat /\ uxLength[q] \in Nat
      /\ uxLength[q] - queue[q].uxMessagesWaiting \in Nat
  <2>1. /\ queue[q].uxMessagesWaiting \in Nat /\ uxLength[q] \in Nat
        /\ queue[q].uxMessagesWaiting <= uxLength[q]
    BY <1>0, QueueFields
  <2> QED
    BY <2>1
<1>4. t \in Tryers(q, "receive") => queue[q].uxMessagesWaiting = 0
  BY DEF Tryers, StillBlocked, Empty
<1>5. t \in Tryers(q, "send") => uxLength[q] - queue[q].uxMessagesWaiting = 0
  BY <1>3 DEF Tryers, StillBlocked, Full
<1>6. queue[q].xTasksWaitingToReceive # <<>> =>
        Cardinality(Tryers(q, "receive")') >= queue[q].uxMessagesWaiting
  BY <1>1, <1>2, <1>3, <1>4 DEF Served
<1>7. queue[q].xTasksWaitingToSend # <<>> =>
        Cardinality(Tryers(q, "send")') >= uxLength[q] - queue[q].uxMessagesWaiting
  <2> DEFINE n == uxLength[q] - queue[q].uxMessagesWaiting
  <2>1. queue[q].xTasksWaitingToSend # <<>> => Cardinality(Tryers(q, "send")) >= n
    BY DEF Served
  <2>2. n \in Nat /\ (t \in Tryers(q, "send") => n = 0)
    BY <1>3, <1>5
  <2> HIDE DEF n
  <2>3. queue[q].xTasksWaitingToSend # <<>> => Cardinality(Tryers(q, "send")') >= n
    BY <1>1, <1>2, <2>1, <2>2
  <2> QED
    BY <2>3 DEF n
<1> QED
  BY <1>6, <1>7

(* A quiet step keeps Ring. *)
LEMMA QuietRing ==
  ASSUME Ring, UNCHANGED queue
  PROVE  Ring'
BY DEF Ring

(* Of the time of a call, only that of the task that runs can change. *)
LEMMA OthersTimed ==
  ASSUME Timed, Now' = Now, xPendedTicks' = xPendedTicks, NEW t \in Tasks, Own(t)
  PROVE  \A u \in Tasks \ {t} : IF InQueueCall(u)' THEN TimedCall(u)' ELSE ~xEntryTimeSet'[u]
<1> SUFFICES ASSUME NEW u \in Tasks \ {t}
             PROVE  IF InQueueCall(u)' THEN TimedCall(u)' ELSE ~xEntryTimeSet'[u]
  OBVIOUS
<1>1. /\ pc'[u] = pc[u] /\ call'[u] = call[u]
      /\ xTicksToWait'[u] = xTicksToWait[u] /\ xEntryTimeSet'[u] = xEntryTimeSet[u]
      /\ xTimeOut'[u] = xTimeOut[u] /\ due'[u] = due[u]
  BY DEF Own
<1>2. InQueueCall(u)' = InQueueCall(u)
  BY <1>1 DEF InQueueCall
<1>3. Entry(u)' = Entry(u)
  BY <1>1 DEF Entry
<1>4. TimeKnown(u)' = TimeKnown(u)
  BY <1>1, <1>3 DEF TimeKnown
<1>5. TimedCall(u)' = TimedCall(u)
  BY <1>1, <1>4 DEF TimedCall
<1> QED
  BY <1>1, <1>2, <1>5 DEF Timed

(* The lists keep what they promise when only a task that is not on them    *)
(* changes.                                                                 *)
LEMMA StillOnTime ==
  ASSUME NEW k \in ClockState, NEW d \in [Tasks -> Nat], NEW e, OnTime(k, d),
         \A u \in SleepingIn(k) : e[u] = d[u]
  PROVE  OnTime(k, e)
<1>1. \A x \in Range(k.delayed) \cup Range(k.later) : e[x.pvOwner] = d[x.pvOwner]
  BY OwnersOfRange DEF SleepingIn
<1> QED
  BY <1>1 DEF OnTime

(* A quiet step keeps Clocked. *)
LEMMA QuietClocked ==
  ASSUME TypeOK, Clocked, UNCHANGED <<clock, lists>>, NEW t \in Ready, Own(t),
         pc'[t] \notin {"asleep", "delayed"}
  PROVE  Clocked'
<1>1. /\ Sleeping' = Sleeping /\ ClockNow' = ClockNow /\ Now' = Now
      /\ ListsTyped /\ LocalsTyped /\ Sleeping \subseteq Tasks /\ t \notin Sleeping
  BY QuietSets, TypeParts, ListsFacts DEF Ready
<1>2. \A u \in Sleeping : due'[u] = due[u]
  BY <1>1 DEF Own
<1>3. OnTime(ClockNow, due')
  <2>1. ClockNow \in ClockState /\ due \in [Tasks -> Nat] /\ OnTime(ClockNow, due)
    BY <1>1, ClockStateNow DEF LocalsTyped, Clocked
  <2>2. \A u \in SleepingIn(ClockNow) : due'[u] = due[u]
    BY <1>2, ClockNowIs
  <2> QED
    BY <2>1, <2>2, StillOnTime
<1>4. OnTime(ClockNow, due)'
  BY <1>1, <1>3
<1>5. ASSUME NEW u \in Tasks, pc'[u] \in {"asleep", "delayed"}, u \notin Sleeping'
      PROVE  due'[u] <= Now'
  <2>1. u # t
    BY <1>5
  <2>2. pc'[u] = pc[u] /\ due'[u] = due[u]
    BY <2>1 DEF Own
  <2> QED
    BY <2>2, <1>1, <1>5 DEF Clocked
<1>6. Sorted(pxDelayedTaskList)' /\ Sorted(pxOverflowDelayedTaskList)'
  BY DEF Clocked, lists, Sorted
<1> QED
  BY <1>4, <1>5, <1>6 DEF Clocked

(* What the invariant says of the task that runs. *)
OwnPlaced(t) ==
  /\ pc[t] \in {"user", "check", "expired", "last", "delay"} => t \in Ready
  /\ pc[t] \in {"delay", "asleep", "delayed"} => call[t].op = "delay"
  /\ pc[t] \in {"try", "check", "resume", "expired", "last"} =>
       call[t].op \in {"send", "receive"}

(* A quiet step keeps Placed if its task is where its pc says. *)
LEMMA QuietPlaced ==
  ASSUME TypeOK, Placed, UNCHANGED <<clock, lists>>, NEW t \in Tasks, Own(t),
         OwnPlaced(t)', suspender = "none", xPendedTicks' = xPendedTicks,
         suspender' = IF pc'[t] \in {"resume", "expired", "asleep"} THEN t ELSE "none"
  PROVE  Placed'
<1>1. Ready' = Ready /\ "none" \notin Tasks
  BY QuietSets, KernelAssumption
<1>2. xPendedTicks' = 0
  BY DEF Placed
<1>3. ASSUME NEW u \in Tasks, u # t
      PROVE  /\ pc'[u] \in {"user", "check", "expired", "last", "delay"} => u \in Ready'
             /\ suspender' = u <=> pc'[u] \in {"resume", "expired", "asleep"}
             /\ pc'[u] \in {"delay", "asleep", "delayed"} => call'[u].op = "delay"
             /\ pc'[u] \in {"try", "check", "resume", "expired", "last"} =>
                  call'[u].op \in {"send", "receive"}
  <2>1. pc'[u] = pc[u] /\ call'[u] = call[u]
    BY <1>3 DEF Own
  <2>2. pc[u] \notin {"resume", "expired", "asleep"}
    BY <1>1 DEF Placed
  <2>3. suspender' # u
    BY <1>1, <1>3
  <2> QED
    BY <1>1, <2>1, <2>2, <2>3 DEF Placed
<1>4. suspender' = t <=> pc'[t] \in {"resume", "expired", "asleep"}
  BY <1>1
<1> QED
  BY <1>2, <1>3, <1>4 DEF Placed, OwnPlaced

(* A ready task that touches neither the lists nor the queues. *)
LEMMA Quiet ==
  ASSUME IInv, UNCHANGED <<clock, lists, queue, xPendedTicks>>, NEW t \in Ready, Own(t),
         pc[t] = "try" => StillBlocked(t), pc'[t] \notin {"asleep", "delayed"},
         suspender = "none",
         suspender' = IF pc'[t] \in {"resume", "expired", "asleep"} THEN t ELSE "none",
         LocalsTyped', OwnPlaced(t)',
         IF InQueueCall(t)' THEN TimedCall(t)' ELSE ~xEntryTimeSet'[t]
  PROVE  IInv'
<1>0. t \in Tasks /\ TypeOK /\ Placed /\ EventLists /\ Served /\ Ring /\ Timed /\ Clocked
  BY TypeParts, ListsFacts DEF IInv
<1>1. TypeOK'
  <2>1. QueuesTyped'
    BY <1>0, TypeParts DEF QueuesTyped
  <2>2. ListsTyped'
    <3>1. ListsTyped /\ Sleeping' = Sleeping
      BY <1>0, TypeParts, QuietSets
    <3> QED
      BY <3>1, <1>0 DEF ListsTyped, clock, lists
  <2> QED
    BY <2>1, <2>2, TypePartsNext
<1>2. Placed'
  BY <1>0, QuietPlaced
<1>3. EventLists' /\ Served' /\ Ring' /\ Clocked'
  BY <1>0, QuietEventLists, QuietServed, QuietRing, QuietClocked
<1>4. Timed'
  <2>1. Now' = Now
    BY QuietSets
  <2>2. \A u \in Tasks \ {t} : IF InQueueCall(u)' THEN TimedCall(u)' ELSE ~xEntryTimeSet'[u]
    BY <1>0, <2>1, OthersTimed
  <2> QED
    BY <2>2 DEF Timed
<1> QED
  BY <1>1, <1>2, <1>3, <1>4 DEF IInv

-----------------------------------------------------------------------------
(* The time-out arithmetic. *)

(* More turns of the count are more time. *)
LEMMA TurnsOrdered ==
  ASSUME NEW T \in Nat, NEW a \in Nat, NEW b \in Nat, a < b
  PROVE  a * T + T <= b * T /\ a * T \in Nat /\ b * T \in Nat
<1>1. PICK c \in Nat : b = a + 1 + c
  <2>1. b - a - 1 \in Nat /\ b = a + 1 + (b - a - 1)
    OBVIOUS
  <2> QED
    BY <2>1
<1>2. b * T = a * T + T + c * T
  BY <1>1
<1>3. c * T \in Nat /\ a * T \in Nat /\ b * T \in Nat
  OBVIOUS
<1> QED
  BY <1>2, <1>3

(* From e = O * T + v to n = N * T + k at most one turn of the count has    *)
(* passed.  Then the test of xTaskCheckForTimeOut finds out whether it was  *)
(* a full turn, and if not the unsigned difference is the time that passed. *)
LEMMA OneTurn ==
  ASSUME NEW T \in Nat, NEW N \in Nat, NEW O \in Nat, NEW k \in Nat, NEW v \in Nat,
         k < T, v < T, O * T + v <= N * T + k, N * T + k <= O * T + v + T
  PROVE  /\ N # O /\ k >= v => N * T + k = O * T + v + T
         /\ ~(N # O /\ k >= v) => /\ (k - v) % T = (N * T + k) - (O * T + v)
                                  /\ (N * T + k) - (O * T + v) < T
<1> DEFINE x == N * T
           y == O * T
<1>0. x \in Nat /\ y \in Nat
  OBVIOUS
<1>1. CASE N = O
  <2>1. x = y
    BY <1>1
  <2>2. k - v \in Nat /\ k - v < T
    <3> HIDE DEF x, y
    <3>1. y + v <= x + k
      BY DEF x, y
    <3> QED
      BY <3>1, <2>1, <1>0
  <2>3. (k - v) % T = k - v
    BY <2>2
  <2>4. (x + k) - (y + v) = k - v
    <3> HIDE DEF x, y
    <3> QED
      BY <2>1, <1>0
  <2> QED
    BY <1>1, <2>2, <2>3, <2>4
<1>2. CASE N = O + 1
  <2>1. x = y + T
    BY <1>2
  <2>2. x + k <= y + v + T
    OBVIOUS
  <2> HIDE DEF x, y
  <2>3. CASE k >= v
    <3>1. x + k = y + v + T
      BY <2>1, <2>2, <2>3, <1>0
    <3> QED
      BY <3>1, <2>3, <1>2 DEF x, y
  <2>4. CASE k < v
    <3>1. (k - v) % T = k - v + T
      BY <2>4
    <3>2. (x + k) - (y + v) = k - v + T /\ k - v + T < T
      BY <2>1, <2>4, <1>0
    <3> QED
      BY <3>1, <3>2, <2>4 DEF x, y
  <2> QED
    BY <2>3, <2>4
<1>3. CASE N > O + 1
  <2>1. (O + 1) * T + T <= x /\ (O + 1) * T = y + T
    BY <1>3, TurnsOrdered
  <2>2. x + k <= y + v + T
    OBVIOUS
  <2> HIDE DEF x, y
  <2> QED
    BY <2>1, <2>2, <1>0
<1>4. CASE N < O
  <2>1. x + T <= y
    BY <1>4, TurnsOrdered
  <2>2. y + v <= x + k
    OBVIOUS
  <2> HIDE DEF x, y
  <2> QED
    BY <2>1, <2>2, <1>0
<1> QED
  BY <1>1, <1>2, <1>3, <1>4

(* xTaskCheckForTimeOut is right within a turn of the count: it reports a   *)
(* time-out exactly when the time is over, and the time left otherwise.     *)
LEMMA TimeOutRight ==
  ASSUME TypeOK, NEW t \in Tasks, TimeKnown(t), xTicksToWait[t] # 0,
         xTicksToWait[t] # portMAX_DELAY, xPendedTicks = 0
  PROVE  /\ TimedOut(t) => due[t] <= Now
         /\ ~TimedOut(t) => /\ TimeLeft(t) \in 1..portMAX_DELAY
                            /\ TimeLeft(t) # portMAX_DELAY
                            /\ due[t] = Now + TimeLeft(t)
<1> DEFINE O == xTimeOut[t].xOverflowCount
           v == xTimeOut[t].xTimeOnEntering
           w == xTicksToWait[t]
<1>1. ListsTyped /\ LocalsTyped
  BY TypeParts
<1>2. /\ xTickCount \in Nat /\ xTickCount < Ticks /\ xNumOfOverflows \in Nat
      /\ Ticks \in Nat /\ portMAX_DELAY = Ticks - 1 /\ Now \in Nat
  BY <1>1, MaxDelayIs, ListsFacts DEF ListsTyped
<1>3. O \in Nat /\ v \in Nat /\ v < Ticks /\ w \in Nat /\ w < Ticks - 1 /\ w > 0
  <2>1. xTimeOut[t] \in [xOverflowCount: Nat, xTimeOnEntering: 0..portMAX_DELAY]
    BY <1>1 DEF LocalsTyped
  <2>2. w \in 0..portMAX_DELAY
    BY <1>1 DEF LocalsTyped
  <2> QED
    BY <2>1, <2>2, <1>2
<1>4. Entry(t) = O * Ticks + v /\ Now = xNumOfOverflows * Ticks + xTickCount
  BY DEF Entry, Now
<1>5. Entry(t) <= Now /\ Now <= Entry(t) + Ticks /\ due[t] = Entry(t) + w
  BY <1>2 DEF TimeKnown
<1>6. Entry(t) \in Nat
  <2>1. O * Ticks \in Nat
    BY <1>2, <1>3
  <2> QED
    BY <2>1, <1>3, <1>4
<1>7. /\ Wrapped(t) => Now = Entry(t) + Ticks
      /\ ~Wrapped(t) => Elapsed(t) = Now - Entry(t) /\ Now - Entry(t) < Ticks
  <2> HIDE DEF O, v
  <2>1. /\ xNumOfOverflows # O /\ xTickCount >= v => Now = Entry(t) + Ticks
        /\ ~(xNumOfOverflows # O /\ xTickCount >= v) =>
             (xTickCount - v) % Ticks = Now - Entry(t) /\ Now - Entry(t) < Ticks
    <3> DEFINE N == xNumOfOverflows
               k == xTickCount
    <3>1. O * Ticks + v <= N * Ticks + k /\ N * Ticks + k <= O * Ticks + v + Ticks
      BY <1>4, <1>5
    <3>2. N \in Nat /\ k \in Nat /\ k < Ticks /\ Ticks \in Nat /\ O \in Nat /\ v \in Nat /\ v < Ticks
      BY <1>2, <1>3
    <3> HIDE DEF N, k
    <3>3. /\ N # O /\ k >= v => N * Ticks + k = O * Ticks + v + Ticks
          /\ ~(N # O /\ k >= v) =>
               /\ (k - v) % Ticks = (N * Ticks + k) - (O * Ticks + v)
               /\ (N * Ticks + k) - (O * Ticks + v) < Ticks
      BY <3>1, <3>2, OneTurn
    <3> QED
      BY <3>3, <1>4 DEF N, k
  <2> QED
    BY <2>1 DEF Wrapped, Elapsed, O, v
<1> HIDE DEF O, v
<1>8. TimedOut(t) <=> Wrapped(t) \/ Elapsed(t) >= w
  BY DEF TimedOut
<1>9. TimeLeft(t) = w - Elapsed(t)
  BY DEF TimeLeft
<1> HIDE DEF w
<1>10. CASE Wrapped(t)
  BY <1>10, <1>2, <1>3, <1>5, <1>6, <1>7, <1>8
<1>11. CASE ~Wrapped(t)
  <2>1. Elapsed(t) \in Nat
    BY <1>11, <1>2, <1>5, <1>6, <1>7
  <2> QED
    BY <1>11, <2>1, <1>2, <1>3, <1>5, <1>6, <1>7, <1>8, <1>9
<1> QED
  BY <1>10, <1>11

-----------------------------------------------------------------------------
(* The quiet actions. *)

(* The locals after a return. *)
LEMMA ReturnIs ==
  ASSUME LocalsTyped, NEW t \in Tasks, Return(t)
  PROVE  /\ LocalsTyped' /\ Own(t) /\ pc'[t] = "user"
         /\ ~InQueueCall(t)' /\ ~xEntryTimeSet'[t]
<1>1. pc'[t] = "user" /\ ~xEntryTimeSet'[t] /\ call'[t] = [op |-> "none"]
  BY DEF LocalsTyped, Return, At
<1>2. Own(t)
  BY DEF LocalsTyped, Return, At, Own
<1>3. 0 \in 0..portMAX_DELAY
  BY MaxDelayIs
<1>4. /\ pc' \in [Tasks -> {"user", "try", "check", "resume", "expired", "last",
                       "delay", "asleep", "delayed"}]
      /\ DOMAIN call' = Tasks
      /\ xEntryTimeSet' \in [Tasks -> BOOLEAN]
      /\ xTicksToWait' \in [Tasks -> 0..portMAX_DELAY]
      /\ due' \in [Tasks -> Nat]
  BY <1>3 DEF LocalsTyped, Return, At
<1>5. xTimeOut' \in [Tasks -> [xOverflowCount: Nat, xTimeOnEntering: 0..portMAX_DELAY]]
  BY <1>3 DEF LocalsTyped, Return
<1>6. \A u \in Tasks :
       IF pc'[u] = "user" THEN call'[u] = [op |-> "none"] ELSE call'[u] \in Calls[u]
  BY <1>1, <1>2 DEF Own, LocalsTyped
<1> QED
  BY <1>1, <1>2, <1>4, <1>5, <1>6 DEF LocalsTyped, InQueueCall

(* A call that returns without having touched the queue. *)
LEMMA ReturnKeeps ==
  ASSUME IInv, NEW t \in Tasks, Runs(t), pc[t] \notin {"resume", "expired", "asleep"},
         pc[t] = "try" => StillBlocked(t), Return(t),
         UNCHANGED <<clock, lists, queue, xPendedTicks, suspender>>
  PROVE  IInv'
<1>1. suspender = "none" /\ t \in Ready
  BY RunsAlone DEF IInv
<1>2. LocalsTyped' /\ Own(t) /\ pc'[t] = "user" /\ ~InQueueCall(t)' /\ ~xEntryTimeSet'[t]
  BY ReturnIs, TypeParts DEF IInv
<1>3. OwnPlaced(t)'
  BY <1>1, <1>2, QuietSets DEF OwnPlaced
<1> QED
  BY <1>1, <1>2, <1>3, Quiet

(* A call keeps the invariant. *)
LEMMA CallKeeps ==
  ASSUME IInv, NEW t \in Tasks, NEW c \in Calls[t], Call(t, c)
  PROVE  IInv'
<1>0. TypeOK /\ Placed /\ Timed /\ LocalsTyped /\ pc[t] = "user" /\ Runs(t)
  BY TypeParts DEF IInv, Call
<1>1. suspender = "none" /\ t \in Ready
  BY <1>0, RunsAlone
<1>2. c.wait \in 0..portMAX_DELAY /\ c.op \in {"send", "receive", "delay"}
  BY CallFields
<1>3. /\ pc'[t] = IF c.op = "delay" THEN "delay" ELSE "try"
      /\ call'[t] = c /\ xTicksToWait'[t] = c.wait
      /\ xEntryTimeSet' = xEntryTimeSet /\ ~xEntryTimeSet[t]
  BY <1>0 DEF Call, At, LocalsTyped, Timed, InQueueCall
<1>4. Own(t)
  BY <1>0 DEF Call, At, Own, LocalsTyped
<1>5. LocalsTyped'
  <2>1. /\ pc' \in [Tasks -> {"user", "try", "check", "resume", "expired", "last",
                       "delay", "asleep", "delayed"}]
        /\ DOMAIN call' = Tasks
        /\ xTicksToWait' \in [Tasks -> 0..portMAX_DELAY]
        /\ UNCHANGED <<xEntryTimeSet, xTimeOut, due>>
    BY <1>0, <1>2 DEF Call, At, LocalsTyped
  <2>2. \A u \in Tasks :
         IF pc'[u] = "user" THEN call'[u] = [op |-> "none"] ELSE call'[u] \in Calls[u]
    BY <1>0, <1>3, <1>4 DEF Own, LocalsTyped
  <2> QED
    BY <1>0, <2>1, <2>2 DEF LocalsTyped
<1>6. UNCHANGED <<clock, lists, queue, xPendedTicks>> /\ suspender' = "none"
  BY <1>1 DEF Call
<1>7. OwnPlaced(t)'
  BY <1>1, <1>2, <1>3, <1>6, QuietSets DEF OwnPlaced
<1>8. IF InQueueCall(t)' THEN TimedCall(t)' ELSE ~xEntryTimeSet'[t]
  BY <1>2, <1>3 DEF InQueueCall, TimedCall
<1> QED
  BY <1>0, <1>1, <1>3, <1>4, <1>5, <1>6, <1>7, <1>8, Quiet

(* The queue is full (empty) and the call may wait. *)
LEMMA BlockKeeps ==
  ASSUME IInv, NEW t \in Tasks, Runs(t), pc[t] = "try", StillBlocked(t), xTicksToWait[t] # 0,
         At(t, "check"),
         IF ~xEntryTimeSet[t]
         THEN /\ xEntryTimeSet' = [xEntryTimeSet EXCEPT ![t] = TRUE]
              /\ vTaskInternalSetTimeOutState(t)
              /\ due' = [due EXCEPT ![t] = Now + xTicksToWait[t]]
         ELSE UNCHANGED <<xEntryTimeSet, xTimeOut, due>>,
         UNCHANGED <<clock, lists, queue, xPendedTicks, suspender, call, xTicksToWait>>
  PROVE  IInv'
<1>0. TypeOK /\ Placed /\ Timed /\ LocalsTyped /\ ListsTyped
  BY TypeParts DEF IInv
<1>1. suspender = "none" /\ t \in Ready /\ xPendedTicks = 0
  BY <1>0, RunsAlone
<1>2. Now' = Now /\ Ready' = Ready /\ Now \in Nat
  BY <1>0, QuietSets, ListsFacts
<1>3. /\ pc'[t] = "check" /\ call'[t] = call[t] /\ xTicksToWait'[t] = xTicksToWait[t]
      /\ xEntryTimeSet'[t]
  BY <1>0 DEF At, LocalsTyped
<1>4. Own(t)
  BY <1>0 DEF At, Own, LocalsTyped, vTaskInternalSetTimeOutState
<1>5. LocalsTyped'
  <2>1. /\ pc' \in [Tasks -> {"user", "try", "check", "resume", "expired", "last",
                       "delay", "asleep", "delayed"}]
        /\ xEntryTimeSet' \in [Tasks -> BOOLEAN]
    BY <1>0 DEF At, LocalsTyped
  <2>2. xTimeOut' \in [Tasks -> [xOverflowCount: Nat, xTimeOnEntering: 0..portMAX_DELAY]]
    <3>1. [xOverflowCount |-> xNumOfOverflows, xTimeOnEntering |-> xTickCount]
            \in [xOverflowCount: Nat, xTimeOnEntering: 0..portMAX_DELAY]
      BY <1>0 DEF ListsTyped
    <3>2. xTimeOut \in [Tasks -> [xOverflowCount: Nat, xTimeOnEntering: 0..portMAX_DELAY]]
      BY <1>0 DEF LocalsTyped
    <3>3. xTimeOut' = xTimeOut \/ vTaskInternalSetTimeOutState(t)
      OBVIOUS
    <3> QED
      BY <3>1, <3>2, <3>3 DEF vTaskInternalSetTimeOutState
  <2>3. due' \in [Tasks -> Nat]
    <3>1. Now + xTicksToWait[t] \in Nat
      <4>1. xTicksToWait[t] \in Nat
        BY <1>0, MaxDelayIs DEF LocalsTyped
      <4> QED
        BY <4>1, <1>2
    <3> QED
      BY <1>0, <3>1 DEF LocalsTyped
  <2>4. \A u \in Tasks :
         IF pc'[u] = "user" THEN call'[u] = [op |-> "none"] ELSE call'[u] \in Calls[u]
    BY <1>0, <1>3, <1>4 DEF Own, LocalsTyped
  <2> QED
    BY <1>0, <2>1, <2>2, <2>3, <2>4 DEF LocalsTyped
<1>6. InQueueCall(t) /\ InQueueCall(t)' /\ TimedCall(t)
  BY <1>0, <1>3 DEF InQueueCall, Placed, Timed
<1>7. OwnPlaced(t)'
  BY <1>0, <1>1, <1>2, <1>3 DEF OwnPlaced, Placed
<1>8. ASSUME call[t].wait # portMAX_DELAY PROVE TimeKnown(t)'
  <2>1. CASE xEntryTimeSet[t]
    <3>1. TimeKnown(t) /\ xTimeOut' = xTimeOut /\ due' = due
      BY <2>1, <1>6, <1>8 DEF TimedCall
    <3> QED
      BY <3>1, <1>2, <1>3 DEF TimeKnown, Entry
  <2>2. CASE ~xEntryTimeSet[t]
    <3>1. /\ xTimeOut'[t] = [xOverflowCount |-> xNumOfOverflows, xTimeOnEntering |-> xTickCount]
          /\ due'[t] = Now + xTicksToWait[t]
      BY <2>2, <1>0 DEF LocalsTyped, vTaskInternalSetTimeOutState
    <3>2. Entry(t)' = Now
      BY <3>1 DEF Entry, Now
    <3>3. Ticks \in Nat /\ Ticks > 1 /\ xPendedTicks' = 0
      BY MaxDelayIs, <1>1
    <3> QED
      BY <3>1, <3>2, <3>3, <1>2, <1>3 DEF TimeKnown
  <2> QED
    BY <2>1, <2>2
<1>9. TimedCall(t)'
  BY <1>3, <1>6, <1>8 DEF TimedCall
<1>10. suspender' = "none" /\ UNCHANGED <<clock, lists, queue, xPendedTicks>>
  BY <1>1
<1> QED
  BY <1>1, <1>3, <1>4, <1>5, <1>6, <1>7, <1>9, <1>10, Quiet

(* The locals after Check, whatever it decides; and what the invariant says *)
(* of them.                                                                 *)
LEMMA CheckLocals ==
  ASSUME IInv, NEW t \in Tasks, Runs(t), pc[t] = "check", Check(t)
  PROVE  /\ LocalsTyped' /\ Own(t) /\ UNCHANGED <<clock, xPendedTicks, call, due, xEntryTimeSet>>
         /\ suspender = "none" /\ suspender' = t /\ t \in Ready /\ xPendedTicks = 0
         /\ pc'[t] = IF TimedOut(t) THEN "expired" ELSE "resume"
         /\ InQueueCall(t) /\ InQueueCall(t)' /\ TimedCall(t)'
         /\ call[t].op \in {"send", "receive"} /\ call[t].q \in Queues
         /\ ~TimedOut(t) => /\ TimeLeft(t) \in 1..portMAX_DELAY
                            /\ TimeLeft(t) # portMAX_DELAY => due[t] = Now + TimeLeft(t)
<1>0. TypeOK /\ Placed /\ Timed /\ LocalsTyped /\ ListsTyped
  BY TypeParts DEF IInv
<1>1. suspender = "none" /\ t \in Ready /\ xPendedTicks = 0
  BY <1>0, RunsAlone
<1>2. UNCHANGED <<clock, xPendedTicks, call, due, xEntryTimeSet>> /\ suspender' = t
  BY DEF Check
<1>3. Now' = Now /\ Now \in Nat
  BY <1>0, <1>2, ListsFacts DEF Now, clock
<1>4. /\ InQueueCall(t) /\ TimedCall(t) /\ call[t].op \in {"send", "receive"} /\ call[t].q \in Queues
      /\ xEntryTimeSet[t] /\ xTicksToWait[t] # 0
  <2>1. InQueueCall(t) /\ TimedCall(t) /\ call[t].op \in {"send", "receive"} /\ call[t] \in Calls[t]
    BY <1>0 DEF Placed, Timed, InQueueCall, LocalsTyped
  <2> QED
    BY <1>0, <2>1, CallFields DEF TimedCall, LocalsTyped
<1>5. ASSUME ~TimedOut(t)
      PROVE  /\ TimeLeft(t) \in 1..portMAX_DELAY
             /\ TimeLeft(t) = portMAX_DELAY <=> xTicksToWait[t] = portMAX_DELAY
             /\ TimeLeft(t) # portMAX_DELAY => due[t] = Now + TimeLeft(t)
  <2>1. CASE xTicksToWait[t] = portMAX_DELAY
    BY <2>1, MaxDelayIs DEF TimeLeft
  <2>2. CASE xTicksToWait[t] # portMAX_DELAY
    <3>1. TimeKnown(t)
      BY <2>2, <1>4 DEF TimedCall
    <3> QED
      BY <3>1, <2>2, <1>0, <1>1, <1>4, <1>5, TimeOutRight
  <2> QED
    BY <2>1, <2>2
<1>6. /\ pc'[t] = IF TimedOut(t) THEN "expired" ELSE "resume"
      /\ xTicksToWait'[t] = IF TimedOut(t) THEN 0 ELSE TimeLeft(t)
  BY <1>0 DEF Check, At, LocalsTyped
<1>7. Own(t)
  <2> SUFFICES ASSUME NEW u \in Tasks \ {t}
               PROVE  /\ pc'[u] = pc[u] /\ xTicksToWait'[u] = xTicksToWait[u]
                      /\ xTimeOut'[u] = xTimeOut[u]
    BY <1>2, Zenon DEF Own
  <2>1. pc'[u] = pc[u] /\ xTicksToWait'[u] = xTicksToWait[u]
    BY <1>0 DEF Check, At, LocalsTyped
  <2>2. xTimeOut'[u] = xTimeOut[u]
    BY <1>0 DEF Check, LocalsTyped, Restarted, vTaskInternalSetTimeOutState
  <2> QED
    BY <2>1, <2>2
<1>8. LocalsTyped'
  <2>1. pc' \in [Tasks -> {"user", "try", "check", "resume", "expired", "last",
                       "delay", "asleep", "delayed"}]
    BY <1>0 DEF Check, At, LocalsTyped
  <2>2. xTimeOut' \in [Tasks -> [xOverflowCount: Nat, xTimeOnEntering: 0..portMAX_DELAY]]
    <3>1. [xOverflowCount |-> xNumOfOverflows, xTimeOnEntering |-> xTickCount]
            \in [xOverflowCount: Nat, xTimeOnEntering: 0..portMAX_DELAY]
      BY <1>0 DEF ListsTyped
    <3>2. xTimeOut \in [Tasks -> [xOverflowCount: Nat, xTimeOnEntering: 0..portMAX_DELAY]]
      BY <1>0 DEF LocalsTyped
    <3>3. xTimeOut' = xTimeOut \/ vTaskInternalSetTimeOutState(t)
      BY DEF Check, Restarted
    <3> QED
      BY <3>1, <3>2, <3>3 DEF vTaskInternalSetTimeOutState
  <2>3. xTicksToWait' \in [Tasks -> 0..portMAX_DELAY]
    <3>1. (IF TimedOut(t) THEN 0 ELSE TimeLeft(t)) \in 0..portMAX_DELAY
      BY <1>5, MaxDelayIs
    <3>2. xTicksToWait' = [xTicksToWait EXCEPT ![t] = IF TimedOut(t) THEN 0 ELSE TimeLeft(t)]
      BY DEF Check
    <3> QED
      BY <1>0, <3>1, <3>2 DEF LocalsTyped
  <2>4. \A u \in Tasks :
         IF pc'[u] = "user" THEN call'[u] = [op |-> "none"] ELSE call'[u] \in Calls[u]
    BY <1>0, <1>2, <1>6, <1>7 DEF Own, LocalsTyped
  <2> QED
    BY <1>0, <1>2, <2>1, <2>2, <2>3, <2>4 DEF LocalsTyped
<1>9. InQueueCall(t)'
  BY <1>2, <1>4, <1>6 DEF InQueueCall
<1>10. ASSUME call[t].wait # portMAX_DELAY PROVE TimeKnown(t)'
  <2>0. TimeKnown(t) /\ xTicksToWait[t] # portMAX_DELAY
    BY <1>4, <1>10 DEF TimedCall
  <2>1. CASE TimedOut(t)
    <3>1. due[t] <= Now
      BY <2>0, <2>1, <1>0, <1>1, <1>4, TimeOutRight
    <3>2. xTimeOut' = xTimeOut
      BY <2>1 DEF Check
    <3> QED
      BY <3>1, <3>2, <2>0, <2>1, <1>2, <1>3, <1>6 DEF TimeKnown, Entry
  <2>2. CASE ~TimedOut(t)
    <3>1. xTimeOut'[t] = [xOverflowCount |-> xNumOfOverflows, xTimeOnEntering |-> xTickCount]
      BY <2>0, <2>2, <1>0 DEF Check, Restarted, LocalsTyped, vTaskInternalSetTimeOutState
    <3>2. Entry(t)' = Now
      BY <3>1 DEF Entry, Now
    <3>3. due[t] = Now + TimeLeft(t) /\ TimeLeft(t) \in Nat /\ TimeLeft(t) # 0
      BY <2>0, <2>2, <1>5, MaxDelayIs
    <3>4. Ticks \in Nat /\ xPendedTicks' = 0
      BY <1>1, <1>2, MaxDelayIs
    <3> QED
      BY <3>2, <3>3, <3>4, <2>2, <1>2, <1>3, <1>6 DEF TimeKnown
  <2> QED
    BY <2>1, <2>2
<1>11. TimedCall(t)'
  <2>1. call'[t] = call[t] /\ xEntryTimeSet'[t]
    BY <1>2, <1>4
  <2>2. call[t].wait = portMAX_DELAY <=> xTicksToWait[t] = portMAX_DELAY
    BY <1>4 DEF TimedCall
  <2>3. TimedOut(t) => xTicksToWait[t] # portMAX_DELAY
    BY DEF TimedOut
  <2>4. xTicksToWait'[t] = portMAX_DELAY <=> xTicksToWait[t] = portMAX_DELAY
    BY <1>5, <1>6, <2>3, MaxDelayIs
  <2> QED
    BY <2>1, <2>2, <2>4, <1>6, <1>10 DEF TimedCall
<1> QED
  BY <1>1, <1>2, <1>4, <1>5, <1>6, <1>7, <1>8, <1>9, <1>11

(* The time is over, or the queue is not full (empty) any more. *)
LEMMA CheckQuietKeeps ==
  ASSUME IInv, NEW t \in Tasks, Check(t), TimedOut(t) \/ ~StillBlocked(t)
  PROVE  IInv'
<1>0. Runs(t) /\ pc[t] = "check"
  BY DEF Check
<1>1. /\ LocalsTyped' /\ Own(t) /\ UNCHANGED <<clock, xPendedTicks, call, due, xEntryTimeSet>>
      /\ suspender = "none" /\ suspender' = t /\ t \in Ready
      /\ pc'[t] = IF TimedOut(t) THEN "expired" ELSE "resume"
      /\ InQueueCall(t)' /\ TimedCall(t)'
      /\ call[t].op \in {"send", "receive"}
  BY <1>0, CheckLocals
<1>2. UNCHANGED <<queue, lists>>
  BY DEF Check
<1>3. OwnPlaced(t)'
  BY <1>1, <1>2, QuietSets DEF OwnPlaced
<1>4. pc'[t] \in {"resume", "expired", "asleep"} /\ pc'[t] \notin {"asleep", "delayed"}
  BY <1>1
<1> QED
  BY <1>0, <1>1, <1>2, <1>3, <1>4, Quiet

(* A call that has timed out keeps it. *)
LEMMA ExpireKeeps ==
  ASSUME IInv, NEW t \in Tasks, Expire(t)
  PROVE  IInv'
<1>0. /\ TypeOK /\ Placed /\ Timed /\ LocalsTyped
      /\ Runs(t) /\ pc[t] = "last" /\ UNCHANGED <<clock, lists, xPendedTicks, suspender, queue>>
  BY TypeParts DEF IInv, Expire
<1>1. suspender = "none" /\ t \in Ready
  BY <1>0, RunsAlone
<1>2. CASE Return(t)
  BY <1>0, <1>2, ReturnKeeps
<1>3. CASE At(t, "try") /\ UNCHANGED <<call, xTicksToWait, xEntryTimeSet, xTimeOut, due>>
  <2>1. pc'[t] = "try" /\ Own(t)
    BY <1>0, <1>3 DEF At, Own, LocalsTyped
  <2>2. LocalsTyped'
    <3>1. pc' \in [Tasks -> {"user", "try", "check", "resume", "expired", "last",
                       "delay", "asleep", "delayed"}]
      BY <1>0, <1>3 DEF At, LocalsTyped
    <3>2. \A u \in Tasks :
           IF pc'[u] = "user" THEN call'[u] = [op |-> "none"] ELSE call'[u] \in Calls[u]
      BY <1>0, <1>3, <2>1 DEF Own, LocalsTyped
    <3> QED
      BY <1>0, <1>3, <3>1, <3>2 DEF LocalsTyped
  <2>3. call[t].op \in {"send", "receive"} /\ InQueueCall(t) /\ InQueueCall(t)' /\ TimedCall(t)
    BY <1>0, <1>3, <2>1 DEF Placed, Timed, InQueueCall
  <2>4. OwnPlaced(t)'
    BY <1>3, <2>1, <2>3 DEF OwnPlaced
  <2>5. TimedCall(t)'
    <3>1. Now' = Now
      BY <1>0, QuietSets
    <3> QED
      BY <3>1, <1>0, <1>3, <2>1, <2>3 DEF TimedCall, TimeKnown, Entry
  <2> QED
    BY <1>0, <1>1, <2>1, <2>2, <2>3, <2>4, <2>5, Quiet
<1> QED
  BY <1>2, <1>3 DEF Expire

(* The end of a delay keeps it. *)
LEMMA DelayedKeeps ==
  ASSUME IInv, NEW t \in Tasks, Delayed(t)
  PROVE  IInv'
BY ReturnKeeps DEF Delayed

-----------------------------------------------------------------------------
(* Going to sleep. *)

(* A number below the modulus is its own remainder, one turn above it wraps *)
(* once.                                                                    *)
LEMMA ModSmall ==
  ASSUME NEW T \in Nat, NEW x \in Nat, x < 2 * T
  PROVE  (x < T => x % T = x) /\ (~(x < T) => x % T = x - T)
OBVIOUS

(* prvAddCurrentTaskToDelayedList puts the task on the one list from which  *)
(* it will be woken when it is due.                                         *)
LEMMA AddIs ==
  ASSUME ListsTyped, LocalsTyped, Clocked, NEW t \in Ready, NEW w \in 1..portMAX_DELAY,
         NEW forever \in BOOLEAN, prvAddCurrentTaskToDelayedList(t, w, forever),
         UNCHANGED clock, NEW d \in [Tasks -> Nat],
         ~(w = portMAX_DELAY /\ forever) => d[t] = Now + w,
         \A u \in Tasks \ {t} : d[u] = due[u]
  PROVE  /\ xNextTaskUnblockTime' \in 0..portMAX_DELAY
         /\ pxDelayedTaskList' \in Seq(ListItem(0..portMAX_DELAY))
         /\ pxOverflowDelayedTaskList' \in Seq(ListItem(0..portMAX_DELAY))
         /\ Sorted(pxDelayedTaskList') /\ Sorted(pxOverflowDelayedTaskList')
         /\ xSuspendedTaskList' \subseteq Tasks \ Sleeping'
         /\ Sleeping \subseteq Sleeping'
         /\ ~(w = portMAX_DELAY /\ forever) => t \in Sleeping'
         /\ Ready' = Ready \ {t}
         /\ OnTime(ClockNow', d)
<1>0. /\ Sleeping \subseteq Tasks /\ t \in Tasks /\ t \notin Sleeping /\ t \notin xSuspendedTaskList
      /\ xSuspendedTaskList \subseteq Tasks \ Sleeping
      /\ xTickCount \in Nat /\ xNumOfOverflows \in Nat /\ xTickCount < Ticks
      /\ Ticks \in Nat /\ Ticks > 1 /\ portMAX_DELAY = Ticks - 1
      /\ xNextTaskUnblockTime \in MaxDelay /\ MaxDelay = 0..portMAX_DELAY
      /\ MaxDelay \in SUBSET Int
      /\ pxDelayedTaskList \in Seq(ListItem(MaxDelay))
      /\ pxOverflowDelayedTaskList \in Seq(ListItem(MaxDelay))
      /\ Sorted(pxDelayedTaskList) /\ Sorted(pxOverflowDelayedTaskList)
  BY ListsFacts, MaxDelayIs DEF ListsTyped, Clocked, Ready, MaxDelay
<1>1. ClockNow \in ClockState /\ due \in [Tasks -> Nat] /\ OnTime(ClockNow, due)
  BY ClockStateNow DEF LocalsTyped, Clocked
<1>2. OnTime(ClockNow, d)
  <2>1. \A u \in SleepingIn(ClockNow) : d[u] = due[u]
    BY <1>0, ClockNowIs
  <2> QED
    BY <1>1, <2>1, StillOnTime
<1>3. CASE w = portMAX_DELAY /\ forever
  <2>1. /\ xSuspendedTaskList' = xSuspendedTaskList \cup {t}
        /\ UNCHANGED <<xNextTaskUnblockTime, pxDelayedTaskList, pxOverflowDelayedTaskList>>
    BY <1>3 DEF prvAddCurrentTaskToDelayedList
  <2>2. ClockNow' = ClockNow /\ Sleeping' = Sleeping
    BY <2>1 DEF ClockNow, Sleeping, clock
  <2>3. Ready' = Ready \ {t}
    BY <2>1, <2>2 DEF Ready
  <2> QED
    BY <1>0, <1>2, <1>3, <2>1, <2>2, <2>3
<1>4. CASE ~(w = portMAX_DELAY /\ forever)
  <2> DEFINE at == TimeToWake(w)
             x == Item(at, t)
  <2>0. w \in Nat /\ w > 0 /\ w < Ticks
    BY <1>0
  <2>1. /\ at \in MaxDelay /\ at \in Nat
        /\ IF xTickCount + w < Ticks THEN at = xTickCount + w /\ ~BeyondWrap(at)
           ELSE at = xTickCount + w - Ticks /\ BeyondWrap(at)
    <3>1. CASE xTickCount + w < Ticks
      <4>1. (xTickCount + w) % Ticks = xTickCount + w
        <5>1. xTickCount + w \in Nat /\ xTickCount + w < 2 * Ticks /\ Ticks \in Nat
          BY <2>0, <1>0
        <5> QED
          BY <3>1, <5>1, ModSmall
      <4> QED
        BY <3>1, <4>1, <2>0, <1>0 DEF TimeToWake, BeyondWrap
    <3>2. CASE ~(xTickCount + w < Ticks)
      <4>1. (xTickCount + w) % Ticks = xTickCount + w - Ticks
        <5> DEFINE z == xTickCount + w
        <5>1. z \in Nat /\ z < 2 * Ticks /\ Ticks \in Nat /\ ~(z < Ticks)
          BY <3>2, <2>0, <1>0
        <5> HIDE DEF z
        <5>2. z % Ticks = z - Ticks
          BY <5>1, ModSmall
        <5> QED
          BY <1>0, <2>0, <5>2 DEF z
      <4> QED
        BY <3>2, <4>1, <2>0, <1>0 DEF TimeToWake, BeyondWrap
    <3> QED
      BY <3>1, <3>2
  <2>2. xSuspendedTaskList' = xSuspendedTaskList /\ d[t] = Now + w
    BY <1>4 DEF prvAddCurrentTaskToDelayedList
  <2>2a. /\ BeyondWrap(at) =>
              /\ pxOverflowDelayedTaskList' = vListInsert(pxOverflowDelayedTaskList, x)
              /\ UNCHANGED <<xNextTaskUnblockTime, pxDelayedTaskList>>
         /\ ~BeyondWrap(at) =>
              /\ pxDelayedTaskList' = vListInsert(pxDelayedTaskList, x)
              /\ xNextTaskUnblockTime' = (IF at < xNextTaskUnblockTime THEN at ELSE xNextTaskUnblockTime)
              /\ UNCHANGED pxOverflowDelayedTaskList
    BY <1>4 DEF prvAddCurrentTaskToDelayedList
  <2> HIDE DEF at
  <2>3. x \in ListItem(MaxDelay) /\ x.xItemValue = at /\ x.pvOwner = t
    BY <2>1, <1>0 DEF Item, ListItem
  <2> HIDE DEF x
  <2>4. CASE xTickCount + w < Ticks
    <3> DEFINE r == vListInsert(pxDelayedTaskList, x)
    <3>1. r \in Seq(ListItem(MaxDelay)) /\ Range(r) = Range(pxDelayedTaskList) \cup {x} /\ Sorted(r)
      BY <1>0, <2>3, InsertIs
    <3> HIDE DEF r
    <3>2. /\ pxDelayedTaskList' = r /\ UNCHANGED pxOverflowDelayedTaskList
          /\ xNextTaskUnblockTime' = (IF at < xNextTaskUnblockTime THEN at ELSE xNextTaskUnblockTime)
          /\ at = xTickCount + w
      BY <2>1, <2>2a, <2>4 DEF r
    <3>3. Sleeping' = Sleeping \cup {t}
      BY <3>1, <3>2, <2>3, OwnersOfRange DEF Sleeping
    <3>4. xNextTaskUnblockTime' \in MaxDelay
      BY <3>2, <2>1, <1>0
    <3>5. d[t] = xNumOfOverflows * Ticks + at
      <4>1. xNumOfOverflows * Ticks \in Nat
        BY <1>0
      <4>2. d[t] = (xNumOfOverflows * Ticks + xTickCount) + w
        BY <2>2 DEF Now
      <4> QED
        BY <4>1, <4>2, <3>2, <2>0, <1>0
    <3>6. OnTime(ClockNow', d)
      <4>1. /\ ClockNow.delayed = pxDelayedTaskList /\ ClockNow.later = pxOverflowDelayedTaskList
            /\ ClockNow.tick = xTickCount /\ ClockNow.over = xNumOfOverflows
            /\ ClockNow.next = xNextTaskUnblockTime
        BY DEF ClockNow
      <4>2. /\ ClockNow'.delayed = r /\ ClockNow'.later = pxOverflowDelayedTaskList
            /\ ClockNow'.tick = xTickCount /\ ClockNow'.over = xNumOfOverflows
            /\ ClockNow'.next = xNextTaskUnblockTime'
        BY <3>2 DEF ClockNow, clock
      <4>3. ASSUME NEW y \in Range(pxDelayedTaskList)
            PROVE  /\ y.xItemValue > xTickCount
                   /\ xNextTaskUnblockTime' <= y.xItemValue
                   /\ d[y.pvOwner] = xNumOfOverflows * Ticks + y.xItemValue
        <5>1. y.xItemValue \in Int
          <6>1. y \in ListItem(MaxDelay)
            BY <1>0 DEF Range
          <6> QED
            BY <6>1, <1>0 DEF ListItem
        <5>2. /\ y.xItemValue > xTickCount
              /\ xNextTaskUnblockTime <= y.xItemValue
              /\ d[y.pvOwner] = xNumOfOverflows * Ticks + y.xItemValue
          BY <1>2, <4>1 DEF OnTime
        <5> QED
          BY <5>1, <5>2, <3>2, <2>1, <1>0
      <4>4. /\ x.xItemValue > xTickCount
            /\ xNextTaskUnblockTime' <= x.xItemValue
            /\ d[x.pvOwner] = xNumOfOverflows * Ticks + x.xItemValue
        <5>1. at > xTickCount
          BY <3>2, <2>0, <1>0
        <5>2. xNextTaskUnblockTime \in Int
          BY <1>0
        <5>3. xNextTaskUnblockTime' <= at
          BY <3>2, <5>2, <2>1
        <5> QED
          BY <5>1, <5>3, <3>5, <2>3
      <4>5. \A y \in Range(pxOverflowDelayedTaskList) :
              d[y.pvOwner] = (xNumOfOverflows + 1) * Ticks + y.xItemValue
        BY <1>2, <4>1 DEF OnTime
      <4> QED
        BY <4>2, <4>3, <4>4, <4>5, <3>1 DEF OnTime
    <3>7. Ready' = Ready \ {t}
      BY <3>3, <2>2 DEF Ready
    <3> QED
      BY <3>1, <3>2, <3>3, <3>4, <3>6, <3>7, <2>2, <1>0
  <2>5. CASE ~(xTickCount + w < Ticks)
    <3> DEFINE r == vListInsert(pxOverflowDelayedTaskList, x)
    <3>1. r \in Seq(ListItem(MaxDelay)) /\ Range(r) = Range(pxOverflowDelayedTaskList) \cup {x} /\ Sorted(r)
      BY <1>0, <2>3, InsertIs
    <3> HIDE DEF r
    <3>2. /\ pxOverflowDelayedTaskList' = r /\ UNCHANGED <<xNextTaskUnblockTime, pxDelayedTaskList>>
          /\ at = xTickCount + w - Ticks
      BY <2>1, <2>2a, <2>5 DEF r
    <3>3. Sleeping' = Sleeping \cup {t}
      BY <3>1, <3>2, <2>3, OwnersOfRange DEF Sleeping
    <3>5. d[t] = (xNumOfOverflows + 1) * Ticks + at
      <4>1. xNumOfOverflows * Ticks \in Nat /\ (xNumOfOverflows + 1) * Ticks = xNumOfOverflows * Ticks + Ticks
        BY <1>0
      <4>2. d[t] = (xNumOfOverflows * Ticks + xTickCount) + w
        BY <2>2 DEF Now
      <4> QED
        BY <4>1, <4>2, <3>2, <2>0, <1>0
    <3>6. OnTime(ClockNow', d)
      <4>1. /\ ClockNow.delayed = pxDelayedTaskList /\ ClockNow.later = pxOverflowDelayedTaskList
            /\ ClockNow.tick = xTickCount /\ ClockNow.over = xNumOfOverflows
            /\ ClockNow.next = xNextTaskUnblockTime
        BY DEF ClockNow
      <4>2. /\ ClockNow'.delayed = pxDelayedTaskList /\ ClockNow'.later = r
            /\ ClockNow'.tick = xTickCount /\ ClockNow'.over = xNumOfOverflows
            /\ ClockNow'.next = xNextTaskUnblockTime
        BY <3>2 DEF ClockNow, clock
      <4>4. d[x.pvOwner] = (xNumOfOverflows + 1) * Ticks + x.xItemValue
        BY <3>5, <2>3
      <4>5. \A y \in Range(pxOverflowDelayedTaskList) :
              d[y.pvOwner] = (xNumOfOverflows + 1) * Ticks + y.xItemValue
        BY <1>2, <4>1 DEF OnTime
      <4> QED
        BY <1>2, <4>1, <4>2, <4>4, <4>5, <3>1 DEF OnTime
    <3>7. Ready' = Ready \ {t}
      BY <3>3, <2>2 DEF Ready
    <3> QED
      BY <3>1, <3>2, <3>3, <3>6, <3>7, <2>2, <1>0
  <2> QED
    BY <2>4, <2>5
<1> QED
  BY <1>3, <1>4

(* Waiting in the next state, of a list of this one. *)
WaitingNext(s, q, op) ==
  /\ Distinct(s)
  /\ \A x \in Range(s) : /\ x.pvOwner \notin Ready'
                         /\ pc'[x.pvOwner] \in {"try", "resume"}
                         /\ call'[x.pvOwner].op = op
                         /\ call'[x.pvOwner].q = q

(* EventLists after a step, list by list. *)
LEMMA EventListsNext ==
  ASSUME \A q \in Queues : /\ WaitingNext(queue'[q].xTasksWaitingToSend, q, "send")
                           /\ WaitingNext(queue'[q].xTasksWaitingToReceive, q, "receive")
  PROVE  EventLists'
BY DEF EventLists, Waiting, WaitingNext

(* An item is found by its owner. *)
LEMMA RangeOwners ==
  ASSUME NEW s \in Seq(ListItem(Int)), NEW x \in Range(s)
  PROVE  x \in ListItem(Int) /\ x.pvOwner \in Tasks /\ x.pvOwner \in Owners(s)
<1>1. x \in ListItem(Int)
  BY DEF Range
<1> QED
  BY <1>1, OwnersOfRange DEF ListItem

(* The queue is still full (empty): the task goes on the event list and to  *)
(* sleep.                                                                   *)
LEMMA CheckBlockedKeeps ==
  ASSUME IInv, NEW t \in Tasks, Check(t), ~TimedOut(t), StillBlocked(t)
  PROVE  IInv'
<1> DEFINE q == call[t].q
           op == call[t].op
           w == TimeLeft(t)
<1>0. /\ Runs(t) /\ pc[t] = "check" /\ TypeOK /\ Placed /\ EventLists /\ Served /\ Ring /\ Timed
      /\ Clocked /\ ListsTyped /\ QueuesTyped /\ LocalsTyped
  BY TypeParts DEF Check, IInv
<1>1. /\ LocalsTyped' /\ Own(t) /\ UNCHANGED <<clock, xPendedTicks, call, due, xEntryTimeSet>>
      /\ suspender = "none" /\ suspender' = t /\ t \in Ready /\ xPendedTicks = 0
      /\ pc'[t] = "resume" /\ InQueueCall(t)' /\ TimedCall(t)'
      /\ op \in {"send", "receive"} /\ q \in Queues
      /\ w \in 1..portMAX_DELAY /\ (w # portMAX_DELAY => due[t] = Now + w)
  BY <1>0, CheckLocals
<1>2. prvAddCurrentTaskToDelayedList(t, w, TRUE)
  BY DEF Check
<1>3. queue' = IF op = "send"
               THEN [queue EXCEPT ![q].xTasksWaitingToSend = EventList(@, t)]
               ELSE [queue EXCEPT ![q].xTasksWaitingToReceive = EventList(@, t)]
  BY DEF Check
<1> HIDE DEF q, op, w
<1>4. /\ xNextTaskUnblockTime' \in 0..portMAX_DELAY
      /\ pxDelayedTaskList' \in Seq(ListItem(0..portMAX_DELAY))
      /\ pxOverflowDelayedTaskList' \in Seq(ListItem(0..portMAX_DELAY))
      /\ Sorted(pxDelayedTaskList') /\ Sorted(pxOverflowDelayedTaskList')
      /\ xSuspendedTaskList' \subseteq Tasks \ Sleeping'
      /\ Sleeping \subseteq Sleeping'
      /\ Ready' = Ready \ {t}
      /\ OnTime(ClockNow', due)
  <2>1. due \in [Tasks -> Nat] /\ UNCHANGED clock
    BY <1>0, <1>1 DEF LocalsTyped
  <2> QED
    BY <1>0, <1>1, <1>2, <2>1, AddIs
<1>5. Now' = Now
  BY <1>1 DEF Now, clock
<1>6. ListsTyped'
  BY <1>0, <1>1, <1>4 DEF ListsTyped, clock
<1> DEFINE send(u) == queue[u].xTasksWaitingToSend
           recv(u) == queue[u].xTasksWaitingToReceive
<1>7. DOMAIN queue' = Queues /\ \A u \in Queues :
        /\ queue'[u].uxMessagesWaiting = queue[u].uxMessagesWaiting
        /\ queue'[u].pcWriteTo = queue[u].pcWriteTo
        /\ queue'[u].pcReadFrom = queue[u].pcReadFrom
        /\ queue'[u].pcHead = queue[u].pcHead
        /\ queue'[u].xTasksWaitingToSend = IF u = q /\ op = "send" THEN EventList(send(u), t) ELSE send(u)
        /\ queue'[u].xTasksWaitingToReceive = IF u = q /\ op # "send" THEN EventList(recv(u), t) ELSE recv(u)
        /\ queue'[u] = [uxMessagesWaiting |-> queue'[u].uxMessagesWaiting,
                        pcWriteTo |-> queue'[u].pcWriteTo, pcReadFrom |-> queue'[u].pcReadFrom,
                        pcHead |-> queue'[u].pcHead,
                        xTasksWaitingToSend |-> queue'[u].xTasksWaitingToSend,
                        xTasksWaitingToReceive |-> queue'[u].xTasksWaitingToReceive]
  <2>1. DOMAIN queue' = Queues
    BY <1>0, <1>3 DEF QueuesTyped
  <2>2. ASSUME NEW u \in Queues, u # q PROVE queue'[u] = queue[u]
    BY <1>0, <1>3, <2>2 DEF QueuesTyped
  <2>3. queue'[q] = IF op = "send"
                    THEN [queue[q] EXCEPT !.xTasksWaitingToSend = EventList(@, t)]
                    ELSE [queue[q] EXCEPT !.xTasksWaitingToReceive = EventList(@, t)]
    BY <1>0, <1>1, <1>3 DEF QueuesTyped
  <2> SUFFICES ASSUME NEW u \in Queues
               PROVE  /\ queue'[u].uxMessagesWaiting = queue[u].uxMessagesWaiting
                      /\ queue'[u].pcWriteTo = queue[u].pcWriteTo
                      /\ queue'[u].pcReadFrom = queue[u].pcReadFrom
                      /\ queue'[u].pcHead = queue[u].pcHead
                      /\ queue'[u].xTasksWaitingToSend = IF u = q /\ op = "send" THEN EventList(send(u), t) ELSE send(u)
                      /\ queue'[u].xTasksWaitingToReceive = IF u = q /\ op # "send" THEN EventList(recv(u), t) ELSE recv(u)
                      /\ queue'[u] = [uxMessagesWaiting |-> queue'[u].uxMessagesWaiting,
                                      pcWriteTo |-> queue'[u].pcWriteTo, pcReadFrom |-> queue'[u].pcReadFrom,
                                      pcHead |-> queue'[u].pcHead,
                                      xTasksWaitingToSend |-> queue'[u].xTasksWaitingToSend,
                                      xTasksWaitingToReceive |-> queue'[u].xTasksWaitingToReceive]
    BY <2>1
  <2>4. queue[u] = [uxMessagesWaiting |-> queue[u].uxMessagesWaiting,
                    pcWriteTo |-> queue[u].pcWriteTo, pcReadFrom |-> queue[u].pcReadFrom,
                    pcHead |-> queue[u].pcHead,
                    xTasksWaitingToSend |-> queue[u].xTasksWaitingToSend,
                    xTasksWaitingToReceive |-> queue[u].xTasksWaitingToReceive]
    BY <1>0, QueueFields
  <2>5. CASE u # q
    BY <2>2, <2>4, <2>5
  <2>6. CASE u = q /\ op = "send"
    BY <2>3, <2>4, <2>6
  <2>7. CASE u = q /\ op # "send"
    BY <2>3, <2>4, <2>7
  <2> QED
    BY <2>5, <2>6, <2>7
<1> DEFINE x == Item(-uxPriority[t], t)
<1>8. x \in ListItem(Int) /\ x.pvOwner = t
  BY KernelAssumption DEF Item, ListItem
<1> HIDE DEF x
<1>9. ASSUME NEW u \in Queues, NEW o, NEW s \in Seq(ListItem(Int)), Waiting(s, u, o)
      PROVE  /\ WaitingNext(s, u, o)
             /\ EventList(s, t) \in Seq(ListItem(Int))
             /\ u = q /\ o = op => WaitingNext(EventList(s, t), u, o)
  <2>1. \A y \in Range(s) : y.pvOwner \in Tasks \ {t} /\ y.pvOwner \in Owners(s)
    BY <1>1, <1>9, RangeOwners DEF Waiting
  <2>2. \A y \in Range(s) : /\ y.pvOwner \notin Ready'
                            /\ pc'[y.pvOwner] \in {"try", "resume"}
                            /\ call'[y.pvOwner].op = o
                            /\ call'[y.pvOwner].q = u
    BY <1>1, <1>4, <1>9, <2>1 DEF Own, Waiting
  <2>3. x.pvOwner \notin Owners(s)
    BY <1>1, <1>8, <1>9, <2>1, OwnersOfRange DEF Waiting
  <2>4. Distinct(s)
    BY <1>9 DEF Waiting
  <2>5. /\ EventList(s, t) \in Seq(ListItem(Int))
        /\ Range(EventList(s, t)) = Range(s) \cup {x}
        /\ Distinct(EventList(s, t))
    <3>1. EventList(s, t) = vListInsert(s, x)
      BY DEF EventList, x
    <3> QED
      BY <3>1, <2>3, <2>4, <1>8, InsertEvent
  <2>6. ASSUME u = q, o = op
        PROVE  x.pvOwner \notin Ready' /\ pc'[x.pvOwner] \in {"try", "resume"}
               /\ call'[x.pvOwner].op = o /\ call'[x.pvOwner].q = u
    BY <2>6, <1>1, <1>4, <1>8 DEF q, op
  <2> QED
    BY <2>2, <2>4, <2>5, <2>6 DEF WaitingNext
<1>10. EventLists'
  <2> SUFFICES ASSUME NEW u \in Queues
               PROVE  /\ WaitingNext(queue'[u].xTasksWaitingToSend, u, "send")
                      /\ WaitingNext(queue'[u].xTasksWaitingToReceive, u, "receive")
    BY EventListsNext
  <2>1. /\ Waiting(send(u), u, "send") /\ Waiting(recv(u), u, "receive")
        /\ send(u) \in Seq(ListItem(Int)) /\ recv(u) \in Seq(ListItem(Int))
    BY <1>0, QueueFields DEF EventLists
  <2>2. /\ queue'[u].xTasksWaitingToSend = IF u = q /\ op = "send" THEN EventList(send(u), t) ELSE send(u)
        /\ queue'[u].xTasksWaitingToReceive = IF u = q /\ op # "send" THEN EventList(recv(u), t) ELSE recv(u)
    BY <1>7
  <2> HIDE DEF send, recv
  <2>3. WaitingNext(send(u), u, "send") /\ (u = q /\ op = "send" => WaitingNext(EventList(send(u), t), u, "send"))
    BY <2>1, <1>9
  <2>4. WaitingNext(recv(u), u, "receive") /\ (u = q /\ op # "send" => WaitingNext(EventList(recv(u), t), u, "receive"))
    BY <2>1, <1>1, <1>9
  <2> QED
    BY <2>2, <2>3, <2>4
<1>11. QueuesTyped'
  <2>1. ASSUME NEW u \in Queues PROVE queue'[u] \in QueueDefinition(u)
    <3>1. queue'[u].xTasksWaitingToSend \in Seq(ListItem(Int)) /\ queue'[u].xTasksWaitingToReceive \in Seq(ListItem(Int))
      <4>1. /\ Waiting(send(u), u, "send") /\ Waiting(recv(u), u, "receive")
            /\ send(u) \in Seq(ListItem(Int)) /\ recv(u) \in Seq(ListItem(Int))
        BY <1>0, QueueFields DEF EventLists
      <4> HIDE DEF send, recv
      <4>2. EventList(send(u), t) \in Seq(ListItem(Int)) /\ EventList(recv(u), t) \in Seq(ListItem(Int))
        BY <4>1, <1>9
      <4> QED
        BY <1>7, <4>1, <4>2 DEF send, recv
    <3> QED
      <4>1. /\ queue'[u].uxMessagesWaiting \in 0..uxLength[u]
            /\ queue'[u].pcWriteTo \in 0..(uxLength[u] - 1)
            /\ queue'[u].pcReadFrom \in 0..(uxLength[u] - 1)
            /\ queue'[u].pcHead \in [0..(uxLength[u] - 1) -> Items \cup {Token}]
        BY <1>0, <1>7, QueueFields
      <4>2. queue'[u] = [uxMessagesWaiting |-> queue'[u].uxMessagesWaiting,
                        pcWriteTo |-> queue'[u].pcWriteTo, pcReadFrom |-> queue'[u].pcReadFrom,
                        pcHead |-> queue'[u].pcHead,
                        xTasksWaitingToSend |-> queue'[u].xTasksWaitingToSend,
                        xTasksWaitingToReceive |-> queue'[u].xTasksWaitingToReceive]
        BY <1>7
      <4> QED
        BY <3>1, <4>1, <4>2, QueueTyped
  <2> QED
    BY <2>1, <1>7 DEF QueuesTyped
<1>12. Placed'
  <2>1. "none" \notin Tasks
    BY KernelAssumption
  <2>2. ASSUME NEW u \in Tasks, u # t
        PROVE  /\ pc'[u] \in {"user", "check", "expired", "last", "delay"} => u \in Ready'
               /\ suspender' = u <=> pc'[u] \in {"resume", "expired", "asleep"}
               /\ pc'[u] \in {"delay", "asleep", "delayed"} => call'[u].op = "delay"
               /\ pc'[u] \in {"try", "check", "resume", "expired", "last"} =>
                    call'[u].op \in {"send", "receive"}
    <3>1. pc'[u] = pc[u] /\ call'[u] = call[u] /\ pc[u] \notin {"resume", "expired", "asleep"}
      BY <2>1, <2>2, <1>0, <1>1 DEF Own, Placed
    <3> QED
      BY <3>1, <2>2, <1>0, <1>1, <1>4 DEF Placed
  <2> QED
    BY <2>1, <2>2, <1>1 DEF Placed, op
<1>13. Served'
  <2>1. \A u \in Queues : \A o \in {"send", "receive"} : Tryers(u, o)' = Tryers(u, o)
    BY <1>0, <1>1, <1>4, ListsFacts DEF Tryers, Own
  <2>2. ASSUME NEW u \in Queues
        PROVE  /\ queue'[u].xTasksWaitingToReceive # <<>> =>
                    Cardinality(Tryers(u, "receive")) >= queue[u].uxMessagesWaiting
               /\ queue'[u].xTasksWaitingToSend # <<>> =>
                    Cardinality(Tryers(u, "send")) >= uxLength[u] - queue[u].uxMessagesWaiting
    <3>1. /\ queue[u].uxMessagesWaiting \in Nat /\ uxLength[u] \in Nat
      BY <1>0, QueueFields
    <3>2. Cardinality(Tryers(u, "receive")) \in Nat /\ Cardinality(Tryers(u, "send")) \in Nat
      <4>1. Tryers(u, "receive") \subseteq Tasks /\ Tryers(u, "send") \subseteq Tasks
        BY <1>0, ListsFacts DEF Tryers
      <4> QED
        BY <4>1, MoreTasks
    <3>3. u = q /\ op = "send" => queue[u].uxMessagesWaiting = uxLength[u]
      BY DEF StillBlocked, Full, q, op
    <3>4. u = q /\ op # "send" => queue[u].uxMessagesWaiting = 0
      BY DEF StillBlocked, Empty, q, op
    <3>5. queue'[u].xTasksWaitingToReceive # <<>> =>
            Cardinality(Tryers(u, "receive")) >= queue[u].uxMessagesWaiting
      BY <3>1, <3>2, <3>4, <1>0, <1>7 DEF Served
    <3>6. queue'[u].xTasksWaitingToSend # <<>> =>
            Cardinality(Tryers(u, "send")) >= uxLength[u] - queue[u].uxMessagesWaiting
      BY <3>1, <3>2, <3>3, <1>0, <1>7 DEF Served
    <3> QED
      BY <3>5, <3>6
  <2> QED
    BY <2>1, <2>2, <1>7 DEF Served
<1>14. Ring'
  BY <1>0, <1>7 DEF Ring
<1>15. Timed'
  <2>1. \A u \in Tasks \ {t} : IF InQueueCall(u)' THEN TimedCall(u)' ELSE ~xEntryTimeSet'[u]
    BY <1>0, <1>1, <1>5, OthersTimed
  <2> QED
    BY <2>1, <1>1 DEF Timed
<1>16. Clocked'
  <2>1. ASSUME NEW u \in Tasks, pc'[u] \in {"asleep", "delayed"}, u \notin Sleeping'
        PROVE  due'[u] <= Now'
    <3>1. u # t
      BY <2>1, <1>1
    <3>2. pc'[u] = pc[u] /\ due'[u] = due[u]
      BY <3>1, <1>1 DEF Own
    <3> QED
      BY <3>2, <2>1, <1>0, <1>4, <1>5 DEF Clocked
  <2>2. OnTime(ClockNow', due')
    BY <1>1, <1>4
  <2> QED
    BY <2>1, <2>2, <1>4 DEF Clocked
<1>17. TypeOK'
  BY <1>1, <1>6, <1>11, TypePartsNext
<1> QED
  BY <1>10, <1>12, <1>13, <1>14, <1>15, <1>16, <1>17 DEF IInv

(* vTaskDelay keeps the invariant. *)
LEMMA vTaskDelayKeeps ==
  ASSUME IInv, NEW t \in Tasks, vTaskDelay(t)
  PROVE  IInv'
<1> DEFINE w == call[t].wait
<1>0. /\ Runs(t) /\ pc[t] = "delay" /\ TypeOK /\ Placed /\ EventLists /\ Served /\ Ring /\ Timed
      /\ Clocked /\ ListsTyped /\ QueuesTyped /\ LocalsTyped
  BY TypeParts DEF vTaskDelay, IInv
<1>1. suspender = "none" /\ t \in Ready /\ xPendedTicks = 0
      /\ \A u \in Tasks : pc[u] \notin {"resume", "expired", "asleep"}
  BY <1>0, RunsAlone
<1>2. call[t].op = "delay" /\ w \in 1..portMAX_DELAY /\ w # portMAX_DELAY
  <2>1. call[t].op = "delay" /\ call[t] \in Calls[t]
    BY <1>0 DEF Placed, LocalsTyped
  <2> QED
    BY <2>1, CallFields, MaxDelayIs
<1>3. /\ suspender' = t /\ prvAddCurrentTaskToDelayedList(t, w, FALSE)
      /\ due' = [due EXCEPT ![t] = Now + w]
      /\ pc' = [pc EXCEPT ![t] = "asleep"]
      /\ UNCHANGED <<clock, xPendedTicks, queue, call, xTicksToWait, xEntryTimeSet, xTimeOut>>
  BY DEF vTaskDelay, At
<1> HIDE DEF w
<1>4. /\ due' \in [Tasks -> Nat] /\ due'[t] = Now + w
      /\ \A u \in Tasks \ {t} : due'[u] = due[u]
  <2>1. Now + w \in Nat /\ due \in [Tasks -> Nat]
    BY <1>0, <1>2, ListsFacts, MaxDelayIs DEF LocalsTyped
  <2> QED
    BY <2>1, <1>3
<1>5. /\ xNextTaskUnblockTime' \in 0..portMAX_DELAY
      /\ pxDelayedTaskList' \in Seq(ListItem(0..portMAX_DELAY))
      /\ pxOverflowDelayedTaskList' \in Seq(ListItem(0..portMAX_DELAY))
      /\ Sorted(pxDelayedTaskList') /\ Sorted(pxOverflowDelayedTaskList')
      /\ xSuspendedTaskList' \subseteq Tasks \ Sleeping'
      /\ Sleeping \subseteq Sleeping'
      /\ t \in Sleeping'
      /\ Ready' = Ready \ {t}
      /\ OnTime(ClockNow', due')
  <2>1. UNCHANGED clock /\ FALSE \in BOOLEAN
    BY <1>3
  <2>2. prvAddCurrentTaskToDelayedList(t, w, FALSE)
    BY <1>3
  <2>3. ~(w = portMAX_DELAY /\ FALSE) => due'[t] = Now + w
    BY <1>4
  <2> QED
    BY <1>0, <1>1, <1>2, <1>4, <2>1, <2>2, <2>3, AddIs
<1>6. Now' = Now
  BY <1>3 DEF Now, clock
<1>7. pc'[t] = "asleep" /\ Own(t)
  BY <1>0, <1>3, <1>4 DEF LocalsTyped, Own
<1>8. ListsTyped'
  BY <1>0, <1>3, <1>5 DEF ListsTyped, clock
<1>9. QueuesTyped'
  BY <1>0, <1>3 DEF QueuesTyped
<1>10. LocalsTyped'
  <2>1. pc' \in [Tasks -> {"user", "try", "check", "resume", "expired", "last",
                       "delay", "asleep", "delayed"}]
    BY <1>0, <1>3 DEF LocalsTyped
  <2>2. \A u \in Tasks :
         IF pc'[u] = "user" THEN call'[u] = [op |-> "none"] ELSE call'[u] \in Calls[u]
    BY <1>0, <1>3, <1>7 DEF Own, LocalsTyped
  <2> QED
    BY <2>1, <2>2, <1>0, <1>3, <1>4 DEF LocalsTyped
<1>11. Placed'
  <2>1. "none" \notin Tasks
    BY KernelAssumption
  <2>2. ASSUME NEW u \in Tasks, u # t
        PROVE  /\ pc'[u] \in {"user", "check", "expired", "last", "delay"} => u \in Ready'
               /\ suspender' = u <=> pc'[u] \in {"resume", "expired", "asleep"}
               /\ pc'[u] \in {"delay", "asleep", "delayed"} => call'[u].op = "delay"
               /\ pc'[u] \in {"try", "check", "resume", "expired", "last"} =>
                    call'[u].op \in {"send", "receive"}
    <3>1. pc'[u] = pc[u] /\ call'[u] = call[u] /\ pc[u] \notin {"resume", "expired", "asleep"}
      BY <2>2, <1>1, <1>7 DEF Own
    <3> QED
      BY <3>1, <2>2, <1>0, <1>3, <1>5 DEF Placed
  <2> QED
    BY <2>1, <2>2, <1>2, <1>3, <1>7 DEF Placed
<1>12. EventLists'
  <2> SUFFICES ASSUME NEW u \in Queues, NEW o, NEW s \in Seq(ListItem(Int)), Waiting(s, u, o)
               PROVE  Waiting(s, u, o)'
    BY <1>0, <1>3, QueueFields DEF EventLists
  <2>1. \A y \in Range(s) : y.pvOwner \in Tasks \ {t}
    BY <1>1, RangeOwners DEF Waiting
  <2> QED
    BY <2>1, <1>3, <1>5, <1>7 DEF Own, Waiting
<1>13. Served'
  <2>1. \A u \in Queues : \A o \in {"send", "receive"} : Tryers(u, o)' = Tryers(u, o)
    BY <1>0, <1>5, <1>7, ListsFacts DEF Tryers, Own
  <2> QED
    BY <2>1, <1>0, <1>3 DEF Served
<1>14. Ring'
  BY <1>0, <1>3 DEF Ring
<1>15. Timed'
  <2>1. \A u \in Tasks \ {t} : IF InQueueCall(u)' THEN TimedCall(u)' ELSE ~xEntryTimeSet'[u]
    BY <1>0, <1>3, <1>6, <1>7, OthersTimed
  <2>2. ~InQueueCall(t) /\ ~InQueueCall(t)'
    BY <1>2, <1>3 DEF InQueueCall
  <2> QED
    BY <2>1, <2>2, <1>0, <1>3 DEF Timed
<1>16. Clocked'
  <2>1. ASSUME NEW u \in Tasks, pc'[u] \in {"asleep", "delayed"}, u \notin Sleeping'
        PROVE  due'[u] <= Now'
    <3>1. u # t
      BY <2>1, <1>5
    <3>2. pc'[u] = pc[u] /\ due'[u] = due[u]
      BY <3>1, <1>7 DEF Own
    <3> QED
      BY <3>2, <2>1, <1>0, <1>5, <1>6 DEF Clocked
  <2> QED
    BY <2>1, <1>5 DEF Clocked
<1>17. TypeOK'
  BY <1>8, <1>9, <1>10, TypePartsNext
<1> QED
  BY <1>11, <1>12, <1>13, <1>14, <1>15, <1>16, <1>17 DEF IInv

-----------------------------------------------------------------------------
(* Ticks are processed. *)

(* The steps out of a suspension of the scheduler. *)
PcMoves ==
  \A u \in Tasks : \/ pc'[u] = pc[u]
                   \/ pc[u] = "resume" /\ pc'[u] = "try"
                   \/ pc[u] = "expired" /\ pc'[u] = "last"
                   \/ pc[u] = "asleep" /\ pc'[u] = "delayed"

(* Any number of ticks keeps the invariant. *)
LEMMA AdvanceKeeps ==
  ASSUME IInv, NEW n \in Nat, Advance(n), PcMoves,
         UNCHANGED <<call, xTicksToWait, xEntryTimeSet, xTimeOut, due>>,
         xPendedTicks' \in 0..MaxPended, suspender' \in Tasks \cup {"none"}
  PROVE  /\ ListsTyped' /\ QueuesTyped' /\ EventLists' /\ Served' /\ Ring' /\ Clocked'
         /\ Now' = Now + n /\ Now \in Nat /\ Ready \subseteq Ready'
         /\ \A q \in Queues : /\ queue'[q].uxMessagesWaiting = queue[q].uxMessagesWaiting
                              /\ queue'[q].pcReadFrom = queue[q].pcReadFrom
                              /\ queue'[q].pcHead = queue[q].pcHead
<1> DEFINE woken == Sleeping \ Sleeping'
           send(u) == queue[u].xTasksWaitingToSend
           recv(u) == queue[u].xTasksWaitingToReceive
<1>0. /\ TypeOK /\ Placed /\ EventLists /\ Served /\ Ring /\ Timed
      /\ Clocked /\ ListsTyped /\ QueuesTyped /\ LocalsTyped
  BY TypeParts DEF IInv
<1>1. /\ Sleeping \subseteq Tasks /\ Ready \subseteq Tasks /\ Now \in Nat
      /\ ClockNow \in ClockState /\ due \in [Tasks -> Nat] /\ OnTime(ClockNow, due)
  BY <1>0, ListsFacts, ClockStateNow DEF LocalsTyped, Clocked
<1>2. /\ ClockNow' \in ClockState
      /\ OnTime(ClockNow', due)
      /\ Now' = Now + n
      /\ Sleeping' \subseteq Sleeping
      /\ \A t \in Sleeping \ Sleeping' : due[t] <= Now'
      /\ queue' = [q \in Queues |->
           [queue[q] EXCEPT
              !.xTasksWaitingToSend = Without(@, Sleeping \ Sleeping'),
              !.xTasksWaitingToReceive = Without(@, Sleeping \ Sleeping')]]
      /\ xSuspendedTaskList' = xSuspendedTaskList
  BY <1>1, AdvanceIs
<1>3. Ready' = Ready \cup woken
  BY <1>0, <1>1, <1>2 DEF Ready, ListsTyped
<1>4. ListsTyped'
  <2>1. /\ xTickCount' = ClockNow'.tick /\ xNumOfOverflows' = ClockNow'.over
        /\ xNextTaskUnblockTime' = ClockNow'.next
        /\ pxDelayedTaskList' = ClockNow'.delayed /\ pxOverflowDelayedTaskList' = ClockNow'.later
    BY DEF ClockNow
  <2>2. /\ xTickCount' \in MaxDelay /\ xNumOfOverflows' \in Nat /\ xNextTaskUnblockTime' \in MaxDelay
        /\ pxDelayedTaskList' \in Seq(ListItem(MaxDelay))
        /\ pxOverflowDelayedTaskList' \in Seq(ListItem(MaxDelay))
    BY <1>2, <2>1 DEF ClockState
  <2>3. xSuspendedTaskList' \subseteq Tasks \ Sleeping'
    BY <1>0, <1>2 DEF ListsTyped
  <2> QED
    BY <2>2, <2>3 DEF ListsTyped, MaxDelay
<1>5. DOMAIN queue' = Queues /\ \A u \in Queues :
        /\ queue'[u].uxMessagesWaiting = queue[u].uxMessagesWaiting
        /\ queue'[u].pcWriteTo = queue[u].pcWriteTo
        /\ queue'[u].pcReadFrom = queue[u].pcReadFrom
        /\ queue'[u].pcHead = queue[u].pcHead
        /\ queue'[u].xTasksWaitingToSend = Without(send(u), woken)
        /\ queue'[u].xTasksWaitingToReceive = Without(recv(u), woken)
        /\ queue'[u] = [uxMessagesWaiting |-> queue'[u].uxMessagesWaiting,
                        pcWriteTo |-> queue'[u].pcWriteTo, pcReadFrom |-> queue'[u].pcReadFrom,
                        pcHead |-> queue'[u].pcHead,
                        xTasksWaitingToSend |-> queue'[u].xTasksWaitingToSend,
                        xTasksWaitingToReceive |-> queue'[u].xTasksWaitingToReceive]
  <2>1. queue' = [q \in Queues |->
           [queue[q] EXCEPT !.xTasksWaitingToSend = Without(@, woken),
                            !.xTasksWaitingToReceive = Without(@, woken)]]
    BY <1>2
  <2> HIDE DEF woken
  <2> SUFFICES ASSUME NEW u \in Queues
               PROVE  /\ queue'[u].uxMessagesWaiting = queue[u].uxMessagesWaiting
                      /\ queue'[u].pcWriteTo = queue[u].pcWriteTo
                      /\ queue'[u].pcReadFrom = queue[u].pcReadFrom
                      /\ queue'[u].pcHead = queue[u].pcHead
                      /\ queue'[u].xTasksWaitingToSend = Without(send(u), woken)
                      /\ queue'[u].xTasksWaitingToReceive = Without(recv(u), woken)
                      /\ queue'[u] = [uxMessagesWaiting |-> queue'[u].uxMessagesWaiting,
                                      pcWriteTo |-> queue'[u].pcWriteTo, pcReadFrom |-> queue'[u].pcReadFrom,
                                      pcHead |-> queue'[u].pcHead,
                                      xTasksWaitingToSend |-> queue'[u].xTasksWaitingToSend,
                                      xTasksWaitingToReceive |-> queue'[u].xTasksWaitingToReceive]
    BY <2>1
  <2>2. queue'[u] = [queue[u] EXCEPT !.xTasksWaitingToSend = Without(@, woken),
                                    !.xTasksWaitingToReceive = Without(@, woken)]
    BY <2>1
  <2>3. queue[u] = [uxMessagesWaiting |-> queue[u].uxMessagesWaiting,
                    pcWriteTo |-> queue[u].pcWriteTo, pcReadFrom |-> queue[u].pcReadFrom,
                    pcHead |-> queue[u].pcHead,
                    xTasksWaitingToSend |-> queue[u].xTasksWaitingToSend,
                    xTasksWaitingToReceive |-> queue[u].xTasksWaitingToReceive]
    BY <1>0, QueueFields
  <2> QED
    BY <2>2, <2>3
<1>6. ASSUME NEW u \in Queues, NEW o, NEW s \in Seq(ListItem(Int)), Waiting(s, u, o)
      PROVE  /\ Without(s, woken) \in Seq(ListItem(Int))
             /\ Without(s, woken) # <<>> => s # <<>>
             /\ WaitingNext(Without(s, woken), u, o)
  <2>1. /\ Without(s, woken) \in Seq(ListItem(Int))
        /\ Range(Without(s, woken)) = {x \in Range(s) : x.pvOwner \notin woken}
        /\ Distinct(Without(s, woken))
    <3>1. Distinct(s)
      BY <1>6 DEF Waiting
    <3> HIDE DEF woken
    <3> QED
      BY <3>1, WithoutEvent
  <2>2. Without(s, woken) # <<>> => s # <<>>
    <3> HIDE DEF woken
    <3> QED
      BY <2>1, EmptyRange
  <2>3. ASSUME NEW x \in Range(Without(s, woken))
        PROVE  /\ x.pvOwner \notin Ready'
               /\ pc'[x.pvOwner] \in {"try", "resume"}
               /\ call'[x.pvOwner].op = o
               /\ call'[x.pvOwner].q = u
    <3>1. x \in Range(s) /\ x.pvOwner \notin woken
      BY <2>1
    <3>2. x.pvOwner \in Tasks
      BY <3>1, RangeOwners
    <3>3. /\ x.pvOwner \notin Ready /\ pc[x.pvOwner] \in {"try", "resume"}
          /\ call[x.pvOwner].op = o /\ call[x.pvOwner].q = u
      BY <3>1, <1>6 DEF Waiting
    <3>4. pc'[x.pvOwner] \in {"try", "resume"}
      BY <3>2, <3>3 DEF PcMoves
    <3> QED
      BY <1>3, <3>1, <3>3, <3>4
  <2> QED
    BY <2>1, <2>2, <2>3 DEF WaitingNext
<1> HIDE DEF woken
<1>7. \A u \in Queues : /\ Waiting(send(u), u, "send") /\ Waiting(recv(u), u, "receive")
                        /\ send(u) \in Seq(ListItem(Int)) /\ recv(u) \in Seq(ListItem(Int))
  BY <1>0, QueueFields DEF EventLists
<1> HIDE DEF send, recv
<1>8. EventLists'
  <2>1. ASSUME NEW u \in Queues
        PROVE  /\ WaitingNext(queue'[u].xTasksWaitingToSend, u, "send")
               /\ WaitingNext(queue'[u].xTasksWaitingToReceive, u, "receive")
    BY <1>5, <1>6, <1>7
  <2> QED
    BY <2>1, EventListsNext
<1>9. QueuesTyped'
  <2>1. ASSUME NEW u \in Queues PROVE queue'[u] \in QueueDefinition(u)
    <3>1. queue'[u].xTasksWaitingToSend \in Seq(ListItem(Int)) /\ queue'[u].xTasksWaitingToReceive \in Seq(ListItem(Int))
      BY <1>5, <1>6, <1>7
    <3>2. /\ queue'[u].uxMessagesWaiting \in 0..uxLength[u]
          /\ queue'[u].pcWriteTo \in 0..(uxLength[u] - 1)
          /\ queue'[u].pcReadFrom \in 0..(uxLength[u] - 1)
          /\ queue'[u].pcHead \in [0..(uxLength[u] - 1) -> Items \cup {Token}]
      BY <1>0, <1>5, QueueFields
    <3>3. queue'[u] = [uxMessagesWaiting |-> queue'[u].uxMessagesWaiting,
                       pcWriteTo |-> queue'[u].pcWriteTo, pcReadFrom |-> queue'[u].pcReadFrom,
                       pcHead |-> queue'[u].pcHead,
                       xTasksWaitingToSend |-> queue'[u].xTasksWaitingToSend,
                       xTasksWaitingToReceive |-> queue'[u].xTasksWaitingToReceive]
      BY <1>5
    <3> QED
      BY <3>1, <3>2, <3>3, QueueTyped
  <2> QED
    BY <2>1, <1>5 DEF QueuesTyped
<1>10. Served'
  <2>1. ASSUME NEW u \in Queues, NEW o
        PROVE  /\ Cardinality(Tryers(u, o)) \in Nat /\ Cardinality(Tryers(u, o)') \in Nat
               /\ Cardinality(Tryers(u, o)) <= Cardinality(Tryers(u, o)')
    <3>1. Tryers(u, o) \subseteq Tryers(u, o)'
      BY <1>1, <1>3 DEF Tryers, PcMoves
    <3>2. Tryers(u, o)' \subseteq Tasks
      BY <1>1, <1>3 DEF Tryers, woken
    <3> QED
      BY <3>1, <3>2, MoreTasks
  <2> SUFFICES ASSUME NEW u \in Queues
               PROVE  /\ queue'[u].xTasksWaitingToReceive # <<>> =>
                           Cardinality(Tryers(u, "receive")') >= queue[u].uxMessagesWaiting
                      /\ queue'[u].xTasksWaitingToSend # <<>> =>
                           Cardinality(Tryers(u, "send")') >= uxLength[u] - queue[u].uxMessagesWaiting
    BY <1>5 DEF Served
  <2>2. /\ queue'[u].xTasksWaitingToReceive # <<>> => queue[u].xTasksWaitingToReceive # <<>>
        /\ queue'[u].xTasksWaitingToSend # <<>> => queue[u].xTasksWaitingToSend # <<>>
    BY <1>5, <1>6, <1>7 DEF send, recv
  <2>3. queue[u].uxMessagesWaiting \in Int /\ uxLength[u] - queue[u].uxMessagesWaiting \in Int
    <3>1. queue[u].uxMessagesWaiting \in 0..uxLength[u] /\ uxLength[u] \in Nat
      BY <1>0, QueueFields, KernelAssumption
    <3> QED
      BY <3>1
  <2>4. queue'[u].xTasksWaitingToReceive # <<>> =>
          Cardinality(Tryers(u, "receive")') >= queue[u].uxMessagesWaiting
    BY <2>1, <2>2, <2>3, <1>0 DEF Served
  <2>5. queue'[u].xTasksWaitingToSend # <<>> =>
          Cardinality(Tryers(u, "send")') >= uxLength[u] - queue[u].uxMessagesWaiting
    <3> DEFINE m == uxLength[u] - queue[u].uxMessagesWaiting
    <3>1. queue'[u].xTasksWaitingToSend # <<>> => Cardinality(Tryers(u, "send")) >= m
      BY <2>2, <1>0 DEF Served
    <3>2. m \in Int
      BY <2>3
    <3> HIDE DEF m
    <3>3. queue'[u].xTasksWaitingToSend # <<>> => Cardinality(Tryers(u, "send")') >= m
      BY <2>1, <3>1, <3>2
    <3> QED
      BY <3>3 DEF m
  <2> QED
    BY <2>4, <2>5
<1>11. Ring'
  BY <1>0, <1>5 DEF Ring
<1>12. Clocked'
  <2>1. Sorted(pxDelayedTaskList') /\ Sorted(pxOverflowDelayedTaskList')
    <3>1. pxDelayedTaskList' = ClockNow'.delayed /\ pxOverflowDelayedTaskList' = ClockNow'.later
      BY DEF ClockNow
    <3> QED
      BY <3>1, <1>2 DEF ClockState
  <2>2. OnTime(ClockNow', due')
    BY <1>2
  <2>3. ASSUME NEW t \in Tasks, pc'[t] \in {"asleep", "delayed"}, t \notin Sleeping'
        PROVE  due[t] <= Now'
    <3>1. pc[t] \in {"asleep", "delayed"}
      BY <2>3 DEF PcMoves
    <3>2. CASE t \in Sleeping
      BY <3>2, <2>3, <1>2
    <3>3. CASE t \notin Sleeping
      <4>1. due[t] <= Now /\ due[t] \in Nat
        BY <3>1, <3>3, <1>0, <1>1 DEF Clocked, LocalsTyped
      <4>2. Now' = Now + n /\ Now \in Nat /\ n \in Nat
        BY <1>1, <1>2
      <4> QED
        BY <4>1, <4>2
    <3> QED
      BY <3>2, <3>3
  <2> QED
    BY <2>1, <2>2, <2>3 DEF Clocked
<1>13. Now' = Now + n /\ Ready \subseteq Ready'
  BY <1>2, <1>3
<1> QED
  BY <1>1, <1>4, <1>5, <1>8, <1>9, <1>10, <1>11, <1>12, <1>13

(* Time passes, within the turn of the count that a timed call may take. *)
LEMMA TimePasses ==
  ASSUME Timed, LocalsTyped, PcMoves, Now \in Nat, Now' \in Nat, Now <= Now',
         UNCHANGED <<call, xTicksToWait, xEntryTimeSet, xTimeOut, due>>,
         \A t \in Tasks : InQueueCall(t) /\ xEntryTimeSet[t] /\ call[t].wait # portMAX_DELAY =>
                           Now' + xPendedTicks' <= Entry(t) + Ticks
  PROVE  Timed'
<1> SUFFICES ASSUME NEW t \in Tasks
             PROVE  IF InQueueCall(t)' THEN TimedCall(t)' ELSE ~xEntryTimeSet'[t]
  BY DEF Timed
<1>1. InQueueCall(t)' = InQueueCall(t)
  BY DEF InQueueCall, PcMoves
<1>2. CASE ~InQueueCall(t)
  BY <1>1, <1>2 DEF Timed
<1>3. CASE InQueueCall(t)
  <2>1. TimedCall(t)
    BY <1>3 DEF Timed
  <2>2. ASSUME xEntryTimeSet[t], call[t].wait # portMAX_DELAY PROVE TimeKnown(t)'
    <3>1. TimeKnown(t) /\ Entry(t)' = Entry(t)
      BY <2>1, <2>2 DEF TimedCall, Entry
    <3>2. due[t] \in Nat /\ Entry(t) \in Nat
      <4>1. xTimeOut[t] \in [xOverflowCount: Nat, xTimeOnEntering: 0..portMAX_DELAY] /\ due[t] \in Nat
        BY DEF LocalsTyped
      <4>2. xTimeOut[t].xOverflowCount \in Nat /\ xTimeOut[t].xTimeOnEntering \in Nat /\ Ticks \in Nat
        BY <4>1, MaxDelayIs
      <4>3. xTimeOut[t].xOverflowCount * Ticks \in Nat
        BY <4>2
      <4> QED
        BY <4>1, <4>2, <4>3 DEF Entry
    <3>3. Now' + xPendedTicks' <= Entry(t) + Ticks
      BY <1>3, <2>2
    <3>4. Entry(t) <= Now'
      BY <3>1, <3>2 DEF TimeKnown
    <3>5. IF xTicksToWait[t] = 0 THEN due[t] <= Now' ELSE due[t] = Entry(t) + xTicksToWait[t]
      BY <3>1, <3>2 DEF TimeKnown
    <3> QED
      BY <3>1, <3>3, <3>4, <3>5 DEF TimeKnown
  <2>3. pc'[t] \in {"expired", "last"} => pc[t] \in {"expired", "last"}
    BY DEF PcMoves
  <2>4. (pc'[t] = "check" => pc[t] = "check") /\ (pc[t] = "try" => pc'[t] = "try")
    BY DEF PcMoves
  <2> QED
    BY <1>1, <1>3, <2>1, <2>2, <2>3, <2>4 DEF TimedCall
<1> QED
  BY <1>2, <1>3

(* The tick interrupt keeps it. *)
LEMMA TickKeeps ==
  ASSUME IInv, Tick
  PROVE  IInv'
<1>0. /\ TypeOK /\ Placed /\ EventLists /\ Served /\ Ring /\ Timed
      /\ Clocked /\ ListsTyped /\ QueuesTyped /\ LocalsTyped /\ Now \in Nat /\ xPendedTicks \in Nat
  BY TypeParts, ListsFacts DEF IInv
<1>1. /\ UNCHANGED <<suspender, pc, call, xTicksToWait, xEntryTimeSet, xTimeOut, due>>
      /\ MayPass(xPendedTicks + 1)
  BY DEF Tick, locals
<1>2. PcMoves /\ LocalsTyped'
  BY <1>0, <1>1 DEF PcMoves, LocalsTyped
<1>3. \A t \in Tasks : InQueueCall(t) /\ xEntryTimeSet[t] /\ call[t].wait # portMAX_DELAY =>
                         Now + (xPendedTicks + 1) <= Entry(t) + Ticks
  BY <1>1 DEF MayPass, InQueueCall, Entry
<1>4. CASE suspender = "none" /\ Advance(1) /\ UNCHANGED xPendedTicks
  <2>1. xPendedTicks = 0 /\ xPendedTicks' \in 0..MaxPended /\ suspender' \in Tasks \cup {"none"}
    BY <1>0, <1>1, <1>4 DEF Placed, ListsTyped
  <2>2. /\ ListsTyped' /\ QueuesTyped' /\ EventLists' /\ Served' /\ Ring' /\ Clocked'
        /\ Now' = Now + 1 /\ Ready \subseteq Ready'
    BY <1>1, <1>2, <1>4, <2>1, AdvanceKeeps
  <2>3. Placed'
    BY <1>0, <1>1, <1>4, <2>1, <2>2 DEF Placed
  <2>4. Timed'
    <3>1. Now' \in Nat /\ Now <= Now'
      BY <1>0, <2>2
    <3>2. \A t \in Tasks : InQueueCall(t) /\ xEntryTimeSet[t] /\ call[t].wait # portMAX_DELAY =>
                             Now' + xPendedTicks' <= Entry(t) + Ticks
      <4>1. Now' + xPendedTicks' = Now + (xPendedTicks + 1)
        BY <1>0, <1>4, <2>1, <2>2
      <4> QED
        BY <4>1, <1>3
    <3> QED
      BY <1>0, <1>1, <1>2, <3>1, <3>2, TimePasses
  <2> QED
    BY <1>2, <2>2, <2>3, <2>4, TypePartsNext DEF IInv
<1>5. CASE /\ suspender # "none" /\ xPendedTicks < MaxPended /\ xPendedTicks' = xPendedTicks + 1
           /\ UNCHANGED <<clock, lists, queue>>
  <2>1. Sleeping' = Sleeping /\ Ready' = Ready /\ ClockNow' = ClockNow /\ Now' = Now
    BY <1>5, QuietSets
  <2>2. ListsTyped' /\ QueuesTyped'
    <3>1. xPendedTicks' \in 0..MaxPended
      BY <1>0, <1>5, KernelAssumption
    <3> QED
      BY <3>1, <1>0, <1>1, <1>5, <2>1 DEF ListsTyped, QueuesTyped, clock, lists
  <2>3. Placed'
    BY <1>0, <1>1, <1>5, <2>1 DEF Placed
  <2>4. EventLists'
    BY <1>0, <1>1, <1>5, <2>1 DEF EventLists, Waiting
  <2>5. Served'
    <3>1. \A q \in Queues : \A op \in {"send", "receive"} : Tryers(q, op)' = Tryers(q, op)
      BY <1>1, <2>1 DEF Tryers
    <3> QED
      BY <3>1, <1>0, <1>5 DEF Served
  <2>6. Ring'
    BY <1>0, <1>5 DEF Ring
  <2>7. Clocked'
    <3>1. pxDelayedTaskList' = pxDelayedTaskList /\ pxOverflowDelayedTaskList' = pxOverflowDelayedTaskList
      BY <1>5 DEF lists
    <3>2. OnTime(ClockNow', due')
      BY <1>0, <1>1, <2>1 DEF Clocked
    <3> QED
      BY <3>1, <3>2, <1>0, <1>1, <2>1 DEF Clocked
  <2>8. Timed'
    <3>1. \A t \in Tasks : InQueueCall(t) /\ xEntryTimeSet[t] /\ call[t].wait # portMAX_DELAY =>
                             Now' + xPendedTicks' <= Entry(t) + Ticks
      BY <1>3, <1>5, <2>1
    <3>2. Now' \in Nat /\ Now <= Now'
      BY <1>0, <2>1
    <3> QED
      BY <1>0, <1>1, <1>2, <3>1, <3>2, TimePasses
  <2> QED
    BY <1>2, <2>2, <2>3, <2>4, <2>5, <2>6, <2>7, <2>8, TypePartsNext DEF IInv
<1> QED
  BY <1>4, <1>5 DEF Tick

(* xTaskResumeAll keeps it. *)
LEMMA ResumeKeeps ==
  ASSUME IInv, NEW t \in Tasks, xTaskResumeAll(t)
  PROVE  IInv'
<1>0. /\ TypeOK /\ Placed /\ EventLists /\ Served /\ Ring /\ Timed
      /\ Clocked /\ ListsTyped /\ QueuesTyped /\ LocalsTyped /\ Now \in Nat /\ xPendedTicks \in Nat
  BY TypeParts, ListsFacts DEF IInv
<1>1. /\ suspender = t /\ suspender' = "none" /\ Advance(xPendedTicks) /\ xPendedTicks' = 0
      /\ UNCHANGED <<call, xTicksToWait, xEntryTimeSet, xTimeOut, due>>
  BY DEF xTaskResumeAll
<1>2. pc[t] \in {"resume", "expired", "asleep"}
  BY <1>0, <1>1 DEF Placed
<1>3. /\ pc' \in [Tasks -> {"user", "try", "check", "resume", "expired", "last",
                       "delay", "asleep", "delayed"}]
      /\ pc'[t] = CASE pc[t] = "resume" -> "try"
                    [] pc[t] = "expired" -> "last"
                    [] pc[t] = "asleep" -> "delayed"
      /\ \A u \in Tasks \ {t} : pc'[u] = pc[u]
  BY <1>0, <1>2 DEF xTaskResumeAll, At, LocalsTyped
<1>4. \/ pc[t] = "resume" /\ pc'[t] = "try"
      \/ pc[t] = "expired" /\ pc'[t] = "last"
      \/ pc[t] = "asleep" /\ pc'[t] = "delayed"
  BY <1>2, <1>3
<1>5. PcMoves
  BY <1>3, <1>4 DEF PcMoves
<1>6. LocalsTyped'
  <2>1. \A u \in Tasks :
         IF pc'[u] = "user" THEN call'[u] = [op |-> "none"] ELSE call'[u] \in Calls[u]
    BY <1>0, <1>1, <1>3, <1>4 DEF LocalsTyped
  <2> QED
    BY <2>1, <1>0, <1>1, <1>3 DEF LocalsTyped
<1>7. /\ ListsTyped' /\ QueuesTyped' /\ EventLists' /\ Served' /\ Ring' /\ Clocked'
      /\ Now' = Now + xPendedTicks /\ Ready \subseteq Ready'
  <2>1. xPendedTicks' \in 0..MaxPended /\ suspender' \in Tasks \cup {"none"}
    BY <1>1, KernelAssumption
  <2> QED
    BY <2>1, <1>0, <1>1, <1>5, AdvanceKeeps
<1>8. Placed'
  <2>1. "none" \notin Tasks
    BY KernelAssumption
  <2>2. ASSUME NEW u \in Tasks, u # t
        PROVE  /\ pc'[u] \in {"user", "check", "expired", "last", "delay"} => u \in Ready'
               /\ suspender' = u <=> pc'[u] \in {"resume", "expired", "asleep"}
               /\ pc'[u] \in {"delay", "asleep", "delayed"} => call'[u].op = "delay"
               /\ pc'[u] \in {"try", "check", "resume", "expired", "last"} =>
                    call'[u].op \in {"send", "receive"}
    <3>1. pc'[u] = pc[u] /\ call'[u] = call[u] /\ pc[u] \notin {"resume", "expired", "asleep"}
      BY <2>2, <1>0, <1>1, <1>3 DEF Placed
    <3> QED
      BY <3>1, <2>1, <1>0, <1>1, <1>7 DEF Placed
  <2>3. /\ pc'[t] \in {"user", "check", "expired", "last", "delay"} => t \in Ready'
        /\ pc'[t] \notin {"resume", "expired", "asleep"}
        /\ pc'[t] \in {"delay", "asleep", "delayed"} => call'[t].op = "delay"
        /\ pc'[t] \in {"try", "check", "resume", "expired", "last"} =>
             call'[t].op \in {"send", "receive"}
    BY <1>0, <1>1, <1>4, <1>7 DEF Placed
  <2> QED
    BY <2>1, <2>2, <2>3, <1>1 DEF Placed
<1>9. Timed'
  <2>1. Now' \in Nat /\ Now <= Now'
    BY <1>0, <1>7
  <2>2. \A u \in Tasks : InQueueCall(u) /\ xEntryTimeSet[u] /\ call[u].wait # portMAX_DELAY =>
                           Now' + xPendedTicks' <= Entry(u) + Ticks
    <3>1. Now' + xPendedTicks' = Now + xPendedTicks
      BY <1>0, <1>1, <1>7
    <3> QED
      BY <3>1, <1>0 DEF Timed, TimedCall, TimeKnown
  <2> QED
    BY <1>0, <1>1, <1>5, <2>1, <2>2, TimePasses
<1> QED
  BY <1>6, <1>7, <1>8, <1>9, TypePartsNext DEF IInv

-----------------------------------------------------------------------------
(* An item is copied. *)

First(s) == IF s = <<>> THEN {} ELSE {Head(s).pvOwner}

(* The first of an event list, and the others. *)
LEMMA RestIs ==
  ASSUME NEW s \in Seq(ListItem(Int)), Distinct(s)
  PROVE  /\ Rest(s) \in Seq(ListItem(Int)) /\ Distinct(Rest(s))
         /\ Range(Rest(s)) \subseteq Range(s)
         /\ Rest(s) # <<>> => s # <<>>
         /\ First(s) \subseteq Tasks
         /\ \A u \in First(s) : \E x \in Range(s) : x.pvOwner = u
         /\ \A x \in Range(Rest(s)) : x.pvOwner \notin First(s)
<1>1. CASE s = <<>>
  <2>1. Rest(s) = s /\ First(s) = {}
    BY <1>1 DEF Rest, First
  <2> QED
    BY <1>1, <2>1
<1>2. CASE s # <<>>
  <2>1. /\ Rest(s) = Tail(s) /\ First(s) = {s[1].pvOwner}
    BY <1>2 DEF Rest, First
  <2>2. /\ Tail(s) \in Seq(ListItem(Int)) /\ Len(s) \in Nat /\ Len(s) >= 1 /\ 1 \in 1..Len(s)
        /\ Len(Tail(s)) = Len(s) - 1 /\ DOMAIN s = 1..Len(s) /\ DOMAIN Tail(s) = 1..(Len(s) - 1)
        /\ \A i \in 1..(Len(s) - 1) : Tail(s)[i] = s[i + 1]
    BY <1>2
  <2>3. \A i \in 1..(Len(s) - 1) : i + 1 \in 1..Len(s) /\ i + 1 # 1
    BY <2>2
  <2>4. Range(Tail(s)) \subseteq Range(s) /\ s[1] \in Range(s)
    BY <2>2, <2>3 DEF Range
  <2>5. s[1].pvOwner \in Tasks
    BY <2>4, RangeOwners
  <2>6. \A i, j \in 1..(Len(s) - 1) : Tail(s)[i].pvOwner = Tail(s)[j].pvOwner => i = j
    <3> SUFFICES ASSUME NEW i \in 1..(Len(s) - 1), NEW j \in 1..(Len(s) - 1),
                        Tail(s)[i].pvOwner = Tail(s)[j].pvOwner
                 PROVE  i = j
      OBVIOUS
    <3>1. i + 1 = j + 1
      BY <2>2, <2>3 DEF Distinct
    <3> QED
      BY <3>1, <2>2
  <2>7. \A x \in Range(Tail(s)) : x.pvOwner # s[1].pvOwner
    <3> SUFFICES ASSUME NEW i \in 1..(Len(s) - 1), Tail(s)[i].pvOwner = s[1].pvOwner
                 PROVE  FALSE
      BY <2>2 DEF Range
    <3> QED
      BY <2>2, <2>3 DEF Distinct
  <2>8. Distinct(Tail(s))
    BY <2>2, <2>6 DEF Distinct
  <2> QED
    BY <1>2, <2>1, <2>2, <2>4, <2>5, <2>7, <2>8
<1> QED
  BY <1>1, <1>2

(* Tasks are taken from the lists of those that sleep. *)
LEMMA RemoveIs ==
  ASSUME ListsTyped, LocalsTyped, Clocked, NEW T \in SUBSET Tasks, UNCHANGED clock,
         pxDelayedTaskList' = Without(pxDelayedTaskList, T),
         pxOverflowDelayedTaskList' = Without(pxOverflowDelayedTaskList, T),
         xSuspendedTaskList' = xSuspendedTaskList \ T,
         xNextTaskUnblockTime' = xNextTaskUnblockTime,
         xPendedTicks' = xPendedTicks, suspender' = suspender
  PROVE  /\ ListsTyped'
         /\ Sorted(pxDelayedTaskList') /\ Sorted(pxOverflowDelayedTaskList')
         /\ ClockNow' \in ClockState
         /\ Sleeping' = Sleeping \ T
         /\ Ready' = Ready \cup T
         /\ OnTime(ClockNow', due)
<1> DEFINE a == pxDelayedTaskList
           b == pxOverflowDelayedTaskList
<1>1. /\ a \in Seq(ListItem(MaxDelay)) /\ b \in Seq(ListItem(MaxDelay))
      /\ MaxDelay \in SUBSET Int /\ Sorted(a) /\ Sorted(b)
      /\ Sleeping \subseteq Tasks /\ xSuspendedTaskList \subseteq Tasks \ Sleeping
  BY ListsFacts, MaxDelayIs DEF Clocked, ListsTyped
<1>2. /\ a' = Without(a, T) /\ b' = Without(b, T)
  OBVIOUS
<1>3. OnTime(ClockNow, due)
  BY DEF Clocked
<1>4. Owners(a) \cup Owners(b) = Sleeping /\ Owners(a') \cup Owners(b') = Sleeping'
  BY DEF Sleeping
<1>5. /\ Owners(a) = {x.pvOwner : x \in Range(a)} /\ Owners(b) = {x.pvOwner : x \in Range(b)}
      /\ Owners(a') = {x.pvOwner : x \in Range(a')} /\ Owners(b') = {x.pvOwner : x \in Range(b')}
  BY OwnersOfRange
<1> HIDE DEF a, b
<1>6. /\ Without(a, T) \in Seq(ListItem(MaxDelay))
      /\ Range(Without(a, T)) = {x \in Range(a) : x.pvOwner \notin T}
      /\ Sorted(Without(a, T))
  BY <1>1, WithoutIs
<1>7. /\ Without(b, T) \in Seq(ListItem(MaxDelay))
      /\ Range(Without(b, T)) = {x \in Range(b) : x.pvOwner \notin T}
      /\ Sorted(Without(b, T))
  BY <1>1, WithoutIs
<1>8. Sleeping' = Sleeping \ T
  <2>1. Owners(a') = Owners(a) \ T
    BY <1>2, <1>5, <1>6
  <2>2. Owners(b') = Owners(b) \ T
    BY <1>2, <1>5, <1>7
  <2> QED
    BY <2>1, <2>2, <1>4
<1>9. Ready' = Ready \cup T
  BY <1>1, <1>8 DEF Ready
<1>10. xSuspendedTaskList' \subseteq Tasks \ Sleeping'
  BY <1>1, <1>8
<1>11. /\ pxDelayedTaskList' \in Seq(ListItem(MaxDelay)) /\ pxOverflowDelayedTaskList' \in Seq(ListItem(MaxDelay))
       /\ Sorted(pxDelayedTaskList') /\ Sorted(pxOverflowDelayedTaskList')
       /\ Range(pxDelayedTaskList') \subseteq Range(pxDelayedTaskList)
       /\ Range(pxOverflowDelayedTaskList') \subseteq Range(pxOverflowDelayedTaskList)
  BY <1>2, <1>6, <1>7 DEF a, b
<1>12. ListsTyped'
  BY <1>10, <1>11 DEF ListsTyped, clock, MaxDelay
<1>13. ClockNow' \in ClockState
  BY <1>11, <1>12 DEF ClockNow, ClockState, ListsTyped, MaxDelay
<1>14. OnTime(ClockNow', due)
  BY <1>3, <1>11 DEF OnTime, ClockNow, clock
<1> QED
  BY <1>8, <1>9, <1>11, <1>12, <1>13, <1>14

(* A task copies an item and returns; the first of those that wait at the   *)
(* other end becomes ready.                                                 *)
Exchange(t, q, op, other, s) ==
  /\ Runs(t) /\ pc[t] = "try" /\ op # other /\ call[t].op = op /\ call[t].q = q
  /\ Waiting(s, q, other)
  /\ xTaskRemoveFromEventList(s)
  /\ Return(t)
  /\ UNCHANGED <<clock, xPendedTicks, suspender>>

(* A task that leaves with or without an item and the task that it wakes    *)
(* change the counts by one each.                                           *)
LEMMA ExchangeKeeps ==
  ASSUME IInv, NEW t \in Tasks, NEW q \in Queues, NEW op, NEW other,
         NEW s \in Seq(ListItem(Int)), Exchange(t, q, op, other, s)
  PROVE  /\ LocalsTyped' /\ ListsTyped' /\ Placed' /\ Timed' /\ Clocked'
         /\ Rest(s) \in Seq(ListItem(Int)) /\ WaitingNext(Rest(s), q, other)
         /\ \A r \in Seq(ListItem(Int)) : \A u, o :
              Waiting(r, u, o) /\ ~(u = q /\ o = other) => WaitingNext(r, u, o)
         /\ \A u, o : /\ Cardinality(Tryers(u, o)) \in Nat /\ Cardinality(Tryers(u, o)') \in Nat
                      /\ ~(u = q /\ o = op) => Cardinality(Tryers(u, o)') >= Cardinality(Tryers(u, o))
         /\ Cardinality(Tryers(q, op)') >= Cardinality(Tryers(q, op)) - 1
         /\ s # <<>> => Cardinality(Tryers(q, other)') >= Cardinality(Tryers(q, other)) + 1
<1> DEFINE T == First(s)
<1> USE DEF Exchange
<1>0. /\ TypeOK /\ Placed /\ EventLists /\ Served /\ Ring /\ Timed
      /\ Clocked /\ ListsTyped /\ QueuesTyped /\ LocalsTyped
  BY TypeParts DEF IInv
<1>1. /\ suspender = "none" /\ t \in Ready
      /\ \A u \in Tasks : pc[u] \notin {"resume", "expired", "asleep"}
  BY <1>0, RunsAlone
<1>2. /\ LocalsTyped' /\ Own(t) /\ pc'[t] = "user" /\ ~InQueueCall(t)' /\ ~xEntryTimeSet'[t]
  BY <1>0, ReturnIs
<1>3. /\ Rest(s) \in Seq(ListItem(Int)) /\ Distinct(Rest(s))
      /\ Range(Rest(s)) \subseteq Range(s)
      /\ T \subseteq Tasks
      /\ \A u \in T : \E x \in Range(s) : x.pvOwner = u
      /\ \A x \in Range(Rest(s)) : x.pvOwner \notin T
  BY RestIs DEF Waiting
<1>4. \A u \in T : /\ u \in Tasks /\ u \notin Ready /\ u # t /\ pc[u] = "try"
                   /\ call[u].op = other /\ call[u].q = q
  BY <1>1, <1>3 DEF Waiting
<1>5. /\ pxDelayedTaskList' = Without(pxDelayedTaskList, T)
      /\ pxOverflowDelayedTaskList' = Without(pxOverflowDelayedTaskList, T)
      /\ xSuspendedTaskList' = xSuspendedTaskList \ T
      /\ xNextTaskUnblockTime' = xNextTaskUnblockTime
      /\ s # <<>> => T = {Head(s).pvOwner}
  BY DEF xTaskRemoveFromEventList, First
<1> HIDE DEF T
<1>6. /\ ListsTyped'
      /\ Sorted(pxDelayedTaskList') /\ Sorted(pxOverflowDelayedTaskList')
      /\ ClockNow' \in ClockState
      /\ Sleeping' = Sleeping \ T /\ Ready' = Ready \cup T
      /\ OnTime(ClockNow', due)
  BY <1>0, <1>3, <1>5, RemoveIs
<1>7. Now' = Now /\ Sleeping \subseteq Tasks /\ t \notin Sleeping /\ Ready \subseteq Tasks
  BY <1>0, <1>1, ListsFacts DEF Now, clock, Ready
<1>8. Placed'
  <2>1. ASSUME NEW u \in Tasks
        PROVE  /\ pc'[u] \in {"user", "check", "expired", "last", "delay"} => u \in Ready'
               /\ suspender' = u <=> pc'[u] \in {"resume", "expired", "asleep"}
               /\ pc'[u] \in {"delay", "asleep", "delayed"} => call'[u].op = "delay"
               /\ pc'[u] \in {"try", "check", "resume", "expired", "last"} =>
                    call'[u].op \in {"send", "receive"}
    <3>1. suspender' # u
      BY <1>1, KernelAssumption
    <3>2. CASE u = t
      BY <3>1, <3>2, <1>1, <1>2, <1>6
    <3>3. CASE u # t
      <4>1. pc'[u] = pc[u] /\ call'[u] = call[u]
        BY <3>3, <1>2 DEF Own
      <4> QED
        BY <3>1, <4>1, <1>0, <1>1, <1>6 DEF Placed
    <3> QED
      BY <3>2, <3>3
  <2>2. xPendedTicks' = 0
    BY <1>0, <1>1 DEF Placed
  <2> QED
    BY <2>1, <2>2 DEF Placed
<1>9. Timed'
  <2>1. \A u \in Tasks \ {t} : IF InQueueCall(u)' THEN TimedCall(u)' ELSE ~xEntryTimeSet'[u]
    BY <1>0, <1>2, <1>7, OthersTimed
  <2> QED
    BY <2>1, <1>2 DEF Timed
<1>10. Clocked'
  <2>1. due \in [Tasks -> Nat] /\ SleepingIn(ClockNow') = Sleeping'
    BY <1>0 DEF LocalsTyped, ClockNow, SleepingIn, Sleeping
  <2>2. \A u \in Sleeping' : due'[u] = due[u]
    BY <1>2, <1>6, <1>7 DEF Own
  <2>3. OnTime(ClockNow', due')
    <3>1. PICK k : k = ClockNow'
      OBVIOUS
    <3>2. PICK e : e = due'
      OBVIOUS
    <3>3. k \in ClockState /\ OnTime(k, due) /\ \A u \in SleepingIn(k) : e[u] = due[u]
      BY <3>1, <3>2, <2>1, <2>2, <1>6
    <3>4. OnTime(k, e)
      BY <3>3, <2>1, StillOnTime
    <3> QED
      BY <3>1, <3>2, <3>4
  <2>4. ASSUME NEW u \in Tasks, pc'[u] \in {"asleep", "delayed"}, u \notin Sleeping'
        PROVE  due'[u] <= Now'
    <3>1. u # t
      BY <2>4, <1>2
    <3>2. pc'[u] = pc[u] /\ due'[u] = due[u]
      BY <3>1, <1>2 DEF Own
    <3>3. u \notin Sleeping
      BY <3>2, <2>4, <1>4, <1>6
    <3> QED
      BY <3>2, <3>3, <2>4, <1>0, <1>7 DEF Clocked
  <2> QED
    BY <2>3, <2>4, <1>6 DEF Clocked
<1>11. ASSUME NEW r \in Seq(ListItem(Int)), NEW u, NEW o, Waiting(r, u, o), 
              NEW z \in Seq(ListItem(Int)), Range(z) \subseteq Range(r), Distinct(z),
              \A x \in Range(z) : x.pvOwner \notin T
       PROVE  WaitingNext(z, u, o)
  <2>1. ASSUME NEW x \in Range(z)
        PROVE  /\ x.pvOwner \notin Ready' /\ pc'[x.pvOwner] \in {"try", "resume"}
               /\ call'[x.pvOwner].op = o /\ call'[x.pvOwner].q = u
    <3>1. x.pvOwner \in Tasks
      BY RangeOwners
    <3>2. /\ x.pvOwner \notin Ready /\ pc[x.pvOwner] \in {"try", "resume"}
          /\ call[x.pvOwner].op = o /\ call[x.pvOwner].q = u
      BY <1>11 DEF Waiting
    <3>3. pc'[x.pvOwner] = pc[x.pvOwner] /\ call'[x.pvOwner] = call[x.pvOwner]
      BY <3>1, <3>2, <1>1, <1>2 DEF Own
    <3> QED
      BY <3>2, <3>3, <1>6, <1>11
  <2> QED
    BY <2>1, <1>11 DEF WaitingNext
<1>12. WaitingNext(Rest(s), q, other)
  BY <1>3, <1>11
<1>13. ASSUME NEW r \in Seq(ListItem(Int)), NEW u, NEW o, Waiting(r, u, o), ~(u = q /\ o = other)
       PROVE  WaitingNext(r, u, o)
  <2>1. \A x \in Range(r) : x.pvOwner \notin T
    BY <1>4, <1>13 DEF Waiting
  <2>2. Distinct(r)
    BY <1>13 DEF Waiting
  <2> QED
    BY <2>1, <2>2, <1>11, <1>13
<1>14. ASSUME NEW u, NEW o
       PROVE  /\ Tryers(u, o)' \subseteq Tasks /\ Tryers(u, o) \subseteq Tasks
              /\ Tryers(u, o) \ {t} \subseteq Tryers(u, o)'
              /\ ~(u = q /\ o = op) => Tryers(u, o) \subseteq Tryers(u, o)'
              /\ Tryers(q, other) \cup T \subseteq Tryers(q, other)'
  <2>1. Tryers(u, o)' \subseteq Tasks /\ Tryers(u, o) \subseteq Tasks
    BY <1>3, <1>6, <1>7 DEF Tryers
  <2>2. Tryers(u, o) \ {t} \subseteq Tryers(u, o)'
    BY <2>1, <1>2, <1>6 DEF Tryers, Own
  <2>3. ~(u = q /\ o = op) => t \notin Tryers(u, o)
    BY DEF Tryers
  <2>4. T \subseteq Tryers(q, other)'
    BY <1>2, <1>4, <1>6 DEF Tryers, Own
  <2>5. Tryers(q, other) \subseteq Tryers(q, other)'
    BY <1>2, <1>6, <1>7 DEF Tryers, Own
  <2> QED
    BY <2>1, <2>2, <2>3, <2>4, <2>5
<1>15. \A u, o : /\ Cardinality(Tryers(u, o)) \in Nat /\ Cardinality(Tryers(u, o)') \in Nat
                 /\ ~(u = q /\ o = op) => Cardinality(Tryers(u, o)') >= Cardinality(Tryers(u, o))
  <2> TAKE u, o
  <2>1. Tryers(u, o)' \subseteq Tasks /\ Tryers(u, o) \subseteq Tasks
    BY <1>14
  <2>2. Cardinality(Tryers(u, o)) \in Nat /\ Cardinality(Tryers(u, o)') \in Nat
    BY <2>1, MoreTasks
  <2>3. ~(u = q /\ o = op) => Cardinality(Tryers(u, o)') >= Cardinality(Tryers(u, o))
    <3>1. ~(u = q /\ o = op) => Tryers(u, o) \subseteq Tryers(u, o)'
      BY <1>14
    <3> QED
      BY <2>1, <2>2, <3>1, MoreTasks
  <2> QED
    BY <2>2, <2>3
<1>16. Cardinality(Tryers(q, op)') >= Cardinality(Tryers(q, op)) - 1
  <2> DEFINE A == Tryers(q, op)
             B == Tryers(q, op)'
  <2>0. t \in A
    BY <1>1 DEF Tryers
  <2>1. A \ {t} \subseteq B /\ B \subseteq Tasks /\ A \subseteq Tasks /\ t \in A
    BY <2>0, <1>14
  <2> HIDE DEF A, B
  <2>2. IsFiniteSet(A)
    BY <2>1, KernelAssumption, FS_Subset
  <2>3. Cardinality(A \ {t}) = Cardinality(A) - 1
    BY <2>1, <2>2, FS_RemoveElement
  <2>4. Cardinality(A \ {t}) <= Cardinality(B)
    BY <2>1, MoreTasks
  <2>5. Cardinality(A) \in Nat /\ Cardinality(B) \in Nat
    BY <2>1, MoreTasks
  <2>6. Cardinality(B) >= Cardinality(A) - 1
    BY <2>3, <2>4, <2>5
  <2> QED
    BY <2>6 DEF A, B
<1>17. ASSUME s # <<>>
       PROVE  Cardinality(Tryers(q, other)') >= Cardinality(Tryers(q, other)) + 1
  <2> DEFINE A == Tryers(q, other)
             B == Tryers(q, other)'
             h == Head(s).pvOwner
  <2>1. A \cup T \subseteq B /\ B \subseteq Tasks /\ A \subseteq Tasks /\ T = {h}
    BY <1>5, <1>14, <1>17
  <2>2. h \notin A
    BY <2>1, <1>4 DEF Tryers
  <2> HIDE DEF A, B, h
  <2>3. IsFiniteSet(A)
    BY <2>1, KernelAssumption, FS_Subset
  <2>4. Cardinality(A \cup {h}) = Cardinality(A) + 1
    BY <2>2, <2>3, FS_AddElement
  <2>5. Cardinality(A \cup {h}) <= Cardinality(B)
    BY <2>1, MoreTasks
  <2>6. Cardinality(A) \in Nat /\ Cardinality(B) \in Nat
    BY <2>1, MoreTasks
  <2>7. Cardinality(B) >= Cardinality(A) + 1
    BY <2>4, <2>5, <2>6
  <2> QED
    BY <2>7 DEF A, B
<1> QED
  BY <1>2, <1>3, <1>6, <1>8, <1>9, <1>10, <1>12, <1>13, <1>15, <1>16, <1>17

(* The position after this one in a ring. *)
NextIn(i, length) == IF i + 1 = length THEN 0 ELSE i + 1

AsRecord(z) ==
  z = [uxMessagesWaiting |-> z.uxMessagesWaiting,
       pcWriteTo |-> z.pcWriteTo, pcReadFrom |-> z.pcReadFrom, pcHead |-> z.pcHead,
       xTasksWaitingToSend |-> z.xTasksWaitingToSend,
       xTasksWaitingToReceive |-> z.xTasksWaitingToReceive]

(* The fields of a queue after an item was copied to it. *)
LEMMA SendIs ==
  ASSUME QueuesTyped, NEW t, NEW q \in Queues, SendNow(t, q)
  PROVE  /\ DOMAIN queue' = Queues /\ \A u \in Queues \ {q} : queue'[u] = queue[u]
         /\ queue'[q].uxMessagesWaiting = queue[q].uxMessagesWaiting + 1
         /\ queue'[q].pcReadFrom = queue[q].pcReadFrom
         /\ queue'[q].xTasksWaitingToSend = queue[q].xTasksWaitingToSend
         /\ queue'[q].xTasksWaitingToReceive = Rest(queue[q].xTasksWaitingToReceive)
         /\ q \in Semaphores => /\ queue'[q].pcHead = queue[q].pcHead
                                /\ queue'[q].pcWriteTo = queue[q].pcWriteTo
         /\ q \notin Semaphores =>
              /\ queue'[q].pcHead = [queue[q].pcHead EXCEPT ![queue[q].pcWriteTo] = call[t].item]
              /\ queue'[q].pcWriteTo = NextIn(queue[q].pcWriteTo, uxLength[q])
         /\ AsRecord(queue'[q])
<1> DEFINE z == [prvCopyDataToQueue(q, call[t].item) EXCEPT !.xTasksWaitingToReceive = Rest(@)]
<1>1. queue' = [queue EXCEPT ![q] = z]
  BY DEF SendNow
<1>2. queue'[q] = z /\ DOMAIN queue' = Queues /\ \A u \in Queues \ {q} : queue'[u] = queue[u]
  <2> HIDE DEF z
  <2> QED
    BY <1>1 DEF QueuesTyped
<1>3. AsRecord(queue[q])
  BY QueueFields DEF AsRecord
<1>4. CASE q \in Semaphores
  <2>1. PICK y : y = [queue[q] EXCEPT !.uxMessagesWaiting = @ + 1]
    OBVIOUS
  <2>2. z = [y EXCEPT !.xTasksWaitingToReceive = Rest(@)]
    BY <1>4, <2>1 DEF prvCopyDataToQueue
  <2>3. /\ AsRecord(y) /\ y.uxMessagesWaiting = queue[q].uxMessagesWaiting + 1
        /\ y.pcReadFrom = queue[q].pcReadFrom /\ y.pcWriteTo = queue[q].pcWriteTo
        /\ y.pcHead = queue[q].pcHead
        /\ y.xTasksWaitingToSend = queue[q].xTasksWaitingToSend
        /\ y.xTasksWaitingToReceive = queue[q].xTasksWaitingToReceive
    BY <1>3, <2>1 DEF AsRecord
  <2> HIDE DEF z
  <2>4. /\ AsRecord(z) /\ z.uxMessagesWaiting = y.uxMessagesWaiting
        /\ z.pcReadFrom = y.pcReadFrom /\ z.pcWriteTo = y.pcWriteTo
        /\ z.pcHead = y.pcHead /\ z.xTasksWaitingToSend = y.xTasksWaitingToSend
        /\ z.xTasksWaitingToReceive = Rest(y.xTasksWaitingToReceive)
    BY <2>2, <2>3 DEF AsRecord
  <2> QED
    BY <1>2, <1>4, <2>3, <2>4
<1>5. CASE q \notin Semaphores
  <2> DEFINE w == queue[q].pcWriteTo
  <2>1. PICK y : y = [queue[q] EXCEPT !.uxMessagesWaiting = @ + 1]
    OBVIOUS
  <2>2. PICK x : x = [y EXCEPT !.pcHead[w] = call[t].item, !.pcWriteTo = NextIn(w, uxLength[q])]
    OBVIOUS
  <2>3. z = [x EXCEPT !.xTasksWaitingToReceive = Rest(@)]
    BY <1>5, <2>1, <2>2 DEF prvCopyDataToQueue, NextIn
  <2>4. /\ AsRecord(y) /\ y.uxMessagesWaiting = queue[q].uxMessagesWaiting + 1
        /\ y.pcReadFrom = queue[q].pcReadFrom /\ y.pcWriteTo = queue[q].pcWriteTo
        /\ y.pcHead = queue[q].pcHead
        /\ y.xTasksWaitingToSend = queue[q].xTasksWaitingToSend
        /\ y.xTasksWaitingToReceive = queue[q].xTasksWaitingToReceive
    BY <1>3, <2>1 DEF AsRecord
  <2> HIDE DEF z, w
  <2>5. /\ AsRecord(x) /\ x.uxMessagesWaiting = y.uxMessagesWaiting
        /\ x.pcReadFrom = y.pcReadFrom /\ x.pcWriteTo = NextIn(w, uxLength[q])
        /\ x.pcHead = [y.pcHead EXCEPT ![w] = call[t].item]
        /\ x.xTasksWaitingToSend = y.xTasksWaitingToSend
        /\ x.xTasksWaitingToReceive = y.xTasksWaitingToReceive
    BY <2>2, <2>4 DEF AsRecord
  <2>6. /\ AsRecord(z) /\ z.uxMessagesWaiting = x.uxMessagesWaiting
        /\ z.pcReadFrom = x.pcReadFrom /\ z.pcWriteTo = x.pcWriteTo
        /\ z.pcHead = x.pcHead /\ z.xTasksWaitingToSend = x.xTasksWaitingToSend
        /\ z.xTasksWaitingToReceive = Rest(x.xTasksWaitingToReceive)
    BY <2>3, <2>5 DEF AsRecord
  <2> QED
    BY <1>2, <1>5, <2>4, <2>5, <2>6 DEF w
<1> QED
  BY <1>4, <1>5

(* The control block after a receive. *)
LEMMA ReceiveIs ==
  ASSUME QueuesTyped, NEW t, NEW q \in Queues, ReceiveNow(t, q)
  PROVE  /\ DOMAIN queue' = Queues /\ \A u \in Queues \ {q} : queue'[u] = queue[u]
         /\ queue'[q].uxMessagesWaiting = queue[q].uxMessagesWaiting - 1
         /\ queue'[q].pcHead = queue[q].pcHead
         /\ queue'[q].pcWriteTo = queue[q].pcWriteTo
         /\ queue'[q].xTasksWaitingToReceive = queue[q].xTasksWaitingToReceive
         /\ queue'[q].xTasksWaitingToSend = Rest(queue[q].xTasksWaitingToSend)
         /\ q \in Semaphores => queue'[q].pcReadFrom = queue[q].pcReadFrom
         /\ q \notin Semaphores => queue'[q].pcReadFrom = NextIn(queue[q].pcReadFrom, uxLength[q])
         /\ AsRecord(queue'[q])
<1> DEFINE z == [prvCopyDataFromQueue(q) EXCEPT !.xTasksWaitingToSend = Rest(@)]
<1>1. queue' = [queue EXCEPT ![q] = z]
  BY DEF ReceiveNow
<1>2. queue'[q] = z /\ DOMAIN queue' = Queues /\ \A u \in Queues \ {q} : queue'[u] = queue[u]
  <2> HIDE DEF z
  <2> QED
    BY <1>1 DEF QueuesTyped
<1>3. AsRecord(queue[q])
  BY QueueFields DEF AsRecord
<1>4. CASE q \in Semaphores
  <2>1. z = [[queue[q] EXCEPT !.uxMessagesWaiting = @ - 1] EXCEPT !.xTasksWaitingToSend = Rest(@)]
    BY <1>4 DEF prvCopyDataFromQueue
  <2>2. PICK y : y = [queue[q] EXCEPT !.uxMessagesWaiting = @ - 1]
    OBVIOUS
  <2>3. z = [y EXCEPT !.xTasksWaitingToSend = Rest(@)]
    BY <2>1, <2>2, Zenon
  <2>4. /\ AsRecord(y) /\ y.uxMessagesWaiting = queue[q].uxMessagesWaiting - 1
        /\ y.pcReadFrom = queue[q].pcReadFrom /\ y.pcWriteTo = queue[q].pcWriteTo
        /\ y.pcHead = queue[q].pcHead
        /\ y.xTasksWaitingToSend = queue[q].xTasksWaitingToSend
        /\ y.xTasksWaitingToReceive = queue[q].xTasksWaitingToReceive
    BY <1>3, <2>2 DEF AsRecord
  <2> HIDE DEF z
  <2>5. /\ AsRecord(z) /\ z.uxMessagesWaiting = y.uxMessagesWaiting
        /\ z.pcReadFrom = y.pcReadFrom /\ z.pcWriteTo = y.pcWriteTo
        /\ z.pcHead = y.pcHead /\ z.xTasksWaitingToReceive = y.xTasksWaitingToReceive
        /\ z.xTasksWaitingToSend = Rest(y.xTasksWaitingToSend)
    BY <2>3, <2>4 DEF AsRecord
  <2> QED
    BY <1>2, <1>4, <2>4, <2>5
<1>5. CASE q \notin Semaphores
  <2>1. PICK y : y = [queue[q] EXCEPT !.uxMessagesWaiting = @ - 1]
    OBVIOUS
  <2>2. PICK x : x = [y EXCEPT !.pcReadFrom = IF @ + 1 = uxLength[q] THEN 0 ELSE @ + 1]
    OBVIOUS
  <2>3. z = [x EXCEPT !.xTasksWaitingToSend = Rest(@)]
    BY <1>5, <2>1, <2>2 DEF prvCopyDataFromQueue
  <2>4. /\ AsRecord(y) /\ y.uxMessagesWaiting = queue[q].uxMessagesWaiting - 1
        /\ y.pcReadFrom = queue[q].pcReadFrom /\ y.pcWriteTo = queue[q].pcWriteTo
        /\ y.pcHead = queue[q].pcHead
        /\ y.xTasksWaitingToSend = queue[q].xTasksWaitingToSend
        /\ y.xTasksWaitingToReceive = queue[q].xTasksWaitingToReceive
    BY <1>3, <2>1 DEF AsRecord
  <2> HIDE DEF z
  <2>5. /\ AsRecord(x) /\ x.uxMessagesWaiting = y.uxMessagesWaiting
        /\ x.pcReadFrom = NextIn(y.pcReadFrom, uxLength[q]) /\ x.pcWriteTo = y.pcWriteTo
        /\ x.pcHead = y.pcHead
        /\ x.xTasksWaitingToSend = y.xTasksWaitingToSend
        /\ x.xTasksWaitingToReceive = y.xTasksWaitingToReceive
    BY <2>2, <2>4 DEF AsRecord, NextIn
  <2>6. /\ AsRecord(z) /\ z.uxMessagesWaiting = x.uxMessagesWaiting
        /\ z.pcReadFrom = x.pcReadFrom /\ z.pcWriteTo = x.pcWriteTo
        /\ z.pcHead = x.pcHead /\ z.xTasksWaitingToReceive = x.xTasksWaitingToReceive
        /\ z.xTasksWaitingToSend = Rest(x.xTasksWaitingToSend)
    BY <2>3, <2>5 DEF AsRecord
  <2> QED
    BY <1>2, <1>5, <2>4, <2>5, <2>6
<1> QED
  BY <1>4, <1>5

(* Steps around the ring. *)
LEMMA RingStep ==
  ASSUME NEW L \in Nat, L > 0, NEW r \in 0..(L - 1), NEW m \in 0..L, NEW w,
         w = (r + 1 + m) % L
  PROVE  /\ m < L => NextIn(w, L) = (r + 1 + (m + 1)) % L /\ NextIn(w, L) \in 0..(L - 1)
         /\ m > 0 => /\ w = (NextIn(r, L) + 1 + (m - 1)) % L
                     /\ NextIn(r, L) \in 0..(L - 1)
<1>1. (r + 1 + m < L => w = r + 1 + m) /\ (~(r + 1 + m < L) => w = r + 1 + m - L \/ r + 1 + m = 2 * L)
  <2>1. r + 1 + m \in Nat /\ r + 1 + m <= 2 * L
    OBVIOUS
  <2>2. r + 1 + m < 2 * L \/ r + 1 + m = 2 * L
    BY <2>1
  <2> QED
    BY <2>1, <2>2, ModSmall
<1>2. ASSUME m < L PROVE NextIn(w, L) = (r + 1 + (m + 1)) % L /\ NextIn(w, L) \in 0..(L - 1)
  <2>1. r + 1 + m \in Nat /\ r + 1 + m < 2 * L /\ r + 1 + m + 1 <= 2 * L
    BY <1>2
  <2>2. (r + 1 + m < L => w = r + 1 + m) /\ (~(r + 1 + m < L) => w = r + 1 + m - L)
    BY <1>1, <2>1
  <2>3. w \in 0..(L - 1)
    BY <2>1, <2>2
  <2>4. CASE r + 1 + m + 1 < L
    <3>1. (r + 1 + (m + 1)) % L = r + 1 + (m + 1)
      BY <2>4, ModSmall
    <3> QED
      BY <2>2, <2>4, <3>1, <1>2 DEF NextIn
  <2>5. CASE r + 1 + m + 1 >= L /\ r + 1 + m + 1 < 2 * L
    <3>1. (r + 1 + (m + 1)) % L = r + 1 + (m + 1) - L
      BY <2>5, ModSmall
    <3>2. CASE r + 1 + m < L
      BY <2>2, <2>5, <3>1, <3>2 DEF NextIn
    <3>3. CASE ~(r + 1 + m < L)
      BY <2>2, <2>5, <3>1, <3>3 DEF NextIn
    <3> QED
      BY <3>2, <3>3
  <2>6. CASE r + 1 + m + 1 = 2 * L
    <3>1. (r + 1 + (m + 1)) % L = 0
      <4>1. r + 1 + (m + 1) = L + L
        BY <2>6
      <4>2. (L + L) % L = 0
        OBVIOUS
      <4> QED
        BY <4>1, <4>2
    <3> QED
      BY <2>2, <2>6, <3>1 DEF NextIn
  <2> QED
    BY <2>1, <2>4, <2>5, <2>6
<1>3. ASSUME m > 0 PROVE w = (NextIn(r, L) + 1 + (m - 1)) % L /\ NextIn(r, L) \in 0..(L - 1)
  <2>1. CASE r + 1 = L
    <3>1. NextIn(r, L) = 0
      BY <2>1 DEF NextIn
    <3>2. r + 1 + m = m + L /\ m \in Nat /\ 0 + 1 + (m - 1) = m
      BY <2>1
    <3>3. (m + L) % L = m % L
      <4>1. CASE m < L
        BY <4>1, ModSmall
      <4>2. CASE m = L
        <5>1. (L + L) % L = 0 /\ L % L = 0
          OBVIOUS
        <5> QED
          BY <5>1, <4>2
      <4> QED
        BY <4>1, <4>2
    <3> QED
      BY <3>1, <3>2, <3>3
  <2>2. CASE r + 1 # L
    <3>1. NextIn(r, L) = r + 1 /\ (r + 1) + 1 + (m - 1) = r + 1 + m
      BY <2>2 DEF NextIn
    <3> QED
      BY <3>1, <2>2
  <2> QED
    BY <2>1, <2>2
<1> QED
  BY <1>2, <1>3

(* What is left to do for a queue, once its record after the step is known. *)
LEMMA OtherQueuesKeep ==
  ASSUME IInv, NEW t \in Tasks, NEW q \in Queues, NEW op, NEW other,
         NEW s \in Seq(ListItem(Int)), Exchange(t, q, op, other, s),
         DOMAIN queue' = Queues, \A u \in Queues \ {q} : queue'[u] = queue[u],
         queue'[q] \in QueueDefinition(q),
         WaitingNext(queue'[q].xTasksWaitingToSend, q, "send"),
         WaitingNext(queue'[q].xTasksWaitingToReceive, q, "receive"),
         queue'[q].xTasksWaitingToReceive # <<>> =>
           Cardinality(Tryers(q, "receive")') >= queue'[q].uxMessagesWaiting,
         queue'[q].xTasksWaitingToSend # <<>> =>
           Cardinality(Tryers(q, "send")') >= uxLength[q] - queue'[q].uxMessagesWaiting,
         IF q \in Semaphores
         THEN queue'[q].pcHead = [i \in 0..(uxLength[q] - 1) |-> Token]
         ELSE queue'[q].pcWriteTo =
                (queue'[q].pcReadFrom + 1 + queue'[q].uxMessagesWaiting) % uxLength[q]
  PROVE  IInv'
<1>0. /\ TypeOK /\ Placed /\ EventLists /\ Served /\ Ring /\ QueuesTyped
  BY TypeParts DEF IInv
<1>1. /\ LocalsTyped' /\ ListsTyped' /\ Placed' /\ Timed' /\ Clocked'
      /\ \A r \in Seq(ListItem(Int)) : \A u, o :
           Waiting(r, u, o) /\ ~(u = q /\ o = other) => WaitingNext(r, u, o)
      /\ \A u, o : /\ Cardinality(Tryers(u, o)) \in Nat /\ Cardinality(Tryers(u, o)') \in Nat
                   /\ ~(u = q /\ o = op) => Cardinality(Tryers(u, o)') >= Cardinality(Tryers(u, o))
      /\ op # other
  BY ExchangeKeeps DEF Exchange
<1>2. QueuesTyped'
  BY <1>0 DEF QueuesTyped
<1>3. EventLists'
  <2>1. ASSUME NEW u \in Queues, u # q
        PROVE  /\ WaitingNext(queue'[u].xTasksWaitingToSend, u, "send")
               /\ WaitingNext(queue'[u].xTasksWaitingToReceive, u, "receive")
    <3>1. /\ queue[u].xTasksWaitingToSend \in Seq(ListItem(Int))
          /\ queue[u].xTasksWaitingToReceive \in Seq(ListItem(Int)) /\ queue'[u] = queue[u]
      BY <1>0, <2>1, QueueFields
    <3>2. /\ Waiting(queue[u].xTasksWaitingToSend, u, "send")
          /\ Waiting(queue[u].xTasksWaitingToReceive, u, "receive")
      BY <1>0 DEF EventLists
    <3> QED
      BY <3>1, <3>2, <2>1, <1>1
  <2> QED
    BY <2>1, EventListsNext
<1>4. Served'
  <2> SUFFICES ASSUME NEW u \in Queues, u # q
               PROVE  /\ queue'[u].xTasksWaitingToReceive # <<>> =>
                           Cardinality(Tryers(u, "receive")') >= queue'[u].uxMessagesWaiting
                      /\ queue'[u].xTasksWaitingToSend # <<>> =>
                           Cardinality(Tryers(u, "send")') >= uxLength[u] - queue'[u].uxMessagesWaiting
    BY DEF Served
  <2>1. /\ queue'[u] = queue[u] /\ queue[u].uxMessagesWaiting \in Nat /\ uxLength[u] \in Nat
    BY <1>0, QueueFields
  <2>2. /\ Cardinality(Tryers(u, "receive")) \in Nat /\ Cardinality(Tryers(u, "receive")') \in Nat
        /\ Cardinality(Tryers(u, "receive")') >= Cardinality(Tryers(u, "receive"))
        /\ Cardinality(Tryers(u, "send")) \in Nat /\ Cardinality(Tryers(u, "send")') \in Nat
        /\ Cardinality(Tryers(u, "send")') >= Cardinality(Tryers(u, "send"))
    BY <1>1
  <2>3. /\ queue[u].xTasksWaitingToReceive # <<>> =>
             Cardinality(Tryers(u, "receive")) >= queue[u].uxMessagesWaiting
        /\ queue[u].xTasksWaitingToSend # <<>> =>
             Cardinality(Tryers(u, "send")) >= uxLength[u] - queue[u].uxMessagesWaiting
    BY <1>0 DEF Served
  <2>4. queue'[u].xTasksWaitingToReceive # <<>> =>
          Cardinality(Tryers(u, "receive")') >= queue'[u].uxMessagesWaiting
    BY <2>1, <2>2, <2>3
  <2>5. queue'[u].xTasksWaitingToSend # <<>> =>
          Cardinality(Tryers(u, "send")') >= uxLength[u] - queue'[u].uxMessagesWaiting
    BY <2>1, <2>2, <2>3
  <2> QED
    BY <2>4, <2>5
<1>5. Ring'
  BY <1>0 DEF Ring
<1> QED
  BY <1>1, <1>2, <1>3, <1>4, <1>5, TypePartsNext DEF IInv

(* A send keeps the invariant: one item more, one task more on its way. *)
LEMMA SendKeeps ==
  ASSUME IInv, NEW t \in Tasks, Runs(t), pc[t] = "try", call[t].op = "send",
         SendNow(t, call[t].q), Return(t), UNCHANGED <<clock, xPendedTicks, suspender>>
  PROVE  IInv'
<1>q. PICK q : q = call[t].q
  OBVIOUS
<1>s. PICK s : s = queue[q].xTasksWaitingToReceive
  OBVIOUS
<1>r. PICK r : r = queue[q].xTasksWaitingToSend
  OBVIOUS
<1>m. PICK m : m = queue[q].uxMessagesWaiting
  OBVIOUS
<1>L. PICK L : L = uxLength[q]
  OBVIOUS
<1>0. /\ TypeOK /\ EventLists /\ Served /\ Ring /\ QueuesTyped /\ LocalsTyped
  BY TypeParts DEF IInv
<1>1. /\ q \in Queues /\ call[t].item \in Items \cup {Token}
      /\ q \in Semaphores => call[t].item = Token
  <2>1. call[t] \in Calls[t]
    BY <1>0 DEF LocalsTyped
  <2> QED
    BY <1>q, <2>1, CallFields
<1>2. /\ DOMAIN queue' = Queues /\ \A u \in Queues \ {q} : queue'[u] = queue[u]
      /\ queue'[q].uxMessagesWaiting = m + 1
      /\ queue'[q].pcReadFrom = queue[q].pcReadFrom
      /\ queue'[q].xTasksWaitingToSend = r
      /\ queue'[q].xTasksWaitingToReceive = Rest(s)
      /\ q \in Semaphores => /\ queue'[q].pcHead = queue[q].pcHead
                             /\ queue'[q].pcWriteTo = queue[q].pcWriteTo
      /\ q \notin Semaphores =>
           /\ queue'[q].pcHead = [queue[q].pcHead EXCEPT ![queue[q].pcWriteTo] = call[t].item]
           /\ queue'[q].pcWriteTo = NextIn(queue[q].pcWriteTo, L)
      /\ AsRecord(queue'[q])
  BY <1>0, <1>1, <1>q, <1>s, <1>r, <1>m, <1>L, SendIs
<1>3. /\ L \in Nat /\ L > 0 /\ m \in 0..L /\ m # L
      /\ queue[q].pcWriteTo \in 0..(L - 1) /\ queue[q].pcReadFrom \in 0..(L - 1)
      /\ queue[q].pcHead \in [0..(L - 1) -> Items \cup {Token}]
      /\ s \in Seq(ListItem(Int)) /\ r \in Seq(ListItem(Int))
  BY <1>0, <1>1, <1>q, <1>s, <1>r, <1>m, <1>L, QueueFields DEF SendNow, Full
<1>4. Waiting(s, q, "receive") /\ Waiting(r, q, "send")
  BY <1>0, <1>1, <1>s, <1>r DEF EventLists
<1>5. xTaskRemoveFromEventList(s)
  BY <1>q, <1>s DEF SendNow
<1>6. /\ s # <<>> => Cardinality(Tryers(q, "receive")) >= m
      /\ r # <<>> => Cardinality(Tryers(q, "send")) >= L - m
  BY <1>0, <1>1, <1>s, <1>r, <1>m, <1>L DEF Served
<1>7. /\ q \in Semaphores => queue[q].pcHead = [i \in 0..(L - 1) |-> Token]
      /\ q \notin Semaphores => queue[q].pcWriteTo = (queue[q].pcReadFrom + 1 + m) % L
  BY <1>0, <1>1, <1>m, <1>L DEF Ring
<1>8. /\ Rest(s) \in Seq(ListItem(Int)) /\ WaitingNext(Rest(s), q, "receive")
      /\ WaitingNext(r, q, "send")
      /\ Cardinality(Tryers(q, "send")) \in Nat /\ Cardinality(Tryers(q, "send")') \in Nat
      /\ Cardinality(Tryers(q, "receive")) \in Nat /\ Cardinality(Tryers(q, "receive")') \in Nat
      /\ Cardinality(Tryers(q, "send")') >= Cardinality(Tryers(q, "send")) - 1
      /\ s # <<>> => Cardinality(Tryers(q, "receive")') >= Cardinality(Tryers(q, "receive")) + 1
  <2>1. Exchange(t, q, "send", "receive", s)
    BY <1>q, <1>4, <1>5 DEF Exchange
  <2> QED
    BY <1>1, <1>3, <1>4, <2>1, ExchangeKeeps
<1>9. Rest(s) # <<>> => s # <<>>
  BY DEF Rest
<1>10. Rest(s) # <<>> => Cardinality(Tryers(q, "receive")') >= m + 1
  BY <1>3, <1>6, <1>8, <1>9
<1>11. r # <<>> => Cardinality(Tryers(q, "send")') >= L - (m + 1)
  BY <1>3, <1>6, <1>8
<1>12. m + 1 \in 0..L
  BY <1>3
<1>13. q \notin Semaphores => /\ NextIn(queue[q].pcWriteTo, L) \in 0..(L - 1)
                              /\ NextIn(queue[q].pcWriteTo, L) = (queue[q].pcReadFrom + 1 + (m + 1)) % L
  <2>1. m < L
    BY <1>3
  <2> QED
    BY <1>3, <1>7, <2>1, RingStep
<1>14. queue'[q] \in QueueDefinition(q)
  <2>1. /\ queue'[q].pcWriteTo \in 0..(L - 1)
        /\ queue'[q].pcHead \in [0..(L - 1) -> Items \cup {Token}]
    BY <1>1, <1>2, <1>3, <1>13
  <2>2. queue'[q] = [uxMessagesWaiting |-> queue'[q].uxMessagesWaiting,
              pcWriteTo |-> queue'[q].pcWriteTo, pcReadFrom |-> queue'[q].pcReadFrom,
              pcHead |-> queue'[q].pcHead,
              xTasksWaitingToSend |-> queue'[q].xTasksWaitingToSend,
              xTasksWaitingToReceive |-> queue'[q].xTasksWaitingToReceive]
    BY <1>2 DEF AsRecord
  <2> QED
    BY <1>1, <1>2, <1>3, <1>8, <1>12, <2>1, <2>2, <1>L, QueueTyped
<1>15. IF q \in Semaphores
       THEN queue'[q].pcHead = [i \in 0..(uxLength[q] - 1) |-> Token]
       ELSE queue'[q].pcWriteTo =
              (queue'[q].pcReadFrom + 1 + queue'[q].uxMessagesWaiting) % uxLength[q]
  BY <1>L, <1>2, <1>7, <1>13
<1>16. /\ queue'[q].xTasksWaitingToReceive # <<>> =>
            Cardinality(Tryers(q, "receive")') >= queue'[q].uxMessagesWaiting
       /\ queue'[q].xTasksWaitingToSend # <<>> =>
            Cardinality(Tryers(q, "send")') >= uxLength[q] - queue'[q].uxMessagesWaiting
  BY <1>L, <1>2, <1>10, <1>11
<1>17. /\ WaitingNext(queue'[q].xTasksWaitingToSend, q, "send")
       /\ WaitingNext(queue'[q].xTasksWaitingToReceive, q, "receive")
  BY <1>2, <1>8
<1>18. Exchange(t, q, "send", "receive", s)
  BY <1>q, <1>4, <1>5 DEF Exchange
<1> QED
  BY <1>1, <1>2, <1>3, <1>14, <1>15, <1>16, <1>17, <1>18, OtherQueuesKeep

(* A receive keeps it: one item less, one task less on its way. *)
LEMMA ReceiveKeeps ==
  ASSUME IInv, NEW t \in Tasks, Runs(t), pc[t] = "try", call[t].op = "receive",
         ReceiveNow(t, call[t].q), Return(t), UNCHANGED <<clock, xPendedTicks, suspender>>
  PROVE  IInv'
<1>q. PICK q : q = call[t].q
  OBVIOUS
<1>s. PICK s : s = queue[q].xTasksWaitingToSend
  OBVIOUS
<1>r. PICK r : r = queue[q].xTasksWaitingToReceive
  OBVIOUS
<1>m. PICK m : m = queue[q].uxMessagesWaiting
  OBVIOUS
<1>L. PICK L : L = uxLength[q]
  OBVIOUS
<1>0. /\ TypeOK /\ EventLists /\ Served /\ Ring /\ QueuesTyped /\ LocalsTyped
  BY TypeParts DEF IInv
<1>1. q \in Queues
  <2>1. call[t] \in Calls[t]
    BY <1>0 DEF LocalsTyped
  <2> QED
    BY <1>q, <2>1, CallFields
<1>2. /\ DOMAIN queue' = Queues /\ \A u \in Queues \ {q} : queue'[u] = queue[u]
      /\ queue'[q].uxMessagesWaiting = m - 1
      /\ queue'[q].pcHead = queue[q].pcHead
      /\ queue'[q].pcWriteTo = queue[q].pcWriteTo
      /\ queue'[q].xTasksWaitingToReceive = r
      /\ queue'[q].xTasksWaitingToSend = Rest(s)
      /\ q \in Semaphores => queue'[q].pcReadFrom = queue[q].pcReadFrom
      /\ q \notin Semaphores => queue'[q].pcReadFrom = NextIn(queue[q].pcReadFrom, L)
      /\ AsRecord(queue'[q])
  BY <1>0, <1>1, <1>q, <1>s, <1>r, <1>m, <1>L, ReceiveIs
<1>3. /\ L \in Nat /\ L > 0 /\ m \in 0..L /\ m # 0
      /\ queue[q].pcWriteTo \in 0..(L - 1) /\ queue[q].pcReadFrom \in 0..(L - 1)
      /\ queue[q].pcHead \in [0..(L - 1) -> Items \cup {Token}]
      /\ s \in Seq(ListItem(Int)) /\ r \in Seq(ListItem(Int))
  BY <1>0, <1>1, <1>q, <1>s, <1>r, <1>m, <1>L, QueueFields DEF ReceiveNow, Empty
<1>4. Waiting(s, q, "send") /\ Waiting(r, q, "receive")
  BY <1>0, <1>1, <1>s, <1>r DEF EventLists
<1>5. xTaskRemoveFromEventList(s)
  BY <1>q, <1>s DEF ReceiveNow
<1>6. /\ r # <<>> => Cardinality(Tryers(q, "receive")) >= m
      /\ s # <<>> => Cardinality(Tryers(q, "send")) >= L - m
  BY <1>0, <1>1, <1>s, <1>r, <1>m, <1>L DEF Served
<1>7. /\ q \in Semaphores => queue[q].pcHead = [i \in 0..(L - 1) |-> Token]
      /\ q \notin Semaphores => queue[q].pcWriteTo = (queue[q].pcReadFrom + 1 + m) % L
  BY <1>0, <1>1, <1>m, <1>L DEF Ring
<1>8. /\ Rest(s) \in Seq(ListItem(Int)) /\ WaitingNext(Rest(s), q, "send")
      /\ WaitingNext(r, q, "receive")
      /\ Cardinality(Tryers(q, "send")) \in Nat /\ Cardinality(Tryers(q, "send")') \in Nat
      /\ Cardinality(Tryers(q, "receive")) \in Nat /\ Cardinality(Tryers(q, "receive")') \in Nat
      /\ Cardinality(Tryers(q, "receive")') >= Cardinality(Tryers(q, "receive")) - 1
      /\ s # <<>> => Cardinality(Tryers(q, "send")') >= Cardinality(Tryers(q, "send")) + 1
  <2>1. Exchange(t, q, "receive", "send", s)
    BY <1>q, <1>4, <1>5 DEF Exchange
  <2> QED
    BY <1>1, <1>3, <1>4, <2>1, ExchangeKeeps
<1>9. Rest(s) # <<>> => s # <<>>
  BY DEF Rest
<1>10. Rest(s) # <<>> => Cardinality(Tryers(q, "send")') >= L - (m - 1)
  BY <1>3, <1>6, <1>8, <1>9
<1>11. r # <<>> => Cardinality(Tryers(q, "receive")') >= m - 1
  BY <1>3, <1>6, <1>8
<1>12. m - 1 \in 0..L
  BY <1>3
<1>13. q \notin Semaphores =>
         /\ NextIn(queue[q].pcReadFrom, L) \in 0..(L - 1)
         /\ queue[q].pcWriteTo = (NextIn(queue[q].pcReadFrom, L) + 1 + (m - 1)) % L
  <2>1. m > 0
    BY <1>3
  <2> QED
    BY <1>3, <1>7, <2>1, RingStep
<1>14. queue'[q] \in QueueDefinition(q)
  <2>1. /\ queue'[q].pcReadFrom \in 0..(L - 1)
        /\ queue'[q].pcHead \in [0..(L - 1) -> Items \cup {Token}]
    BY <1>1, <1>2, <1>3, <1>13
  <2>2. queue'[q] = [uxMessagesWaiting |-> queue'[q].uxMessagesWaiting,
              pcWriteTo |-> queue'[q].pcWriteTo, pcReadFrom |-> queue'[q].pcReadFrom,
              pcHead |-> queue'[q].pcHead,
              xTasksWaitingToSend |-> queue'[q].xTasksWaitingToSend,
              xTasksWaitingToReceive |-> queue'[q].xTasksWaitingToReceive]
    BY <1>2 DEF AsRecord
  <2> QED
    BY <1>1, <1>2, <1>3, <1>8, <1>12, <2>1, <2>2, <1>L, QueueTyped
<1>15. IF q \in Semaphores
       THEN queue'[q].pcHead = [i \in 0..(uxLength[q] - 1) |-> Token]
       ELSE queue'[q].pcWriteTo =
              (queue'[q].pcReadFrom + 1 + queue'[q].uxMessagesWaiting) % uxLength[q]
  BY <1>L, <1>2, <1>7, <1>13
<1>16. /\ queue'[q].xTasksWaitingToReceive # <<>> =>
            Cardinality(Tryers(q, "receive")') >= queue'[q].uxMessagesWaiting
       /\ queue'[q].xTasksWaitingToSend # <<>> =>
            Cardinality(Tryers(q, "send")') >= uxLength[q] - queue'[q].uxMessagesWaiting
  BY <1>L, <1>2, <1>10, <1>11
<1>17. /\ WaitingNext(queue'[q].xTasksWaitingToSend, q, "send")
       /\ WaitingNext(queue'[q].xTasksWaitingToReceive, q, "receive")
  BY <1>2, <1>8
<1>18. Exchange(t, q, "receive", "send", s)
  BY <1>q, <1>4, <1>5 DEF Exchange
<1> QED
  BY <1>1, <1>2, <1>3, <1>14, <1>15, <1>16, <1>17, <1>18, OtherQueuesKeep

(* The first critical section keeps it. *)
LEMMA TryKeeps ==
  ASSUME IInv, NEW t \in Tasks, Try(t)
  PROVE  IInv'
<1>0. /\ Placed /\ Runs(t) /\ pc[t] = "try" /\ UNCHANGED <<clock, xPendedTicks, suspender>>
  BY DEF IInv, Try
<1>1. call[t].op \in {"send", "receive"}
  BY <1>0 DEF Placed
<1>2. CASE /\ IF call[t].op = "send" THEN SendNow(t, call[t].q) ELSE ReceiveNow(t, call[t].q)
           /\ Return(t)
  <2>1. CASE call[t].op = "send"
    BY <1>0, <1>2, <2>1, SendKeeps
  <2>2. CASE call[t].op # "send"
    <3>1. call[t].op = "receive"
      BY <1>1, <2>2
    <3> QED
      BY <1>0, <1>2, <2>2, <3>1, ReceiveKeeps
  <2> QED
    BY <2>1, <2>2
<1>3. CASE /\ StillBlocked(t) /\ xTicksToWait[t] = 0 /\ Return(t) /\ UNCHANGED <<queue, lists>>
  BY <1>0, <1>3, ReturnKeeps
<1>4. CASE /\ StillBlocked(t) /\ xTicksToWait[t] # 0 /\ At(t, "check")
           /\ IF ~xEntryTimeSet[t]
              THEN /\ xEntryTimeSet' = [xEntryTimeSet EXCEPT ![t] = TRUE]
                   /\ vTaskInternalSetTimeOutState(t)
                   /\ due' = [due EXCEPT ![t] = Now + xTicksToWait[t]]
              ELSE UNCHANGED <<xEntryTimeSet, xTimeOut, due>>
           /\ UNCHANGED <<queue, lists, call, xTicksToWait>>
  BY <1>0, <1>4, BlockKeeps
<1> QED
  BY <1>2, <1>3, <1>4 DEF Try, StillBlocked

(* The second look at the queue keeps it. *)
LEMMA CheckKeeps ==
  ASSUME IInv, NEW t \in Tasks, Check(t)
  PROVE  IInv'
BY CheckQuietKeeps, CheckBlockedKeeps

(* Nothing happens. *)
LEMMA StutterKeeps ==
  ASSUME IInv, UNCHANGED vars
  PROVE  IInv'
<1>1. UNCHANGED <<clock, lists, xPendedTicks, suspender, queue, locals>>
  BY DEF vars
<1>2. Sleeping' = Sleeping /\ Ready' = Ready /\ ClockNow' = ClockNow /\ Now' = Now
  BY <1>1, QuietSets
<1>3. TypeOK'
  BY <1>1, <1>2 DEF IInv, TypeOK, clock, lists, locals
<1>4. Placed' /\ EventLists' /\ Ring'
  BY <1>1, <1>2 DEF IInv, Placed, EventLists, Waiting, Ring, locals
<1>5. Served'
  <2>1. \A q \in Queues : \A op \in {"send", "receive"} : Tryers(q, op)' = Tryers(q, op)
    BY <1>1, <1>2 DEF Tryers, locals
  <2> QED
    BY <1>1, <2>1 DEF IInv, Served
<1>6. Timed'
  BY <1>1, <1>2 DEF IInv, Timed, TimedCall, TimeKnown, Entry, InQueueCall, locals
<1>7. Clocked'
  BY <1>1, <1>2 DEF IInv, Clocked, lists, locals
<1> QED
  BY <1>3, <1>4, <1>5, <1>6, <1>7 DEF IInv

(* The invariant holds at the start. *)
LEMMA InitIInv == Init => IInv
<1> SUFFICES ASSUME Init PROVE IInv
  OBVIOUS
<1> USE DEF Init
<1>1. Owners(<<>>) = {}
  BY DEF Owners
<1>2. Sleeping = {} /\ Ready = Tasks
  BY <1>1 DEF Sleeping, Ready
<1>3. ListsTyped
  <2>1. 0 \in 0..portMAX_DELAY /\ portMAX_DELAY \in 0..portMAX_DELAY
    BY MaxDelayIs
  <2> QED
    BY <1>2, <2>1, KernelAssumption DEF ListsTyped
<1>4. LocalsTyped
  <2>1. 0 \in 0..portMAX_DELAY
    BY MaxDelayIs
  <2>2. [xOverflowCount |-> 0, xTimeOnEntering |-> 0] \in
          [xOverflowCount: Nat, xTimeOnEntering: 0..portMAX_DELAY]
    BY <2>1
  <2> QED
    BY <2>1, <2>2 DEF LocalsTyped
<1>5. ASSUME NEW q \in Queues
      PROVE  /\ queue[q] = [uxMessagesWaiting |-> 0, pcWriteTo |-> 0,
                            pcReadFrom |-> uxLength[q] - 1,
                            pcHead |-> [i \in 0..(uxLength[q] - 1) |-> Token],
                            xTasksWaitingToSend |-> <<>>, xTasksWaitingToReceive |-> <<>>]
             /\ uxLength[q] \in Nat /\ uxLength[q] > 0
  BY KernelAssumption
<1>6. QueuesTyped
  <2>1. ASSUME NEW q \in Queues PROVE queue[q] \in QueueDefinition(q)
    <3>1. 0 \in 0..uxLength[q] /\ 0 \in 0..(uxLength[q] - 1) /\ uxLength[q] - 1 \in 0..(uxLength[q] - 1)
      BY <1>5
    <3>2. [i \in 0..(uxLength[q] - 1) |-> Token] \in [0..(uxLength[q] - 1) -> Items \cup {Token}]
      OBVIOUS
    <3>3. <<>> \in Seq(ListItem(Int))
      OBVIOUS
    <3> QED
      BY <1>5, <3>1, <3>2, <3>3 DEF QueueDefinition
  <2> QED
    BY <2>1 DEF QueuesTyped
<1>7. Placed
  BY <1>2, KernelAssumption DEF Placed
<1>8. EventLists
  <2>1. Range(<<>>) = {} /\ Distinct(<<>>)
    BY DEF Range, Distinct
  <2> QED
    BY <2>1, <1>5 DEF EventLists, Waiting
<1>9. Served
  BY <1>5 DEF Served
<1>10. Ring
  <2> SUFFICES ASSUME NEW q \in Queues
               PROVE  0 = ((uxLength[q] - 1) + 1 + 0) % uxLength[q]
    BY <1>5 DEF Ring
  <2>1. (uxLength[q] - 1) + 1 + 0 = uxLength[q] /\ uxLength[q] < 2 * uxLength[q]
    BY <1>5
  <2> QED
    BY <2>1, <1>5, ModSmall
<1>11. Timed
  BY DEF Timed, InQueueCall
<1>12. Clocked
  <2>1. Range(<<>>) = {} /\ Sorted(<<>>)
    BY DEF Range, Sorted
  <2> QED
    BY <2>1 DEF Clocked, OnTime, ClockNow
<1> QED
  BY <1>3, <1>4, <1>6, <1>7, <1>8, <1>9, <1>10, <1>11, <1>12, TypeParts DEF IInv

(* Every step keeps it. *)
LEMMA NextKeeps ==
  ASSUME IInv, [Next]_vars
  PROVE  IInv'
<1>1. CASE Tick
  BY <1>1, TickKeeps
<1>2. ASSUME NEW t \in Tasks, Step(t) PROVE IInv'
  BY <1>2, TryKeeps, CheckKeeps, ResumeKeeps, ExpireKeeps, vTaskDelayKeeps, DelayedKeeps DEF Step
<1>3. ASSUME NEW t \in Tasks, NEW c \in Calls[t], Call(t, c) PROVE IInv'
  BY <1>3, CallKeeps
<1>4. CASE UNCHANGED vars
  BY <1>4, StutterKeeps
<1> QED
  BY <1>1, <1>2, <1>3, <1>4 DEF Next

-----------------------------------------------------------------------------
(* IInv holds throughout: the types, the place of every task, the event     *)
(* lists, the ring and the clock of queue.c, tasks.c and list.c fit         *)
(* together after every step.                                               *)
THEOREM IInvHolds == Spec => []IInv
<1>1. Init => IInv
  BY InitIInv
<1>2. IInv /\ [Next]_vars => IInv'
  BY NextKeeps
<1> QED
  BY <1>1, <1>2, PTL DEF Spec

(* The kernel's variables keep their types: the tick count its width, the   *)
(* number of items its bound, the two ends of the ring their range, and no  *)
(* task is suspended and on a delayed list at once.                         *)
THEOREM TypeCorrect == Spec => []TypeOK
<1>1. IInv => TypeOK
  BY DEF IInv
<1> QED
  BY <1>1, IInvHolds, PTL

(* No wake-up is lost, however many tasks wait at a queue of any length:    *)
(* xQueueGenericSend wakes one task per item, and a task that saw the queue *)
(* empty looks again with the scheduler suspended before it sleeps.         *)
THEOREM NoWakeupIsLost == Spec => []NoLostWakeup
<1>1. ASSUME IInv PROVE NoLostWakeup
  <2>0. QueuesTyped /\ Served /\ ListsTyped /\ Ready \subseteq Tasks
    BY <1>1, TypeParts, ListsFacts DEF IInv
  <2>1. ASSUME NEW q \in Queues, NEW op \in {"send", "receive"}, Cardinality(Tryers(q, op)) >= 1
        PROVE  \E t \in Ready : InQueueCall(t) /\ call[t].q = q /\ call[t].op = op
    <3>1. Cardinality({}) = 0
      BY FS_EmptySet
    <3>2. Tryers(q, op) # {}
      BY <2>1, <3>1
    <3> QED
      BY <3>2 DEF Tryers, InQueueCall
  <2>2. ASSUME NEW q \in Queues, queue[q].xTasksWaitingToReceive # <<>>, ~Empty(q)
        PROVE  \E t \in Ready : InQueueCall(t) /\ call[t].q = q /\ call[t].op = "receive"
    <3>1. /\ Cardinality(Tryers(q, "receive")) >= queue[q].uxMessagesWaiting
          /\ queue[q].uxMessagesWaiting \in Nat /\ queue[q].uxMessagesWaiting # 0
      BY <2>0, <2>2, QueueFields DEF Served, Empty
    <3>2. Cardinality(Tryers(q, "receive")) \in Nat
      <4>1. Tryers(q, "receive") \subseteq Tasks
        BY <2>0 DEF Tryers
      <4> QED
        BY <4>1, MoreTasks
    <3>3. Cardinality(Tryers(q, "receive")) >= 1
      BY <3>1, <3>2
    <3> QED
      BY <3>3, <2>1
  <2>3. ASSUME NEW q \in Queues, queue[q].xTasksWaitingToSend # <<>>, ~Full(q)
        PROVE  \E t \in Ready : InQueueCall(t) /\ call[t].q = q /\ call[t].op = "send"
    <3>1. /\ Cardinality(Tryers(q, "send")) >= uxLength[q] - queue[q].uxMessagesWaiting
          /\ queue[q].uxMessagesWaiting \in Nat /\ uxLength[q] \in Nat
          /\ queue[q].uxMessagesWaiting <= uxLength[q] /\ queue[q].uxMessagesWaiting # uxLength[q]
      BY <2>0, <2>3, QueueFields DEF Served, Full
    <3>2. Cardinality(Tryers(q, "send")) \in Nat
      <4>1. Tryers(q, "send") \subseteq Tasks
        BY <2>0 DEF Tryers
      <4> QED
        BY <4>1, MoreTasks
    <3>3. Cardinality(Tryers(q, "send")) >= 1
      BY <3>1, <3>2
    <3> QED
      BY <3>3, <2>1
  <2> QED
    BY <2>2, <2>3 DEF NoLostWakeup
<1> QED
  BY <1>1, IInvHolds, PTL

(* Whoever sleeps for a limited time is woken at that very tick, for every  *)
(* width of the tick count and any number of sleepers on the two delayed    *)
(* lists that taskSWITCH_DELAYED_LISTS exchanges when the count wraps.      *)
THEOREM EveryoneWokenOnTime == Spec => []WokenOnTime
<1>1. ASSUME IInv PROVE WokenOnTime
  <2>0. ListsTyped /\ Clocked /\ LocalsTyped /\ ClockNow \in ClockState /\ Now \in Nat
    BY <1>1, TypeParts, ClockStateNow, ListsFacts DEF IInv
  <2>1. ASSUME NEW t \in Sleeping PROVE due[t] > Now
    <3>1. /\ xTickCount \in Nat /\ xNumOfOverflows \in Nat /\ Ticks \in Nat /\ xTickCount < Ticks
          /\ pxDelayedTaskList \in Seq(ListItem(MaxDelay))
          /\ pxOverflowDelayedTaskList \in Seq(ListItem(MaxDelay))
      BY <2>0, ListsFacts, MaxDelayIs DEF ListsTyped, MaxDelay
    <3>2. /\ \A x \in Range(pxDelayedTaskList) :
               /\ x.xItemValue > xTickCount
               /\ due[x.pvOwner] = xNumOfOverflows * Ticks + x.xItemValue
          /\ \A x \in Range(pxOverflowDelayedTaskList) :
               due[x.pvOwner] = (xNumOfOverflows + 1) * Ticks + x.xItemValue
      BY <2>0 DEF Clocked, OnTime, ClockNow
    <3>3. PICK x \in Range(pxDelayedTaskList) \cup Range(pxOverflowDelayedTaskList) : x.pvOwner = t
      BY OwnersOfRange DEF Sleeping
    <3>4. x.xItemValue \in MaxDelay
      <4>1. x \in ListItem(MaxDelay)
        BY <3>1 DEF Range
      <4> QED
        BY <4>1 DEF ListItem
    <3>5. x.xItemValue \in Nat /\ xNumOfOverflows * Ticks \in Nat
          /\ (xNumOfOverflows + 1) * Ticks = xNumOfOverflows * Ticks + Ticks
      <4>1. x.xItemValue \in Nat
        BY <3>4, MaxDelayIs
      <4>2. xNumOfOverflows * Ticks \in Nat
        BY <3>1
      <4>3. (xNumOfOverflows + 1) * Ticks = xNumOfOverflows * Ticks + Ticks
        BY <3>1
      <4> QED
        BY <4>1, <4>2, <4>3
    <3>6. Now = xNumOfOverflows * Ticks + xTickCount
      BY DEF Now
    <3>7. CASE x \in Range(pxDelayedTaskList)
      <4>1. x.xItemValue > xTickCount /\ due[t] = xNumOfOverflows * Ticks + x.xItemValue
        BY <3>2, <3>3, <3>7
      <4> QED
        BY <3>1, <3>5, <3>6, <4>1
    <3>8. CASE x \in Range(pxOverflowDelayedTaskList)
      <4>1. due[t] = (xNumOfOverflows + 1) * Ticks + x.xItemValue
        BY <3>2, <3>3, <3>8
      <4> QED
        BY <3>1, <3>5, <3>6, <4>1
    <3> QED
      BY <3>7, <3>8
  <2>2. ASSUME NEW t \in Tasks, pc[t] = "delayed", t \in Ready PROVE due[t] <= Now
    BY <2>0, <2>2 DEF Clocked, Ready
  <2> QED
    BY <2>1, <2>2 DEF WokenOnTime
<1> QED
  BY <1>1, IInvHolds, PTL

-----------------------------------------------------------------------------
(* The queues implement MessageQueue. *)

AllContents == [q \in Queues |-> Contents(q)]
Pending == [t \in Tasks |-> IF InQueueCall(t) THEN {call[t]} ELSE {}]
Late == {t \in Tasks : /\ InQueueCall(t) /\ xEntryTimeSet[t]
                       /\ call[t].wait # portMAX_DELAY
                       /\ due[t] <= Now}

(* The actions of MessageQueue, over the state of the kernel. *)
LEMMA AbstractStutter ==
  ASSUME UNCHANGED <<AllContents, Pending, Late>>
  PROVE  UNCHANGED Abstract!vars
BY DEF AllContents, Pending, Late, Abstract!vars

(* What makes a step a Call of MessageQueue. *)
LEMMA AbstractCall ==
  ASSUME NEW t \in Tasks, NEW c \in Calls[t], c.op # "delay", Pending[t] = {},
         Pending' = [Pending EXCEPT ![t] = {c}], UNCHANGED <<AllContents, Late>>
  PROVE  Abstract!Next
<1>1. Abstract!Call(t, c)
  BY DEF AllContents, Pending, Late, Abstract!Call
<1> QED
  BY <1>1 DEF Abstract!Next

(* What makes a step end a call of MessageQueue. *)
LEMMA AbstractReturn ==
  ASSUME NEW t \in Tasks, Pending' = [Pending EXCEPT ![t] = {}], Late' = Late \ {t}
  PROVE  Abstract!Return(t)
BY DEF Pending, Late, Abstract!Return

(* What makes a step a Send of MessageQueue. *)
LEMMA AbstractSend ==
  ASSUME NEW t \in Tasks, Pending[t] = {call[t]}, call[t].op = "send",
         Len(AllContents[call[t].q]) < uxLength[call[t].q],
         AllContents' = [AllContents EXCEPT ![call[t].q] = Append(AllContents[call[t].q], call[t].item)],
         Pending' = [Pending EXCEPT ![t] = {}], Late' = Late \ {t}
  PROVE  Abstract!Next
<1>1. Abstract!Return(t)
  BY AbstractReturn
<1>2. call[t] \in Pending[t]
  OBVIOUS
<1>3. Abstract!Send(t)
  BY <1>1, <1>2 DEF AllContents, Pending, Abstract!Send
<1> QED
  BY <1>3 DEF Abstract!Next

(* What makes a step a Receive of MessageQueue. *)
LEMMA AbstractReceive ==
  ASSUME NEW t \in Tasks, Pending[t] = {call[t]}, call[t].op = "receive",
         AllContents[call[t].q] # <<>>,
         AllContents' = [AllContents EXCEPT ![call[t].q] = Tail(AllContents[call[t].q])],
         Pending' = [Pending EXCEPT ![t] = {}], Late' = Late \ {t}
  PROVE  Abstract!Next
<1>1. Abstract!Return(t)
  BY AbstractReturn
<1>2. call[t] \in Pending[t]
  OBVIOUS
<1>3. Abstract!Receive(t)
  BY <1>1, <1>2 DEF AllContents, Pending, Abstract!Receive
<1> QED
  BY <1>3 DEF Abstract!Next

(* What makes a step a GiveUp of MessageQueue. *)
LEMMA AbstractGiveUp ==
  ASSUME NEW t \in Tasks, Pending[t] = {call[t]},
         \/ t \in Late
         \/ /\ call[t].wait = 0 /\ call[t].op = "send"
            /\ Len(AllContents[call[t].q]) = uxLength[call[t].q],
         call[t].op = "receive" => AllContents[call[t].q] = <<>>,
         Pending' = [Pending EXCEPT ![t] = {}], Late' = Late \ {t}, UNCHANGED AllContents
  PROVE  Abstract!Next
<1>1. Abstract!Return(t)
  BY AbstractReturn
<1>2. call[t] \in Pending[t]
  OBVIOUS
<1>3. Abstract!GiveUp(t)
  BY <1>1, <1>2 DEF AllContents, Pending, Late, Abstract!GiveUp
<1> QED
  BY <1>3 DEF Abstract!Next

(* What makes a step a passing of time in MessageQueue. *)
LEMMA AbstractPass ==
  ASSUME Late \subseteq Late', Late' \subseteq {t \in Tasks : Pending[t] # {}},
         UNCHANGED <<AllContents, Pending>>
  PROVE  Abstract!Next
<1>1. Late' \ Late \in SUBSET {t \in Tasks : Pending[t] # {}} /\ Late' = Late \cup (Late' \ Late)
  OBVIOUS
<1>2. Abstract!Pass
  BY <1>1 DEF AllContents, Pending, Late, Abstract!Pass
<1> QED
  BY <1>2 DEF Abstract!Next

-----------------------------------------------------------------------------
(* The ring as a sequence. *)

Stored == Items \cup {Token}

RingItems(f, r, n, L) == [i \in 1..n |-> f[(r + i) % L]]

(* The index of an item in the ring, with at most one wrap. *)
LEMMA RingIndex ==
  ASSUME NEW L \in Nat, L > 0, NEW r \in 0..(L - 1), NEW i \in 0..L
  PROVE  /\ (r + i) % L \in 0..(L - 1)
         /\ (r + i < L => (r + i) % L = r + i) /\ (~(r + i < L) => (r + i) % L = r + i - L)
<1>1. r + i \in Nat /\ r + i < 2 * L
  OBVIOUS
<1>2. (r + i < L => (r + i) % L = r + i) /\ (~(r + i < L) => (r + i) % L = r + i - L)
  BY <1>1, ModSmall
<1> QED
  BY <1>1, <1>2

(* The items of the ring as a sequence. *)
LEMMA ItemsTyped ==
  ASSUME NEW L \in Nat, L > 0, NEW r \in 0..(L - 1), NEW n \in 0..L,
         NEW f \in [0..(L - 1) -> Stored]
  PROVE  /\ RingItems(f, r, n, L) \in Seq(Stored) /\ Len(RingItems(f, r, n, L)) = n
         /\ DOMAIN RingItems(f, r, n, L) = 1..n
         /\ RingItems(f, r, n, L) = <<>> <=> n = 0
<1>1. \A i \in 1..n : f[(r + i) % L] \in Stored
  <2> TAKE i \in 1..n
  <2>1. (r + i) % L \in 0..(L - 1)
    BY RingIndex
  <2> QED
    BY <2>1
<1>2. RingItems(f, r, n, L) \in [1..n -> Stored]
  BY <1>1 DEF RingItems
<1>3. ASSUME NEW s \in [1..n -> Stored] PROVE s \in Seq(Stored) /\ Len(s) = n
  BY <1>3
<1>4. RingItems(f, r, n, L) \in Seq(Stored) /\ Len(RingItems(f, r, n, L)) = n
  BY <1>2, <1>3
<1>5. ASSUME NEW s \in Seq(Stored), Len(s) = n PROVE s = <<>> <=> n = 0
  BY <1>5
<1> QED
  BY <1>2, <1>4, <1>5

(* The ring's items after an item was added at the back. *)
Appends(f, g, r, n, L, x) == RingItems(g, r, n + 1, L) = Append(RingItems(f, r, n, L), x)

(* Writing behind the last item appends to the sequence. *)
LEMMA ItemsAppend ==
  ASSUME NEW L \in Nat, L > 0, NEW r \in 0..(L - 1), NEW n \in 0..(L - 1),
         NEW f \in [0..(L - 1) -> Stored], NEW x \in Stored, NEW w, w = (r + 1 + n) % L
  PROVE  Appends(f, [f EXCEPT ![w] = x], r, n, L, x)
<1> DEFINE g == [f EXCEPT ![w] = x]
           a == RingItems(f, r, n, L)
           b == RingItems(g, r, n + 1, L)
<1>1. r + 1 + n = r + (n + 1) /\ n + 1 \in 0..L
  OBVIOUS
<1>2. w = (r + (n + 1)) % L
  BY <1>1
<1>3. w \in 0..(L - 1) /\ (r + (n + 1) < L => w = r + (n + 1)) /\ (~(r + (n + 1) < L) => w = r + (n + 1) - L)
  BY <1>1, <1>2, RingIndex
<1>4. g \in [0..(L - 1) -> Stored] /\ g[w] = x
  BY <1>3
<1>5. a \in Seq(Stored) /\ Len(a) = n /\ DOMAIN a = 1..n
  BY ItemsTyped
<1>6. b \in Seq(Stored) /\ Len(b) = n + 1 /\ DOMAIN b = 1..(n + 1)
  <2> HIDE DEF g
  <2> QED
    BY <1>1, <1>4, ItemsTyped
<1>7. b[n + 1] = x
  BY <1>2, <1>4 DEF RingItems
<1>8. ASSUME NEW i \in 1..n PROVE b[i] = a[i]
  <2>1. i \in 0..L
    OBVIOUS
  <2>2. /\ (r + i) % L \in 0..(L - 1) /\ (r + i < L => (r + i) % L = r + i)
        /\ (~(r + i < L) => (r + i) % L = r + i - L)
    BY <2>1, RingIndex
  <2>3. (r + i) % L # w
    <3>1. PICK v : v = (r + i) % L
      OBVIOUS
    <3>2. (r + i < L => v = r + i) /\ (~(r + i < L) => v = r + i - L)
      BY <2>2, <3>1
    <3>3. v # w
      BY <1>3, <3>2
    <3> QED
      BY <3>1, <3>3
  <2>4. g[(r + i) % L] = f[(r + i) % L]
    BY <2>2, <2>3
  <2>5. b[i] = g[(r + i) % L] /\ a[i] = f[(r + i) % L]
    BY DEF RingItems
  <2> QED
    BY <2>4, <2>5
<1> HIDE DEF a, b
<1>9. b = Append(a, x)
  <2>1. Append(a, x) \in Seq(Stored) /\ Len(Append(a, x)) = n + 1 /\ DOMAIN Append(a, x) = 1..(n + 1)
    BY <1>5
  <2>2. \A i \in 1..(n + 1) : Append(a, x)[i] = b[i]
    <3> TAKE i \in 1..(n + 1)
    <3>1. CASE i = n + 1
      BY <3>1, <1>5, <1>7
    <3>2. CASE i # n + 1
      <4>1. i \in 1..n
        BY <3>2
      <4> QED
        BY <4>1, <1>5, <1>8
    <3> QED
      BY <3>1, <3>2
  <2> QED
    BY <2>1, <2>2, <1>6
<1> QED
  BY <1>9 DEF a, b, Appends

(* Moving pcReadFrom takes off the head of the sequence. *)
LEMMA ItemsTail ==
  ASSUME NEW L \in Nat, L > 0, NEW r \in 0..(L - 1), NEW n \in 1..L,
         NEW f \in [0..(L - 1) -> Stored]
  PROVE  RingItems(f, NextIn(r, L), n - 1, L) = Tail(RingItems(f, r, n, L))
<1> DEFINE a == RingItems(f, r, n, L)
           b == RingItems(f, NextIn(r, L), n - 1, L)
<1>1. NextIn(r, L) \in 0..(L - 1) /\ n - 1 \in 0..L /\ n \in 0..L
  BY DEF NextIn
<1>2. a \in Seq(Stored) /\ Len(a) = n /\ DOMAIN a = 1..n
  <2>1. PICK k : k = n
    OBVIOUS
  <2>2. k \in 0..L
    BY <1>1, <2>1
  <2>3. /\ RingItems(f, r, k, L) \in Seq(Stored) /\ Len(RingItems(f, r, k, L)) = k
        /\ DOMAIN RingItems(f, r, k, L) = 1..k
    BY <2>2, ItemsTyped
  <2> QED
    BY <2>1, <2>3, Zenon
<1>3. b \in Seq(Stored) /\ Len(b) = n - 1 /\ DOMAIN b = 1..(n - 1)
  <2>1. PICK p, k : p = NextIn(r, L) /\ k = n - 1
    OBVIOUS
  <2>2. p \in 0..(L - 1) /\ k \in 0..L
    BY <1>1, <2>1
  <2>3. /\ RingItems(f, p, k, L) \in Seq(Stored) /\ Len(RingItems(f, p, k, L)) = k
        /\ DOMAIN RingItems(f, p, k, L) = 1..k
    BY <2>2, ItemsTyped
  <2> QED
    BY <2>1, <2>3
<1>4. ASSUME NEW i \in 1..(n - 1) PROVE b[i] = a[i + 1]
  <2>1. i \in 0..L /\ i + 1 \in 0..L /\ i + 1 \in 1..n
    OBVIOUS
  <2>2. /\ (NextIn(r, L) + i < L => (NextIn(r, L) + i) % L = NextIn(r, L) + i)
        /\ (~(NextIn(r, L) + i < L) => (NextIn(r, L) + i) % L = NextIn(r, L) + i - L)
    BY <1>1, <2>1, RingIndex
  <2>3. /\ (r + (i + 1) < L => (r + (i + 1)) % L = r + (i + 1))
        /\ (~(r + (i + 1) < L) => (r + (i + 1)) % L = r + (i + 1) - L)
    BY <2>1, RingIndex
  <2>4. (NextIn(r, L) + i) % L = (r + (i + 1)) % L
    <3>1. CASE r + 1 = L
      <4>1. NextIn(r, L) = 0
        BY <3>1 DEF NextIn
      <4>2. i < L /\ ~(r + (i + 1) < L) /\ r + (i + 1) - L = i
        BY <3>1
      <4> QED
        BY <4>1, <4>2, <2>2, <2>3
    <3>2. CASE r + 1 # L
      <4>1. NextIn(r, L) = r + 1 /\ (r + 1) + i = r + (i + 1)
        BY <3>2 DEF NextIn
      <4> QED
        BY <4>1
    <3> QED
      BY <3>1, <3>2
  <2>5. b[i] = f[(NextIn(r, L) + i) % L] /\ a[i + 1] = f[(r + (i + 1)) % L]
    BY <2>1 DEF RingItems
  <2> QED
    BY <2>4, <2>5
<1> HIDE DEF a, b
<1>5. b = Tail(a)
  <2>1. a # <<>>
    BY <1>2
  <2>2. Tail(a) \in Seq(Stored) /\ Len(Tail(a)) = n - 1 /\ DOMAIN Tail(a) = 1..(n - 1)
    BY <1>2, <2>1
  <2>3. \A i \in 1..(n - 1) : Tail(a)[i] = b[i]
    BY <1>2, <1>4, <2>1, <2>2
  <2> QED
    BY <2>2, <2>3, <1>3
<1> QED
  BY <1>5 DEF a, b

(* The three parts of the mapping and what a step leaves of them. *)

(* Contents in terms of the ring. *)
LEMMA ContentsIs ==
  ASSUME QueuesTyped, NEW q \in Queues
  PROVE  /\ Contents(q) = RingItems(queue[q].pcHead, queue[q].pcReadFrom,
                                    queue[q].uxMessagesWaiting, uxLength[q])
         /\ AllContents[q] = Contents(q)
         /\ Len(Contents(q)) = queue[q].uxMessagesWaiting
         /\ Contents(q) = <<>> <=> queue[q].uxMessagesWaiting = 0
<1>1. Contents(q) = RingItems(queue[q].pcHead, queue[q].pcReadFrom,
                              queue[q].uxMessagesWaiting, uxLength[q])
  BY DEF Contents, RingItems
<1>2. PICK f, r, n, L : /\ f = queue[q].pcHead /\ r = queue[q].pcReadFrom
                           /\ n = queue[q].uxMessagesWaiting /\ L = uxLength[q]
                          
  OBVIOUS
<1>3. L \in Nat /\ L > 0 /\ r \in 0..(L - 1) /\ n \in 0..L /\ f \in [0..(L - 1) -> Stored]
  BY <1>2, QueueFields DEF Stored
<1>4. Len(RingItems(f, r, n, L)) = n /\ (RingItems(f, r, n, L) = <<>> <=> n = 0)
  BY <1>3, ItemsTyped
<1> QED
  BY <1>1, <1>2, <1>4 DEF AllContents

(* An unchanged queue has the same contents. *)
LEMMA SameContents ==
  ASSUME \A q \in Queues : /\ queue'[q].uxMessagesWaiting = queue[q].uxMessagesWaiting
                            /\ queue'[q].pcReadFrom = queue[q].pcReadFrom
                            /\ queue'[q].pcHead = queue[q].pcHead
  PROVE  UNCHANGED AllContents
<1>1. \A q \in Queues : Contents(q)' = Contents(q)
  BY DEF Contents
<1> QED
  BY <1>1 DEF AllContents

(* A call, or its return, is seen of the task that makes it only. *)
LEMMA OwnPending ==
  ASSUME NEW t \in Tasks, Own(t), Now' = Now
  PROVE  /\ Pending' = [Pending EXCEPT ![t] = IF InQueueCall(t)' THEN {call'[t]} ELSE {}]
         /\ \A u \in Tasks \ {t} : u \in Late' <=> u \in Late
         /\ Pending[t] = IF InQueueCall(t) THEN {call[t]} ELSE {}
         /\ Late \subseteq Tasks /\ Late' \subseteq Tasks
<1>1. \A u \in Tasks \ {t} : /\ pc'[u] = pc[u] /\ call'[u] = call[u] /\ due'[u] = due[u]
                              /\ xEntryTimeSet'[u] = xEntryTimeSet[u]
  BY DEF Own
<1>2. \A u \in Tasks \ {t} : InQueueCall(u)' = InQueueCall(u)
  BY <1>1 DEF InQueueCall
<1>3. Pending' = [Pending EXCEPT ![t] = IF InQueueCall(t)' THEN {call'[t]} ELSE {}]
  BY <1>1, <1>2 DEF Pending
<1>4. \A u \in Tasks \ {t} : u \in Late' <=> u \in Late
  BY <1>1, <1>2 DEF Late
<1> QED
  BY <1>3, <1>4 DEF Pending, Late

(* After a return no call of the task is pending. *)
LEMMA ReturnPending ==
  ASSUME LocalsTyped, NEW t \in Tasks, Return(t), UNCHANGED clock
  PROVE  /\ Pending' = [Pending EXCEPT ![t] = {}] /\ Late' = Late \ {t}
         /\ Pending[t] = IF InQueueCall(t) THEN {call[t]} ELSE {}
<1>1. Own(t) /\ ~InQueueCall(t)' /\ Now' = Now
  BY ReturnIs DEF Now, clock
<1>2. t \notin Late'
  BY <1>1 DEF Late
<1> QED
  BY <1>1, <1>2, OwnPending

(* A step of a task that neither begins nor ends a call. *)
LEMMA SameCall ==
  ASSUME NEW t \in Tasks, Own(t), Now' = Now, InQueueCall(t)' = InQueueCall(t),
         call'[t] = call[t], t \in Late' <=> t \in Late
  PROVE  UNCHANGED <<Pending, Late>>
<1>1. /\ Pending' = [Pending EXCEPT ![t] = IF InQueueCall(t)' THEN {call'[t]} ELSE {}]
      /\ \A u \in Tasks \ {t} : u \in Late' <=> u \in Late
      /\ Pending[t] = IF InQueueCall(t) THEN {call[t]} ELSE {}
      /\ Late \subseteq Tasks /\ Late' \subseteq Tasks
  BY OwnPending
<1>2. Late' = Late
  BY <1>1
<1>3. Pending' = Pending
  BY <1>1 DEF Pending
<1> QED
  BY <1>2, <1>3

-----------------------------------------------------------------------------
(* Step by step. *)

(* A call is a call of the abstract queue, a delay is not seen there. *)
LEMMA CallMaps ==
  ASSUME IInv, NEW t \in Tasks, NEW c \in Calls[t], Call(t, c)
  PROVE  Abstract!Next \/ UNCHANGED Abstract!vars
<1>0. LocalsTyped /\ Timed
  BY TypeParts DEF IInv
<1>1. /\ pc[t] = "user" /\ pc'[t] # "user" /\ call'[t] = c /\ ~xEntryTimeSet[t]
      /\ UNCHANGED <<clock, queue, xEntryTimeSet>>
  BY <1>0 DEF Call, At, LocalsTyped, Timed, InQueueCall
<1>2. Own(t) /\ Now' = Now
  BY <1>0, <1>1 DEF Call, At, Own, LocalsTyped, Now, clock
<1>3. UNCHANGED AllContents
  BY <1>1, SameContents
<1>4. ~InQueueCall(t) /\ InQueueCall(t)' = (c.op # "delay")
  BY <1>1 DEF InQueueCall
<1>5. t \notin Late /\ t \notin Late'
  BY <1>1 DEF Late
<1>6. /\ Pending' = [Pending EXCEPT ![t] = IF InQueueCall(t)' THEN {call'[t]} ELSE {}]
      /\ \A u \in Tasks \ {t} : u \in Late' <=> u \in Late
      /\ Pending[t] = {} /\ Late \subseteq Tasks /\ Late' \subseteq Tasks
  BY <1>2, <1>4, OwnPending
<1>7. Late' = Late
  BY <1>5, <1>6
<1>8. CASE c.op # "delay"
  BY <1>1, <1>3, <1>4, <1>6, <1>7, <1>8, AbstractCall
<1>9. CASE c.op = "delay"
  <2>1. Pending' = Pending
    BY <1>4, <1>6, <1>9 DEF Pending
  <2> QED
    BY <2>1, <1>3, <1>7, AbstractStutter
<1> QED
  BY <1>8, <1>9

(* A successful first look of a sender is the abstract Send. *)
LEMMA SendMaps ==
  ASSUME IInv, NEW t \in Tasks, pc[t] = "try", call[t].op = "send",
         SendNow(t, call[t].q), Return(t), UNCHANGED clock
  PROVE  Abstract!Next
<1>0. QueuesTyped /\ LocalsTyped /\ Ring
  BY TypeParts DEF IInv
<1>1. PICK q : q = call[t].q
  OBVIOUS
<1>2. /\ q \in Queues /\ call[t].item \in Items \cup {Token}
      /\ q \in Semaphores => call[t].item = Token
  <2>1. call[t] \in Calls[t]
    BY <1>0 DEF LocalsTyped
  <2> QED
    BY <1>1, <2>1, CallFields
<1>3. PICK f, r, n, L, x :
        /\ f = queue[q].pcHead /\ r = queue[q].pcReadFrom /\ n = queue[q].uxMessagesWaiting
        /\ L = uxLength[q] /\ x = call[t].item
  OBVIOUS
<1>4. /\ DOMAIN queue' = Queues /\ \A u \in Queues \ {q} : queue'[u] = queue[u]
      /\ queue'[q].uxMessagesWaiting = n + 1
      /\ queue'[q].pcReadFrom = r
      /\ q \in Semaphores => queue'[q].pcHead = f
      /\ q \notin Semaphores => queue'[q].pcHead = [f EXCEPT ![queue[q].pcWriteTo] = x]
  BY <1>0, <1>1, <1>2, <1>3, SendIs
<1>5. /\ L \in Nat /\ L > 0 /\ r \in 0..(L - 1) /\ n \in 0..L /\ n # L
      /\ f \in [0..(L - 1) -> Stored] /\ x \in Stored
  BY <1>0, <1>1, <1>2, <1>3, QueueFields DEF SendNow, Full, Stored
<1>6. n \in 0..(L - 1)
  BY <1>5
<1>7. PICK g, w : /\ g = queue'[q].pcHead /\ w = (r + 1 + n) % L
  OBVIOUS
<1>8. g = [f EXCEPT ![w] = x]
  <2>1. CASE q \in Semaphores
    <3>1. f = [i \in 0..(L - 1) |-> Token] /\ x = Token
      BY <2>1, <1>0, <1>2, <1>3 DEF Ring
    <3> QED
      BY <3>1, <2>1, <1>4, <1>7
  <2>2. CASE q \notin Semaphores
    BY <2>2, <1>0, <1>2, <1>3, <1>4, <1>7 DEF Ring
  <2> QED
    BY <2>1, <2>2
<1>9. RingItems(g, r, n + 1, L) = Append(RingItems(f, r, n, L), x)
  <2>1. w = (r + 1 + n) % L
    BY <1>7
  <2>2. Appends(f, [f EXCEPT ![w] = x], r, n, L, x)
    <3>1. L \in Nat /\ L > 0 /\ r \in 0..(L - 1) /\ n \in 0..(L - 1)
      BY <1>5, <1>6
    <3>2. f \in [0..(L - 1) -> Stored] /\ x \in Stored
      BY <1>5
    <3> QED
      BY <3>1, <3>2, <2>1, ItemsAppend, Zenon
  <2> QED
    BY <2>2, <1>8, Zenon DEF Appends
<1>10. Contents(q)' = RingItems(g, r, n + 1, L)
  BY <1>3, <1>4, <1>7 DEF Contents, RingItems
<1>11. /\ Contents(q) = RingItems(f, r, n, L) /\ AllContents[q] = Contents(q)
       /\ Len(Contents(q)) = n
  BY <1>0, <1>2, <1>3, ContentsIs
<1>12. \A u \in Queues \ {q} : Contents(u)' = Contents(u)
  BY <1>4 DEF Contents
<1>13. AllContents' = [AllContents EXCEPT ![q] = Append(AllContents[q], x)]
  BY <1>2, <1>9, <1>10, <1>11, <1>12 DEF AllContents
<1>14. Len(AllContents[q]) < L
  BY <1>5, <1>6, <1>11
<1>15. /\ Pending' = [Pending EXCEPT ![t] = {}] /\ Late' = Late \ {t} /\ Pending[t] = {call[t]}
  BY <1>0, ReturnPending DEF InQueueCall
<1> QED
  BY <1>1, <1>3, <1>13, <1>14, <1>15, AbstractSend

(* A successful first look of a receiver is the abstract Receive. *)
LEMMA ReceiveMaps ==
  ASSUME IInv, NEW t \in Tasks, pc[t] = "try", call[t].op = "receive",
         ReceiveNow(t, call[t].q), Return(t), UNCHANGED clock
  PROVE  Abstract!Next
<1>0. QueuesTyped /\ LocalsTyped /\ Ring
  BY TypeParts DEF IInv
<1>1. PICK q : q = call[t].q
  OBVIOUS
<1>2. q \in Queues
  <2>1. call[t] \in Calls[t]
    BY <1>0 DEF LocalsTyped
  <2> QED
    BY <1>1, <2>1, CallFields
<1>3. PICK f, r, n, L :
        /\ f = queue[q].pcHead /\ r = queue[q].pcReadFrom /\ n = queue[q].uxMessagesWaiting
        /\ L = uxLength[q]
  OBVIOUS
<1>4. /\ DOMAIN queue' = Queues /\ \A u \in Queues \ {q} : queue'[u] = queue[u]
      /\ queue'[q].uxMessagesWaiting = n - 1
      /\ queue'[q].pcHead = f
      /\ q \in Semaphores => queue'[q].pcReadFrom = r
      /\ q \notin Semaphores => queue'[q].pcReadFrom = NextIn(r, L)
  BY <1>0, <1>1, <1>2, <1>3, ReceiveIs
<1>5. /\ L \in Nat /\ L > 0 /\ r \in 0..(L - 1) /\ n \in 0..L /\ n # 0
      /\ f \in [0..(L - 1) -> Stored]
  BY <1>0, <1>1, <1>2, <1>3, QueueFields DEF ReceiveNow, Empty, Stored
<1>6. n \in 1..L
  BY <1>5
<1>7. RingItems(f, NextIn(r, L), n - 1, L) = Tail(RingItems(f, r, n, L))
  BY <1>5, <1>6, ItemsTail
<1>8. Contents(q)' = RingItems(f, NextIn(r, L), n - 1, L)
  <2>1. CASE q \notin Semaphores
    BY <2>1, <1>3, <1>4 DEF Contents, RingItems
  <2>2. CASE q \in Semaphores
    <3>1. f = [i \in 0..(L - 1) |-> Token]
      BY <2>2, <1>0, <1>2, <1>3 DEF Ring
    <3>2. \A p \in 0..(L - 1), i \in 1..(n - 1) : f[(p + i) % L] = Token
      <4> TAKE p \in 0..(L - 1), i \in 1..(n - 1)
      <4>1. i \in 0..L
        BY <1>5
      <4>2. (p + i) % L \in 0..(L - 1)
        BY <4>1, <1>5, RingIndex
      <4> QED
        BY <4>2, <3>1
    <3>3. NextIn(r, L) \in 0..(L - 1)
      BY <1>5 DEF NextIn
    <3>4. RingItems(f, NextIn(r, L), n - 1, L) = [i \in 1..(n - 1) |-> Token]
      BY <3>2, <3>3 DEF RingItems
    <3>5. RingItems(f, r, n - 1, L) = [i \in 1..(n - 1) |-> Token]
      BY <3>2, <1>5 DEF RingItems
    <3>6. Contents(q)' = RingItems(f, r, n - 1, L)
      BY <2>2, <1>3, <1>4 DEF Contents, RingItems
    <3> QED
      BY <3>4, <3>5, <3>6
  <2> QED
    BY <2>1, <2>2
<1>9. /\ Contents(q) = RingItems(f, r, n, L) /\ AllContents[q] = Contents(q)
      /\ Contents(q) # <<>>
  BY <1>0, <1>2, <1>3, <1>5, ContentsIs
<1>10. \A u \in Queues \ {q} : Contents(u)' = Contents(u)
  BY <1>4 DEF Contents
<1>11. AllContents' = [AllContents EXCEPT ![q] = Tail(AllContents[q])]
  BY <1>2, <1>7, <1>8, <1>9, <1>10 DEF AllContents
<1>12. /\ Pending' = [Pending EXCEPT ![t] = {}] /\ Late' = Late \ {t} /\ Pending[t] = {call[t]}
  BY <1>0, ReturnPending DEF InQueueCall
<1> QED
  BY <1>1, <1>9, <1>11, <1>12, AbstractReceive

(* The first critical section is an abstract step or none. *)
LEMMA TryMaps ==
  ASSUME IInv, NEW t \in Tasks, Try(t)
  PROVE  Abstract!Next \/ UNCHANGED Abstract!vars
<1>0. /\ Placed /\ Timed /\ QueuesTyped /\ ListsTyped /\ LocalsTyped
      /\ pc[t] = "try" /\ UNCHANGED clock /\ Now \in Nat
  BY TypeParts, ListsFacts DEF IInv, Try
<1>1. call[t].op \in {"send", "receive"} /\ InQueueCall(t) /\ TimedCall(t)
  BY <1>0 DEF Placed, InQueueCall, Timed
<1>2. call[t].q \in Queues /\ call[t].wait \in 0..portMAX_DELAY /\ (call[t].op = "receive" => call[t].wait # 0)
  <2>1. call[t] \in Calls[t]
    BY <1>0 DEF LocalsTyped
  <2> QED
    BY <1>1, <2>1, CallFields
<1>3. CASE /\ IF call[t].op = "send" THEN SendNow(t, call[t].q) ELSE ReceiveNow(t, call[t].q)
           /\ Return(t)
  <2>1. CASE call[t].op = "send"
    BY <1>0, <1>3, <2>1, SendMaps
  <2>2. CASE call[t].op = "receive"
    BY <1>0, <1>3, <2>2, ReceiveMaps
  <2> QED
    BY <1>1, <2>1, <2>2
<1>4. CASE /\ StillBlocked(t) /\ xTicksToWait[t] = 0 /\ Return(t) /\ UNCHANGED <<queue, lists>>
  <2>1. /\ Pending' = [Pending EXCEPT ![t] = {}] /\ Late' = Late \ {t} /\ Pending[t] = {call[t]}
    BY <1>0, <1>1, <1>4, ReturnPending
  <2>2. UNCHANGED AllContents
    BY <1>4, SameContents
  <2>3. /\ AllContents[call[t].q] = Contents(call[t].q)
        /\ Len(Contents(call[t].q)) = queue[call[t].q].uxMessagesWaiting
        /\ Contents(call[t].q) = <<>> <=> queue[call[t].q].uxMessagesWaiting = 0
    BY <1>0, <1>2, ContentsIs
  <2>4. call[t].op = "receive" => AllContents[call[t].q] = <<>>
    BY <1>4, <2>3 DEF StillBlocked, Empty
  <2>5. CASE xEntryTimeSet[t]
    <3>1. call[t].wait # portMAX_DELAY
      BY <1>1, <1>4, MaxDelayIs DEF TimedCall
    <3>2. t \in Late
      BY <3>1, <2>5, <1>1, <1>4 DEF TimedCall, TimeKnown, Late
    <3> QED
      BY <2>1, <2>2, <2>4, <3>2, AbstractGiveUp
  <2>6. CASE ~xEntryTimeSet[t]
    <3>1. call[t].wait = 0 /\ call[t].op = "send"
      BY <2>6, <1>1, <1>2, <1>4 DEF TimedCall
    <3>2. Len(AllContents[call[t].q]) = uxLength[call[t].q]
      BY <3>1, <1>4, <2>3 DEF StillBlocked, Full
    <3> QED
      BY <2>1, <2>2, <2>4, <3>1, <3>2, AbstractGiveUp
  <2> QED
    BY <2>5, <2>6
<1>5. CASE /\ StillBlocked(t) /\ xTicksToWait[t] # 0 /\ At(t, "check")
           /\ IF ~xEntryTimeSet[t]
              THEN /\ xEntryTimeSet' = [xEntryTimeSet EXCEPT ![t] = TRUE]
                   /\ vTaskInternalSetTimeOutState(t)
                   /\ due' = [due EXCEPT ![t] = Now + xTicksToWait[t]]
              ELSE UNCHANGED <<xEntryTimeSet, xTimeOut, due>>
           /\ UNCHANGED <<queue, lists, call, xTicksToWait>>
  <2>1. Own(t) /\ Now' = Now /\ pc'[t] = "check" /\ call'[t] = call[t]
    BY <1>0, <1>5 DEF At, Own, LocalsTyped, vTaskInternalSetTimeOutState, Now, clock
  <2>2. InQueueCall(t)' = InQueueCall(t)
    BY <1>0, <2>1 DEF InQueueCall
  <2>3. t \in Late' <=> t \in Late
    <3>1. CASE xEntryTimeSet[t]
      BY <3>1, <1>5, <2>1, <2>2 DEF Late
    <3>2. CASE ~xEntryTimeSet[t]
      <4>1. due'[t] = Now + xTicksToWait[t]
        BY <3>2, <1>0, <1>5 DEF LocalsTyped
      <4>2. xTicksToWait[t] \in Nat /\ xTicksToWait[t] # 0
        BY <1>0, <1>5, MaxDelayIs DEF LocalsTyped
      <4>3. ~(due'[t] <= Now)
        BY <4>1, <4>2, <1>0
      <4> QED
        BY <3>2, <4>3, <2>1 DEF Late
    <3> QED
      BY <3>1, <3>2
  <2>4. UNCHANGED <<Pending, Late>>
    BY <2>1, <2>2, <2>3, SameCall
  <2>5. UNCHANGED AllContents
    BY <1>5, SameContents
  <2> QED
    BY <2>4, <2>5, AbstractStutter
<1> QED
  BY <1>3, <1>4, <1>5 DEF Try, StillBlocked

(* The second look at the queue is not seen. *)
LEMMA CheckMaps ==
  ASSUME IInv, NEW t \in Tasks, Check(t)
  PROVE  UNCHANGED Abstract!vars
<1>0. QueuesTyped /\ LocalsTyped /\ Runs(t) /\ pc[t] = "check"
  BY TypeParts DEF IInv, Check
<1>1. /\ Own(t) /\ UNCHANGED <<clock, call, due, xEntryTimeSet>>
      /\ InQueueCall(t) /\ InQueueCall(t)' /\ call[t].q \in Queues
  BY <1>0, CheckLocals
<1>2. Now' = Now
  BY <1>1 DEF Now, clock
<1>3. t \in Late' <=> t \in Late
  BY <1>1, <1>2 DEF Late
<1>4. UNCHANGED <<Pending, Late>>
  BY <1>1, <1>2, <1>3, SameCall
<1>5. PICK q : q = call[t].q
  OBVIOUS
<1>6. \/ queue' = queue
      \/ queue' = [queue EXCEPT ![q].xTasksWaitingToSend = EventList(@, t)]
      \/ queue' = [queue EXCEPT ![q].xTasksWaitingToReceive = EventList(@, t)]
  BY <1>5 DEF Check
<1>7. ASSUME NEW u \in Queues
      PROVE  /\ queue'[u].uxMessagesWaiting = queue[u].uxMessagesWaiting
             /\ queue'[u].pcReadFrom = queue[u].pcReadFrom
             /\ queue'[u].pcHead = queue[u].pcHead
  <2>1. AsRecord(queue[u]) /\ DOMAIN queue = Queues
    BY <1>0, QueueFields DEF AsRecord, QueuesTyped
  <2>2. CASE queue' = queue
    BY <2>2
  <2>3. CASE queue' = [queue EXCEPT ![q].xTasksWaitingToSend = EventList(@, t)]
    BY <2>1, <2>3 DEF AsRecord
  <2>4. CASE queue' = [queue EXCEPT ![q].xTasksWaitingToReceive = EventList(@, t)]
    BY <2>1, <2>4 DEF AsRecord
  <2> QED
    BY <1>6, <2>2, <2>3, <2>4
<1>8. UNCHANGED AllContents
  BY <1>7, SameContents
<1> QED
  BY <1>4, <1>8, AbstractStutter

(* Time passes. *)
LEMMA AdvanceMaps ==
  ASSUME Now \in Nat, Now' \in Nat, Now <= Now', PcMoves, LocalsTyped,
         UNCHANGED <<call, xTicksToWait, xEntryTimeSet, xTimeOut, due>>,
         \A q \in Queues : /\ queue'[q].uxMessagesWaiting = queue[q].uxMessagesWaiting
                            /\ queue'[q].pcReadFrom = queue[q].pcReadFrom
                            /\ queue'[q].pcHead = queue[q].pcHead
  PROVE  Abstract!Next
<1>1. \A t \in Tasks : InQueueCall(t)' = InQueueCall(t)
  BY DEF InQueueCall, PcMoves
<1>2. Pending' = Pending
  BY <1>1 DEF Pending
<1>3. Late \subseteq Late'
  <2> SUFFICES ASSUME NEW t \in Late PROVE t \in Late'
    OBVIOUS
  <2>1. /\ t \in Tasks /\ InQueueCall(t) /\ xEntryTimeSet[t] /\ call[t].wait # portMAX_DELAY
        /\ due[t] <= Now /\ due[t] \in Nat
    BY DEF Late, LocalsTyped
  <2>2. due[t] <= Now'
    BY <2>1
  <2> QED
    BY <2>1, <2>2, <1>1 DEF Late
<1>4. Late' \subseteq {t \in Tasks : Pending[t] # {}}
  BY <1>1 DEF Late, Pending
<1>5. UNCHANGED AllContents
  BY SameContents
<1> QED
  BY <1>2, <1>3, <1>4, <1>5, AbstractPass

(* A tick is at most the passing of time. *)
LEMMA TickMaps ==
  ASSUME IInv, Tick
  PROVE  Abstract!Next
<1>0. /\ ListsTyped /\ LocalsTyped /\ Now \in Nat /\ xPendedTicks \in Nat
      /\ UNCHANGED <<suspender, pc, call, xTicksToWait, xEntryTimeSet, xTimeOut, due>>
  BY TypeParts, ListsFacts DEF IInv, Tick, locals
<1>1. PcMoves
  BY <1>0 DEF PcMoves
<1>2. CASE suspender = "none" /\ Advance(1) /\ UNCHANGED xPendedTicks
  <2>1. xPendedTicks' \in 0..MaxPended /\ suspender' \in Tasks \cup {"none"}
    BY <1>0, <1>2 DEF ListsTyped
  <2>2. /\ Now' = Now + 1
        /\ \A q \in Queues : /\ queue'[q].uxMessagesWaiting = queue[q].uxMessagesWaiting
                              /\ queue'[q].pcReadFrom = queue[q].pcReadFrom
                              /\ queue'[q].pcHead = queue[q].pcHead
    BY <1>0, <1>1, <1>2, <2>1, AdvanceKeeps
  <2>3. Now' \in Nat /\ Now <= Now'
    BY <1>0, <2>2
  <2> QED
    BY <1>0, <1>1, <2>2, <2>3, AdvanceMaps
<1>3. CASE UNCHANGED <<clock, lists, queue>>
  <2>1. Now' = Now
    BY <1>3, QuietSets
  <2>2. Now' \in Nat /\ Now <= Now'
    BY <1>0, <2>1
  <2> QED
    BY <1>0, <1>1, <1>3, <2>2, AdvanceMaps
<1> QED
  BY <1>2, <1>3 DEF Tick

(* The resumption is at most the passing of time. *)
LEMMA ResumeMaps ==
  ASSUME IInv, NEW t \in Tasks, xTaskResumeAll(t)
  PROVE  Abstract!Next
<1>0. /\ Placed /\ ListsTyped /\ LocalsTyped /\ Now \in Nat /\ xPendedTicks \in Nat
  BY TypeParts, ListsFacts DEF IInv
<1>1. /\ suspender = t /\ suspender' = "none" /\ Advance(xPendedTicks) /\ xPendedTicks' = 0
      /\ UNCHANGED <<call, xTicksToWait, xEntryTimeSet, xTimeOut, due>>
  BY DEF xTaskResumeAll
<1>2. pc[t] \in {"resume", "expired", "asleep"}
  BY <1>0, <1>1 DEF Placed
<1>3. /\ pc'[t] = CASE pc[t] = "resume" -> "try"
                    [] pc[t] = "expired" -> "last"
                    [] pc[t] = "asleep" -> "delayed"
      /\ \A u \in Tasks \ {t} : pc'[u] = pc[u]
  BY <1>0, <1>2 DEF xTaskResumeAll, At, LocalsTyped
<1>4. \/ pc[t] = "resume" /\ pc'[t] = "try"
      \/ pc[t] = "expired" /\ pc'[t] = "last"
      \/ pc[t] = "asleep" /\ pc'[t] = "delayed"
  BY <1>2, <1>3
<1>5. PcMoves
  BY <1>3, <1>4 DEF PcMoves
<1>6. xPendedTicks' \in 0..MaxPended /\ suspender' \in Tasks \cup {"none"}
  BY <1>1, KernelAssumption
<1>7. /\ Now' = Now + xPendedTicks
      /\ \A q \in Queues : /\ queue'[q].uxMessagesWaiting = queue[q].uxMessagesWaiting
                            /\ queue'[q].pcReadFrom = queue[q].pcReadFrom
                            /\ queue'[q].pcHead = queue[q].pcHead
  BY <1>0, <1>1, <1>5, <1>6, AdvanceKeeps
<1>8. Now' \in Nat /\ Now <= Now'
  BY <1>0, <1>7
<1> QED
  BY <1>0, <1>1, <1>5, <1>7, <1>8, AdvanceMaps

(* A call that gives up does so after its time. *)
LEMMA ExpireMaps ==
  ASSUME IInv, NEW t \in Tasks, Expire(t)
  PROVE  Abstract!Next \/ UNCHANGED Abstract!vars
<1>0. /\ Placed /\ Timed /\ QueuesTyped /\ LocalsTyped
      /\ pc[t] = "last" /\ UNCHANGED <<clock, queue>>
  BY TypeParts DEF IInv, Expire
<1>1. call[t].op \in {"send", "receive"} /\ InQueueCall(t) /\ TimedCall(t)
  BY <1>0 DEF Placed, InQueueCall, Timed
<1>2. call[t].q \in Queues
  <2>1. call[t] \in Calls[t]
    BY <1>0 DEF LocalsTyped
  <2> QED
    BY <1>1, <2>1, CallFields
<1>3. UNCHANGED AllContents
  BY <1>0, SameContents
<1>4. CASE (call[t].op = "send" \/ Empty(call[t].q)) /\ Return(t)
  <2>1. /\ Pending' = [Pending EXCEPT ![t] = {}] /\ Late' = Late \ {t} /\ Pending[t] = {call[t]}
    BY <1>0, <1>1, <1>4, ReturnPending
  <2>2. xEntryTimeSet[t] /\ xTicksToWait[t] = 0
    BY <1>0, <1>1 DEF TimedCall
  <2>3. call[t].wait # portMAX_DELAY
    BY <1>1, <2>2, MaxDelayIs DEF TimedCall
  <2>4. t \in Late
    BY <1>1, <2>2, <2>3 DEF TimedCall, TimeKnown, Late
  <2>5. /\ AllContents[call[t].q] = Contents(call[t].q)
        /\ Contents(call[t].q) = <<>> <=> queue[call[t].q].uxMessagesWaiting = 0
    BY <1>0, <1>2, ContentsIs
  <2>6. call[t].op = "receive" => AllContents[call[t].q] = <<>>
    BY <1>4, <2>5 DEF Empty
  <2> QED
    BY <1>3, <2>1, <2>4, <2>6, AbstractGiveUp
<1>5. CASE At(t, "try") /\ UNCHANGED <<call, xTicksToWait, xEntryTimeSet, xTimeOut, due>>
  <2>1. Own(t) /\ pc'[t] = "try" /\ call'[t] = call[t] /\ Now' = Now
    BY <1>0, <1>5 DEF At, Own, LocalsTyped, Now, clock
  <2>2. InQueueCall(t)' = InQueueCall(t)
    BY <1>0, <1>5, <2>1 DEF InQueueCall
  <2>3. t \in Late' <=> t \in Late
    BY <1>5, <2>1, <2>2 DEF Late
  <2>4. UNCHANGED <<Pending, Late>>
    BY <2>1, <2>2, <2>3, SameCall
  <2> QED
    BY <1>3, <2>4, AbstractStutter
<1> QED
  BY <1>4, <1>5 DEF Expire

(* A delay is not seen at the queues. *)
LEMMA DelayMaps ==
  ASSUME IInv, NEW t \in Tasks, vTaskDelay(t) \/ Delayed(t)
  PROVE  UNCHANGED Abstract!vars
<1>0. /\ Placed /\ LocalsTyped /\ pc[t] \in {"delay", "delayed"} /\ UNCHANGED <<clock, queue>>
  BY TypeParts, Zenon DEF IInv, vTaskDelay, Delayed
<1>1. ~InQueueCall(t) /\ Now' = Now
  BY <1>0 DEF Placed, InQueueCall, Now, clock
<1>2. UNCHANGED AllContents
  BY <1>0, SameContents
<1>3. Own(t) /\ ~InQueueCall(t)'
  <2>1. CASE vTaskDelay(t)
    BY <2>1, <1>0, <1>1 DEF vTaskDelay, At, Own, LocalsTyped, InQueueCall
  <2>2. CASE Delayed(t)
    BY <2>2, <1>0, ReturnIs DEF Delayed
  <2> QED
    BY <2>1, <2>2
<1>4. t \notin Late /\ t \notin Late'
  BY <1>1, <1>3 DEF Late
<1>5. /\ Pending' = [Pending EXCEPT ![t] = {}]
      /\ \A u \in Tasks \ {t} : u \in Late' <=> u \in Late
      /\ Pending[t] = {} /\ Late \subseteq Tasks /\ Late' \subseteq Tasks
  BY <1>1, <1>3, OwnPending
<1>6. Pending' = Pending /\ Late' = Late
  <2>1. Pending' = Pending
    BY <1>5 DEF Pending
  <2>2. Late' = Late
    BY <1>4, <1>5
  <2> QED
    BY <2>1, <2>2
<1> QED
  BY <1>2, <1>6, AbstractStutter

(* The kernel's steps implement the contract of MessageQueue: an item is    *)
(* put in and taken out in one step, in order, between the call and the     *)
(* return of xQueueGenericSend, xQueueReceive and xQueueSemaphoreTake, for  *)
(* queues of every length, and none of them gives up before its time,       *)
(* whatever the width of the tick count and the sequence of wake-ups.       *)
THEOREM QueueImplemented == Spec => ImplementsQueue
<1>1. Init => Abstract!Init
  <2> SUFFICES ASSUME Init PROVE Abstract!Init
    OBVIOUS
  <2>1. \A q \in Queues : Contents(q) = <<>>
    <3> SUFFICES ASSUME NEW q \in Queues PROVE Contents(q) = <<>>
      OBVIOUS
    <3>1. QueuesTyped
      BY InitIInv, TypeParts DEF IInv
    <3>2. queue[q].uxMessagesWaiting = 0
      BY DEF Init
    <3> QED
      BY <3>1, <3>2, ContentsIs
  <2>2. \A t \in Tasks : ~InQueueCall(t)
    BY DEF Init, InQueueCall
  <2> QED
    BY <2>1, <2>2 DEF Abstract!Init
<1>2. IInv /\ [Next]_vars => [Abstract!Next]_Abstract!vars
  <2> SUFFICES ASSUME IInv, [Next]_vars PROVE Abstract!Next \/ UNCHANGED Abstract!vars
    OBVIOUS
  <2>1. CASE Tick
    BY <2>1, TickMaps
  <2>2. ASSUME NEW t \in Tasks, Step(t) PROVE Abstract!Next \/ UNCHANGED Abstract!vars
    BY <2>2, TryMaps, CheckMaps, ResumeMaps, ExpireMaps, DelayMaps DEF Step
  <2>3. ASSUME NEW t \in Tasks, NEW c \in Calls[t], Call(t, c)
        PROVE  Abstract!Next \/ UNCHANGED Abstract!vars
    BY <2>3, CallMaps
  <2>4. CASE UNCHANGED vars
    <3>1. UNCHANGED <<clock, queue, locals>>
      BY <2>4 DEF vars
    <3>2. Now' = Now
      BY <3>1 DEF Now, clock
    <3>3. \A t \in Tasks : InQueueCall(t)' = InQueueCall(t)
      BY <3>1 DEF InQueueCall, locals
    <3>4. UNCHANGED <<Pending, Late>>
      BY <3>1, <3>2, <3>3 DEF Pending, Late, locals
    <3>5. UNCHANGED AllContents
      BY <3>1, SameContents
    <3> QED
      BY <3>4, <3>5, AbstractStutter
  <2> QED
    BY <2>1, <2>2, <2>3, <2>4 DEF Next
<1>3. Spec => Abstract!Spec
  BY <1>1, <1>2, IInvHolds, PTL DEF Spec, Abstract!Spec
<1> QED
  BY <1>3 DEF ImplementsQueue

-----------------------------------------------------------------------------
(* The heap: blocks as sets of bytes. *)

(* A set of numbers that is not empty has a least one. *)
LEMMA LeastNat ==
  ASSUME NEW S \in SUBSET Nat, S # {}
  PROVE  \E x \in S : \A y \in S : x <= y
<1> DEFINE R == OpToRel(<, Nat)
<1>1. PICK x \in S : \A y \in S : ~(<<y, x>> \in R)
  <2> HIDE DEF R
  <2>1. IsWellFoundedOn(R, Nat)
    BY NatLessThanWellFounded DEF R
  <2> QED
    BY <2>1, WFMin
<1>2. \A y \in S : ~(y < x)
  BY <1>1 DEF OpToRel
<1> QED
  BY <1>2

(* A bounded one that is not empty has a greatest. *)
LEMMA GreatestNat ==
  ASSUME NEW n \in Nat, NEW S \in SUBSET (0..n), S # {}
  PROVE  \E x \in S : \A y \in S : y <= x
<1> DEFINE T == {n - y : y \in S}
<1>0. \A y \in S : y \in 0..n /\ y \in Nat /\ n - y \in Nat
  OBVIOUS
<1>1. T \in SUBSET Nat /\ T # {}
  BY <1>0, Zenon
<1>2. PICK t \in T : \A y \in T : t <= y
  <2> HIDE DEF T
  <2> QED
    BY <1>1, LeastNat
<1>3. PICK x \in S : t = n - x
  OBVIOUS
<1>4. \A y \in S : n - x <= n - y
  BY <1>2, <1>3
<1>5. \A y \in S : y <= x
  <2> HIDE DEF T
  <2> QED
    BY <1>0, <1>4
<1> QED
  BY <1>5

Blocks == {b \in [a : Nat, n : Nat] : b.n > 0}
Upto(b) == b.a + b.n
Cells(b) == b.a..(Upto(b) - 1)
Covered(S) == UNION {Cells(b) : b \in S}

Apart(S) == \A b, c \in S : b # c => Upto(b) <= c.a \/ Upto(c) <= b.a

(* A byte is covered when a block holds it. *)
LEMMA CoveredIs ==
  ASSUME NEW S, NEW x
  PROVE  x \in Covered(S) <=> \E b \in S : x \in Cells(b)
BY DEF Covered

(* The fields of a block and its bytes. *)
LEMMA CellsIs ==
  ASSUME NEW b \in Blocks
  PROVE  /\ b.a \in Nat /\ b.n \in Nat /\ b.n > 0 /\ Upto(b) = b.a + b.n /\ Upto(b) \in Nat
         /\ \A x : x \in Cells(b) <=> x \in Nat /\ b.a <= x /\ x < Upto(b)
BY DEF Blocks, Cells, Upto

(* No block ends before it starts. *)
LEMMA NotBefore ==
  \A b \in Blocks : ~(Upto(b) < b.a)
BY DEF Blocks, Upto

(* A block has as many bytes as its size says. *)
LEMMA CellsCount ==
  ASSUME NEW b \in Blocks
  PROVE  IsFiniteSet(Cells(b)) /\ Cardinality(Cells(b)) = b.n
<1>1. b.a \in Int /\ b.a + b.n - 1 \in Int /\ ~(b.a > b.a + b.n - 1) /\ (b.a + b.n - 1) - b.a + 1 = b.n
  BY DEF Blocks
<1>2. PICK x \in Int, y \in Int : x = b.a /\ y = b.a + b.n - 1
  BY <1>1
<1>3. IsFiniteSet(x..y) /\ Cardinality(x..y) = IF x > y THEN 0 ELSE y - x + 1
  BY FS_Interval
<1> QED
  BY <1>1, <1>2, <1>3 DEF Cells, Upto

(* Blocks without a common byte are apart, and the other way round. *)
LEMMA NoCommon ==
  ASSUME NEW b \in Blocks, NEW c \in Blocks
  PROVE  (Cells(b) \cap Cells(c) = {}) <=> (Upto(b) <= c.a \/ Upto(c) <= b.a)
<1>0. /\ b.a \in Nat /\ b.n \in Nat /\ b.n > 0 /\ Upto(b) = b.a + b.n
      /\ c.a \in Nat /\ c.n \in Nat /\ c.n > 0 /\ Upto(c) = c.a + c.n
  BY CellsIs
<1>1. ASSUME Upto(b) <= c.a \/ Upto(c) <= b.a, NEW x \in Cells(b), x \in Cells(c) PROVE FALSE
  <2>1. x \in Nat /\ b.a <= x /\ x < Upto(b) /\ c.a <= x /\ x < Upto(c)
    BY <1>1, CellsIs
  <2> QED
    BY <1>0, <1>1, <2>1
<1>2. ASSUME ~(Upto(b) <= c.a \/ Upto(c) <= b.a) PROVE Cells(b) \cap Cells(c) # {}
  <2>1. CASE b.a <= c.a
    <3>1. c.a \in Cells(b) /\ c.a \in Cells(c)
      BY <1>0, <1>2, <2>1, CellsIs
    <3> QED
      BY <3>1
  <2>2. CASE ~(b.a <= c.a)
    <3>1. b.a \in Cells(b) /\ b.a \in Cells(c)
      BY <1>0, <1>2, <2>2, CellsIs
    <3> QED
      BY <3>1
  <2> QED
    BY <2>1, <2>2
<1> QED
  BY <1>1, <1>2

(* Some blocks are replaced by others that cover the same bytes. *)
LEMMA BlocksExchanged ==
  ASSUME NEW S \in SUBSET Blocks, NEW R \in SUBSET S, NEW N \in SUBSET Blocks,
         Apart(S), Apart(N), Covered(N) = Covered(R)
  PROVE  /\ Apart((S \ R) \cup N)
         /\ Covered((S \ R) \cup N) = Covered(S)
         /\ (S \ R) \cap N = {}
<1>1. \A c \in S \ R, d \in N : Cells(c) \cap Cells(d) = {}
  <2> SUFFICES ASSUME NEW c \in S \ R, NEW d \in N, NEW x \in Cells(c), x \in Cells(d) PROVE FALSE
    OBVIOUS
  <2>1. x \in Covered(R)
    BY CoveredIs
  <2>2. PICK r \in R : x \in Cells(r)
    BY <2>1, CoveredIs
  <2>3. r \in S /\ c \in S /\ r # c /\ r \in Blocks /\ c \in Blocks
    OBVIOUS
  <2>4. Cells(r) \cap Cells(c) = {}
    BY <2>3, NoCommon DEF Apart
  <2> QED
    BY <2>2, <2>4
<1>2. \A c \in S \ R, d \in N : Upto(c) <= d.a \/ Upto(d) <= c.a
  BY <1>1, NoCommon
<1>3. Apart((S \ R) \cup N)
  BY <1>2 DEF Apart
<1>4. Covered((S \ R) \cup N) = Covered(S)
  <2>1. \A x : x \in Covered((S \ R) \cup N) <=> x \in Covered(S \ R) \/ x \in Covered(N)
    BY CoveredIs
  <2>2. \A x : x \in Covered(S) <=> x \in Covered(S \ R) \/ x \in Covered(R)
    BY CoveredIs
  <2> QED
    BY <2>1, <2>2
<1>5. (S \ R) \cap N = {}
  <2> SUFFICES ASSUME NEW c \in S \ R, c \in N PROVE FALSE
    OBVIOUS
  <2>1. c.a \in Cells(c)
    BY CellsIs
  <2> QED
    BY <1>1, <2>1
<1> QED
  BY <1>3, <1>4, <1>5

(* A part of a list of blocks is replaced by one block. *)
Spliced(L, p, x, q) == SubSeq(L, 1, p) \o <<x>> \o SubSeq(L, q, Len(L))

(* The list with one block in place of those from p + 1 to q - 1. *)
LEMMA SplicedIs ==
  ASSUME NEW L \in Seq(Blocks), NEW x \in Blocks, NEW p \in 0..Len(L), NEW q \in 1..(Len(L) + 1), p < q
  PROVE  /\ Spliced(L, p, x, q) \in Seq(Blocks)
         /\ Len(Spliced(L, p, x, q)) = p + 1 + (Len(L) + 1 - q)
         /\ \A k \in 1..(p + 1 + (Len(L) + 1 - q)) :
              Spliced(L, p, x, q)[k]
                = IF k <= p THEN L[k] ELSE IF k = p + 1 THEN x ELSE L[k - (p + 1) + (q - 1)]
<1>1. PICK l \in Nat : l = Len(L)
  OBVIOUS
<1>2. PICK A \in Seq(Blocks) : A = SubSeq(L, 1, p) /\ Len(A) = p /\ \A k \in 1..p : A[k] = L[k]
  <2>1. SubSeq(L, 1, p) \in Seq(Blocks)
    BY <1>1
  <2>2. Len(SubSeq(L, 1, p)) = p
    BY <1>1
  <2>3. \A k \in 1..p : SubSeq(L, 1, p)[k] = L[k]
    BY <1>1
  <2> QED
    BY <2>1, <2>2, <2>3
<1>3. PICK B \in Seq(Blocks) : /\ B = SubSeq(L, q, Len(L)) /\ Len(B) = l + 1 - q
                          /\ \A k \in 1..(l + 1 - q) : B[k] = L[k + (q - 1)]
  <2>1. SubSeq(L, q, l) \in Seq(Blocks)
    BY <1>1
  <2>2. Len(SubSeq(L, q, l)) = l + 1 - q
    BY <1>1
  <2>3. \A k \in 1..(l + 1 - q) : SubSeq(L, q, l)[k] = L[k + (q - 1)]
    BY <1>1
  <2> QED
    BY <1>1, <2>1, <2>2, <2>3
<1>4. PICK z \in Seq(Blocks) : z = <<x>> /\ Len(z) = 1 /\ z[1] = x
  <2>1. <<x>> \in Seq(Blocks) /\ Len(<<x>>) = 1 /\ <<x>>[1] = x
    OBVIOUS
  <2> QED
    BY <2>1
<1>5. PICK M \in Seq(Blocks) : M = A \o z
  <2>1. A \o z \in Seq(Blocks)
    BY ConcatProperties
  <2> QED
    BY <2>1
<1>6. Len(M) = p + 1
  <2>1. Len(M) = Len(A) + Len(z)
    BY <1>5, ConcatProperties
  <2> QED
    BY <1>2, <1>4, <2>1
<1>7. \A k \in 1..(p + 1) : M[k] = IF k <= p THEN L[k] ELSE x
  <2> SUFFICES ASSUME NEW k \in 1..(p + 1) PROVE M[k] = IF k <= p THEN L[k] ELSE x
    OBVIOUS
  <2>1. \A j \in 1..(Len(A) + Len(z)) : M[j] = IF j <= Len(A) THEN A[j] ELSE z[j - Len(A)]
    BY <1>5, ConcatProperties
  <2>2. Len(A) = p /\ Len(z) = 1 /\ z[1] = x
    BY <1>2, <1>4
  <2>3. k \in 1..(Len(A) + Len(z)) /\ (k <= p <=> k <= Len(A)) /\ (~(k <= p) => k - Len(A) = 1)
    BY <2>2
  <2>4. CASE k <= p
    BY <1>2, <2>1, <2>3, <2>4
  <2>5. CASE ~(k <= p)
    <3>1. M[k] = z[k - Len(A)]
      BY <2>1, <2>3, <2>5
    <3> QED
      BY <2>2, <2>3, <2>5, <3>1
  <2> QED
    BY <2>4, <2>5
<1>8. PICK r \in Seq(Blocks) : r = M \o B
  <2>1. M \o B \in Seq(Blocks)
    BY ConcatProperties
  <2> QED
    BY <2>1
<1>9. Len(r) = p + 1 + (l + 1 - q)
  <2>1. Len(r) = Len(M) + Len(B)
    BY <1>8, ConcatProperties
  <2> QED
    BY <1>3, <1>6, <2>1
<1>10. \A k \in 1..(p + 1 + (l + 1 - q)) :
         r[k] = IF k <= p THEN L[k] ELSE IF k = p + 1 THEN x ELSE L[k - (p + 1) + (q - 1)]
  <2> SUFFICES ASSUME NEW k \in 1..(p + 1 + (l + 1 - q))
               PROVE  r[k] = IF k <= p THEN L[k] ELSE IF k = p + 1 THEN x
                             ELSE L[k - (p + 1) + (q - 1)]
    OBVIOUS
  <2>1. \A j \in 1..(Len(M) + Len(B)) : r[j] = IF j <= Len(M) THEN M[j] ELSE B[j - Len(M)]
    BY <1>8, ConcatProperties
  <2>2. Len(M) = p + 1 /\ Len(B) = l + 1 - q
    BY <1>3, <1>6
  <2>3. k \in 1..(Len(M) + Len(B)) /\ (k <= p + 1 <=> k <= Len(M))
    BY <2>2
  <2>4. CASE k <= p + 1
    BY <1>7, <2>1, <2>3, <2>4
  <2>5. CASE ~(k <= p + 1)
    <3>1. r[k] = B[k - (p + 1)]
      BY <2>1, <2>2, <2>3, <2>5
    <3>2. k - (p + 1) \in 1..(l + 1 - q)
      BY <2>5
    <3>3. B[k - (p + 1)] = L[(k - (p + 1)) + (q - 1)]
      BY <1>3, <3>2
    <3>4. ~(k <= p) /\ k # p + 1
      BY <2>5
    <3> QED
      BY <3>1, <3>3, <3>4, Zenon
  <2> QED
    BY <2>4, <2>5
<1>11. Spliced(L, p, x, q) = r
  BY <1>2, <1>3, <1>4, <1>5, <1>8 DEF Spliced
<1> QED
  BY <1>1, <1>9, <1>10, <1>11

-----------------------------------------------------------------------------
(* The heap: the inductive invariant. *)

Even(S) == \A b \in S : b.a % 8 = 0 /\ b.n % 8 = 0

(* The elements of a list, and a list in order with gaps in between. *)
Elems(L) == {L[i] : i \in 1..Len(L)}
Gapped(L) == \A i, j \in 1..Len(L) : i < j => Upto(L[i]) < L[j].a

HeapInv ==
  /\ total \in HeapSizes
  /\ free \in Seq(Blocks)
  /\ used \in SUBSET Blocks
  /\ \A b \in used : b.n > 8
  /\ Even(used \cup Elems(free))
  /\ Gapped(free)
  /\ used \cap Elems(free) = {}
  /\ Apart(used \cup Elems(free))
  /\ Covered(used \cup Elems(free)) = Start!uxStartAddress..(Start!pxEnd(total) - 1)
  /\ xFreeBytesRemaining \in Nat
  /\ xFreeBytesRemaining = Cardinality(Covered(Elems(free)))
  /\ xMinimumEverFreeBytesRemaining \in 0..xFreeBytesRemaining

(* prvHeapInit leaves a heap that is aligned at both ends and not empty. *)
LEMMA HeapBounds ==
  ASSUME NEW t \in HeapSizes
  PROVE  /\ Start!uxStartAddress \in Nat /\ Start!pxEnd(t) \in Nat
         /\ Start!uxStartAddress % 8 = 0 /\ Start!pxEnd(t) % 8 = 0
         /\ Start!uxStartAddress < Start!pxEnd(t)
<1>1. ucHeap \in Nat /\ t \in Nat /\ t >= 32
  BY StartAssumption DEF Start!HeapAssumption
<1> QED
  BY <1>1 DEF Start!uxStartAddress, Start!pxEnd, Start!AlignUp, Start!AlignDown,
              Start!portBYTE_ALIGNMENT, Start!xHeapStructSize

(* What pvPortMalloc makes of the wanted size. *)
LEMMA BlockSizeIs ==
  ASSUME NEW w \in Nat
  PROVE  /\ Start!BlockSize(w) \in Nat /\ Start!BlockSize(w) % 8 = 0
         /\ Start!BlockSize(w) > 0 => Start!BlockSize(w) >= 16 /\ Start!BlockSize(w) >= w + 8
BY DEF Start!BlockSize, Start!AlignUp, Start!portBYTE_ALIGNMENT, Start!xHeapStructSize

(* The elements of a list of blocks. *)
LEMMA ElemsIs ==
  ASSUME NEW L \in Seq(Blocks)
  PROVE  /\ Len(L) \in Nat
         /\ \A i \in 1..Len(L) : L[i] \in Blocks /\ L[i] \in Elems(L)
         /\ Elems(L) \in SUBSET Blocks
         /\ \A x : x \in Elems(L) <=> \E i \in 1..Len(L) : x = L[i]
<1>1. Len(L) \in Nat /\ \A i \in 1..Len(L) : L[i] \in Blocks
  OBVIOUS
<1> QED
  BY <1>1 DEF Elems

(* The bytes of the blocks are finitely many. *)
LEMMA CoveredFinite ==
  ASSUME HeapInv
  PROVE  IsFiniteSet(Covered(used \cup Elems(free)))
         /\ \A S \in SUBSET (used \cup Elems(free)) : IsFiniteSet(Covered(S))
<1>1. IsFiniteSet(Covered(used \cup Elems(free)))
  <2>1. Start!uxStartAddress \in Int /\ Start!pxEnd(total) - 1 \in Int
    BY HeapBounds DEF HeapInv
  <2>2. IsFiniteSet(Start!uxStartAddress..(Start!pxEnd(total) - 1))
    BY <2>1, FS_Interval
  <2> QED
    BY <2>2 DEF HeapInv
<1>2. \A S \in SUBSET (used \cup Elems(free)) :
        Covered(S) \in SUBSET Covered(used \cup Elems(free))
  BY DEF Covered
<1> QED
  BY <1>1, <1>2, FS_Subset

(* A list with one block in the place of some: its elements and its order. *)
LEMMA SplicedList ==
  ASSUME NEW L \in Seq(Blocks), Gapped(L), NEW x \in Blocks,
         NEW p \in 0..Len(L), NEW q \in 1..(Len(L) + 1), p < q,
         \A i \in 1..Len(L) : i <= p => Upto(L[i]) < x.a,
         \A i \in 1..Len(L) : q <= i => Upto(x) < L[i].a
  PROVE  /\ Spliced(L, p, x, q) \in Seq(Blocks)
         /\ Gapped(Spliced(L, p, x, q))
         /\ Elems(Spliced(L, p, x, q))
              = (Elems(L) \ {L[i] : i \in (p + 1)..(q - 1)}) \cup {x}
<1>0. PICK l \in Nat : l = Len(L)
  OBVIOUS
<1>1. PICK N \in Seq(Blocks) : /\ N = Spliced(L, p, x, q) /\ Len(N) = p + 1 + (l + 1 - q)
                               /\ \A k \in 1..(p + 1 + (l + 1 - q)) :
                                    N[k] = IF k <= p THEN L[k] ELSE IF k = p + 1 THEN x
                                           ELSE L[k - (p + 1) + (q - 1)]
  <2>1. PICK N : N = Spliced(L, p, x, q)
    OBVIOUS
  <2>2. /\ Spliced(L, p, x, q) \in Seq(Blocks)
        /\ Len(Spliced(L, p, x, q)) = p + 1 + (Len(L) + 1 - q)
        /\ \A k \in 1..(p + 1 + (Len(L) + 1 - q)) :
             Spliced(L, p, x, q)[k]
               = IF k <= p THEN L[k] ELSE IF k = p + 1 THEN x ELSE L[k - (p + 1) + (q - 1)]
    BY SplicedIs
  <2> QED
    BY <1>0, <2>1, <2>2
<1>2. \A i, j \in 1..l : i < j => Upto(L[i]) < L[j].a
  BY <1>0 DEF Gapped
<1>3. \A i \in 1..l : L[i] \in Blocks
  BY <1>0
<1>4. PICK m \in Nat : m = p + 1 + (l + 1 - q)
  <2>1. p \in 0..l /\ q \in 1..(l + 1)
    BY <1>0
  <2>2. p + 1 + (l + 1 - q) \in Nat
    BY <2>1
  <2> QED
    BY <2>2
<1>5. \A k \in 1..m : /\ k <= p => N[k] = L[k] /\ k \in 1..l
                      /\ k = p + 1 => N[k] = x
                      /\ k > p + 1 => /\ N[k] = L[k - (p + 1) + (q - 1)]
                                      /\ k - (p + 1) + (q - 1) \in q..l
  <2> SUFFICES ASSUME NEW k \in 1..m
               PROVE  /\ k <= p => N[k] = L[k] /\ k \in 1..l
                      /\ k = p + 1 => N[k] = x
                      /\ k > p + 1 => /\ N[k] = L[k - (p + 1) + (q - 1)]
                                      /\ k - (p + 1) + (q - 1) \in q..l
    OBVIOUS
  <2>1. k <= p => k \in 1..l
    BY <1>0
  <2>2. k > p + 1 => k - (p + 1) + (q - 1) \in q..l
    BY <1>0, <1>4
  <2>3. N[k] = IF k <= p THEN L[k] ELSE IF k = p + 1 THEN x ELSE L[k - (p + 1) + (q - 1)]
    BY <1>1, <1>4
  <2> QED
    BY <2>1, <2>2, <2>3
<1>6. Gapped(N)
  <2> SUFFICES ASSUME NEW i \in 1..m, NEW j \in 1..m, i < j PROVE Upto(N[i]) < N[j].a
    BY <1>1, <1>4 DEF Gapped
  <2>1. CASE j <= p
    <3>1. N[i] = L[i] /\ N[j] = L[j] /\ i \in 1..l /\ j \in 1..l
      BY <1>5, <2>1
    <3> QED
      BY <1>2, <3>1
  <2>2. CASE j = p + 1
    <3>1. N[i] = L[i] /\ N[j] = x /\ i \in 1..l /\ i <= p
      BY <1>5, <2>2
    <3> QED
      BY <1>0, <3>1
  <2>3. CASE j > p + 1 /\ i = p + 1
    <3>1. PICK u \in q..l : N[j] = L[u]
      BY <1>5, <2>3
    <3>2. N[i] = x /\ u \in 1..l /\ q <= u
      BY <1>0, <1>5, <2>3, <3>1
    <3> QED
      BY <1>0, <3>1, <3>2
  <2>4. CASE j > p + 1 /\ i <= p
    <3>1. PICK u \in q..l : N[j] = L[u]
      BY <1>5, <2>4
    <3>2. N[i] = L[i] /\ i \in 1..l /\ u \in 1..l /\ i < u
      BY <1>5, <2>4, <3>1
    <3> QED
      BY <1>2, <3>1, <3>2
  <2>5. CASE j > p + 1 /\ i > p + 1
    <3>1. PICK u \in Nat, v \in Nat : u = i - (p + 1) + (q - 1) /\ v = j - (p + 1) + (q - 1)
      BY <2>5
    <3>2. N[i] = L[u] /\ N[j] = L[v] /\ u \in q..l /\ v \in q..l
      BY <1>5, <2>5, <3>1
    <3>3. u < v
      <4>1. PICK d \in Nat : u + (p + 1) = i + d /\ v + (p + 1) = j + d
        <5>1. q - 1 \in Nat
          OBVIOUS
        <5> QED
          BY <3>1, <5>1
      <4> QED
        BY <4>1
    <3>4. u \in 1..l /\ v \in 1..l
      BY <3>2
    <3> QED
      BY <1>2, <3>2, <3>3, <3>4
  <2> QED
    BY <2>1, <2>2, <2>3, <2>4, <2>5
<1>7. \A i, j \in 1..l : i # j => L[i] # L[j]
  <2> SUFFICES ASSUME NEW u \in 1..l, NEW v \in 1..l, u < v PROVE L[u] # L[v]
    OBVIOUS
  <2>1. Upto(L[u]) < L[v].a /\ L[u] \in Blocks
    BY <1>2, <1>3
  <2> QED
    BY <2>1, NotBefore
<1>8. \A y : y \in Elems(N) <=> y = x \/ \E i \in 1..l : y = L[i] /\ (i <= p \/ q <= i)
  <2> SUFFICES ASSUME NEW y
               PROVE  y \in Elems(N) <=> y = x \/ \E i \in 1..l : y = L[i] /\ (i <= p \/ q <= i)
    OBVIOUS
  <2>1. y \in Elems(N) <=> \E k \in 1..m : y = N[k]
    BY <1>1, <1>4 DEF Elems
  <2>2. ASSUME NEW k \in 1..m, y = N[k]
        PROVE  y = x \/ \E i \in 1..l : y = L[i] /\ (i <= p \/ q <= i)
    <3>1. CASE k <= p
      BY <1>5, <2>2, <3>1
    <3>2. CASE k = p + 1
      BY <1>5, <2>2, <3>2
    <3>3. CASE k > p + 1
      <4>1. PICK u \in q..l : N[k] = L[u]
        BY <1>5, <3>3
      <4>2. u \in 1..l /\ q <= u
        BY <4>1
      <4> QED
        BY <2>2, <4>1, <4>2
    <3> QED
      BY <3>1, <3>2, <3>3
  <2>3. ASSUME y = x PROVE \E k \in 1..m : y = N[k]
    <3>1. p + 1 \in 1..m
      BY <1>0, <1>4
    <3> QED
      BY <1>5, <2>3, <3>1
  <2>4. ASSUME NEW i \in 1..l, y = L[i], i <= p PROVE \E k \in 1..m : y = N[k]
    <3>1. i \in 1..m
      BY <1>0, <1>4, <2>4
    <3> QED
      BY <1>5, <2>4, <3>1
  <2>5. ASSUME NEW i \in 1..l, y = L[i], q <= i PROVE \E k \in 1..m : y = N[k]
    <3>1. PICK k \in Nat : k = i + (p + 1) - (q - 1)
      BY <1>0, <2>5
    <3>2. k \in 1..m /\ k > p + 1 /\ k - (p + 1) + (q - 1) = i
      BY <1>0, <1>4, <2>5, <3>1
    <3> QED
      BY <1>5, <2>5, <3>2
  <2> QED
    BY <2>1, <2>2, <2>3, <2>4, <2>5
<1>9. Elems(N) = (Elems(L) \ {L[i] : i \in (p + 1)..(q - 1)}) \cup {x}
  <2> DEFINE gone == {L[i] : i \in (p + 1)..(q - 1)}
  <2>1. \A y : y \in Elems(L) <=> \E i \in 1..l : y = L[i]
    BY <1>0 DEF Elems
  <2>2. \A i \in 1..l : L[i] \in gone <=> ~(i <= p \/ q <= i)
    <3> SUFFICES ASSUME NEW i \in 1..l PROVE L[i] \in gone <=> i \in (p + 1)..(q - 1)
      OBVIOUS
    <3>1. ASSUME L[i] \in gone PROVE i \in (p + 1)..(q - 1)
      <4>1. PICK j \in (p + 1)..(q - 1) : L[i] = L[j]
        BY <3>1
      <4>2. j \in 1..l
        BY <1>0
      <4> QED
        BY <1>7, <4>1, <4>2
    <3> QED
      BY <3>1
  <2> HIDE DEF gone
  <2>3. \A y : y \in Elems(N) <=> y \in (Elems(L) \ gone) \cup {x}
    BY <1>8, <2>1, <2>2
  <2> QED
    BY <2>3 DEF gone
<1> QED
  BY <1>1, <1>6, <1>9

(* Min of numbers is the least of them. *)
LEMMA HeapMin ==
  ASSUME NEW S \in SUBSET Nat, S # {}
  PROVE  Start!Min(S) \in S /\ \A y \in S : Start!Min(S) <= y
BY LeastNat DEF Start!Min

(* The low-water mark is not above the bytes that remain. *)
LEMMA HeapMinOf ==
  ASSUME NEW x \in Nat, NEW y \in Nat
  PROVE  Start!Min({x, y}) \in 0..y
<1>1. {x, y} \in SUBSET Nat /\ {x, y} # {}
  OBVIOUS
<1>2. Start!Min({x, y}) \in {x, y} /\ \A z \in {x, y} : Start!Min({x, y}) <= z
  BY <1>1, HeapMin
<1> QED
  BY <1>2

(* pvPortMalloc: the block found, what is left of it, and the list. *)
RestOf(b, f) == [a |-> Upto(b), n |-> f.n - b.n]

(* What pvPortMalloc finds is the start of a free block, or all of it. *)
LEMMA FoundBlock ==
  ASSUME HeapInv, NEW w \in Nat, Start!CanMalloc(w)
  PROVE  \E i \in 1..Len(free) : \E f, b \in Blocks :
           /\ i = Start!Min(Start!FitsIn(Start!BlockSize(w)))
           /\ f = free[i] /\ b = Start!Found(w) /\ b.a = f.a
           /\ b.n >= Start!BlockSize(w) /\ b.n % 8 = 0
           /\ IF f.n - Start!BlockSize(w) > 16
              THEN b.n = Start!BlockSize(w) /\ RestOf(b, f) \in Blocks
              ELSE b = f
<1>1. PICK s \in Nat : s = Start!BlockSize(w) /\ s % 8 = 0 /\ s >= 16
  <2>1. Start!BlockSize(w) > 0
    BY DEF Start!CanMalloc
  <2> QED
    BY <2>1, BlockSizeIs
<1>2. Start!FitsIn(s) # {} /\ Start!FitsIn(s) \in SUBSET Nat
  BY <1>1 DEF Start!CanMalloc, Start!FitsIn
<1>3. PICK i \in 1..Len(free) : i = Start!Min(Start!FitsIn(s)) /\ free[i].n >= s
  <2>1. Start!Min(Start!FitsIn(s)) \in Start!FitsIn(s)
    BY <1>2, HeapMin
  <2> QED
    BY <2>1 DEF Start!FitsIn
<1>4. PICK f \in Blocks : f = free[i]
  BY DEF HeapInv
<1>5. f.a \in Nat /\ f.n \in Nat /\ f.n >= s
  BY <1>3, <1>4, CellsIs
<1>6. f.n % 8 = 0
  <2>1. f \in Elems(free)
    BY <1>4 DEF Elems
  <2> QED
    BY <2>1 DEF HeapInv, Even
<1>7. Start!Found(w) = IF f.n - s > 16 THEN [a |-> f.a, n |-> s] ELSE f
  BY <1>1, <1>3, <1>4 DEF Start!Found, Start!Split, Start!Block, Start!heapMINIMUM_BLOCK_SIZE,
                          Start!xHeapStructSize
<1>8. CASE f.n - s > 16
  <2>1. PICK b : b = [a |-> f.a, n |-> s]
    OBVIOUS
  <2>2. b \in Blocks /\ b.a = f.a /\ b.n = s
    BY <1>1, <1>5, <2>1 DEF Blocks
  <2>3. RestOf(b, f) \in Blocks
    <3>1. Upto(b) \in Nat /\ f.n - b.n \in Nat /\ f.n - b.n > 0
      BY <1>1, <1>5, <1>8, <2>2, CellsIs
    <3> QED
      BY <3>1 DEF RestOf, Blocks
  <2> QED
    BY <1>1, <1>3, <1>4, <1>7, <1>8, <2>1, <2>2, <2>3
<1>9. CASE ~(f.n - s > 16)
  BY <1>1, <1>3, <1>4, <1>5, <1>6, <1>7, <1>9
<1> QED
  BY <1>8, <1>9

(* A free list without one of its blocks. *)
LEMMA RemovedList ==
  ASSUME NEW L \in Seq(Blocks), Gapped(L), NEW i \in 1..Len(L)
  PROVE  /\ Start!RemoveAt(L, i) \in Seq(Blocks)
         /\ Gapped(Start!RemoveAt(L, i))
         /\ Elems(Start!RemoveAt(L, i)) = Elems(L) \ {L[i]}
<1>0. PICK l \in Nat : l = Len(L)
  OBVIOUS
<1>1. PICK A \in Seq(Blocks) : A = SubSeq(L, 1, i - 1) /\ Len(A) = i - 1 /\ \A k \in 1..(i - 1) : A[k] = L[k]
  <2>1. SubSeq(L, 1, i - 1) \in Seq(Blocks)
    BY <1>0
  <2>2. Len(SubSeq(L, 1, i - 1)) = i - 1
    BY <1>0
  <2>3. \A k \in 1..(i - 1) : SubSeq(L, 1, i - 1)[k] = L[k]
    BY <1>0
  <2> QED
    BY <2>1, <2>2, <2>3
<1>2. PICK B \in Seq(Blocks) : B = SubSeq(L, i + 1, Len(L)) /\ Len(B) = l - i /\ \A k \in 1..(l - i) : B[k] = L[k + i]
  <2>1. SubSeq(L, i + 1, l) \in Seq(Blocks)
    BY <1>0
  <2>2. Len(SubSeq(L, i + 1, l)) = l - i
    BY <1>0
  <2>3. \A k \in 1..(l - i) : SubSeq(L, i + 1, l)[k] = L[k + i]
    BY <1>0
  <2> QED
    BY <1>0, <2>1, <2>2, <2>3
<1>3. PICK N \in Seq(Blocks) : N = A \o B
  <2>1. A \o B \in Seq(Blocks)
    BY ConcatProperties
  <2> QED
    BY <2>1
<1>4. Len(N) = l - 1
  <2>1. Len(N) = Len(A) + Len(B)
    BY <1>3, ConcatProperties
  <2> QED
    BY <1>0, <1>1, <1>2, <2>1
<1>5. \A k \in 1..(l - 1) : N[k] = IF k < i THEN L[k] ELSE L[k + 1]
  <2> SUFFICES ASSUME NEW k \in 1..(l - 1) PROVE N[k] = IF k < i THEN L[k] ELSE L[k + 1]
    OBVIOUS
  <2>1. \A j \in 1..(Len(A) + Len(B)) : N[j] = IF j <= Len(A) THEN A[j] ELSE B[j - Len(A)]
    BY <1>3, ConcatProperties
  <2>2. Len(A) = i - 1 /\ Len(B) = l - i
    BY <1>1, <1>2
  <2>3. k \in 1..(Len(A) + Len(B)) /\ (k < i <=> k <= Len(A))
    BY <1>0, <2>2
  <2>4. CASE k < i
    BY <1>1, <2>1, <2>3, <2>4
  <2>5. CASE ~(k < i)
    <3>1. N[k] = B[k - (i - 1)]
      BY <2>1, <2>2, <2>3, <2>5
    <3>2. k - (i - 1) \in 1..(l - i) /\ (k - (i - 1)) + i = k + 1
      BY <1>0, <2>5
    <3> QED
      BY <1>2, <2>5, <3>1, <3>2
  <2> QED
    BY <2>4, <2>5
<1>6. \A u, v \in 1..l : u < v => Upto(L[u]) < L[v].a
  BY <1>0 DEF Gapped
<1>7. Gapped(N)
  <2> SUFFICES ASSUME NEW j \in 1..(l - 1), NEW k \in 1..(l - 1), j < k PROVE Upto(N[j]) < N[k].a
    BY <1>4 DEF Gapped
  <2>1. PICK u \in 1..l : N[j] = L[u] /\ (u = j \/ u = j + 1) /\ (u = j + 1 => j >= i)
    <3>1. j \in 1..l /\ j + 1 \in 1..l
      BY <1>0
    <3>2. CASE j < i
      BY <1>5, <3>1, <3>2
    <3>3. CASE ~(j < i)
      <4>1. N[j] = L[j + 1] /\ j >= i
        BY <1>5, <3>3
      <4> QED
        BY <3>1, <4>1
    <3> QED
      BY <3>2, <3>3
  <2>2. PICK v \in 1..l : N[k] = L[v] /\ (v = k \/ v = k + 1) /\ (v = k => k < i)
    <3>1. k \in 1..l /\ k + 1 \in 1..l /\ k + 1 # k
      BY <1>0
    <3>2. CASE k < i
      BY <1>5, <3>1, <3>2
    <3>3. CASE ~(k < i)
      BY <1>5, <3>1, <3>3
    <3> QED
      BY <3>2, <3>3
  <2>3. u < v
    BY <2>1, <2>2
  <2> QED
    BY <1>6, <2>1, <2>2, <2>3
<1>8. \A u, v \in 1..l : u # v => L[u] # L[v]
  <2> SUFFICES ASSUME NEW u \in 1..l, NEW v \in 1..l, u < v PROVE L[u] # L[v]
    OBVIOUS
  <2>1. Upto(L[u]) < L[v].a /\ L[u] \in Blocks
    BY <1>0, <1>6
  <2> QED
    BY <2>1, NotBefore
<1>9. Elems(N) = Elems(L) \ {L[i]}
  <2>1. \A y : y \in Elems(N) <=> \E k \in 1..(l - 1) : y = N[k]
    BY <1>4 DEF Elems
  <2>2. \A y : y \in Elems(L) <=> \E k \in 1..l : y = L[k]
    BY <1>0 DEF Elems
  <2>3. ASSUME NEW k \in 1..(l - 1) PROVE N[k] \in Elems(L) \ {L[i]}
    <3>1. PICK u \in 1..l : N[k] = L[u] /\ u # i
      <4>1. k \in 1..l /\ k + 1 \in 1..l
        BY <1>0
      <4>2. CASE k < i
        BY <1>5, <4>1, <4>2
      <4>3. CASE ~(k < i)
        BY <1>5, <4>1, <4>3
      <4> QED
        BY <4>2, <4>3
    <3> QED
      BY <1>0, <1>8, <2>2, <3>1
  <2>4. ASSUME NEW u \in 1..l, u # i PROVE \E k \in 1..(l - 1) : L[u] = N[k]
    <3>1. CASE u < i
      <4>1. u \in 1..(l - 1)
        BY <1>0, <3>1
      <4> QED
        BY <1>5, <3>1, <4>1
    <3>2. CASE ~(u < i)
      <4>1. u - 1 \in 1..(l - 1) /\ ~(u - 1 < i) /\ (u - 1) + 1 = u
        BY <1>0, <2>4, <3>2
      <4> QED
        BY <1>5, <4>1
    <3> QED
      BY <3>1, <3>2
  <2>5. ASSUME NEW y \in Elems(N) PROVE y \in Elems(L) \ {L[i]}
    BY <2>1, <2>3
  <2>6. ASSUME NEW y \in Elems(L) \ {L[i]} PROVE y \in Elems(N)
    <3>1. PICK u \in 1..l : y = L[u]
      BY <2>2
    <3>2. u # i
      BY <3>1
    <3> QED
      BY <2>1, <2>4, <3>1, <3>2
  <2> QED
    BY <2>5, <2>6
<1>10. Start!RemoveAt(L, i) = N
  BY <1>1, <1>2, <1>3 DEF Start!RemoveAt
<1> QED
  BY <1>7, <1>9, <1>10

(* The bytes of a block leave the free list. *)
LEMMA FewerFree ==
  ASSUME HeapInv, NEW G, NEW b \in Blocks,
         Covered(G) = Covered(Elems(free)) \ Cells(b), Cells(b) \subseteq Covered(Elems(free))
  PROVE  Cardinality(Covered(G)) = xFreeBytesRemaining - b.n
<1>1. IsFiniteSet(Covered(Elems(free)))
  <2>1. Elems(free) \in SUBSET (used \cup Elems(free))
    OBVIOUS
  <2> QED
    BY <2>1, CoveredFinite
<1>2. Covered(Elems(free)) \cap Cells(b) = Cells(b)
  OBVIOUS
<1>3. Cardinality(Covered(G)) = Cardinality(Covered(Elems(free))) - Cardinality(Cells(b))
  BY <1>1, <1>2, FS_Difference
<1> QED
  BY <1>3, CellsCount DEF HeapInv

(* Cutting a multiple of 8 off a block leaves one. *)
LEMMA EvenRest ==
  \A x, s, n \in Nat : x % 8 = 0 /\ s % 8 = 0 /\ n % 8 = 0 /\ n - s \in Nat
                         => (x + s) % 8 = 0 /\ (n - s) % 8 = 0
OBVIOUS

(* Multiples of 8 add to one. *)
LEMMA EvenSum ==
  \A x, s \in Nat : x % 8 = 0 /\ s % 8 = 0 => (x + s) % 8 = 0
OBVIOUS

(* A successful pvPortMalloc keeps the invariant and returns a block that   *)
(* nobody holds.                                                            *)
LEMMA MallocInv ==
  ASSUME HeapInv, NEW w \in Nat, Start!CanMalloc(w), Start!Malloc(w)
  PROVE  HeapInv' /\ Start!Found(w) \in Blocks /\ Start!Found(w) \notin used
<1>1. PICK i \in 1..Len(free), f \in Blocks, b \in Blocks :
           /\ i = Start!Min(Start!FitsIn(Start!BlockSize(w)))
           /\ f = free[i] /\ b = Start!Found(w) /\ b.a = f.a
           /\ b.n >= Start!BlockSize(w) /\ b.n % 8 = 0
           /\ IF f.n - Start!BlockSize(w) > 16
              THEN b.n = Start!BlockSize(w) /\ RestOf(b, f) \in Blocks
              ELSE b = f
  BY FoundBlock
<1>2. PICK s \in Nat : s = Start!BlockSize(w) /\ s % 8 = 0 /\ s >= 16
  <2>1. Start!BlockSize(w) > 0
    BY DEF Start!CanMalloc
  <2> QED
    BY <2>1, BlockSizeIs
<1>3. /\ used' = used \cup {b} /\ total' = total
      /\ xFreeBytesRemaining' = xFreeBytesRemaining - b.n
      /\ xMinimumEverFreeBytesRemaining' = Start!Min({xMinimumEverFreeBytesRemaining, xFreeBytesRemaining'})
  BY <1>1 DEF Start!Malloc, Start!TakenBytes
<1>4. f \in Elems(free) /\ f \in used \cup Elems(free) /\ f \notin used /\ f.a % 8 = 0 /\ f.n % 8 = 0
  <2>1. f \in Elems(free)
    BY <1>1 DEF Elems
  <2> QED
    BY <2>1 DEF HeapInv, Even
<1>5. PICK F \in SUBSET Blocks : F = Elems(free)
  BY ElemsIs DEF HeapInv
<1>6. PICK S \in SUBSET Blocks : S = used \cup F
  BY <1>5 DEF HeapInv
<1>7. Apart(S) /\ Even(S) /\ used \cap F = {} /\ used \in SUBSET Blocks /\ f \in F /\ f \in S
  BY <1>4, <1>5, <1>6 DEF HeapInv
<1>8. b.n > 8
  BY <1>1, <1>2, CellsIs
<1>9. /\ free' \in Seq(Blocks) /\ Gapped(free')
      /\ used' \cap Elems(free') = {} /\ Apart(used' \cup Elems(free')) /\ Even(used' \cup Elems(free'))
      /\ Covered(used' \cup Elems(free')) = Covered(S)
      /\ Covered(Elems(free')) = Covered(F) \ Cells(b) /\ Cells(b) \subseteq Covered(F)
      /\ b \notin used
  <2>1. CASE f.n - s > 16
    <3>1. PICK g \in Blocks : g = RestOf(b, f)
      BY <1>1, <1>2, <2>1
    <3>2. b.n = s /\ g.a = Upto(b) /\ g.n = f.n - s
      BY <1>1, <1>2, <2>1, <3>1 DEF RestOf
    <3>3. /\ Upto(b) = b.a + s /\ Upto(f) = b.a + f.n /\ Upto(g) = b.a + f.n
          /\ b.a \in Nat /\ f.n \in Nat /\ g.a = b.a + s /\ f.a = b.a
      <4>1. f.a = b.a
        BY <1>1
      <4>2. b.a \in Nat /\ Upto(b) = b.a + b.n
        BY CellsIs
      <4>3. f.n \in Nat /\ Upto(f) = f.a + f.n
        BY CellsIs
      <4>4. Upto(g) = g.a + g.n
        BY CellsIs
      <4>5. s \in Nat /\ b.n = s /\ g.a = Upto(b) /\ g.n = f.n - s
        BY <3>2
      <4> HIDE DEF HeapInv
      <4> QED
        BY <4>1, <4>2, <4>3, <4>4, <4>5
    <3>4. free' = [free EXCEPT ![i] = g]
      BY <1>1, <1>2, <2>1, <3>1 DEF Start!Malloc, Start!Split, Start!Block, Start!End, RestOf, Upto,
                          Start!heapMINIMUM_BLOCK_SIZE, Start!xHeapStructSize
    <3>5. /\ free' \in Seq(Blocks) /\ Gapped(free') /\ Elems(free') = (F \ {f}) \cup {g}
      <4>1. free \in Seq(Blocks) /\ Gapped(free)
        BY DEF HeapInv
      <4>2. PICK l \in Nat : l = Len(free) /\ \A k \in 1..l : free[k] \in Blocks
        BY <4>1
      <4>3. free' \in Seq(Blocks) /\ Len(free') = l
        BY <3>4, <4>1, <4>2
      <4>4. \A k \in 1..l : free'[k] = IF k = i THEN g ELSE free[k]
        BY <3>4, <4>1, <4>2
      <4>5. \A j, k \in 1..l : j < k => Upto(free[j]) < free[k].a
        BY <4>1, <4>2 DEF Gapped
      <4>6. Gapped(free')
        <5> SUFFICES ASSUME NEW j \in 1..l, NEW k \in 1..l, j < k PROVE Upto(free'[j]) < free'[k].a
          BY <4>3 DEF Gapped
        <5>1. CASE j = i
          <6>1. free'[j] = g /\ free'[k] = free[k] /\ Upto(f) < free[k].a
            BY <1>1, <4>4, <4>5, <5>1
          <6> QED
            BY <3>3, <6>1
        <5>2. CASE k = i
          <6>1. free'[j] = free[j] /\ free'[k] = g /\ Upto(free[j]) < f.a /\ free[j] \in Blocks
            BY <1>1, <4>2, <4>4, <4>5, <5>2
          <6>2. Upto(free[j]) \in Nat
            BY <6>1, CellsIs
          <6> QED
            BY <3>3, <6>1, <6>2
        <5>3. CASE j # i /\ k # i
          BY <4>4, <4>5, <5>3
        <5> QED
          BY <5>1, <5>2, <5>3
      <4>7. \A j, k \in 1..l : j # k => free[j] # free[k]
        BY <4>2, <4>5, NotBefore
      <4>8. Elems(free') = (F \ {f}) \cup {g}
        <5>1. \A y : y \in Elems(free') <=> \E k \in 1..l : y = free'[k]
          BY <4>3 DEF Elems
        <5>2. \A y : y \in F <=> \E k \in 1..l : y = free[k]
          BY <1>5, <4>2 DEF Elems
        <5>3. i \in 1..l /\ free[i] = f
          BY <1>1, <4>2
        <5>4. \A y : y \in (F \ {f}) \cup {g} <=> y = g \/ \E k \in 1..l : k # i /\ y = free[k]
          BY <4>7, <5>2, <5>3
        <5>5. \A y : y \in Elems(free') <=> y = g \/ \E k \in 1..l : k # i /\ y = free[k]
          BY <4>4, <5>1, <5>3
        <5> QED
          BY <5>4, <5>5
      <4> QED
        BY <4>3, <4>6, <4>8
    <3>6. \A x : x \in Cells(f) <=> x \in Cells(b) \/ x \in Cells(g)
      <4>1. \A x : x \in Cells(f) <=> x \in Nat /\ b.a <= x /\ x < b.a + f.n
        BY <3>3, CellsIs
      <4>2. \A x : x \in Cells(b) <=> x \in Nat /\ b.a <= x /\ x < b.a + s
        BY <3>3, CellsIs
      <4>3. \A x : x \in Cells(g) <=> x \in Nat /\ b.a + s <= x /\ x < b.a + f.n
        BY <3>3, CellsIs
      <4> QED
        BY <2>1, <3>3, <4>1, <4>2, <4>3
    <3>7. Cells(b) \cap Cells(g) = {}
      <4>1. Upto(b) <= g.a
        BY <3>3
      <4> QED
        BY <4>1, NoCommon
    <3>8. Covered({b, g}) = Covered({f}) /\ Apart({b, g})
      <4>1. \A x : x \in Covered({b, g}) <=> x \in Covered({f})
        BY <3>6, CoveredIs
      <4>2. Apart({b, g})
        BY <3>3 DEF Apart
      <4> QED
        BY <4>1, <4>2
    <3>9. {f} \in SUBSET S /\ {b, g} \in SUBSET Blocks
      BY <1>7
    <3>10. /\ Apart((S \ {f}) \cup {b, g})
           /\ Covered((S \ {f}) \cup {b, g}) = Covered(S)
           /\ (S \ {f}) \cap {b, g} = {}
      BY <1>7, <3>8, <3>9, BlocksExchanged
    <3>11. used' \cup Elems(free') = (S \ {f}) \cup {b, g}
      BY <1>3, <1>6, <1>7, <3>5
    <3>12. b # g
      BY <3>3, <1>2
    <3>13. used' \cap Elems(free') = {} /\ b \notin used
      <4>1. f \notin used
        BY <1>4
      <4>2. b \notin used /\ g \notin used /\ b \notin F \ {f}
        BY <1>6, <3>10, <4>1
      <4> QED
        BY <1>3, <1>7, <3>5, <3>12, <4>2
    <3>14. Even({b, g})
      <4>1. b.a % 8 = 0 /\ b.n % 8 = 0 /\ g.a % 8 = 0 /\ g.n % 8 = 0
        <5>1. f.a % 8 = 0 /\ f.n % 8 = 0 /\ s % 8 = 0
          BY <1>2, <1>4
        <5>2. f.n - s \in Nat
          BY <2>1, <3>3
        <5>3. PICK x \in Nat, n \in Nat : x = b.a /\ n = f.n
          BY <3>3
        <5>4. x % 8 = 0 /\ n % 8 = 0 /\ s % 8 = 0 /\ n - s \in Nat
          BY <3>3, <5>1, <5>2, <5>3
        <5>5. (x + s) % 8 = 0 /\ (n - s) % 8 = 0
          BY <5>4, EvenRest
        <5>6. g.a = x + s /\ g.n = n - s /\ b.a = x /\ b.n = s
          BY <3>2, <3>3, <5>3
        <5> QED
          BY <5>4, <5>5, <5>6
      <4> QED
        BY <4>1 DEF Even
    <3>15. Even(used' \cup Elems(free'))
      BY <1>7, <3>11, <3>14 DEF Even
    <3>16. Covered(Elems(free')) = Covered(F) \ Cells(b)
      <4>1. \A x : x \in Covered(Elems(free')) <=> x \in Cells(g) \/ \E c \in F \ {f} : x \in Cells(c)
        BY <3>5, CoveredIs
      <4>2. \A x : x \in Covered(F) <=> x \in Cells(f) \/ \E c \in F \ {f} : x \in Cells(c)
        BY <1>7, CoveredIs
      <4>3. \A c \in F \ {f} : Cells(c) \cap Cells(b) = {}
        <5> SUFFICES ASSUME NEW c \in F \ {f} PROVE Cells(c) \cap Cells(b) = {}
          OBVIOUS
        <5>1. c \in S \ {f} /\ b \in {b, g} /\ c # b
          BY <1>6, <3>10
        <5>2. Upto(c) <= b.a \/ Upto(b) <= c.a
          BY <3>10, <5>1 DEF Apart
        <5> QED
          BY <5>2, NoCommon
      <4> QED
        BY <3>6, <3>7, <4>1, <4>2, <4>3
    <3>17. Cells(b) \subseteq Covered(F)
      BY <1>7, <3>6, CoveredIs
    <3> QED
      BY <3>5, <3>10, <3>11, <3>13, <3>15, <3>16, <3>17
  <2>2. CASE ~(f.n - s > 16)
    <3>1. b = f
      BY <1>1, <1>2, <2>2
    <3>2. free' = Start!RemoveAt(free, i)
      BY <1>1, <1>2, <2>2 DEF Start!Malloc, Start!Split, Start!heapMINIMUM_BLOCK_SIZE, Start!xHeapStructSize
    <3>3. free' \in Seq(Blocks) /\ Gapped(free') /\ Elems(free') = F \ {f}
      <4>1. free \in Seq(Blocks) /\ Gapped(free)
        BY DEF HeapInv
      <4> QED
        BY <1>1, <1>5, <3>2, <4>1, RemovedList
    <3>4. used' \cup Elems(free') = S
      BY <1>3, <1>6, <1>7, <3>1, <3>3
    <3>5. used' \cap Elems(free') = {} /\ b \notin used
      BY <1>3, <1>4, <1>7, <3>1, <3>3
    <3>6. Covered(Elems(free')) = Covered(F) \ Cells(b)
      <4>1. \A x : x \in Covered(Elems(free')) <=> \E c \in F \ {f} : x \in Cells(c)
        BY <3>3, CoveredIs
      <4>2. \A x : x \in Covered(F) <=> x \in Cells(f) \/ \E c \in F \ {f} : x \in Cells(c)
        BY <1>7, CoveredIs
      <4>3. \A c \in F \ {f} : Cells(c) \cap Cells(f) = {}
        BY <1>6, <1>7, NoCommon DEF Apart
      <4> QED
        BY <3>1, <4>1, <4>2, <4>3
    <3>7. Cells(b) \subseteq Covered(F)
      BY <1>7, <3>1, CoveredIs
    <3> QED
      BY <1>7, <3>3, <3>4, <3>5, <3>6, <3>7
  <2> QED
    BY <2>1, <2>2
<1>10. Cardinality(Covered(Elems(free'))) = xFreeBytesRemaining - b.n
  BY <1>5, <1>9, FewerFree
<1>11. Cardinality(Covered(Elems(free'))) \in Nat
  <2>1. IsFiniteSet(Covered(Elems(free)))
    <3>1. Elems(free) \in SUBSET (used \cup Elems(free))
      OBVIOUS
    <3> QED
      BY <3>1, CoveredFinite
  <2>2. Covered(Elems(free')) \in SUBSET Covered(Elems(free))
    BY <1>5, <1>9
  <2> QED
    BY <2>1, <2>2, FS_Subset, FS_CardinalityType
<1>12. xFreeBytesRemaining' \in Nat /\ xFreeBytesRemaining' = Cardinality(Covered(Elems(free')))
  BY <1>3, <1>10, <1>11
<1>13. xMinimumEverFreeBytesRemaining' \in 0..xFreeBytesRemaining'
  <2>1. xMinimumEverFreeBytesRemaining \in Nat
    BY DEF HeapInv
  <2> QED
    BY <1>3, <1>12, <2>1, HeapMinOf
<1>14. used' \in SUBSET Blocks /\ \A c \in used' : c.n > 8
  BY <1>3, <1>7, <1>8 DEF HeapInv
<1>15. Covered(used' \cup Elems(free')) = Start!uxStartAddress..(Start!pxEnd(total') - 1)
  BY <1>3, <1>5, <1>6, <1>9 DEF HeapInv
<1>16. HeapInv'
  <2>1. total' \in HeapSizes
    BY <1>3 DEF HeapInv
  <2> QED
    BY <1>9, <1>12, <1>13, <1>14, <1>15, <2>1 DEF HeapInv
<1> QED
  BY <1>1, <1>9, <1>16

(* A set of positions with all that come before each of them is a prefix. *)
LEMMA PrefixCount ==
  ASSUME NEW l \in Nat, NEW D \in SUBSET (1..l),
         \A i \in D : \A j \in 1..l : j < i => j \in D
  PROVE  Cardinality(D) \in 0..l /\ D = 1..Cardinality(D)
<1>1. CASE D = {}
  BY <1>1, FS_EmptySet
<1>2. CASE D # {}
  <2>1. D \in SUBSET (0..l)
    OBVIOUS
  <2>2. PICK g \in D : \A y \in D : y <= g
    BY <1>2, <2>1, GreatestNat
  <2>3. g \in 1..l /\ D = 1..g
    <3>1. \A j \in 1..l : j \in D <=> j <= g
      BY <2>2
    <3>2. g \in 1..l
      OBVIOUS
    <3>3. \A j \in D : j \in 1..g
      BY <2>2, <3>2
    <3>4. \A j \in 1..g : j \in 1..l /\ j <= g
      BY <3>2
    <3>5. \A j \in 1..g : j \in D
      BY <3>1, <3>4
    <3> QED
      BY <3>2, <3>3, <3>5
  <2>4. 1 \in Int /\ g \in Int /\ ~(1 > g)
    BY <2>3
  <2>5. Cardinality(1..g) = g - 1 + 1
    BY <2>4, FS_Interval
  <2>6. Cardinality(D) = g
    BY <2>3, <2>5
  <2> QED
    BY <2>3, <2>6
<1> QED
  BY <1>1, <1>2

(* Where vPortFree puts a block: behind the k free ones that lie before it. *)
LEMMA FreedPlace ==
  ASSUME HeapInv, NEW b \in used, NEW k, k = Cardinality({i \in 1..Len(free) : free[i].a < b.a})
  PROVE  /\ k \in 0..Len(free)
         /\ \A i \in 1..Len(free) : i <= k => Upto(free[i]) <= b.a
         /\ \A i \in 1..Len(free) : k < i => Upto(b) <= free[i].a
<1>1. PICK l \in Nat : l = Len(free) /\ \A i \in 1..l : free[i] \in Blocks /\ free[i] \in Elems(free)
  BY ElemsIs DEF HeapInv
<1>2. b \in Blocks /\ Apart(used \cup Elems(free)) /\ used \cap Elems(free) = {} /\ Gapped(free)
  BY DEF HeapInv
<1>3. PICK D \in SUBSET (1..l) : D = {i \in 1..l : free[i].a < b.a}
  OBVIOUS
<1>4. \A i \in 1..l : Upto(free[i]) <= b.a \/ Upto(b) <= free[i].a
  BY <1>1, <1>2 DEF Apart
<1>5. \A i \in 1..l : /\ i \in D => Upto(free[i]) <= b.a
                      /\ i \notin D => Upto(b) <= free[i].a
  <2> SUFFICES ASSUME NEW i \in 1..l
               PROVE /\ i \in D => Upto(free[i]) <= b.a
                     /\ i \notin D => Upto(b) <= free[i].a
    OBVIOUS
  <2>1. PICK f \in Blocks : f = free[i]
    BY <1>1
  <2>2. f.a \in Nat /\ f.n \in Nat /\ f.n > 0 /\ Upto(f) = f.a + f.n
    BY CellsIs
  <2>3. b.a \in Nat /\ b.n \in Nat /\ b.n > 0 /\ Upto(b) = b.a + b.n
    BY <1>2, CellsIs
  <2>4. Upto(f) <= b.a \/ Upto(b) <= f.a
    BY <1>4, <2>1
  <2>5. i \in D <=> f.a < b.a
    BY <1>3, <2>1
  <2> QED
    BY <2>1, <2>2, <2>3, <2>4, <2>5
<1>6. \A i \in D : \A j \in 1..l : j < i => j \in D
  <2> SUFFICES ASSUME NEW i \in D, NEW j \in 1..l, j < i PROVE j \in D
    OBVIOUS
  <2>1. i \in 1..l /\ free[j] \in Blocks /\ free[i] \in Blocks
    BY <1>1
  <2>2. Upto(free[j]) < free[i].a /\ free[i].a < b.a
    BY <1>1, <1>2, <1>3, <2>1 DEF Gapped
  <2>3. free[j].a \in Nat /\ free[j].n \in Nat /\ Upto(free[j]) = free[j].a + free[j].n
    BY <2>1, CellsIs
  <2>4. free[i].a \in Nat /\ b.a \in Nat
    BY <1>2, <2>1, CellsIs
  <2>5. free[j].a < b.a
    BY <2>2, <2>3, <2>4
  <2> QED
    BY <1>3, <2>5
<1>7. k \in 0..l /\ D = 1..k
  BY <1>1, <1>3, <1>6, PrefixCount
<1>8. \A i \in 1..l : i <= k => i \in D
  BY <1>7
<1>9. \A i \in 1..l : k < i => i \notin D
  BY <1>7
<1>10. \A i \in 1..l : /\ i <= k => Upto(free[i]) <= b.a
                       /\ k < i => Upto(b) <= free[i].a
  BY <1>5, <1>8, <1>9
<1> QED
  BY <1>1, <1>7, <1>10

(* What the freed block takes in before it. *)
LEMMA FreedBefore ==
  ASSUME NEW L \in Seq(Blocks), Gapped(L), NEW b \in Blocks, Even(Elems(L)), b.a % 8 = 0,
         NEW k \in 0..Len(L), \A i \in 1..Len(L) : i <= k => Upto(L[i]) <= b.a
  PROVE  \E p \in 0..k : \E a \in Nat :
           LET joins == k > 0 /\ Upto(L[k]) = b.a
           IN  /\ p = IF joins THEN k - 1 ELSE k
               /\ a = IF joins THEN L[k].a ELSE b.a
               /\ a <= b.a /\ a % 8 = 0
               /\ \A i \in 1..Len(L) : i <= p => Upto(L[i]) < a
               /\ \A x \in Nat : a <= x /\ x < b.a <=> \E i \in (p + 1)..k : x \in Cells(L[i])
<1>1. PICK l \in Nat : l = Len(L) /\ \A i \in 1..l : L[i] \in Blocks /\ L[i] \in Elems(L)
  BY ElemsIs
<1>2. \A i, j \in 1..l : i < j => Upto(L[i]) < L[j].a
  BY <1>1 DEF Gapped
<1>3. b.a \in Nat
  BY CellsIs
<1>4. CASE k > 0 /\ Upto(L[k]) = b.a
  <2>1. k \in 1..l /\ L[k] \in Blocks /\ L[k] \in Elems(L)
    BY <1>1, <1>4
  <2>2. PICK f \in Blocks : f = L[k]
    BY <2>1
  <2>3. f.a \in Nat /\ f.n \in Nat /\ f.n > 0 /\ Upto(f) = f.a + f.n
    BY CellsIs
  <2>4. f.a % 8 = 0
    BY <2>1, <2>2 DEF Even
  <2>5. \A i \in 1..l : i <= k - 1 => Upto(L[i]) < f.a
    BY <1>2, <2>1, <2>2
  <2>6. \A x \in Nat : f.a <= x /\ x < b.a <=> x \in Cells(f)
    BY <1>4, <2>2, CellsIs
  <2>7. ((k - 1) + 1)..k = {k} /\ k - 1 \in 0..k
    BY <2>1
  <2>8. \A x \in Nat : f.a <= x /\ x < b.a <=> \E i \in ((k - 1) + 1)..k : x \in Cells(L[i])
    BY <2>2, <2>6, <2>7
  <2>9. f.a <= b.a
    BY <1>4, <2>2, <2>3
  <2> QED
    BY <1>1, <1>4, <2>2, <2>3, <2>4, <2>5, <2>7, <2>8, <2>9
<1>5. CASE ~(k > 0 /\ Upto(L[k]) = b.a)
  <2>1. \A i \in 1..l : i <= k => Upto(L[i]) < b.a
    <3> SUFFICES ASSUME NEW i \in 1..l, i <= k PROVE Upto(L[i]) < b.a
      OBVIOUS
    <3>1. k \in 1..l /\ L[k] \in Blocks /\ L[i] \in Blocks
      BY <1>1
    <3>2. Upto(L[k]) \in Nat /\ Upto(L[i]) \in Nat /\ L[k].a \in Nat /\ L[k].n \in Nat
          /\ Upto(L[k]) = L[k].a + L[k].n
      BY <3>1, CellsIs
    <3>3. Upto(L[k]) <= b.a /\ Upto(L[k]) # b.a
      BY <1>1, <1>5, <3>1
    <3>4. CASE i = k
      BY <1>3, <3>2, <3>3, <3>4
    <3>5. CASE i < k
      <4>1. Upto(L[i]) < L[k].a
        BY <1>2, <3>1, <3>5
      <4> QED
        BY <1>3, <3>2, <3>3, <4>1
    <3> QED
      BY <3>4, <3>5
  <2>2. (k + 1)..k = {}
    OBVIOUS
  <2>3. \A x \in Nat : b.a <= x /\ x < b.a <=> \E i \in (k + 1)..k : x \in Cells(L[i])
    BY <1>3, <2>2
  <2>4. b.a <= b.a /\ k \in 0..k
    BY <1>3
  <2> QED
    BY <1>1, <1>3, <1>5, <2>1, <2>3, <2>4
<1> QED
  BY <1>4, <1>5

(* And after it. *)
LEMMA FreedAfter ==
  ASSUME NEW L \in Seq(Blocks), Gapped(L), NEW b \in Blocks, Even(Elems(L)), Upto(b) % 8 = 0,
         NEW k \in 0..Len(L), \A i \in 1..Len(L) : k < i => Upto(b) <= L[i].a
  PROVE  \E q \in (k + 1)..(Len(L) + 1) : \E e \in Nat :
           LET joins == k < Len(L) /\ Upto(b) = L[k + 1].a
           IN  /\ q = IF joins THEN k + 2 ELSE k + 1
               /\ e = IF joins THEN Upto(L[k + 1]) ELSE Upto(b)
               /\ Upto(b) <= e /\ e % 8 = 0
               /\ \A i \in 1..Len(L) : q <= i => e < L[i].a
               /\ \A x \in Nat : Upto(b) <= x /\ x < e <=> \E i \in (k + 1)..(q - 1) : x \in Cells(L[i])
<1>1. PICK l \in Nat : l = Len(L) /\ \A i \in 1..l : L[i] \in Blocks /\ L[i] \in Elems(L)
  BY ElemsIs
<1>2. \A i, j \in 1..l : i < j => Upto(L[i]) < L[j].a
  BY <1>1 DEF Gapped
<1>3. PICK u \in Nat : u = Upto(b)
  BY CellsIs
<1>4. CASE k < Len(L) /\ Upto(b) = L[k + 1].a
  <2>1. k + 1 \in 1..l /\ L[k + 1] \in Blocks /\ L[k + 1] \in Elems(L)
    BY <1>1, <1>4
  <2>2. PICK f \in Blocks : f = L[k + 1]
    BY <2>1
  <2>3. f.a \in Nat /\ f.n \in Nat /\ f.n > 0 /\ Upto(f) = f.a + f.n
    BY CellsIs
  <2>4. Upto(f) % 8 = 0
    <3>1. f.a % 8 = 0 /\ f.n % 8 = 0
      BY <2>1, <2>2 DEF Even
    <3> QED
      BY <2>3, <3>1, EvenSum
  <2>5. \A i \in 1..l : k + 2 <= i => Upto(f) < L[i].a
    BY <1>2, <2>1, <2>2
  <2>6. \A x \in Nat : u <= x /\ x < Upto(f) <=> x \in Cells(f)
    BY <1>3, <1>4, <2>2, CellsIs
  <2>7. (k + 1)..((k + 2) - 1) = {k + 1} /\ k + 2 \in (k + 1)..(l + 1)
    BY <2>1
  <2>8. \A x \in Nat : u <= x /\ x < Upto(f) <=> \E i \in (k + 1)..((k + 2) - 1) : x \in Cells(L[i])
    BY <2>2, <2>6, <2>7
  <2>9. u <= Upto(f) /\ Upto(f) \in Nat
    BY <1>3, <1>4, <2>2, <2>3
  <2> QED
    BY <1>1, <1>3, <1>4, <2>2, <2>4, <2>5, <2>7, <2>8, <2>9
<1>5. CASE ~(k < Len(L) /\ Upto(b) = L[k + 1].a)
  <2>1. \A i \in 1..l : k + 1 <= i => u < L[i].a
    <3> SUFFICES ASSUME NEW i \in 1..l, k + 1 <= i PROVE u < L[i].a
      OBVIOUS
    <3>1. k + 1 \in 1..l /\ L[k + 1] \in Blocks /\ L[i] \in Blocks
      BY <1>1
    <3>2. L[i].a \in Nat /\ L[k + 1].a \in Nat /\ L[k + 1].n \in Nat
          /\ Upto(L[k + 1]) = L[k + 1].a + L[k + 1].n
      BY <3>1, CellsIs
    <3>3. u <= L[k + 1].a /\ u # L[k + 1].a
      BY <1>1, <1>3, <1>5, <3>1
    <3>4. CASE i = k + 1
      BY <3>2, <3>3, <3>4
    <3>5. CASE k + 1 < i
      <4>1. Upto(L[k + 1]) < L[i].a
        BY <1>2, <3>1, <3>5
      <4> QED
        BY <3>2, <3>3, <4>1
    <3> QED
      BY <3>4, <3>5
  <2>2. (k + 1)..((k + 1) - 1) = {} /\ k + 1 \in (k + 1)..(l + 1)
    BY <1>1
  <2>3. \A x \in Nat : u <= x /\ x < u <=> \E i \in (k + 1)..((k + 1) - 1) : x \in Cells(L[i])
    BY <2>2
  <2>4. u <= u
    OBVIOUS
  <2> QED
    BY <1>1, <1>3, <1>5, <2>1, <2>2, <2>3, <2>4
<1> QED
  BY <1>4, <1>5

(* The instance of Cardinality that the heap uses. *)
LEMMA HeapCardinality == \A S : Start!Cardinality(S) = Cardinality(S)
BY Zenon DEF Start!Cardinality, Cardinality

(* prvInsertBlockIntoFreeList: the block, with the free ones that touch it, *)
(* in their place in the list.                                              *)
LEMMA FreedList ==
  ASSUME HeapInv, NEW b \in used
  PROVE  \E p \in 0..Len(free) : \E q \in 1..(Len(free) + 1) : \E c \in Blocks :
           /\ p < q /\ Start!Inserted(b) = Spliced(free, p, c, q)
           /\ \A i \in 1..Len(free) : i <= p => Upto(free[i]) < c.a
           /\ \A i \in 1..Len(free) : q <= i => Upto(c) < free[i].a
           /\ c.a % 8 = 0 /\ c.n % 8 = 0
           /\ \A x : x \in Cells(c) <=> x \in Cells(b) \/ \E i \in (p + 1)..(q - 1) : x \in Cells(free[i])
<1>1. /\ free \in Seq(Blocks) /\ Gapped(free) /\ b \in Blocks
      /\ Even(Elems(free)) /\ b.a % 8 = 0 /\ b.n % 8 = 0
  BY DEF HeapInv, Even
<1>2. PICK l \in Nat : l = Len(free) /\ \A i \in 1..l : free[i] \in Blocks
  BY <1>1
<1>3. PICK k \in 0..l : /\ k = Cardinality({i \in 1..l : free[i].a < b.a})
                        /\ \A i \in 1..l : i <= k => Upto(free[i]) <= b.a
                        /\ \A i \in 1..l : k < i => Upto(b) <= free[i].a
  BY <1>2, FreedPlace
<1>4. b.a \in Nat /\ b.n \in Nat /\ b.n > 0 /\ Upto(b) = b.a + b.n
  BY <1>1, CellsIs
<1>5. Upto(b) % 8 = 0
  BY <1>1, <1>4, EvenSum
<1>6. PICK p \in 0..k, a \in Nat :
         LET joins == k > 0 /\ Upto(free[k]) = b.a
         IN  /\ p = IF joins THEN k - 1 ELSE k
             /\ a = IF joins THEN free[k].a ELSE b.a
             /\ a <= b.a /\ a % 8 = 0
             /\ \A i \in 1..l : i <= p => Upto(free[i]) < a
             /\ \A x \in Nat : a <= x /\ x < b.a <=> \E i \in (p + 1)..k : x \in Cells(free[i])
  <2>1. k \in 0..Len(free) /\ \A i \in 1..Len(free) : i <= k => Upto(free[i]) <= b.a
    BY <1>2, <1>3
  <2>2. \E p \in 0..k : \E a \in Nat :
           LET joins == k > 0 /\ Upto(free[k]) = b.a
           IN  /\ p = IF joins THEN k - 1 ELSE k
               /\ a = IF joins THEN free[k].a ELSE b.a
               /\ a <= b.a /\ a % 8 = 0
               /\ \A i \in 1..Len(free) : i <= p => Upto(free[i]) < a
               /\ \A x \in Nat : a <= x /\ x < b.a <=> \E i \in (p + 1)..k : x \in Cells(free[i])
    BY <1>1, <2>1, FreedBefore, ZenonT(30)
  <2> QED
    BY <1>2, <2>2
<1>7. PICK q \in (k + 1)..(l + 1), e \in Nat :
         LET joins == k < l /\ Upto(b) = free[k + 1].a
         IN  /\ q = IF joins THEN k + 2 ELSE k + 1
             /\ e = IF joins THEN Upto(free[k + 1]) ELSE Upto(b)
             /\ Upto(b) <= e /\ e % 8 = 0
             /\ \A i \in 1..l : q <= i => e < free[i].a
             /\ \A x \in Nat : Upto(b) <= x /\ x < e <=> \E i \in (k + 1)..(q - 1) : x \in Cells(free[i])
  <2>1. k \in 0..Len(free) /\ \A i \in 1..Len(free) : k < i => Upto(b) <= free[i].a
    BY <1>2, <1>3
  <2>2. \E q \in (k + 1)..(Len(free) + 1) : \E e \in Nat :
           LET joins == k < Len(free) /\ Upto(b) = free[k + 1].a
           IN  /\ q = IF joins THEN k + 2 ELSE k + 1
               /\ e = IF joins THEN Upto(free[k + 1]) ELSE Upto(b)
               /\ Upto(b) <= e /\ e % 8 = 0
               /\ \A i \in 1..Len(free) : q <= i => e < free[i].a
               /\ \A x \in Nat : Upto(b) <= x /\ x < e <=> \E i \in (k + 1)..(q - 1) : x \in Cells(free[i])
    BY <1>1, <1>5, <2>1, FreedAfter, ZenonT(30)
  <2> QED
    BY <1>2, <2>2, Zenon
<1>8. a <= b.a /\ Upto(b) <= e /\ a % 8 = 0 /\ e % 8 = 0
  BY <1>6, <1>7
<1>9. PICK c \in Blocks : c = [a |-> a, n |-> e - a]
  <2>1. e - a \in Nat /\ e - a > 0
    BY <1>4, <1>8
  <2> QED
    BY <2>1 DEF Blocks
<1>10. c.a = a /\ c.n = e - a /\ Upto(c) = e
  <2>1. c.a = a /\ c.n = e - a
    BY <1>9
  <2>2. Upto(c) = c.a + c.n
    BY CellsIs
  <2> QED
    BY <2>1, <2>2
<1>11. c.a % 8 = 0 /\ c.n % 8 = 0
  <2>1. e - a \in Nat
    BY <1>4, <1>8
  <2>2. (e - a) % 8 = 0
    BY <1>8, <2>1, EvenRest
  <2> QED
    BY <1>8, <1>10, <2>2
<1>12. p \in 0..l /\ q \in 1..(l + 1) /\ p < q
  OBVIOUS
<1>13. Start!Inserted(b) = Spliced(free, p, c, q)
  <2>1. Cardinality({i \in 1..Len(free) : free[i].a < b.a}) = k
    BY <1>2, <1>3
  <2>2. (Start!JoinsBefore(k, b) <=> k > 0 /\ Upto(free[k]) = b.a)
        /\ (Start!JoinsAfter(k, b) <=> k < l /\ Upto(b) = free[k + 1].a)
    BY <1>2 DEF Start!JoinsBefore, Start!JoinsAfter, Start!End, Upto
  <2>3. p = (IF Start!JoinsBefore(k, b) THEN k - 1 ELSE k)
        /\ a = (IF Start!JoinsBefore(k, b) THEN free[k].a ELSE b.a)
    BY <1>6, <2>2
  <2>4. q = (IF Start!JoinsAfter(k, b) THEN k + 2 ELSE k + 1)
        /\ e = (IF Start!JoinsAfter(k, b) THEN Start!End(free[k + 1]) ELSE Start!End(b))
    BY <1>7, <2>2 DEF Start!End, Upto
  <2>5. Start!Cardinality({i \in 1..Len(free) : free[i].a < b.a}) = k
    BY <2>1, HeapCardinality
  <2>6. Start!Inserted(b) = SubSeq(free, 1, p) \o <<Start!Block(a, e - a)>> \o SubSeq(free, q, Len(free))
    BY <2>3, <2>4, <2>5, Zenon DEF Start!Inserted
  <2> QED
    BY <1>9, <2>6 DEF Spliced, Start!Block
<1>14. \A x : x \in Cells(c) <=> x \in Cells(b) \/ \E i \in (p + 1)..(q - 1) : x \in Cells(free[i])
  <2>1. \A x : x \in Cells(c) <=> x \in Nat /\ a <= x /\ x < e
    BY <1>10, CellsIs
  <2>2. \A x : x \in Cells(b) <=> x \in Nat /\ b.a <= x /\ x < Upto(b)
    BY <1>1, CellsIs
  <2>3. \A x \in Nat : a <= x /\ x < e <=> \/ a <= x /\ x < b.a
                                           \/ b.a <= x /\ x < Upto(b)
                                           \/ Upto(b) <= x /\ x < e
    BY <1>4, <1>8
  <2>4. \A x \in Nat : a <= x /\ x < b.a <=> \E i \in (p + 1)..k : x \in Cells(free[i])
    BY <1>6
  <2>5. \A x \in Nat : Upto(b) <= x /\ x < e <=> \E i \in (k + 1)..(q - 1) : x \in Cells(free[i])
    BY <1>7
  <2>6. \A i : i \in (p + 1)..(q - 1) <=> i \in (p + 1)..k \/ i \in (k + 1)..(q - 1)
    BY <1>12
  <2>7. \A i \in (p + 1)..(q - 1) : \A x : x \in Cells(free[i]) => x \in Nat
    <3> SUFFICES ASSUME NEW i \in (p + 1)..(q - 1) PROVE \A x : x \in Cells(free[i]) => x \in Nat
      OBVIOUS
    <3>1. free[i] \in Blocks
      BY <1>2, <1>12
    <3> QED
      BY <3>1, CellsIs
  <2> SUFFICES ASSUME NEW x
               PROVE x \in Cells(c) <=> x \in Cells(b) \/ \E i \in (p + 1)..(q - 1) : x \in Cells(free[i])
    OBVIOUS
  <2>8. CASE x \notin Nat
    BY <2>1, <2>2, <2>7, <2>8
  <2>9. CASE x \in Nat
    <3>1. x \in Cells(c) <=> a <= x /\ x < e
      BY <2>1, <2>9
    <3>2. x \in Cells(b) <=> b.a <= x /\ x < Upto(b)
      BY <2>2, <2>9
    <3>3. (\E i \in (p + 1)..(q - 1) : x \in Cells(free[i]))
            <=> \/ \E i \in (p + 1)..k : x \in Cells(free[i])
                \/ \E i \in (k + 1)..(q - 1) : x \in Cells(free[i])
      BY <2>6, Zenon
    <3> QED
      BY <2>3, <2>4, <2>5, <2>9, <3>1, <3>2, <3>3
  <2> QED
    BY <2>8, <2>9
<1>15. \A i \in 1..l : i <= p => Upto(free[i]) < c.a
  BY <1>6, <1>10
<1>16. \A i \in 1..l : q <= i => Upto(c) < free[i].a
  BY <1>7, <1>10
<1> QED
  BY <1>2, <1>11, <1>12, <1>13, <1>14, <1>15, <1>16

(* The bytes of a block come to the free list. *)
LEMMA MoreFree ==
  ASSUME HeapInv, NEW G, NEW b \in Blocks,
         Covered(G) = Covered(Elems(free)) \cup Cells(b), Cells(b) \cap Covered(Elems(free)) = {}
  PROVE  Cardinality(Covered(G)) = xFreeBytesRemaining + b.n
<1>1. IsFiniteSet(Covered(Elems(free)))
  <2>1. Elems(free) \in SUBSET (used \cup Elems(free))
    OBVIOUS
  <2> QED
    BY <2>1, CoveredFinite
<1>2. PICK X, Y : X = Covered(Elems(free)) /\ Y = Cells(b)
  OBVIOUS
<1>3. IsFiniteSet(X) /\ IsFiniteSet(Y) /\ X \cap Y = {} /\ Cardinality(Y) = b.n
  BY <1>1, <1>2, CellsCount
<1>4. Cardinality(X \cup Y) = Cardinality(X) + Cardinality(Y) - Cardinality(X \cap Y)
  BY <1>3, FS_Union
<1>5. Cardinality(X \cap Y) = 0
  BY <1>3, FS_EmptySet
<1>6. Cardinality(X) \in Nat /\ Cardinality(X) = xFreeBytesRemaining
  BY <1>2 DEF HeapInv
<1>7. b.n \in Nat
  BY CellsIs
<1> QED
  BY <1>2, <1>3, <1>4, <1>5, <1>6, <1>7

(* vPortFree keeps the invariant. *)
LEMMA FreeInv ==
  ASSUME HeapInv, NEW b, Start!vPortFree(b)
  PROVE  HeapInv'
<1>1. /\ b \in used /\ free' = Start!Inserted(b) /\ used' = used \ {b}
      /\ xFreeBytesRemaining' = xFreeBytesRemaining + b.n
      /\ total' = total /\ xMinimumEverFreeBytesRemaining' = xMinimumEverFreeBytesRemaining
  BY DEF Start!vPortFree
<1>2. PICK l \in Nat : l = Len(free) /\ \A i \in 1..l : free[i] \in Blocks
  BY DEF HeapInv
<1>3. PICK p \in 0..l, q \in 1..(l + 1), c \in Blocks :
           /\ p < q /\ free' = Spliced(free, p, c, q)
           /\ \A i \in 1..l : i <= p => Upto(free[i]) < c.a
           /\ \A i \in 1..l : q <= i => Upto(c) < free[i].a
           /\ c.a % 8 = 0 /\ c.n % 8 = 0
           /\ \A x : x \in Cells(c) <=> x \in Cells(b) \/ \E i \in (p + 1)..(q - 1) : x \in Cells(free[i])
  BY <1>1, <1>2, FreedList
<1>4. PICK F \in SUBSET Blocks : F = Elems(free) /\ \A i \in 1..l : free[i] \in F
  BY <1>2, ElemsIs DEF HeapInv
<1>5. PICK J \in SUBSET F : J = {free[i] : i \in (p + 1)..(q - 1)}
  <2>1. \A i \in (p + 1)..(q - 1) : free[i] \in F
    BY <1>4
  <2> QED
    BY <2>1
<1>6. free' \in Seq(Blocks) /\ Gapped(free') /\ Elems(free') = (F \ J) \cup {c}
  <2>1. free \in Seq(Blocks) /\ Gapped(free)
    BY DEF HeapInv
  <2> QED
    BY <1>2, <1>3, <1>4, <1>5, <2>1, SplicedList
<1>7. PICK S \in SUBSET Blocks : S = used \cup F
  BY <1>4 DEF HeapInv
<1>8. Apart(S) /\ Even(S) /\ used \cap F = {} /\ used \in SUBSET Blocks /\ b \in S /\ b \notin F /\ b \in Blocks
  BY <1>1, <1>4, <1>7 DEF HeapInv
<1>9. \A x : x \in Cells(c) <=> x \in Cells(b) \/ x \in Covered(J)
  <2>1. \A x : x \in Covered(J) <=> \E i \in (p + 1)..(q - 1) : x \in Cells(free[i])
    BY <1>5, CoveredIs
  <2> QED
    BY <1>3, <2>1
<1>10. Covered({c}) = Covered({b} \cup J)
  <2>1. \A x : x \in Covered({b} \cup J) <=> x \in Cells(b) \/ x \in Covered(J)
    BY CoveredIs
  <2>2. \A x : x \in Covered({c}) <=> x \in Cells(c)
    BY CoveredIs
  <2> QED
    BY <1>9, <2>1, <2>2
<1>11. /\ Apart((S \ ({b} \cup J)) \cup {c})
       /\ Covered((S \ ({b} \cup J)) \cup {c}) = Covered(S)
       /\ (S \ ({b} \cup J)) \cap {c} = {}
  <2>1. {b} \cup J \in SUBSET S /\ {c} \in SUBSET Blocks
    BY <1>7, <1>8
  <2>2. Apart({c})
    BY DEF Apart
  <2> QED
    BY <1>8, <1>10, <2>1, <2>2, BlocksExchanged
<1>12. used' \cup Elems(free') = (S \ ({b} \cup J)) \cup {c}
  BY <1>1, <1>6, <1>7, <1>8
<1>13. used' \cap Elems(free') = {}
  BY <1>1, <1>6, <1>7, <1>8, <1>11
<1>14. Even(used' \cup Elems(free'))
  <2>1. Even({c})
    BY <1>3 DEF Even
  <2> QED
    BY <1>8, <1>12, <2>1 DEF Even
<1>15. Covered(Elems(free')) = Covered(F) \cup Cells(b)
  <2>1. \A x : x \in Covered(Elems(free')) <=> x \in Cells(c) \/ x \in Covered(F \ J)
    BY <1>6, CoveredIs
  <2>2. \A x : x \in Covered(F) <=> x \in Covered(J) \/ x \in Covered(F \ J)
    BY CoveredIs
  <2> QED
    BY <1>9, <2>1, <2>2
<1>16. Cells(b) \cap Covered(F) = {}
  <2>1. \A f \in F : Cells(b) \cap Cells(f) = {}
    BY <1>7, <1>8, NoCommon DEF Apart
  <2> QED
    BY <2>1, CoveredIs
<1>17. Cardinality(Covered(Elems(free'))) = xFreeBytesRemaining'
  BY <1>1, <1>4, <1>8, <1>15, <1>16, MoreFree
<1>18. xFreeBytesRemaining' \in Nat /\ xMinimumEverFreeBytesRemaining' \in 0..xFreeBytesRemaining'
  <2>1. b.n \in Nat
    BY <1>8, CellsIs
  <2> QED
    BY <1>1, <2>1 DEF HeapInv
<1>19. used' \in SUBSET Blocks /\ \A d \in used' : d.n > 8
  BY <1>1, <1>8 DEF HeapInv
<1>20. Covered(used' \cup Elems(free')) = Start!uxStartAddress..(Start!pxEnd(total') - 1)
  BY <1>1, <1>4, <1>7, <1>11, <1>12 DEF HeapInv
<1>21. total' \in HeapSizes /\ Apart(used' \cup Elems(free'))
  BY <1>1, <1>11, <1>12 DEF HeapInv
<1> QED
  BY <1>6, <1>13, <1>14, <1>17, <1>18, <1>19, <1>20, <1>21 DEF HeapInv

(* prvHeapInit establishes the invariant. *)
LEMMA HeapStarts ==
  ASSUME Start!HeapInit PROVE HeapInv
<1>1. PICK t \in HeapSizes :
        /\ total = t
        /\ free = <<Start!Block(Start!uxStartAddress, Start!pxEnd(t) - Start!uxStartAddress)>>
        /\ used = {} /\ xFreeBytesRemaining = Start!pxEnd(t) - Start!uxStartAddress
        /\ xMinimumEverFreeBytesRemaining = Start!pxEnd(t) - Start!uxStartAddress
  BY DEF Start!HeapInit
<1>2. PICK s \in Nat, e \in Nat : /\ s = Start!uxStartAddress /\ e = Start!pxEnd(t)
                                  /\ s % 8 = 0 /\ e % 8 = 0 /\ s < e
  BY HeapBounds
<1>3. e - s \in Nat /\ e - s > 0 /\ (e - s) % 8 = 0
  <2>1. e - s \in Nat /\ e - s > 0
    BY <1>2
  <2> QED
    BY <1>2, <2>1, EvenRest
<1>4. PICK b \in Blocks : b = Start!Block(s, e - s) /\ b.a = s /\ b.n = e - s
  <2>1. Start!Block(s, e - s) \in Blocks
    BY <1>3 DEF Blocks, Start!Block
  <2> QED
    BY <2>1 DEF Start!Block
<1>5. free = <<b>>
  BY <1>1, <1>2, <1>4
<1>6. free \in Seq(Blocks) /\ Len(free) = 1 /\ Elems(free) = {b}
  BY <1>5 DEF Elems
<1>7. Gapped(free)
  BY <1>6 DEF Gapped
<1>8. used \cup Elems(free) = {b} /\ used \in SUBSET Blocks /\ used \cap Elems(free) = {}
  BY <1>1, <1>6
<1>9. Even({b}) /\ Apart({b})
  BY <1>2, <1>3, <1>4 DEF Even, Apart
<1>10. Upto(b) = e
  <2>1. Upto(b) = b.a + b.n
    BY CellsIs
  <2> QED
    BY <1>4, <2>1
<1>11. Covered({b}) = Cells(b)
  BY DEF Covered
<1>12. Covered({b}) = s..(e - 1)
  BY <1>4, <1>10, <1>11 DEF Cells
<1>13. Cardinality(Covered(Elems(free))) = e - s
  BY <1>4, <1>6, <1>11, CellsCount
<1>14. xFreeBytesRemaining = e - s /\ xMinimumEverFreeBytesRemaining = e - s
  BY <1>1, <1>2
<1>15. xMinimumEverFreeBytesRemaining \in 0..xFreeBytesRemaining
  BY <1>3, <1>14
<1>16. Covered(used \cup Elems(free)) = Start!uxStartAddress..(Start!pxEnd(total) - 1)
  BY <1>1, <1>2, <1>8, <1>12
<1>17. \A c \in used : c.n > 8
  BY <1>1
<1> QED
  BY <1>1, <1>3, <1>6, <1>7, <1>8, <1>9, <1>13, <1>14, <1>15, <1>16, <1>17 DEF HeapInv

(* What leaves the heap alone keeps it. *)
LEMMA HeapStutters ==
  ASSUME HeapInv, UNCHANGED Start!heap PROVE HeapInv'
<1>1. /\ total' = total /\ free' = free /\ used' = used
      /\ xFreeBytesRemaining' = xFreeBytesRemaining
      /\ xMinimumEverFreeBytesRemaining' = xMinimumEverFreeBytesRemaining
  BY DEF Start!heap
<1> QED
  BY <1>1 DEF HeapInv

(* pvPortMalloc keeps the invariant, whatever is asked for. *)
LEMMA AllocInv ==
  ASSUME HeapInv, NEW w \in Nat, Start!pvPortMalloc(w) PROVE HeapInv'
<1>1. CASE Start!CanMalloc(w)
  <2>1. Start!Malloc(w)
    BY <1>1 DEF Start!pvPortMalloc
  <2> QED
    BY <1>1, <2>1, MallocInv
<1>2. CASE ~Start!CanMalloc(w)
  <2>1. UNCHANGED Start!heap
    BY <1>2 DEF Start!pvPortMalloc
  <2> QED
    BY <2>1, HeapStutters
<1> QED
  BY <1>1, <1>2

StartObjects == {"sem", "queue", "timerq", "tcb", "KEY", "NTP", "SPEECH", "IDLE", "TIMER"}

(* Every object that the start makes has a size. *)
LEMMA SizesIs ==
  \A name \in StartObjects : Sizes[name] \in Nat /\ Sizes[name] > 0
BY StartAssumption DEF Start!BootAssumption, StartObjects, Start!BootTasks, Start!xHeapStructSize

(* A step of the heap in use. *)
LEMMA HeapStep ==
  ASSUME HeapInv, Start!HeapNext PROVE HeapInv'
<1>1. ASSUME NEW w \in Wanted, Start!pvPortMalloc(w) PROVE HeapInv'
  <2>1. w \in Nat
    BY StartAssumption DEF Start!HeapAssumption
  <2> QED
    BY <1>1, <2>1, AllocInv
<1>2. ASSUME NEW b \in used, Start!vPortFree(b) PROVE HeapInv'
  BY <1>2, FreeInv
<1> QED
  BY <1>1, <1>2 DEF Start!HeapNext

StepInv == step \in 1..9 /\ (boot = "main" => step \in 1..8)

(* The start makes objects whose sizes are known. *)
LEMMA OrderIs ==
  \A i \in 1..8 : Start!Order[i] \in StartObjects
BY DEF Start!Order, StartObjects

(* A step of the start. *)
LEMMA StartStep ==
  ASSUME HeapInv, StepInv, Start!Next PROVE HeapInv' /\ StepInv'
<1>1. boot = "main" /\ step \in 1..8
  BY DEF StepInv, Start!Next, Start!xQueueGenericCreate, Start!MallocStack, Start!MallocTcb, Start!TcbRefused
<1>2. Sizes[Start!Order[step]] \in Nat /\ Sizes["tcb"] \in Nat
  BY <1>1, OrderIs, SizesIs DEF StartObjects
<1>3. \/ step' = step /\ boot' = boot
      \/ \E outcome : Start!Continue(outcome)
  BY DEF Start!Next, Start!xQueueGenericCreate, Start!MallocStack, Start!MallocTcb, Start!TcbRefused
<1>4. StepInv'
  <2>1. Len(Start!Order) = 8
    BY DEF Start!Order
  <2>2. CASE step' = step /\ boot' = boot
    BY <2>2 DEF StepInv
  <2>3. ASSUME NEW outcome, Start!Continue(outcome) PROVE StepInv'
    BY <1>1, <2>1, <2>3 DEF Start!Continue, StepInv
  <2> QED
    BY <1>3, <2>2, <2>3
<1>5. CASE Start!xQueueGenericCreate
  <2>1. Start!pvPortMalloc(Sizes[Start!Order[step]])
    BY <1>5 DEF Start!xQueueGenericCreate
  <2> QED
    BY <1>2, <1>4, <2>1, AllocInv
<1>6. CASE Start!MallocStack
  <2>1. Start!pvPortMalloc(Sizes[Start!Order[step]])
    BY <1>6 DEF Start!MallocStack
  <2> QED
    BY <1>2, <1>4, <2>1, AllocInv
<1>7. CASE Start!MallocTcb
  <2>1. Start!CanMalloc(Sizes["tcb"]) /\ Start!Malloc(Sizes["tcb"])
    BY <1>7 DEF Start!MallocTcb
  <2> QED
    BY <1>2, <1>4, <2>1, MallocInv
<1>8. CASE Start!TcbRefused
  <2>1. Start!vPortFree(stack)
    BY <1>8 DEF Start!TcbRefused, Start!FreeStack
  <2> QED
    BY <1>4, <2>1, FreeInv
<1> QED
  BY <1>5, <1>6, <1>7, <1>8 DEF Start!Next

(* The invariant says all that the runs check of the heap. *)
LEMMA HeapInvSound ==
  ASSUME HeapInv PROVE HeapSound
<1>1. Start!AllBlocks = used \cup Elems(free) /\ Start!Range(free) = Elems(free)
  BY DEF Start!AllBlocks, Start!Range, Elems
<1>2. PICK l \in Nat : l = Len(free) /\ \A i \in 1..l : free[i] \in Blocks
  BY DEF HeapInv
<1>3. \A S : Start!Bytes(S) = Covered(S)
  BY DEF Start!Bytes, Start!End, Covered, Cells, Upto
<1>4. Start!HeapTypeOK
  <2>1. \A b \in Blocks : b.a \in Nat /\ b.n \in Nat
    BY DEF Blocks
  <2>2. \A b \in Blocks : b \in [a : Nat, n : Nat]
    BY DEF Blocks
  <2>3. free \in Seq([a : Nat, n : Nat])
    <3>1. free \in Seq(Blocks) /\ Blocks \subseteq [a : Nat, n : Nat]
      BY <2>2 DEF HeapInv
    <3> QED
      BY <3>1, SeqMonotonic
  <2> QED
    BY <2>1, <2>3 DEF Start!HeapTypeOK, HeapInv, Start!xHeapStructSize
<1>5. Start!Tiled
  <2>1. \A b \in used \cup Elems(free) : b.n > 0 /\ Start!Aligned(b.a) /\ Start!Aligned(b.n)
    <3>1. used \cup Elems(free) \in SUBSET Blocks
      BY ElemsIs DEF HeapInv
    <3>2. \A b \in used \cup Elems(free) : b.a % 8 = 0 /\ b.n % 8 = 0
      BY DEF HeapInv, Even
    <3> QED
      BY <3>1, <3>2 DEF Start!Aligned, Start!portBYTE_ALIGNMENT, Blocks
  <2>2. \A b, c \in used \cup Elems(free) : b # c => Start!End(b) <= c.a \/ Start!End(c) <= b.a
    BY DEF HeapInv, Apart, Upto, Start!End
  <2>3. Start!Bytes(used \cup Elems(free)) = Start!uxStartAddress..(Start!pxEnd(total) - 1)
    BY <1>3 DEF HeapInv
  <2> QED
    BY <1>1, <2>1, <2>2, <2>3 DEF Start!Tiled, HeapInv
<1>6. Start!Coalesced
  <2>1. \A i \in 2..l : i - 1 \in 1..l /\ i \in 1..l /\ i - 1 < i
    BY <1>2
  <2> QED
    BY <1>2, <2>1 DEF Start!Coalesced, HeapInv, Gapped, Upto, Start!End
<1>7. Start!FreeBytesExact
  <2>1. Start!Cardinality(Start!Bytes(Start!Range(free))) = Cardinality(Covered(Elems(free)))
    BY <1>1, <1>3, HeapCardinality
  <2> QED
    BY <2>1 DEF Start!FreeBytesExact, HeapInv
<1> QED
  BY <1>4, <1>5, <1>6, <1>7 DEF HeapSound

(* pvPortMalloc and vPortFree, in any order and with any sizes, on any heap *)
(* and during any start: the blocks tile the heap, free ones never touch,   *)
(* and the count of free bytes is exact.                                    *)
THEOREM HeapIsSound == MCSpec => []HeapSound
<1>1. MCInit => HeapInv /\ StepInv
  <2> SUFFICES ASSUME MCInit PROVE HeapInv /\ StepInv
    OBVIOUS
  <2>1. Start!HeapInit /\ step = 1
    BY DEF MCInit, Start!Init
  <2> QED
    BY <2>1, HeapStarts DEF StepInv
<1>2. HeapInv /\ StepInv /\ [MCNext]_<<side, vars, memory>> => HeapInv' /\ StepInv'
  <2> SUFFICES ASSUME HeapInv, StepInv, [MCNext]_<<side, vars, memory>> PROVE HeapInv' /\ StepInv'
    OBVIOUS
  <2>1. CASE UNCHANGED memory
    <3>1. UNCHANGED Start!heap /\ step' = step /\ boot' = boot
      BY <2>1 DEF memory, Start!heap
    <3> QED
      BY <3>1, HeapStutters DEF StepInv
  <2>2. CASE Start!Next
    BY <2>2, StartStep
  <2>3. CASE Start!HeapNext /\ UNCHANGED <<step, boot>>
    BY <2>3, HeapStep DEF StepInv
  <2> QED
    BY <2>1, <2>2, <2>3 DEF MCNext
<1> QED
  BY <1>1, <1>2, HeapInvSound, PTL DEF MCSpec

-----------------------------------------------------------------------------
(* The start: what has been made, who owns which block, and what a heap     *)
(* that is large enough still holds.                                        *)
Objects == [name : StartObjects, blocks : SUBSET Blocks]

OwnedIn(M) == UNION {M[i].blocks : i \in 1..Len(M)}
OwnedOnce(M) == \A i, j \in 1..Len(M) : i # j => M[i].blocks \cap M[j].blocks = {}
Has(M, name) == \E i \in 1..Len(M) : M[i].name = name

Vital == {"sem", "queue", "IDLE", "timerq", "TIMER"}

Size(name) == Start!BlockSize(Sizes[name])
Cost(i) == Size(Start!Order[i]) + (IF Start!Order[i] \in Start!BootTasks THEN Size("tcb") ELSE 0)
From(k, i) == IF k <= i THEN Cost(i) ELSE 0
Left(k) == From(k, 1) + From(k, 2) + From(k, 3) + From(k, 4) + From(k, 5) + From(k, 6) + From(k, 7) + From(k, 8)

(* What is still to be taken from the heap. *)
Todo == IF boot = "main" THEN Left(step) - (IF stack # Start!None THEN Size(Start!Order[step]) ELSE 0) ELSE 0

Large == Start!pxEnd(total) - Start!uxStartAddress >= Start!Needed

OwnInv ==
  /\ made \in Seq(Objects) /\ OwnedOnce(made)
  /\ stack \notin OwnedIn(made)
  /\ used = OwnedIn(made) \cup ({stack} \ {Start!None})
  /\ stack # Start!None => stack \in Blocks /\ boot = "main" /\ Start!Order[step] \in Start!BootTasks

MadeInv ==
  /\ boot \in {"main", "running", "FATAL", "ASSERT"}
  /\ boot = "running" => step = 9
  /\ boot \in {"main", "running"} => \A i \in 1..(step - 1) : Start!Order[i] \in Vital => Has(made, Start!Order[i])

RoomInv ==
  Large => /\ boot \in {"main", "running"}
           /\ Len(free) <= 1
           /\ Todo <= xFreeBytesRemaining
           /\ \A i \in 1..(step - 1) : Has(made, Start!Order[i])

StartInv == side = "start" => StepInv /\ OwnInv /\ MadeInv /\ RoomInv

(* What main has made after one more object. *)
LEMMA Appended ==
  ASSUME NEW M \in Seq(Objects), NEW r \in Objects, NEW N, N = Append(M, r)
  PROVE  /\ N \in Seq(Objects)
         /\ OwnedIn(N) = OwnedIn(M) \cup r.blocks
         /\ \A name : Has(N, name) <=> Has(M, name) \/ name = r.name
         /\ OwnedOnce(M) /\ r.blocks \cap OwnedIn(M) = {} => OwnedOnce(N)
<1>1. PICK m \in Nat : m = Len(M)
  OBVIOUS
<1>2. /\ N \in Seq(Objects) /\ Len(N) = m + 1 /\ N[m + 1] = r
      /\ \A i \in 1..m : N[i] = M[i] /\ M[i] \in Objects
  BY <1>1
<1>3. \A i : i \in 1..(m + 1) <=> i \in 1..m \/ i = m + 1
  BY <1>1
<1>4. OwnedIn(N) = OwnedIn(M) \cup r.blocks
  <2>1. \A x : x \in OwnedIn(N) <=> \E i \in 1..(m + 1) : x \in N[i].blocks
    BY <1>2 DEF OwnedIn
  <2>2. \A x : x \in OwnedIn(M) <=> \E i \in 1..m : x \in M[i].blocks
    BY <1>1 DEF OwnedIn
  <2>3. \A x : (\E i \in 1..(m + 1) : x \in N[i].blocks)
                 <=> (\E i \in 1..m : x \in M[i].blocks) \/ x \in r.blocks
    BY <1>2, <1>3
  <2>4. \A x : x \in OwnedIn(N) <=> x \in OwnedIn(M) \cup r.blocks
    BY <2>1, <2>2, <2>3
  <2> QED
    BY <2>4
<1>5. \A name : Has(N, name) <=> Has(M, name) \/ name = r.name
  BY <1>1, <1>2, <1>3 DEF Has
<1>6. ASSUME OwnedOnce(M), r.blocks \cap OwnedIn(M) = {} PROVE OwnedOnce(N)
  <2>1. \A i \in 1..m : M[i].blocks \in SUBSET OwnedIn(M)
    BY <1>1 DEF OwnedIn
  <2>2. \A i, j \in 1..m : i # j => M[i].blocks \cap M[j].blocks = {}
    BY <1>1, <1>6 DEF OwnedOnce
  <2> SUFFICES ASSUME NEW i \in 1..(m + 1), NEW j \in 1..(m + 1), i # j
               PROVE  N[i].blocks \cap N[j].blocks = {}
    BY <1>2 DEF OwnedOnce
  <2>3. CASE i \in 1..m /\ j \in 1..m
    BY <1>2, <2>2, <2>3
  <2>4. CASE i \in 1..m /\ j = m + 1
    BY <1>2, <1>6, <2>1, <2>4
  <2>5. CASE j \in 1..m /\ i = m + 1
    BY <1>2, <1>6, <2>1, <2>5
  <2> QED
    BY <1>3, <2>3, <2>4, <2>5
<1> QED
  BY <1>2, <1>4, <1>5, <1>6

(* Each object takes a block that is larger than heapMINIMUM_BLOCK_SIZE. *)
LEMMA SizeIs ==
  \A name \in StartObjects : Size(name) \in Nat /\ Size(name) >= 24
<1> SUFFICES ASSUME NEW name \in StartObjects PROVE Size(name) \in Nat /\ Size(name) >= 24
  OBVIOUS
<1>1. PICK w \in Nat : w = Sizes[name] /\ w > 8
  BY StartAssumption DEF Start!BootAssumption, StartObjects, Start!BootTasks, Start!xHeapStructSize
<1>2. Start!BlockSize(w) = Start!AlignUp(w + 8) /\ w # 0
  BY <1>1 DEF Start!BlockSize, Start!xHeapStructSize
<1>3. PICK v \in Nat : v = w + 8 /\ v >= 17
  BY <1>1
<1>4. Start!AlignUp(v) = ((v + 8 - 1) \div 8) * 8
  BY DEF Start!AlignUp, Start!portBYTE_ALIGNMENT
<1>5. ((v + 8 - 1) \div 8) * 8 \in Nat /\ ((v + 8 - 1) \div 8) * 8 >= 24
  BY <1>3
<1> QED
  BY <1>1, <1>2, <1>3, <1>4, <1>5 DEF Size

(* What is left to take, object by object. *)
LEMMA LeftIs ==
  /\ \A k \in 1..9 : Left(k) \in Nat /\ (Left(k) = 0 \/ Left(k) >= 24)
  /\ \A k \in 1..8 : Left(k) = Cost(k) + Left(k + 1)
  /\ Left(9) = 0
<1>1. \A i \in 1..8 : Start!Order[i] \in StartObjects /\ "tcb" \in StartObjects
  BY OrderIs DEF StartObjects
<1>2. \A i \in 1..8 : Cost(i) \in Nat /\ Cost(i) >= 24
  BY <1>1, SizeIs DEF Cost
<1>3. PICK c1 \in Nat, c2 \in Nat, c3 \in Nat, c4 \in Nat, c5 \in Nat, c6 \in Nat, c7 \in Nat, c8 \in Nat :
        /\ c1 = Cost(1) /\ c2 = Cost(2) /\ c3 = Cost(3) /\ c4 = Cost(4)
        /\ c5 = Cost(5) /\ c6 = Cost(6) /\ c7 = Cost(7) /\ c8 = Cost(8)
        /\ c1 >= 24 /\ c2 >= 24 /\ c3 >= 24 /\ c4 >= 24 /\ c5 >= 24 /\ c6 >= 24 /\ c7 >= 24 /\ c8 >= 24
  <2>1. Cost(1) \in Nat /\ Cost(1) >= 24 /\ Cost(2) \in Nat /\ Cost(2) >= 24
    BY <1>2
  <2>2. Cost(3) \in Nat /\ Cost(3) >= 24 /\ Cost(4) \in Nat /\ Cost(4) >= 24
    BY <1>2
  <2>3. Cost(5) \in Nat /\ Cost(5) >= 24 /\ Cost(6) \in Nat /\ Cost(6) >= 24
    BY <1>2
  <2>4. Cost(7) \in Nat /\ Cost(7) >= 24 /\ Cost(8) \in Nat /\ Cost(8) >= 24
    BY <1>2
  <2> QED
    BY <2>1, <2>2, <2>3, <2>4, Zenon
<1>4. /\ Left(9) = 0 /\ Left(8) = c8 /\ Left(7) = c7 + c8 /\ Left(6) = c6 + c7 + c8
      /\ Left(5) = c5 + c6 + c7 + c8 /\ Left(4) = c4 + c5 + c6 + c7 + c8
      /\ Left(3) = c3 + c4 + c5 + c6 + c7 + c8 /\ Left(2) = c2 + c3 + c4 + c5 + c6 + c7 + c8
      /\ Left(1) = c1 + c2 + c3 + c4 + c5 + c6 + c7 + c8
  BY <1>3 DEF Left, From
<1>5. \A k \in 1..9 : k = 1 \/ k = 2 \/ k = 3 \/ k = 4 \/ k = 5 \/ k = 6 \/ k = 7 \/ k = 8 \/ k = 9
  OBVIOUS
<1>6. \A k \in 1..9 : Left(k) \in Nat /\ (Left(k) = 0 \/ Left(k) >= 24)
  <2>1. /\ Left(1) >= 24 /\ Left(2) >= 24 /\ Left(3) >= 24 /\ Left(4) >= 24 /\ Left(5) >= 24
        /\ Left(6) >= 24 /\ Left(7) >= 24 /\ Left(8) >= 24
    BY <1>3, <1>4
  <2>2. /\ Left(1) \in Nat /\ Left(2) \in Nat /\ Left(3) \in Nat /\ Left(4) \in Nat /\ Left(5) \in Nat
        /\ Left(6) \in Nat /\ Left(7) \in Nat /\ Left(8) \in Nat
    BY <1>3, <1>4
  <2> QED
    BY <1>4, <1>5, <2>1, <2>2
<1>7. \A k \in 1..8 : Left(k) = Cost(k) + Left(k + 1)
  <2>1. /\ Left(1) = Cost(1) + Left(2) /\ Left(2) = Cost(2) + Left(3)
        /\ Left(3) = Cost(3) + Left(4) /\ Left(4) = Cost(4) + Left(5)
        /\ Left(5) = Cost(5) + Left(6) /\ Left(6) = Cost(6) + Left(7)
        /\ Left(7) = Cost(7) + Left(8) /\ Left(8) = Cost(8) + Left(9)
    BY <1>3, <1>4
  <2> SUFFICES ASSUME NEW k \in 1..8 PROVE Left(k) = Cost(k) + Left(k + 1)
    OBVIOUS
  <2>2. k = 1 \/ k = 2 \/ k = 3 \/ k = 4 \/ k = 5 \/ k = 6 \/ k = 7 \/ k = 8
    OBVIOUS
  <2>3. 1 + 1 = 2 /\ 2 + 1 = 3 /\ 3 + 1 = 4 /\ 4 + 1 = 5 /\ 5 + 1 = 6 /\ 6 + 1 = 7 /\ 7 + 1 = 8 /\ 8 + 1 = 9
    OBVIOUS
  <2> QED
    BY <2>1, <2>2, <2>3, Zenon
<1> QED
  BY <1>4, <1>6, <1>7

(* At the start it is all that a large heap must hold. *)
LEMMA AllNeeded == Left(1) = Start!Needed
<1>1. /\ Start!Order[1] = "sem" /\ Start!Order[2] = "queue" /\ Start!Order[3] = "KEY"
      /\ Start!Order[4] = "NTP" /\ Start!Order[5] = "SPEECH" /\ Start!Order[6] = "IDLE"
      /\ Start!Order[7] = "timerq" /\ Start!Order[8] = "TIMER"
  BY DEF Start!Order
<1>2. /\ Cost(1) = Size("sem") + 0 /\ Cost(2) = Size("queue") + 0 /\ Cost(3) = Size("KEY") + Size("tcb")
      /\ Cost(4) = Size("NTP") + Size("tcb") /\ Cost(5) = Size("SPEECH") + Size("tcb")
      /\ Cost(6) = Size("IDLE") + Size("tcb") /\ Cost(7) = Size("timerq") + 0 /\ Cost(8) = Size("TIMER") + Size("tcb")
  BY <1>1 DEF Cost, Start!BootTasks
<1>3. /\ Size("sem") \in Nat /\ Size("queue") \in Nat /\ Size("KEY") \in Nat /\ Size("NTP") \in Nat
      /\ Size("SPEECH") \in Nat /\ Size("IDLE") \in Nat /\ Size("timerq") \in Nat /\ Size("TIMER") \in Nat
      /\ Size("tcb") \in Nat
  BY SizeIs DEF StartObjects
<1>4. Left(1) = Cost(1) + Cost(2) + Cost(3) + Cost(4) + Cost(5) + Cost(6) + Cost(7) + Cost(8)
  BY DEF Left, From
<1>5. Start!Needed = Size("sem") + Size("queue") + Size("timerq") + Size("KEY") + Size("NTP") + Size("SPEECH")
                       + Size("IDLE") + Size("TIMER") + 5 * Size("tcb")
  BY DEF Start!Needed, Size
<1> QED
  BY <1>2, <1>3, <1>4, <1>5

(* When there is one free block, as many bytes as are free can be had. *)
LEMMA OneFree ==
  ASSUME HeapInv, Len(free) = 1
  PROVE  free[1] \in Blocks /\ xFreeBytesRemaining = free[1].n
<1>1. free \in Seq(Blocks) /\ free[1] \in Blocks
  <2>1. free \in Seq(Blocks) /\ 1 \in 1..Len(free)
    BY DEF HeapInv
  <2> QED
    BY <2>1, ElementOfSeq
<1>2. Elems(free) = {free[1]}
  BY DEF Elems
<1>3. Covered(Elems(free)) = Cells(free[1])
  BY <1>2 DEF Covered
<1> QED
  BY <1>1, <1>3, CellsCount DEF HeapInv

(* With no free block, no byte is free. *)
LEMMA NoneFree ==
  ASSUME HeapInv, Len(free) = 0
  PROVE  xFreeBytesRemaining = 0
<1>1. Elems(free) = {}
  BY DEF Elems
<1>2. Covered(Elems(free)) = {}
  BY <1>1 DEF Covered
<1> QED
  BY <1>2, FS_EmptySet DEF HeapInv

(* So a request of no more than that is met. *)
LEMMA RoomEnough ==
  ASSUME HeapInv, Len(free) <= 1, NEW w \in Nat, Start!BlockSize(w) > 0,
         Start!BlockSize(w) <= xFreeBytesRemaining
  PROVE  Start!CanMalloc(w)
<1>1. PICK s \in Nat : s = Start!BlockSize(w)
  BY BlockSizeIs
<1>2. Len(free) \in Nat
  BY DEF HeapInv
<1>3. Len(free) # 0
  BY <1>1, NoneFree
<1>4. Len(free) = 1
  <2>1. PICK l \in Nat : l = Len(free) /\ l # 0 /\ l <= 1
    BY <1>2, <1>3
  <2> QED
    BY <2>1
<1>5. free[1] \in Blocks /\ xFreeBytesRemaining = free[1].n
  BY <1>4, OneFree
<1>6. free[1].n >= s
  <2>1. free[1].n \in Nat
    BY <1>5, CellsIs
  <2> QED
    BY <1>1, <1>5, <2>1
<1>7. 1 \in Start!FitsIn(s)
  BY <1>4, <1>6 DEF Start!FitsIn
<1> QED
  BY <1>1, <1>7 DEF Start!CanMalloc

(* And after a malloc there is at most one again, with all that was not     *)
(* asked for, unless that was too little for a block.                       *)
LEMMA RoomAfter ==
  ASSUME HeapInv, Len(free) <= 1, NEW w \in Nat, Start!CanMalloc(w), Start!Malloc(w)
  PROVE  /\ Len(free') <= 1
         /\ \/ xFreeBytesRemaining' = xFreeBytesRemaining - Start!BlockSize(w)
            \/ xFreeBytesRemaining - Start!BlockSize(w) <= 16
<1>1. PICK i \in 1..Len(free), f \in Blocks, b \in Blocks :
           /\ i = Start!Min(Start!FitsIn(Start!BlockSize(w)))
           /\ f = free[i] /\ b = Start!Found(w) /\ b.a = f.a
           /\ b.n >= Start!BlockSize(w) /\ b.n % 8 = 0
           /\ IF f.n - Start!BlockSize(w) > 16
              THEN b.n = Start!BlockSize(w) /\ RestOf(b, f) \in Blocks
              ELSE b = f
  BY FoundBlock
<1>2. PICK s \in Nat : s = Start!BlockSize(w)
  BY BlockSizeIs
<1>3. free \in Seq(Blocks) /\ Len(free) = 1 /\ i = 1 /\ Gapped(free)
  <2>1. PICK l \in Nat : l = Len(free) /\ l <= 1
    BY DEF HeapInv
  <2>2. l = 1 /\ i = 1
    BY <2>1
  <2> QED
    BY <2>1, <2>2 DEF HeapInv
<1>4. xFreeBytesRemaining = f.n /\ f.n \in Nat
  BY <1>1, <1>3, OneFree, CellsIs
<1>5. xFreeBytesRemaining' = xFreeBytesRemaining - b.n
  BY <1>1 DEF Start!Malloc, Start!TakenBytes
<1>6. CASE f.n - s > 16
  <2>1. free' = [free EXCEPT ![i] = Start!Block(Start!End(b), free[i].n - b.n)]
    BY <1>1, <1>2, <1>6 DEF Start!Malloc, Start!Split, Start!heapMINIMUM_BLOCK_SIZE, Start!xHeapStructSize
  <2>2. Len(free') = 1
    BY <1>3, <2>1
  <2>3. b.n = s
    BY <1>1, <1>2, <1>6
  <2> QED
    BY <1>2, <1>5, <2>2, <2>3
<1>7. CASE ~(f.n - s > 16)
  <2>1. free' = Start!RemoveAt(free, i)
    BY <1>1, <1>2, <1>7 DEF Start!Malloc, Start!Split, Start!heapMINIMUM_BLOCK_SIZE, Start!xHeapStructSize
  <2>2. free' \in Seq(Blocks) /\ Elems(free') = Elems(free) \ {free[i]}
    BY <1>3, <2>1, RemovedList
  <2>3. Elems(free) = {free[i]}
    BY <1>3 DEF Elems
  <2>4. Elems(free') = {}
    BY <2>2, <2>3
  <2>5. Len(free') = 0
    <3>1. Len(free') \in Nat
      BY <2>2
    <3>2. 1 \notin 1..Len(free')
      BY <2>4 DEF Elems
    <3> QED
      BY <3>1, <3>2
  <2> QED
    BY <1>2, <1>4, <1>7, <2>5
<1> QED
  BY <1>6, <1>7

(* No block is mistaken for the absence of one. *)
LEMMA NoneIsNone == Start!None \notin Blocks
<1>1. Start!None.n = 0
  BY DEF Start!None, Start!Block
<1>2. \A b \in Blocks : b.n > 0 /\ b.n \in Nat
  BY DEF Blocks
<1> QED
  BY <1>1, <1>2

(* The start goes on with the next object. *)
LEMMA Continued ==
  ASSUME NEW outcome, Start!Continue(outcome)
  PROVE  step' = step + 1 /\ boot' = IF outcome = "main" /\ step = 8 THEN "running" ELSE outcome
<1>1. Len(Start!Order) = 8
  BY DEF Start!Order
<1> QED
  BY <1>1 DEF Start!Continue

(* Only a task of main.c may be missing when the start goes on. *)
LEMMA FailedIs ==
  ASSUME NEW name \in StartObjects
  PROVE  /\ Start!Failed(name) \in {"main", "FATAL", "ASSERT"}
         /\ Start!Failed(name) = "main" => name \notin Vital /\ name # "TIMER"
BY DEF Start!Failed, Vital, StartObjects

(* An object that could not be made: only one that is not vital is passed   *)
(* over.                                                                    *)
LEMMA PassedOver ==
  ASSUME StepInv, MadeInv, boot = "main", made' = made, Start!Continue(Start!Failed(Start!Order[step]))
  PROVE  MadeInv'
<1>1. step \in 1..8
  BY DEF StepInv
<1>2. PICK name \in StartObjects : name = Start!Order[step]
  BY <1>1, OrderIs
<1>3. step' = step + 1 /\ boot' = IF Start!Failed(name) = "main" /\ step = 8 THEN "running" ELSE Start!Failed(name)
  BY <1>2, Continued
<1>4. /\ Start!Failed(name) \in {"main", "FATAL", "ASSERT"}
      /\ Start!Failed(name) = "main" => name \notin Vital /\ name # "TIMER"
  BY FailedIs
<1>5. Start!Order[8] = "TIMER"
  BY DEF Start!Order
<1>6. boot' \in {"main", "FATAL", "ASSERT"} /\ boot' = Start!Failed(name)
  BY <1>2, <1>3, <1>4, <1>5
<1>7. \A i \in 1..(step - 1) : Start!Order[i] \in Vital => Has(made, Start!Order[i])
  BY DEF MadeInv
<1>8. ASSUME boot' = "main", NEW i \in 1..(step' - 1), Start!Order[i] \in Vital PROVE Has(made', Start!Order[i])
  <2>1. i \in 1..(step - 1) \/ i = step
    BY <1>1, <1>3
  <2>2. i # step
    BY <1>2, <1>4, <1>6, <1>8
  <2> QED
    BY <1>7, <1>8, <2>1, <2>2
<1> QED
  BY <1>6, <1>8 DEF MadeInv

(* One that was made. *)
LEMMA NowMade ==
  ASSUME StepInv, MadeInv, boot = "main", made \in Seq(Objects),
         NEW r \in Objects, r.name = Start!Order[step], made' = Append(made, r), Start!Continue("main")
  PROVE  /\ MadeInv' /\ boot' \in {"main", "running"}
         /\ (\A i \in 1..(step - 1) : Has(made, Start!Order[i]))
              => \A i \in 1..(step' - 1) : Has(made', Start!Order[i])
<1>1. step \in 1..8
  BY DEF StepInv
<1>2. step' = step + 1 /\ boot' = IF step = 8 THEN "running" ELSE "main"
  BY Continued
<1>3. \A name : Has(made', name) <=> Has(made, name) \/ name = r.name
  BY Appended
<1>4. \A i \in 1..(step' - 1) : i \in 1..(step - 1) \/ i = step
  BY <1>1, <1>2
<1>5. boot' \in {"main", "running"} /\ (boot' = "running" => step' = 9)
  BY <1>1, <1>2
<1>6. \A i \in 1..(step - 1) : Start!Order[i] \in Vital => Has(made, Start!Order[i])
  BY DEF MadeInv
<1>7. \A i \in 1..(step' - 1) : Start!Order[i] \in Vital => Has(made', Start!Order[i])
  BY <1>3, <1>4, <1>6
<1>8. ASSUME \A i \in 1..(step - 1) : Has(made, Start!Order[i])
      PROVE  \A i \in 1..(step' - 1) : Has(made', Start!Order[i])
  BY <1>3, <1>4, <1>8
<1> QED
  BY <1>5, <1>7, <1>8 DEF MadeInv

(* A malloc of what is to be taken next leaves room for the rest. *)
LEMMA RoomForRest ==
  ASSUME HeapInv, HeapInv', Len(free) <= 1, NEW name \in StartObjects,
         Start!CanMalloc(Sizes[name]), Start!Malloc(Sizes[name]),
         NEW rest \in Nat, rest = 0 \/ rest >= 24, Size(name) + rest <= xFreeBytesRemaining
  PROVE  Len(free') <= 1 /\ rest <= xFreeBytesRemaining'
<1>1. PICK w \in Nat : w = Sizes[name]
  BY SizesIs
<1>2. PICK s \in Nat : s = Start!BlockSize(w) /\ s = Size(name)
  BY <1>1, SizeIs DEF Size
<1>3. /\ Len(free') <= 1
      /\ xFreeBytesRemaining' = xFreeBytesRemaining - s \/ xFreeBytesRemaining - s <= 16
  BY <1>1, <1>2, RoomAfter
<1>4. xFreeBytesRemaining \in Nat /\ xFreeBytesRemaining' \in Nat
  BY DEF HeapInv
<1>5. s + rest <= xFreeBytesRemaining
  BY <1>2
<1> QED
  BY <1>3, <1>4, <1>5

(* When there is room for an object and more, it can be had. *)
LEMMA RoomFor ==
  ASSUME HeapInv, Len(free) <= 1, NEW name \in StartObjects,
         NEW rest \in Nat, Size(name) + rest <= xFreeBytesRemaining
  PROVE  Start!CanMalloc(Sizes[name])
<1>1. PICK w \in Nat : w = Sizes[name]
  BY SizesIs
<1>2. PICK s \in Nat : s = Start!BlockSize(w) /\ s = Size(name) /\ s >= 24
  BY <1>1, SizeIs DEF Size
<1>3. xFreeBytesRemaining \in Nat
  BY DEF HeapInv
<1>4. s > 0 /\ s <= xFreeBytesRemaining
  BY <1>2, <1>3
<1> QED
  BY <1>1, <1>2, <1>4, RoomEnough

(* What is to be taken once an object has been made. *)
LEMMA TodoMade ==
  ASSUME StepInv, boot = "main", Start!Continue("main"), stack' = Start!None
  PROVE  Todo' = Left(step + 1)
<1>1. step \in 1..8
  BY DEF StepInv
<1>2. step' = step + 1 /\ boot' = IF step = 8 THEN "running" ELSE "main"
  BY Continued
<1>3. Left(step + 1) \in Nat /\ Left(9) = 0
  BY <1>1, LeftIs
<1> QED
  BY <1>1, <1>2, <1>3 DEF Todo

(* What is to be taken after one of the objects. *)
LEMMA LeftNext ==
  ASSUME NEW k \in 1..8
  PROVE  /\ Left(k + 1) \in Nat /\ (Left(k + 1) = 0 \/ Left(k + 1) >= 24)
         /\ Left(k) = Cost(k) + Left(k + 1)
<1>1. k + 1 \in 1..9
  OBVIOUS
<1> QED
  BY <1>1, LeftIs

(* The heap does not grow or shrink. *)
LEMMA LargeStays ==
  ASSUME total' = total PROVE Large' <=> Large
BY DEF Large

(* xQueueGenericCreate *)
LEMMA QueueMadeInv ==
  ASSUME HeapInv, HeapInv', StepInv, OwnInv, MadeInv, RoomInv, Start!xQueueGenericCreate
  PROVE  OwnInv' /\ MadeInv' /\ RoomInv'
<1>1. step \in 1..8 /\ boot = "main"
  BY DEF StepInv, Start!xQueueGenericCreate
<1>2. PICK name \in StartObjects : name = Start!Order[step]
  BY <1>1, OrderIs
<1>3. name \notin Start!BootTasks /\ stack = Start!None /\ stack' = stack
  BY <1>2 DEF OwnInv, Start!xQueueGenericCreate
<1>4. PICK w \in Nat : w = Sizes[name]
  BY SizesIs
<1>5. PICK rest \in Nat : rest = Left(step + 1) /\ (rest = 0 \/ rest >= 24)
  BY <1>1, LeftNext
<1>6. Todo = Size(name) + rest
  <2>1. Size(name) \in Nat
    BY SizeIs
  <2>2. Left(step) = Cost(step) + rest
    BY <1>1, <1>5, LeftNext
  <2>3. Cost(step) = Size(name) + 0
    BY <1>2, <1>3 DEF Cost
  <2>4. Todo = Left(step) - 0
    BY <1>1, <1>3 DEF Todo
  <2> QED
    BY <2>1, <2>2, <2>3, <2>4
<1>7. CASE Start!CanMalloc(w)
  <2>1. /\ Start!Malloc(w) /\ Start!Continue("main")
        /\ made' = Append(made, [name |-> name, blocks |-> {Start!Found(w)}])
    BY <1>2, <1>4, <1>7 DEF Start!xQueueGenericCreate, Start!pvPortMalloc, Start!Own
  <2>2. PICK b \in Blocks : b = Start!Found(w) /\ b \notin used
    BY <1>7, <2>1, MallocInv
  <2>3. used' = used \cup {b} /\ total' = total
    BY <2>1, <2>2 DEF Start!Malloc
  <2>4. PICK r \in Objects : r = [name |-> name, blocks |-> {b}] /\ r.name = name /\ r.blocks = {b}
    <3>1. {b} \in SUBSET Blocks
      OBVIOUS
    <3>2. [name |-> name, blocks |-> {b}] \in Objects
      BY <3>1 DEF Objects
    <3> QED
      BY <3>2
  <2>5. made \in Seq(Objects) /\ OwnedOnce(made) /\ Start!None \notin OwnedIn(made) /\ used = OwnedIn(made)
    BY <1>3 DEF OwnInv
  <2>6. made' = Append(made, r) /\ r.blocks \cap OwnedIn(made) = {}
    BY <2>1, <2>2, <2>4, <2>5
  <2>7. made' \in Seq(Objects) /\ OwnedOnce(made') /\ OwnedIn(made') = OwnedIn(made) \cup {b}
    <3>1. made' \in Seq(Objects) /\ OwnedOnce(made') /\ OwnedIn(made') = OwnedIn(made) \cup r.blocks
      BY <2>5, <2>6, Appended
    <3> QED
      BY <2>4, <3>1
  <2>8. b # Start!None
    BY NoneIsNone
  <2>9. OwnInv'
    BY <1>3, <2>3, <2>5, <2>7, <2>8 DEF OwnInv
  <2>10. /\ MadeInv' /\ boot' \in {"main", "running"}
         /\ (\A i \in 1..(step - 1) : Has(made, Start!Order[i]))
              => \A i \in 1..(step' - 1) : Has(made', Start!Order[i])
    BY <1>1, <1>2, <2>1, <2>4, <2>5, <2>6, NowMade
  <2>11. RoomInv'
    <3> SUFFICES ASSUME Large PROVE RoomInv'
      BY <2>3, LargeStays DEF RoomInv
    <3>1. Len(free) <= 1 /\ Todo <= xFreeBytesRemaining /\ \A i \in 1..(step - 1) : Has(made, Start!Order[i])
      BY DEF RoomInv
    <3>2. Len(free') <= 1 /\ rest <= xFreeBytesRemaining'
      BY <1>4, <1>5, <1>6, <1>7, <2>1, <3>1, RoomForRest
    <3>3. Todo' = rest
      BY <1>1, <1>3, <1>5, <2>1, TodoMade
    <3> QED
      BY <2>10, <3>1, <3>2, <3>3 DEF RoomInv
  <2> QED
    BY <2>9, <2>10, <2>11
<1>8. CASE ~Start!CanMalloc(w)
  <2>1. UNCHANGED Start!heap /\ Start!Continue(Start!Failed(Start!Order[step])) /\ made' = made
    BY <1>2, <1>4, <1>8 DEF Start!xQueueGenericCreate, Start!pvPortMalloc
  <2>2. used' = used /\ total' = total
    BY <2>1 DEF Start!heap
  <2>3. OwnInv'
    BY <1>3, <2>1, <2>2 DEF OwnInv
  <2>4. MadeInv'
    BY <1>1, <2>1, PassedOver
  <2>5. ~Large
    BY <1>4, <1>6, <1>8, RoomFor DEF RoomInv
  <2>6. RoomInv'
    BY <2>2, <2>5, LargeStays DEF RoomInv
  <2> QED
    BY <2>3, <2>4, <2>6
<1> QED
  BY <1>7, <1>8

(* MallocStack *)
LEMMA StackTakenInv ==
  ASSUME HeapInv, HeapInv', StepInv, OwnInv, MadeInv, RoomInv, Start!MallocStack
  PROVE  OwnInv' /\ MadeInv' /\ RoomInv'
<1>1. step \in 1..8 /\ boot = "main"
  BY DEF StepInv, Start!MallocStack
<1>2. PICK name \in StartObjects : name = Start!Order[step]
  BY <1>1, OrderIs
<1>3. name \in Start!BootTasks /\ stack = Start!None /\ made' = made
  BY <1>2 DEF Start!MallocStack
<1>4. PICK w \in Nat : w = Sizes[name]
  BY SizesIs
<1>5. PICK rest \in Nat : rest = Size("tcb") + Left(step + 1) /\ rest >= 24
  <2>1. Size("tcb") \in Nat /\ Size("tcb") >= 24
    BY SizeIs DEF StartObjects
  <2>2. Left(step + 1) \in Nat
    BY <1>1, LeftNext
  <2> QED
    BY <2>1, <2>2
<1>6. Left(step) = Size(name) + rest
  <2>1. Size(name) \in Nat /\ Size("tcb") \in Nat /\ Left(step + 1) \in Nat
    BY <1>1, SizeIs, LeftNext DEF StartObjects
  <2>2. Left(step) = Cost(step) + Left(step + 1)
    BY <1>1, LeftNext
  <2>3. Cost(step) = Size(name) + Size("tcb")
    BY <1>2, <1>3 DEF Cost
  <2> QED
    BY <1>5, <2>1, <2>2, <2>3
<1>7. Todo = Size(name) + rest
  <2>1. Size(name) \in Nat
    BY SizeIs
  <2>2. Todo = Left(step) - 0
    BY <1>1, <1>3 DEF Todo
  <2> QED
    BY <1>6, <2>1, <2>2
<1>8. CASE Start!CanMalloc(w)
  <2>1. Start!Malloc(w) /\ stack' = Start!Found(w) /\ step' = step /\ boot' = boot
    BY <1>2, <1>4, <1>8 DEF Start!MallocStack, Start!pvPortMalloc
  <2>2. PICK b \in Blocks : b = Start!Found(w) /\ b \notin used
    BY <1>8, <2>1, MallocInv
  <2>3. used' = used \cup {b} /\ total' = total
    BY <2>1, <2>2 DEF Start!Malloc
  <2>4. b # Start!None
    BY NoneIsNone
  <2>5. OwnInv'
    <3>1. made \in Seq(Objects) /\ OwnedOnce(made) /\ used = OwnedIn(made)
      BY <1>3 DEF OwnInv
    <3>2. stack' = b /\ Start!Order[step'] \in Start!BootTasks /\ boot' = "main"
      BY <1>1, <1>2, <1>3, <2>1, <2>2
    <3>3. used' = OwnedIn(made') \cup ({stack'} \ {Start!None}) /\ stack' \notin OwnedIn(made')
      BY <1>3, <2>2, <2>3, <2>4, <3>1, <3>2
    <3> QED
      BY <1>3, <3>1, <3>2, <3>3 DEF OwnInv
  <2>6. MadeInv'
    BY <1>3, <2>1 DEF MadeInv
  <2>7. RoomInv'
    <3> SUFFICES ASSUME Large PROVE RoomInv'
      BY <2>3, LargeStays DEF RoomInv
    <3>1. Len(free) <= 1 /\ Todo <= xFreeBytesRemaining /\ \A i \in 1..(step - 1) : Has(made, Start!Order[i])
      BY DEF RoomInv
    <3>2. Len(free') <= 1 /\ rest <= xFreeBytesRemaining'
      BY <1>4, <1>5, <1>7, <1>8, <2>1, <3>1, RoomForRest
    <3>3. Todo' = Left(step) - Size(name)
      BY <1>1, <1>2, <2>1, <2>2, <2>4 DEF Todo
    <3>4. Todo' = rest
      <4>1. Size(name) \in Nat
        BY SizeIs
      <4> QED
        BY <1>6, <3>3, <4>1
    <3>5. boot' \in {"main", "running"} /\ \A i \in 1..(step' - 1) : Has(made', Start!Order[i])
      BY <1>1, <1>3, <2>1, <3>1
    <3> QED
      BY <3>2, <3>4, <3>5 DEF RoomInv
  <2> QED
    BY <2>5, <2>6, <2>7
<1>9. CASE ~Start!CanMalloc(w)
  <2>1. UNCHANGED Start!heap /\ Start!Continue(Start!Failed(Start!Order[step])) /\ stack' = stack
    BY <1>2, <1>4, <1>9 DEF Start!MallocStack, Start!pvPortMalloc
  <2>2. used' = used /\ total' = total
    BY <2>1 DEF Start!heap
  <2>3. OwnInv'
    BY <1>3, <2>1, <2>2 DEF OwnInv
  <2>4. MadeInv'
    BY <1>1, <1>3, <2>1, PassedOver
  <2>5. ~Large
    BY <1>4, <1>7, <1>9, RoomFor DEF RoomInv
  <2>6. RoomInv'
    BY <2>2, <2>5, LargeStays DEF RoomInv
  <2> QED
    BY <2>3, <2>4, <2>6
<1> QED
  BY <1>8, <1>9

(* What MallocTcb and TcbRefused start from. *)
LEMMA WithStack ==
  ASSUME StepInv, OwnInv, boot = "main", stack # Start!None
  PROVE  /\ step \in 1..8 /\ Start!Order[step] \in StartObjects /\ stack \in Blocks
         /\ Todo = Size("tcb") + Left(step + 1)
<1>1. step \in 1..8
  BY DEF StepInv
<1>2. PICK name \in StartObjects : name = Start!Order[step]
  BY <1>1, OrderIs
<1>3. name \in Start!BootTasks /\ stack \in Blocks
  BY <1>2 DEF OwnInv
<1>4. Size(name) \in Nat /\ Size("tcb") \in Nat /\ Left(step + 1) \in Nat
  BY <1>1, SizeIs, LeftNext DEF StartObjects
<1>5. Left(step) = Cost(step) + Left(step + 1)
  BY <1>1, LeftNext
<1>6. Cost(step) = Size(name) + Size("tcb")
  BY <1>2, <1>3 DEF Cost
<1>7. Todo = Left(step) - Size(name)
  BY <1>2 DEF Todo
<1>8. Todo = Size("tcb") + Left(step + 1)
  BY <1>4, <1>5, <1>6, <1>7
<1> QED
  BY <1>1, <1>2, <1>3, <1>8

(* MallocTcb *)
LEMMA TcbTakenInv ==
  ASSUME HeapInv, HeapInv', StepInv, OwnInv, MadeInv, RoomInv, Start!MallocTcb
  PROVE  OwnInv' /\ MadeInv' /\ RoomInv'
<1>1. /\ boot = "main" /\ stack # Start!None /\ stack' = Start!None
      /\ Start!CanMalloc(Sizes["tcb"]) /\ Start!Malloc(Sizes["tcb"]) /\ Start!Continue("main")
      /\ made' = Append(made, [name |-> Start!Order[step], blocks |-> {stack, Start!Found(Sizes["tcb"])}])
  BY DEF Start!MallocTcb, Start!Own
<1>2. /\ step \in 1..8 /\ Start!Order[step] \in StartObjects /\ stack \in Blocks
      /\ Todo = Size("tcb") + Left(step + 1)
  BY <1>1, WithStack
<1>3. PICK w \in Nat : w = Sizes["tcb"]
  BY SizesIs DEF StartObjects
<1>4. PICK b \in Blocks : b = Start!Found(w) /\ b \notin used
  BY <1>1, <1>3, MallocInv
<1>5. used' = used \cup {b} /\ total' = total
  BY <1>1, <1>3, <1>4 DEF Start!Malloc
<1>6. PICK r \in Objects : /\ r = [name |-> Start!Order[step], blocks |-> {stack, b}]
                           /\ r.name = Start!Order[step] /\ r.blocks = {stack, b}
  <2>1. {stack, b} \in SUBSET Blocks
    BY <1>2
  <2>2. [name |-> Start!Order[step], blocks |-> {stack, b}] \in Objects
    BY <1>2, <2>1 DEF Objects
  <2> QED
    BY <2>2
<1>7. /\ made \in Seq(Objects) /\ OwnedOnce(made) /\ stack \notin OwnedIn(made)
      /\ used = OwnedIn(made) \cup {stack}
  BY <1>1 DEF OwnInv
<1>8. made' = Append(made, r) /\ r.blocks \cap OwnedIn(made) = {}
  BY <1>1, <1>3, <1>4, <1>6, <1>7
<1>9. made' \in Seq(Objects) /\ OwnedOnce(made') /\ OwnedIn(made') = OwnedIn(made) \cup {stack, b}
  <2>1. made' \in Seq(Objects) /\ OwnedOnce(made') /\ OwnedIn(made') = OwnedIn(made) \cup r.blocks
    BY <1>7, <1>8, Appended
  <2> QED
    BY <1>6, <2>1
<1>10. Start!None \notin OwnedIn(made')
  <2>1. used \in SUBSET Blocks
    BY DEF HeapInv
  <2> QED
    BY <1>7, <1>9, <2>1, NoneIsNone
<1>11. OwnInv'
  BY <1>1, <1>5, <1>7, <1>9, <1>10 DEF OwnInv
<1>12. /\ MadeInv' /\ boot' \in {"main", "running"}
       /\ (\A i \in 1..(step - 1) : Has(made, Start!Order[i]))
            => \A i \in 1..(step' - 1) : Has(made', Start!Order[i])
  BY <1>1, <1>6, <1>7, <1>8, NowMade
<1>13. RoomInv'
  <2> SUFFICES ASSUME Large PROVE RoomInv'
    BY <1>5, LargeStays DEF RoomInv
  <2>1. Len(free) <= 1 /\ Todo <= xFreeBytesRemaining /\ \A i \in 1..(step - 1) : Has(made, Start!Order[i])
    BY DEF RoomInv
  <2>2. PICK rest \in Nat : rest = Left(step + 1) /\ (rest = 0 \/ rest >= 24)
    BY <1>2, LeftNext
  <2>3. "tcb" \in StartObjects /\ Size("tcb") + rest <= xFreeBytesRemaining
    BY <1>2, <2>1, <2>2 DEF StartObjects
  <2>4. Len(free') <= 1 /\ rest <= xFreeBytesRemaining'
    BY <1>1, <2>1, <2>2, <2>3, RoomForRest
  <2>5. Todo' = rest
    BY <1>1, <2>2, TodoMade
  <2> QED
    BY <1>12, <2>1, <2>4, <2>5 DEF RoomInv
<1> QED
  BY <1>11, <1>12, <1>13

(* TcbRefused *)
LEMMA TcbRefusedInv ==
  ASSUME HeapInv, HeapInv', StepInv, OwnInv, MadeInv, RoomInv, Start!TcbRefused
  PROVE  OwnInv' /\ MadeInv' /\ RoomInv'
<1>1. /\ boot = "main" /\ stack # Start!None /\ stack' = Start!None
      /\ ~Start!CanMalloc(Sizes["tcb"]) /\ Start!Continue(Start!Failed(Start!Order[step]))
      /\ made' = made /\ used' = used \ {stack} /\ total' = total
  BY DEF Start!TcbRefused, Start!FreeStack, Start!vPortFree
<1>2. step \in 1..8 /\ Todo = Size("tcb") + Left(step + 1)
  BY <1>1, WithStack
<1>3. /\ made \in Seq(Objects) /\ OwnedOnce(made) /\ stack \notin OwnedIn(made)
      /\ used = OwnedIn(made) \cup {stack}
  BY <1>1 DEF OwnInv
<1>4. OwnInv'
  <2>1. Start!None \notin OwnedIn(made)
    <3>1. used \in SUBSET Blocks
      BY DEF HeapInv
    <3> QED
      BY <1>3, <3>1, NoneIsNone
  <2> QED
    BY <1>1, <1>3, <2>1 DEF OwnInv
<1>5. MadeInv'
  BY <1>1, PassedOver
<1>6. ~Large
  <2> SUFFICES ASSUME Large PROVE FALSE
    OBVIOUS
  <2>1. PICK rest \in Nat : rest = Left(step + 1)
    BY <1>2, LeftNext
  <2>2. "tcb" \in StartObjects /\ Size("tcb") + rest <= xFreeBytesRemaining /\ Len(free) <= 1
    BY <1>2, <2>1 DEF StartObjects, RoomInv
  <2> QED
    BY <1>1, <2>1, <2>2, RoomFor
<1>7. RoomInv'
  BY <1>1, <1>6, LargeStays DEF RoomInv
<1> QED
  BY <1>4, <1>5, <1>7

(* The start begins with nothing made and everything to be taken. *)
LEMMA StartInvStarts ==
  ASSUME Start!Init PROVE StepInv /\ OwnInv /\ MadeInv /\ RoomInv
<1>1. step = 1 /\ stack = Start!None /\ made = << >> /\ boot = "main" /\ Start!HeapInit
  BY DEF Start!Init
<1>2. made \in Seq(Objects) /\ Len(made) = 0 /\ OwnedIn(made) = {} /\ OwnedOnce(made)
  BY <1>1 DEF OwnedIn, OwnedOnce
<1>3. OwnInv
  BY <1>1, <1>2 DEF OwnInv, Start!HeapInit
<1>4. StepInv /\ MadeInv
  BY <1>1 DEF StepInv, MadeInv
<1>5. RoomInv
  <2>1. Left(1) \in Nat /\ Left(1) = Start!Needed
    BY LeftIs, AllNeeded
  <2>2. Todo = Start!Needed
    BY <1>1, <2>1 DEF Todo
  <2>3. Len(free) = 1 /\ xFreeBytesRemaining = Start!pxEnd(total) - Start!uxStartAddress
    BY <1>1 DEF Start!HeapInit
  <2>4. xFreeBytesRemaining \in Nat /\ Start!Needed \in Nat
    BY <1>1, <2>1, HeapStarts DEF HeapInv
  <2> QED
    BY <1>1, <2>2, <2>3, <2>4 DEF RoomInv, Large
<1> QED
  BY <1>3, <1>4, <1>5

(* Each step of the start keeps its invariant. *)
LEMMA StartInvStep ==
  ASSUME HeapInv, StepInv, OwnInv, MadeInv, RoomInv, Start!Next
  PROVE  StepInv' /\ OwnInv' /\ MadeInv' /\ RoomInv'
<1>1. HeapInv' /\ StepInv'
  BY StartStep
<1> QED
  BY <1>1, QueueMadeInv, StackTakenInv, TcbTakenInv, TcbRefusedInv DEF Start!Next

(* The invariant says all that the runs check of the start. *)
LEMMA StartInvSound ==
  ASSUME StepInv, OwnInv, MadeInv, RoomInv PROVE Start!RunsComplete /\ Start!NoLeak
<1>1. Start!NoLeak
  <2>1. used = (UNION {made[i].blocks : i \in 1..Len(made)}) \cup ({stack} \ {Start!None})
    BY DEF OwnInv, OwnedIn
  <2>2. \A i, j \in 1..Len(made) : i # j => made[i].blocks \cap made[j].blocks = {}
    BY DEF OwnInv, OwnedOnce
  <2> QED
    BY <2>1, <2>2 DEF Start!NoLeak
<1>2. \A name : Has(made, name) <=> Start!Made(name)
  BY DEF Has, Start!Made
<1>3. ASSUME boot = "running", NEW name \in Vital PROVE Start!Made(name)
  <2>1. step = 9 /\ \A i \in 1..8 : Start!Order[i] \in Vital => Has(made, Start!Order[i])
    BY <1>3 DEF MadeInv
  <2>2. \E i \in 1..8 : Start!Order[i] = name
    BY <1>3 DEF Vital, Start!Order
  <2> QED
    BY <1>2, <1>3, <2>1, <2>2
<1>4. ASSUME Large, boot = "running", NEW name \in Start!Range(Start!Order) PROVE Start!Made(name)
  <2>1. step = 9 /\ \A i \in 1..8 : Has(made, Start!Order[i])
    BY <1>4 DEF MadeInv, RoomInv
  <2>2. \E i \in 1..8 : Start!Order[i] = name
    BY <1>4 DEF Start!Range, Start!Order
  <2> QED
    BY <1>2, <2>1, <2>2
<1>5. Large => boot \notin {"FATAL", "ASSERT"}
  BY DEF RoomInv
<1> QED
  BY <1>1, <1>3, <1>4, <1>5 DEF Start!RunsComplete, Vital, Large

(* However small the heap and whatever the sizes: the scheduler runs only   *)
(* with the objects that the tasks use unchecked, a heap that is large enough *)
(* gives all of them, and a task that could not be made has left nothing    *)
(* behind.                                                                  *)
THEOREM StartIsSound == MCSpec => []StartSound
<1>1. MCInit => HeapInv /\ StepInv /\ StartInv
  <2> SUFFICES ASSUME MCInit PROVE HeapInv /\ StepInv /\ StartInv
    OBVIOUS
  <2>1. Start!Init /\ Start!HeapInit
    BY DEF MCInit, Start!Init
  <2> QED
    BY <2>1, HeapStarts, StartInvStarts DEF StartInv
<1>2. HeapInv /\ StepInv /\ StartInv /\ [MCNext]_<<side, vars, memory>> => HeapInv' /\ StepInv' /\ StartInv'
  <2> SUFFICES ASSUME HeapInv, StepInv, StartInv, [MCNext]_<<side, vars, memory>>
               PROVE  HeapInv' /\ StepInv' /\ StartInv'
    OBVIOUS
  <2>1. side' = side
    BY DEF MCNext
  <2>2. CASE UNCHANGED memory
    <3>1. UNCHANGED Start!heap /\ UNCHANGED <<total, free, used, xFreeBytesRemaining, step, stack, made, boot>>
      BY <2>2 DEF memory, Start!heap
    <3>2. HeapInv' /\ StepInv'
      BY <3>1, HeapStutters DEF StepInv
    <3>3. StartInv'
      BY <2>1, <3>1, <3>2 DEF StartInv, OwnInv, MadeInv, RoomInv, Todo, Large
    <3> QED
      BY <3>2, <3>3
  <2>3. CASE side = "start" /\ Start!Next
    <3>1. StepInv /\ OwnInv /\ MadeInv /\ RoomInv
      BY <2>3 DEF StartInv
    <3>2. StepInv' /\ OwnInv' /\ MadeInv' /\ RoomInv' /\ HeapInv'
      BY <2>3, <3>1, StartInvStep, StartStep
    <3> QED
      BY <3>2 DEF StartInv
  <2>4. CASE side = "heap" /\ Start!HeapNext /\ UNCHANGED <<step, boot>>
    BY <2>1, <2>4, HeapStep DEF StepInv, StartInv
  <2> QED
    BY <2>2, <2>3, <2>4 DEF MCNext
<1>3. HeapInv /\ StepInv /\ StartInv => StartSound
  BY StartInvSound DEF StartSound, StartInv
<1> QED
  BY <1>1, <1>2, <1>3, PTL DEF MCSpec
=============================================================================

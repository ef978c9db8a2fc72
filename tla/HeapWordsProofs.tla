-------------------------- MODULE HeapWordsProofs ---------------------------
(***************************************************************************)
(* The kernel heap for any size of heap, block sizes and layouts: the free *)
(* lists that live in the free blocks implement those of KernelHeap, and   *)
(* blocks do not overlap, fit what was asked for, and none is lost.        *)
(*                                                                         *)
(* The first half is about Lists and Held, which are what HeapWords gives  *)
(* KernelHeap for its variables; the second half follows the pointers.     *)
(***************************************************************************)
EXTENDS HeapWords, SequenceTheorems, FiniteSetTheorems, NaturalsInduction, WellFoundedInduction, TLAPS

(* The free lists by their pointers, and the blocks callers hold. *)
Lists == [i \in Indices |-> Chain(list_heads[i])]
Held  == {[at |-> b.at, layout |-> b.layout] : b \in live}

(* The blocks on a free list, each of them once. *)
Free(i)     == {Lists[i][n] : n \in 1..Len(Lists[i])}
Once(i)     == \A m, n \in 1..Len(Lists[i]) : Lists[i][m] = Lists[i][n] => m = n
Piece(i, x) == Units(x, BLOCK_SIZES[i])

BlockTypes ==
  /\ Lists \in [Indices -> Seq(HeapUnits)]
  /\ taken \subseteq HeapUnits
  /\ Held \subseteq [at: HeapUnits, layout: Layouts]

(* A block is aligned to its own size, so that it suits every layout that     *)
(* list_index sends to its list.                                              *)
AlignedInv ==
  /\ \A b \in Held : b.at % block_align(b.layout) = 0
  /\ \A i \in Indices : \A x \in Free(i) : x % BLOCK_SIZES[i] = 0

DisjointInv ==
  /\ \A b, c \in Held : b # c => Extent(b) \cap Extent(c) = {}
  /\ \A b \in Held, i \in Indices : \A x \in Free(i) : Extent(b) \cap Piece(i, x) = {}
  /\ \A i, j \in Indices : \A x \in Free(i), y \in Free(j) :
       <<i, x>> # <<j, y>> => Piece(i, x) \cap Piece(j, y) = {}
  /\ \A i \in Indices : Once(i)

(* What the linked-list allocator has handed out is in a block. *)
CoverInv ==
  \A u : u \in taken <=> \/ \E b \in Held : u \in Extent(b)
                         \/ \E i \in Indices : \E x \in Free(i) : u \in Piece(i, x)

Blocks == BlockTypes /\ AlignedInv /\ DisjointInv /\ CoverInv

-----------------------------------------------------------------------------
(* The steps of KernelHeap on these lists and blocks *)

ListAlloc(l) ==
  /\ list_index(l) # 0 /\ Lists[list_index(l)] # <<>>
  /\ Held' = Held \cup {[at |-> Head(Lists[list_index(l)]), layout |-> l]}
  /\ Lists' = [Lists EXCEPT ![list_index(l)] = Tail(Lists[list_index(l)])]
  /\ taken' = taken

NewAlloc(l) ==
  /\ list_index(l) # 0 => Lists[list_index(l)] = <<>>
  /\ \E at \in HeapUnits :
       /\ allocate_first_fit(at, block_size(l), block_align(l))
       /\ Held' = Held \cup {[at |-> at, layout |-> l]}
  /\ Lists' = Lists

Release(b) ==
  /\ b \in Held /\ Held' = Held \ {b}
  /\ IF list_index(b.layout) # 0
       THEN /\ Lists' = [Lists EXCEPT ![list_index(b.layout)] =
                            <<b.at>> \o Lists[list_index(b.layout)]]
            /\ taken' = taken
       ELSE /\ taken' = taken \ Units(b.at, b.layout.size)
            /\ Lists' = Lists

-----------------------------------------------------------------------------
(* Natural numbers *)

(* Every nonempty set of naturals has a least element: what a search of the   *)
(* code for the first index with some property finds.                         *)
LEMMA Least ==
  ASSUME NEW S \in SUBSET Nat, S # {}
  PROVE  \E n \in S : \A m \in S : n <= m
<1> DEFINE R == OpToRel(<, Nat)
<1>1. IsWellFoundedOn(R, Nat)
  BY Zenon, NatLessThanWellFounded
<1>2. PICK n \in S : \A m \in S : <<m, n>> \notin R
  <2> HIDE DEF R
  <2> QED
    BY Zenon, <1>1, WFMin
<1>3. ASSUME NEW m \in S PROVE ~(m < n)
  <2>1. m \in Nat /\ n \in Nat
    OBVIOUS
  <2>2. m < n => <<m, n>> \in R
    BY <2>1 DEF OpToRel
  <2> QED
    BY Zenon, <1>2, <2>2
<1>4. \A m \in S : n <= m
  BY <1>3
<1> QED
  BY <1>4

(* Induction over the naturals, for a set of them: the passes of a loop. *)
LEMMA SetInduction ==
  ASSUME NEW T \in SUBSET Nat, 0 \in T, \A n \in T : n + 1 \in T
  PROVE  T = Nat
<1> SUFFICES ASSUME Nat \ T # {} PROVE FALSE
  BY Zenon
<1>1. PICK n \in Nat \ T : \A m \in Nat \ T : n <= m
  BY Zenon, Least
<1>2. n # 0 /\ n - 1 \in Nat /\ n - 1 + 1 = n
  BY <1>1
<1>3. n - 1 \in T
  BY <1>1, <1>2
<1> QED
  BY <1>1, <1>2, <1>3

-----------------------------------------------------------------------------
(* Sizes *)

(* list_index takes the first block size. *)
LEMMA LeastOf ==
  ASSUME NEW S \in SUBSET Nat, S # {}
  PROVE  Min(S) \in S
  BY Zenon, Least DEF Min

(* The larger of two numbers. *)
LEMMA MaxPair ==
  ASSUME NEW a \in Nat, NEW b \in Nat
  PROVE  Max({a, b}) = IF a >= b THEN a ELSE b
<1>1. \E x \in {a, b} : \A y \in {a, b} : x >= y
  OBVIOUS
<1>2. Max({a, b}) \in {a, b} /\ \A y \in {a, b} : Max({a, b}) >= y
  BY Zenon, <1>1 DEF Max
<1> QED
  BY <1>2

(* list_index finds a block size that holds size and alignment, if any does. *)
LEMMA IndexFits ==
  ASSUME NEW l \in Layouts, list_index(l) # 0
  PROVE  /\ list_index(l) \in Indices
         /\ BLOCK_SIZES[list_index(l)] >= l.size /\ BLOCK_SIZES[list_index(l)] >= l.align
<1> DEFINE fits == {i \in Indices : BLOCK_SIZES[i] >= Max({l.size, l.align})}
<1>1. l.size \in Nat /\ l.align \in Nat
  BY Zenon, HeapAssumption
<1>2. Len(BLOCK_SIZES) \in Nat /\ \A i \in Indices : BLOCK_SIZES[i] \in Nat /\ i \in Nat
  BY HeapAssumption, ElementOfSeq DEF Indices
<1>3. list_index(l) = IF fits = {} THEN 0 ELSE Min(fits)
  BY Zenon DEF list_index
<1>4. fits \in SUBSET Nat /\ fits # {}
  BY Zenon, <1>2, <1>3
<1>5. list_index(l) \in fits
  BY Zenon, <1>3, <1>4, LeastOf
<1>6. BLOCK_SIZES[list_index(l)] >= Max({l.size, l.align}) /\ list_index(l) \in Indices
  BY Zenon, <1>5
<1> HIDE DEF fits
<1>7. Max({l.size, l.align}) = IF l.size >= l.align THEN l.size ELSE l.align
  BY Zenon, <1>1, MaxPair
<1> QED
  BY SMTT(30), <1>1, <1>2, <1>6, <1>7

(* What the linked-list allocator is asked for. *)
LEMMA BlockFacts ==
  ASSUME NEW l \in Layouts
  PROVE  /\ block_size(l) \in Nat \ {0} /\ block_align(l) \in Nat \ {0} /\ block_size(l) >= l.size
         /\ list_index(l) # 0 => block_size(l) = BLOCK_SIZES[list_index(l)]
                                 /\ block_align(l) = BLOCK_SIZES[list_index(l)]
                                 /\ list_index(l) \in Indices
         /\ list_index(l) = 0 => block_size(l) = l.size /\ block_align(l) = l.align
         /\ list_index(l) # 0 => block_align(l) % l.align = 0
<1>1. l.size \in Nat \ {0} /\ l.align \in Nat \ {0}
  BY Zenon, HeapAssumption
<1>2. CASE list_index(l) = 0
  BY <1>1, <1>2 DEF block_size, block_align
<1>3. CASE list_index(l) # 0
  <2> DEFINE i == list_index(l)
  <2>1. i \in Indices /\ BLOCK_SIZES[i] >= l.size /\ BLOCK_SIZES[i] >= l.align
    BY Zenon, <1>3, IndexFits
  <2>2. BLOCK_SIZES[i] \in Nat \ {0}
    BY Zenon, <2>1, HeapAssumption, ElementOfSeq DEF Indices
  <2>3. BLOCK_SIZES[i] % l.align = 0
    BY Zenon, <2>1, HeapAssumption
  <2> QED
    BY Zenon, <1>3, <2>1, <2>2, <2>3 DEF block_size, block_align
<1> QED
  BY Zenon, <1>2, <1>3

(* A block has the units asked for. *)
LEMMA UnitsFacts ==
  ASSUME NEW at \in Nat, NEW size \in Nat \ {0}
  PROVE  at \in Units(at, size) /\ at..(at + size - 1) \subseteq Units(at, size)
<1>1. MinHole \in Nat \ {0}
  BY Zenon, HeapAssumption
<1>2. Max({size, MinHole}) = IF size >= MinHole THEN size ELSE MinHole
  BY Zenon, <1>1, MaxPair
<1> DEFINE m == IF size >= MinHole THEN size ELSE MinHole
<1>3. Units(at, size) = at..(at + m - 1)
  BY Zenon, <1>2 DEF Units
<1>4. m \in Nat /\ m >= size /\ m >= 1
  BY <1>1
<1> HIDE DEF m
<1>5. \A u \in at..(at + size - 1) : u \in at..(at + m - 1)
  BY <1>4
<1>6. at \in at..(at + m - 1)
  BY <1>4
<1> QED
  BY Zenon, <1>3, <1>5, <1>6

(* A block aligned to its size is aligned to what divides that. *)
LEMMA AlignedTo ==
  ASSUME NEW at \in Nat, NEW size \in Nat \ {0}, NEW align \in Nat \ {0},
         at % size = 0, size % align = 0
  PROVE  at % align = 0
<1>1. PICK q \in Int : at = q * size
  <2>1. at \div size \in Int
    OBVIOUS
  <2>2. at = size * (at \div size)
    OBVIOUS
  <2> QED
    BY <2>1, <2>2
<1>2. PICK r \in Int : size = r * align
  <2>1. size \div align \in Int
    OBVIOUS
  <2>2. size = align * (size \div align)
    OBVIOUS
  <2> QED
    BY <2>1, <2>2
<1>3. PICK k \in Int : k = q * r
  OBVIOUS
<1>4. at = k * align
  BY <1>1, <1>2, <1>3
<1>5. (k * align) % align = 0
  OBVIOUS
<1> QED
  BY Zenon, <1>4, <1>5

-----------------------------------------------------------------------------
(* The free lists *)

(* A sequence with a block in front. *)
LEMMA Front ==
  ASSUME NEW x \in HeapUnits, NEW s \in Seq(HeapUnits)
  PROVE  /\ <<x>> \o s \in Seq(HeapUnits) /\ Len(s) \in Nat /\ Len(<<x>> \o s) = Len(s) + 1
         /\ (<<x>> \o s)[1] = x /\ \A n \in 1..Len(s) : (<<x>> \o s)[n + 1] = s[n]
         /\ \A k \in 1..Len(s) + 1 : k = 1 \/ (k - 1 \in 1..Len(s) /\ (<<x>> \o s)[k] = s[k - 1])
<1>1. <<x>> \in Seq(HeapUnits) /\ Len(<<x>>) = 1 /\ <<x>>[1] = x
  OBVIOUS
<1> DEFINE a == <<x>>
<1> HIDE DEF a
<1>2. a \in Seq(HeapUnits) /\ Len(a) = 1 /\ a[1] = x
  BY Zenon, <1>1 DEF a
<1>3. /\ a \o s \in Seq(HeapUnits) /\ Len(a \o s) = Len(a) + Len(s)
      /\ \A n \in 1..Len(a) + Len(s) : (a \o s)[n] = IF n <= Len(a) THEN a[n] ELSE s[n - Len(a)]
  BY Zenon, <1>2, ConcatProperties
<1>4. Len(s) \in Nat
  BY Zenon, LenProperties
<1>5. \A n \in 1..Len(s) : (a \o s)[n + 1] = s[n]
  <2> TAKE n \in 1..Len(s)
  <2>1. n + 1 \in 1..Len(a) + Len(s) /\ ~(n + 1 <= Len(a)) /\ (n + 1) - Len(a) = n
    BY <1>2, <1>4
  <2> QED
    BY Zenon, <2>1, <1>3
<1>6. (a \o s)[1] = x
  BY <1>2, <1>3, <1>4
<1>7. \A k \in 1..Len(s) + 1 : k = 1 \/ (k - 1 \in 1..Len(s) /\ (a \o s)[k] = s[k - 1])
  <2> TAKE k \in 1..Len(s) + 1
  <2>1. k # 1 => k - 1 \in 1..Len(s) /\ k - 1 + 1 = k
    BY <1>4
  <2> QED
    BY Zenon, <2>1, <1>5
<1> QED
  BY <1>2, <1>3, <1>4, <1>5, <1>6, <1>7 DEF a

(* It has every block once if the block was not there. *)
LEMMA FrontOnce ==
  ASSUME NEW x \in HeapUnits, NEW s \in Seq(HeapUnits), \A n \in 1..Len(s) : s[n] # x,
         \A m, n \in 1..Len(s) : s[m] = s[n] => m = n
  PROVE  LET t == <<x>> \o s IN \A m, n \in 1..Len(t) : t[m] = t[n] => m = n
<1> DEFINE t == <<x>> \o s
<1>1. /\ Len(s) \in Nat /\ Len(t) = Len(s) + 1 /\ t[1] = x
      /\ \A k \in 1..Len(s) + 1 : k = 1 \/ (k - 1 \in 1..Len(s) /\ t[k] = s[k - 1])
  BY Zenon, Front
<1> HIDE DEF t
<1> SUFFICES ASSUME NEW m \in 1..Len(t), NEW n \in 1..Len(t), t[m] = t[n]
             PROVE  m = n
  BY Zenon DEF t
<1>2. m = 1 <=> n = 1
  BY SMTT(30), <1>1
<1>3. m # 1 => m - 1 = n - 1
  BY SMTT(30), <1>1, <1>2
<1> QED
  BY <1>1, <1>2, <1>3

(* So does a sequence without its first block. *)
LEMMA TailOnce ==
  ASSUME NEW s \in Seq(HeapUnits), s # <<>>, \A m, n \in 1..Len(s) : s[m] = s[n] => m = n
  PROVE  /\ Tail(s) \in Seq(HeapUnits) /\ Len(s) \in Nat /\ Len(s) >= 1
         /\ Len(Tail(s)) = Len(s) - 1 /\ Head(s) = s[1]
         /\ \A n \in 1..Len(s) - 1 : Tail(s)[n] = s[n + 1] /\ s[n + 1] # s[1]
         /\ \A m, n \in 1..Len(Tail(s)) : Tail(s)[m] = Tail(s)[n] => m = n
<1>1. /\ Tail(s) \in Seq(HeapUnits) /\ Len(s) \in Nat /\ Len(s) >= 1 /\ Len(Tail(s)) = Len(s) - 1
      /\ Head(s) = s[1] /\ \A n \in 1..Len(s) - 1 : Tail(s)[n] = s[n + 1]
  OBVIOUS
<1>2. \A m, n \in 1..Len(Tail(s)) : Tail(s)[m] = Tail(s)[n] => m = n
  <2> SUFFICES ASSUME NEW m \in 1..Len(s) - 1, NEW n \in 1..Len(s) - 1, s[m + 1] = s[n + 1]
               PROVE  m = n
    BY Zenon, <1>1
  <2>1. m + 1 \in 1..Len(s) /\ n + 1 \in 1..Len(s)
    BY <1>1
  <2>2. m + 1 = n + 1
    BY Zenon, <2>1
  <2> QED
    BY <2>2
<1>3. \A n \in 1..Len(s) - 1 : s[n + 1] # s[1]
  <2> TAKE n \in 1..Len(s) - 1
  <2>1. n + 1 \in 1..Len(s) /\ 1 \in 1..Len(s) /\ n + 1 # 1
    BY <1>1
  <2> QED
    BY Zenon, <2>1
<1> QED
  BY Zenon, <1>1, <1>2, <1>3

(* alloc takes the first block of a list. *)
LEMMA Popped ==
  ASSUME BlockTypes, NEW i \in Indices, Lists[i] # <<>>, Once(i),
         Lists' = [Lists EXCEPT ![i] = Tail(Lists[i])]
  PROVE  /\ Lists' \in [Indices -> Seq(HeapUnits)]
         /\ Head(Lists[i]) \in Free(i) /\ Head(Lists[i]) \in HeapUnits
         /\ Free(i)' = Free(i) \ {Head(Lists[i])} /\ Once(i)'
         /\ \A j \in Indices : j # i => Free(j)' = Free(j) /\ (Once(j)' <=> Once(j))
<1> DEFINE s == Lists[i]
<1>1. s \in Seq(HeapUnits) /\ Lists \in [Indices -> Seq(HeapUnits)] /\ s # <<>>
  BY Zenon DEF BlockTypes
<1>2. Lists'[i] = Tail(s) /\ \A j \in Indices : j # i => Lists'[j] = Lists[j]
  BY Zenon, <1>1
<1> HIDE DEF s
<1>3. /\ Tail(s) \in Seq(HeapUnits) /\ Len(s) \in Nat /\ Len(s) >= 1 /\ Len(Tail(s)) = Len(s) - 1
      /\ Head(s) = s[1] /\ \A n \in 1..Len(s) - 1 : Tail(s)[n] = s[n + 1]
  BY <1>1
<1>4. Lists' \in [Indices -> Seq(HeapUnits)]
  BY Zenon, <1>1, <1>2, <1>3 DEF s
<1>5. 1 \in 1..Len(s) /\ s[1] \in HeapUnits
  BY <1>1, <1>3, ElementOfSeq
<1>6. \A m, n \in 1..Len(s) : s[m] = s[n] => m = n
  BY Zenon DEF Once, s
<1>7. \A m, n \in 1..Len(Tail(s)) : Tail(s)[m] = Tail(s)[n] => m = n
  BY Zenon, <1>1, <1>6, TailOnce
<1>8. {Tail(s)[n] : n \in 1..Len(Tail(s))} = {s[n] : n \in 1..Len(s)} \ {s[1]}
  <2>1. ASSUME NEW n \in 1..Len(Tail(s))
        PROVE  Tail(s)[n] \in {s[m] : m \in 1..Len(s)} \ {s[1]}
    <3>1. n + 1 \in 1..Len(s) /\ n + 1 # 1 /\ Tail(s)[n] = s[n + 1]
      BY <1>3
    <3>2. s[n + 1] # s[1]
      BY Zenon, <3>1, <1>5, <1>6
    <3> QED
      BY Zenon, <3>1, <3>2
  <2>2. ASSUME NEW m \in 1..Len(s), s[m] # s[1]
        PROVE  s[m] \in {Tail(s)[n] : n \in 1..Len(Tail(s))}
    <3>1. m - 1 \in 1..Len(Tail(s)) /\ m - 1 + 1 = m /\ m - 1 \in 1..Len(s) - 1
      BY <2>2, <1>3
    <3>2. Tail(s)[m - 1] = s[m]
      BY Zenon, <3>1, <1>3
    <3> QED
      BY Zenon, <3>1, <3>2
  <2> QED
    BY ZenonT(30), <2>1, <2>2
<1>9. Free(i)' = Free(i) \ {Head(s)} /\ Head(s) \in Free(i)
  <2>1. Free(i)' = {Tail(s)[n] : n \in 1..Len(Tail(s))}
    BY Zenon, <1>2 DEF Free
  <2>2. Free(i) = {s[n] : n \in 1..Len(s)}
    BY Zenon DEF Free, s
  <2> QED
    BY Zenon, <2>1, <2>2, <1>3, <1>5, <1>8
<1>10. Once(i)'
  BY <1>2, <1>7 DEF Once
<1>11. \A j \in Indices : j # i => Free(j)' = Free(j) /\ (Once(j)' <=> Once(j))
  BY <1>2 DEF Free, Once
<1> QED
  BY Zenon, <1>3, <1>4, <1>5, <1>9, <1>10, <1>11 DEF s

(* dealloc puts a block in front. *)
LEMMA Pushed ==
  ASSUME BlockTypes, NEW i \in Indices, NEW at \in HeapUnits, at \notin Free(i), Once(i),
         Lists' = [Lists EXCEPT ![i] = <<at>> \o Lists[i]]
  PROVE  /\ Lists' \in [Indices -> Seq(HeapUnits)]
         /\ Free(i)' = Free(i) \cup {at} /\ Once(i)'
         /\ \A j \in Indices : j # i => Free(j)' = Free(j) /\ (Once(j)' <=> Once(j))
<1> DEFINE s == Lists[i]
           t == <<at>> \o s
<1>1. s \in Seq(HeapUnits) /\ Lists \in [Indices -> Seq(HeapUnits)]
  BY Zenon DEF BlockTypes
<1>2. Lists'[i] = t /\ \A j \in Indices : j # i => Lists'[j] = Lists[j]
  BY Zenon, <1>1
<1> HIDE DEF s
<1>3. /\ t \in Seq(HeapUnits) /\ Len(s) \in Nat /\ Len(t) = Len(s) + 1 /\ t[1] = at
      /\ \A n \in 1..Len(s) : t[n + 1] = s[n]
  BY Zenon, <1>1, Front
<1> HIDE DEF t
<1>4. Lists' \in [Indices -> Seq(HeapUnits)]
  BY Zenon, <1>1, <1>3 DEF s, t
<1>5. \A k \in 1..Len(t) : k = 1 \/ (k - 1 \in 1..Len(s) /\ t[k] = s[k - 1])
  <2> TAKE k \in 1..Len(t)
  <2>1. k # 1 => k - 1 \in 1..Len(s) /\ k - 1 + 1 = k
    BY <1>3
  <2> QED
    BY Zenon, <2>1, <1>3
<1>6. \A n \in 1..Len(s) : s[n] # at /\ n + 1 \in 1..Len(t)
  BY SMTT(30), <1>3 DEF Free, s
<1>7. \A m, n \in 1..Len(s) : s[m] = s[n] => m = n
  BY Zenon DEF Once, s
<1>8. \A m, n \in 1..Len(t) : t[m] = t[n] => m = n
  BY Zenon, <1>1, <1>6, <1>7, FrontOnce DEF t
<1>9. {t[n] : n \in 1..Len(t)} = {s[n] : n \in 1..Len(s)} \cup {at}
  <2>1. ASSUME NEW k \in 1..Len(t) PROVE t[k] \in {s[n] : n \in 1..Len(s)} \cup {at}
    BY Zenon, <1>3, <1>5
  <2>2. ASSUME NEW n \in 1..Len(s) PROVE s[n] \in {t[k] : k \in 1..Len(t)}
    BY Zenon, <1>3, <1>6
  <2>3. 1 \in 1..Len(t)
    BY <1>3
  <2>4. at \in {t[k] : k \in 1..Len(t)}
    BY Zenon, <2>3, <1>3
  <2> QED
    BY Zenon, <2>1, <2>2, <2>4
<1>10. Free(i)' = Free(i) \cup {at} /\ Once(i)'
  <2>1. Free(i)' = {t[n] : n \in 1..Len(t)}
    BY Zenon, <1>2 DEF Free
  <2>2. Free(i) = {s[n] : n \in 1..Len(s)}
    BY Zenon DEF Free, s
  <2>3. Once(i)'
    BY <1>2, <1>8 DEF Once
  <2> QED
    BY Zenon, <2>1, <2>2, <2>3, <1>9
<1>11. \A j \in Indices : j # i => Free(j)' = Free(j) /\ (Once(j)' <=> Once(j))
  <2> SUFFICES ASSUME NEW j \in Indices, j # i PROVE Free(j)' = Free(j) /\ (Once(j)' <=> Once(j))
    BY Zenon
  <2>1. Lists'[j] = Lists[j]
    BY Zenon, <1>2
  <2>2. Free(j)' = Free(j)
    BY Zenon, <2>1 DEF Free
  <2>3. Once(j)' <=> Once(j)
    BY ZenonT(30), <2>1 DEF Once
  <2> QED
    BY Zenon, <2>2, <2>3
<1> QED
  BY Zenon, <1>4, <1>10, <1>11

-----------------------------------------------------------------------------
(* The steps *)

(* The units of a block hold its address. *)
LEMMA BlockTyped ==
  ASSUME NEW l \in Layouts, NEW at \in HeapUnits, NEW b, b = [at |-> at, layout |-> l]
  PROVE  /\ b.at = at /\ b.layout = l /\ b \in [at: HeapUnits, layout: Layouts]
         /\ Extent(b) = Units(at, block_size(l)) /\ at \in Extent(b)
         /\ list_index(l) # 0 => Extent(b) = Piece(list_index(l), at)
<1>1. b.at = at /\ b.layout = l /\ b \in [at: HeapUnits, layout: Layouts]
  BY Zenon
<1>2. at \in Nat
  BY HeapAssumption DEF HeapUnits
<1>3. at \in Units(at, block_size(l))
  BY Zenon, <1>2, BlockFacts, UnitsFacts
<1>4. Extent(b) = Units(at, block_size(l))
  BY Zenon, <1>1 DEF Extent
<1>5. list_index(l) # 0 => Extent(b) = Piece(list_index(l), at)
  BY Zenon, <1>4, BlockFacts DEF Piece
<1> QED
  BY Zenon, <1>1, <1>3, <1>4, <1>5

(* alloc from a list: a block changes hands. *)
LEMMA FromList ==
  ASSUME Blocks, NEW l \in Layouts, ListAlloc(l)
  PROVE  Blocks'
<1> DEFINE i == list_index(l)
           x == Head(Lists[i])
           b == [at |-> x, layout |-> l]
<1>1. /\ i # 0 /\ Lists[i] # <<>> /\ Held' = Held \cup {b} /\ taken' = taken
      /\ Lists' = [Lists EXCEPT ![i] = Tail(Lists[i])]
  BY Zenon DEF ListAlloc
<1>2. i \in Indices
  BY Zenon, <1>1, BlockFacts
<1>3. BlockTypes /\ AlignedInv /\ DisjointInv /\ CoverInv /\ Once(i)
  BY Zenon, <1>2 DEF Blocks, DisjointInv
<1> HIDE DEF i
<1>4. /\ Lists' \in [Indices -> Seq(HeapUnits)] /\ x \in Free(i) /\ x \in HeapUnits
      /\ Free(i)' = Free(i) \ {x} /\ Once(i)'
      /\ \A j \in Indices : j # i => Free(j)' = Free(j) /\ (Once(j)' <=> Once(j))
  BY Zenon, <1>1, <1>2, <1>3, Popped
<1> HIDE DEF x
<1>5. /\ b.at = x /\ b.layout = l /\ b \in [at: HeapUnits, layout: Layouts]
      /\ Extent(b) = Piece(i, x)
  BY Zenon, <1>1, <1>4, BlockTyped DEF i
<1> HIDE DEF b
<1>6. \A j \in Indices : Free(j)' \subseteq Free(j) /\ (j = i => x \notin Free(j)')
  BY Zenon, <1>4
<1>7. BlockTypes'
  BY Zenon, <1>1, <1>3, <1>4, <1>5 DEF BlockTypes
<1>8. AlignedInv'
  <2>1. x % block_align(l) = 0
    <3>1. block_align(l) = BLOCK_SIZES[i]
      BY Zenon, <1>1, BlockFacts DEF i
    <3> QED
      BY Zenon, <3>1, <1>2, <1>3, <1>4 DEF AlignedInv
  <2> QED
    BY Zenon, <2>1, <1>1, <1>3, <1>5, <1>6 DEF AlignedInv
<1>9. DisjointInv'
  <2>1. \A c \in Held : Extent(b) \cap Extent(c) = {}
    BY <1>2, <1>3, <1>4, <1>5 DEF DisjointInv
  <2>2. \A j \in Indices : \A y \in Free(j)' : Extent(b) \cap Piece(j, y) = {}
    <3> SUFFICES ASSUME NEW j \in Indices, NEW y \in Free(j)'
                 PROVE  Piece(i, x) \cap Piece(j, y) = {}
      BY Zenon, <1>5
    <3>1. y \in Free(j) /\ (j # i \/ x # y)
      BY Zenon, <1>6
    <3> QED
      BY Zenon, <3>1, <1>2, <1>3, <1>4 DEF DisjointInv
  <2>3. \A j \in Indices : Once(j)'
    BY Zenon, <1>3, <1>4 DEF DisjointInv
  <2>4. \A c, d \in Held' : c # d => Extent(c) \cap Extent(d) = {}
    BY Zenon, <2>1, <1>1, <1>3 DEF DisjointInv
  <2>5. \A c \in Held', j \in Indices : \A y \in Free(j)' : Extent(c) \cap Piece(j, y) = {}
    BY Zenon, <2>2, <1>1, <1>3, <1>6 DEF DisjointInv
  <2>6. \A j, k \in Indices : \A y \in Free(j)', z \in Free(k)' :
          <<j, y>> # <<k, z>> => Piece(j, y) \cap Piece(k, z) = {}
    BY Zenon, <1>3, <1>6 DEF DisjointInv
  <2> QED
    BY Zenon, <2>3, <2>4, <2>5, <2>6 DEF DisjointInv
<1>10. CoverInv'
  <2> SUFFICES ASSUME NEW u
               PROVE  u \in taken <=> \/ \E c \in Held' : u \in Extent(c)
                                      \/ \E j \in Indices : \E y \in Free(j)' : u \in Piece(j, y)
    BY Zenon, <1>1 DEF CoverInv
  <2>1. u \in taken <=> \/ \E c \in Held : u \in Extent(c)
                        \/ \E j \in Indices : \E y \in Free(j) : u \in Piece(j, y)
    BY Zenon, <1>3 DEF CoverInv
  <2>2. (\E j \in Indices : \E y \in Free(j) : u \in Piece(j, y))
          <=> \/ u \in Piece(i, x)
              \/ \E j \in Indices : \E y \in Free(j)' : u \in Piece(j, y)
    BY Zenon, <1>2, <1>4
  <2>3. (\E c \in Held' : u \in Extent(c)) <=> u \in Piece(i, x) \/ \E c \in Held : u \in Extent(c)
    BY Zenon, <1>1, <1>5
  <2> QED
    BY Zenon, <2>1, <2>2, <2>3
<1> QED
  BY Zenon, <1>7, <1>8, <1>9, <1>10 DEF Blocks

(* A new block is carved out of what no block has. *)
LEMMA FromHeap ==
  ASSUME Blocks, NEW l \in Layouts, NewAlloc(l)
  PROVE  Blocks'
<1>1. PICK at \in HeapUnits :
        /\ allocate_first_fit(at, block_size(l), block_align(l))
        /\ Held' = Held \cup {[at |-> at, layout |-> l]} /\ Lists' = Lists
  BY Zenon DEF NewAlloc
<1> DEFINE b == [at |-> at, layout |-> l]
<1>2. /\ b.at = at /\ b.layout = l /\ b \in [at: HeapUnits, layout: Layouts]
      /\ Extent(b) = Units(at, block_size(l))
  BY Zenon, BlockTyped
<1>3. Held' = Held \cup {b}
  BY Zenon, <1>1
<1> HIDE DEF b
<1>4. /\ at % block_align(l) = 0 /\ Extent(b) \subseteq HeapUnits /\ Extent(b) \cap taken = {}
      /\ taken' = taken \cup Extent(b)
  BY Zenon, <1>1, <1>2 DEF allocate_first_fit
<1>5. \A i \in Indices : Free(i)' = Free(i) /\ (Once(i)' <=> Once(i))
  BY Zenon, <1>1 DEF Free, Once
<1>6. BlockTypes /\ AlignedInv /\ DisjointInv /\ CoverInv
  BY Zenon DEF Blocks
<1>7. BlockTypes'
  BY Zenon, <1>1, <1>2, <1>3, <1>4, <1>6 DEF BlockTypes
<1>8. AlignedInv'
  BY Zenon, <1>2, <1>3, <1>4, <1>5, <1>6 DEF AlignedInv
<1>9. DisjointInv'
  <2>1. \A c \in Held : Extent(c) \subseteq taken
    BY Zenon, <1>6 DEF CoverInv
  <2>2. \A i \in Indices : \A x \in Free(i) : Piece(i, x) \subseteq taken
    BY Zenon, <1>6 DEF CoverInv
  <2>3. \A c, d \in Held' : c # d => Extent(c) \cap Extent(d) = {}
    BY Zenon, <2>1, <1>3, <1>4, <1>6 DEF DisjointInv
  <2>4. \A c \in Held', i \in Indices : \A x \in Free(i) : Extent(c) \cap Piece(i, x) = {}
    BY Zenon, <2>2, <1>3, <1>4, <1>6 DEF DisjointInv
  <2> QED
    BY <2>3, <2>4, <1>5, <1>6 DEF DisjointInv
<1>10. CoverInv'
  <2> SUFFICES ASSUME NEW u
               PROVE  u \in taken' <=> \/ \E c \in Held' : u \in Extent(c)
                                       \/ \E i \in Indices : \E x \in Free(i) : u \in Piece(i, x)
    BY Zenon, <1>5 DEF CoverInv
  <2> QED
    BY Zenon, <1>3, <1>4, <1>6 DEF CoverInv
<1> QED
  BY Zenon, <1>7, <1>8, <1>9, <1>10 DEF Blocks

(* dealloc onto a list: a block changes hands. *)
LEMMA ToList ==
  ASSUME Blocks, NEW b \in Held, Release(b), list_index(b.layout) # 0
  PROVE  Blocks'
<1> DEFINE i == list_index(b.layout)
<1>1. /\ Held' = Held \ {b} /\ taken' = taken
      /\ Lists' = [Lists EXCEPT ![i] = <<b.at>> \o Lists[i]]
  BY Zenon DEF Release
<1>2. BlockTypes /\ AlignedInv /\ DisjointInv /\ CoverInv
  BY Zenon DEF Blocks
<1>3. b.at \in HeapUnits /\ b.layout \in Layouts /\ b = [at |-> b.at, layout |-> b.layout]
  BY Zenon, <1>2 DEF BlockTypes
<1>4. Extent(b) = Piece(i, b.at) /\ b.at \in Extent(b) /\ i \in Indices
  BY <1>3, BlockTyped, BlockFacts
<1>5. block_align(b.layout) = BLOCK_SIZES[i]
  BY Zenon, <1>3, BlockFacts
<1> HIDE DEF i
<1>6. b.at \notin Free(i)
  BY <1>2, <1>4 DEF DisjointInv
<1>7. /\ Lists' \in [Indices -> Seq(HeapUnits)]
      /\ Free(i)' = Free(i) \cup {b.at} /\ Once(i)'
      /\ \A j \in Indices : j # i => Free(j)' = Free(j) /\ (Once(j)' <=> Once(j))
  <2>1. Once(i)
    BY Zenon, <1>2, <1>4 DEF DisjointInv
  <2> QED
    BY Zenon, <2>1, <1>1, <1>2, <1>3, <1>4, <1>6, Pushed
<1>8. \A j \in Indices : \A y \in Free(j)' : y \in Free(j) \/ (j = i /\ y = b.at)
  BY Zenon, <1>7
<1>9. BlockTypes'
  BY Zenon, <1>1, <1>2, <1>7 DEF BlockTypes
<1>10. AlignedInv'
  <2>1. b.at % BLOCK_SIZES[i] = 0
    BY Zenon, <1>2, <1>5 DEF AlignedInv
  <2> QED
    BY Zenon, <2>1, <1>1, <1>2, <1>8 DEF AlignedInv
<1>11. DisjointInv'
  <2>1. \A j \in Indices : \A y \in Free(j) : Piece(i, b.at) \cap Piece(j, y) = {}
    BY Zenon, <1>2, <1>4 DEF DisjointInv
  <2>2. \A c \in Held' : Extent(c) \cap Piece(i, b.at) = {}
    BY Zenon, <1>1, <1>2, <1>4 DEF DisjointInv
  <2>3. \A c, d \in Held' : c # d => Extent(c) \cap Extent(d) = {}
    BY Zenon, <1>1, <1>2 DEF DisjointInv
  <2>4. \A c \in Held', j \in Indices : \A y \in Free(j)' : Extent(c) \cap Piece(j, y) = {}
    BY Zenon, <2>2, <1>1, <1>2, <1>8 DEF DisjointInv
  <2>5. \A j, k \in Indices : \A y \in Free(j)', z \in Free(k)' :
          <<j, y>> # <<k, z>> => Piece(j, y) \cap Piece(k, z) = {}
    BY <2>1, <1>2, <1>8 DEF DisjointInv
  <2>6. \A j \in Indices : Once(j)'
    BY Zenon, <1>2, <1>7 DEF DisjointInv
  <2> QED
    BY Zenon, <2>3, <2>4, <2>5, <2>6 DEF DisjointInv
<1>12. CoverInv'
  <2> SUFFICES ASSUME NEW u
               PROVE  u \in taken <=> \/ \E c \in Held' : u \in Extent(c)
                                      \/ \E j \in Indices : \E y \in Free(j)' : u \in Piece(j, y)
    BY Zenon, <1>1 DEF CoverInv
  <2>1. u \in taken <=> \/ \E c \in Held : u \in Extent(c)
                        \/ \E j \in Indices : \E y \in Free(j) : u \in Piece(j, y)
    BY Zenon, <1>2 DEF CoverInv
  <2>2. (\E j \in Indices : \E y \in Free(j)' : u \in Piece(j, y))
          <=> \/ u \in Piece(i, b.at)
              \/ \E j \in Indices : \E y \in Free(j) : u \in Piece(j, y)
    BY Zenon, <1>4, <1>7
  <2>3. (\E c \in Held : u \in Extent(c)) <=> u \in Piece(i, b.at) \/ \E c \in Held' : u \in Extent(c)
    BY Zenon, <1>1, <1>4
  <2> QED
    BY Zenon, <2>1, <2>2, <2>3
<1> QED
  BY Zenon, <1>9, <1>10, <1>11, <1>12 DEF Blocks

(* dealloc of a block beyond the block sizes: its units are free again. *)
LEMMA ToHeap ==
  ASSUME Blocks, NEW b \in Held, Release(b), list_index(b.layout) = 0
  PROVE  Blocks'
<1>1. /\ Held' = Held \ {b} /\ taken' = taken \ Units(b.at, b.layout.size)
      /\ Lists' = Lists
  BY Zenon DEF Release
<1>2. BlockTypes /\ AlignedInv /\ DisjointInv /\ CoverInv
  BY Zenon DEF Blocks
<1>3. Extent(b) = Units(b.at, b.layout.size)
  BY Zenon, <1>2, BlockFacts DEF BlockTypes, Extent
<1>4. \A i \in Indices : Free(i)' = Free(i) /\ (Once(i)' <=> Once(i))
  BY Zenon, <1>1 DEF Free, Once
<1>5. BlockTypes'
  BY Zenon, <1>1, <1>2 DEF BlockTypes
<1>6. AlignedInv'
  BY Zenon, <1>1, <1>2, <1>4 DEF AlignedInv
<1>7. DisjointInv'
  BY <1>1, <1>2, <1>4 DEF DisjointInv
<1>8. CoverInv'
  <2> SUFFICES ASSUME NEW u
               PROVE  u \in taken' <=> \/ \E c \in Held' : u \in Extent(c)
                                       \/ \E i \in Indices : \E x \in Free(i) : u \in Piece(i, x)
    BY Zenon, <1>4 DEF CoverInv
  <2>1. u \in taken <=> \/ \E c \in Held : u \in Extent(c)
                        \/ \E i \in Indices : \E x \in Free(i) : u \in Piece(i, x)
    BY Zenon, <1>2 DEF CoverInv
  <2>2. \A c \in Held' : u \in Extent(c) => u \notin Extent(b)
    BY Zenon, <1>1, <1>2 DEF DisjointInv
  <2>3. \A i \in Indices : \A x \in Free(i) : u \in Piece(i, x) => u \notin Extent(b)
    BY Zenon, <1>2 DEF DisjointInv
  <2>4. u \in taken' <=> u \in taken /\ u \notin Extent(b)
    BY Zenon, <1>1, <1>3
  <2> QED
    BY Zenon, <2>1, <2>2, <2>3, <2>4, <1>1
<1> QED
  BY Zenon, <1>5, <1>6, <1>7, <1>8 DEF Blocks

-----------------------------------------------------------------------------
(* Pointers *)

Cells == HeapUnits \cup {Null}

(* The pointers in memory w lead from p through the blocks of s, and end. *)
Linked(w, p, s) ==
  /\ s = <<>> => p = Null
  /\ s # <<>> => p = s[1]
  /\ \A n \in 1..Len(s) : Pointer(w[s[n]]) = IF n = Len(s) THEN Null ELSE s[n + 1]

(* Null is no address. *)
LEMMA NullFacts == Null \notin HeapUnits /\ \A u \in HeapUnits : u \in Nat
  BY SMTT(30), HeapAssumption, HostAssumption DEF HeapUnits

(* From follows one pointer after the other. *)
LEMMA FromDef ==
  ASSUME NEW w
  PROVE  From(w) = [n \in Nat |->
                      [p \in Cells |-> IF n = 0 \/ p = Null THEN <<>>
                                       ELSE <<p>> \o From(w)[n - 1][Pointer(w[p])]]]
<1> DEFINE Body(g, n) == [p \in Cells |-> IF n = 0 \/ p = Null THEN <<>>
                                          ELSE <<p>> \o g[n - 1][Pointer(w[p])]]
           Upto(n, g) == g = [i \in 0..n |-> Body(g, i)]
           Whole(f)   == f = [i \in Nat |-> Body(f, i)]
           T          == {n \in Nat : \E g : Upto(n, g)}
<1>1. /\ \A g, h : Body(g, 0) = Body(h, 0)
      /\ \A g, h : \A n \in Nat : g[n - 1] = h[n - 1] => Body(g, n) = Body(h, n)
  BY Zenon
<1>2. From(w) = CHOOSE f : Whole(f)
  BY Zenon DEF From, Cells
<1> HIDE DEF Body
<1>3. 0 \in T
  <2> DEFINE z == [i \in 0..0 |-> Body(<<>>, 0)]
  <2>1. Body(z, 0) = Body(<<>>, 0)
    BY Zenon, <1>1
  <2>2. \A i \in 0..0 : i = 0
    OBVIOUS
  <2>3. Upto(0, z)
    BY Zenon, <2>1, <2>2
  <2> HIDE DEF z, Upto
  <2> QED
    BY Zenon, <2>3
<1>4. ASSUME NEW n \in T PROVE n + 1 \in T
  <2>1. PICK g : Upto(n, g)
    BY Zenon
  <2> DEFINE h == [i \in 0..n + 1 |-> IF i <= n THEN g[i] ELSE Body(g, n + 1)]
  <2>2. ASSUME NEW i \in 0..n + 1 PROVE h[i] = Body(h, i)
    <3>1. i # 0 => h[i - 1] = g[i - 1]
      OBVIOUS
    <3>2. Body(h, i) = Body(g, i)
      <4>1. CASE i = 0
        BY Zenon, <4>1, <1>1
      <4>2. CASE i # 0
        <5> HIDE DEF h
        <5> QED
          BY <4>2, <3>1, <1>1
      <4> QED
        BY Zenon, <4>1, <4>2
    <3>3. h[i] = Body(g, i)
      BY SMTT(30), <2>1
    <3> QED
      BY Zenon, <3>2, <3>3
  <2>3. Upto(n + 1, h)
    <3>1. h = [i \in 0..n + 1 |-> h[i]]
      BY Zenon
    <3> HIDE DEF h
    <3> QED
      BY Zenon, <2>2, <3>1
  <2> HIDE DEF h, Upto
  <2> QED
    BY <2>3
<1>5. T = Nat
  <2> HIDE DEF T
  <2> QED
    BY Zenon, <1>3, <1>4, SetInduction DEF T
<1>6. ASSUME NEW n \in Nat, NEW m \in Nat, n <= m, NEW g, NEW h, Upto(n, g), Upto(m, h)
      PROVE  \A i \in 0..n : g[i] = h[i]
  <2> DEFINE U == {i \in Nat : i <= n => g[i] = h[i]}
  <2>1. \A i \in 0..n : i \in 0..m
    BY <1>6
  <2>2. \A i \in 0..n : g[i] = Body(g, i)
    BY Zenon, <1>6
  <2>3. \A i \in 0..m : h[i] = Body(h, i)
    BY Zenon, <1>6
  <2>4. 0 \in U
    <3>1. g[0] = Body(g, 0) /\ h[0] = Body(h, 0)
      BY <2>1, <2>2, <2>3
    <3> QED
      BY Zenon, <3>1, <1>1
  <2>5. ASSUME NEW i \in U PROVE i + 1 \in U
    <3> SUFFICES ASSUME i + 1 <= n PROVE g[i + 1] = h[i + 1]
      OBVIOUS
    <3>1. g[i] = h[i] /\ i + 1 \in 0..n /\ i + 1 \in Nat /\ (i + 1) - 1 = i
      OBVIOUS
    <3>2. Body(g, i + 1) = Body(h, i + 1)
      BY <3>1, <1>1
    <3> QED
      BY Zenon, <3>1, <3>2, <2>1, <2>2, <2>3
  <2>6. U = Nat
    <3> HIDE DEF U
    <3> QED
      BY Zenon, <2>4, <2>5, SetInduction DEF U
  <2> QED
    BY <2>6
<1>7. \E f : Whole(f)
  <2> DEFINE c(n) == CHOOSE g : Upto(n, g)
             f    == [n \in Nat |-> c(n)[n]]
  <2>1. \A n \in Nat : Upto(n, c(n))
    <3> HIDE DEF Upto
    <3> QED
      BY Zenon, <1>5
  <2>2. \A n, m \in Nat : n <= m => c(n)[n] = c(m)[n]
    <3> HIDE DEF Upto, c
    <3> QED
      BY <1>6, <2>1
  <2>3. ASSUME NEW n \in Nat PROVE f[n] = Body(f, n)
    <3>1. c(n)[n] = Body(c(n), n)
      <4>1. n \in 0..n
        OBVIOUS
      <4> HIDE DEF c
      <4> QED
        BY Zenon, <2>1, <4>1
    <3>2. n # 0 => f[n - 1] = c(n)[n - 1]
      <4>1. n # 0 => n - 1 \in Nat /\ n - 1 <= n
        OBVIOUS
      <4>2. n # 0 => f[n - 1] = c(n - 1)[n - 1]
        BY Zenon, <4>1
      <4> HIDE DEF c, f
      <4> QED
        BY Zenon, <4>1, <4>2, <2>2
    <3>3. f[n] = c(n)[n]
      BY Zenon
    <3> HIDE DEF c, f
    <3>4. Body(f, n) = Body(c(n), n)
      <4>1. CASE n = 0
        BY Zenon, <4>1, <1>1
      <4>2. CASE n # 0
        BY Zenon, <4>2, <3>2, <1>1
      <4> QED
        BY Zenon, <4>1, <4>2
    <3> QED
      BY Zenon, <3>1, <3>3, <3>4
  <2>4. Whole(f)
    <3>1. f = [n \in Nat |-> f[n]]
      OBVIOUS
    <3> HIDE DEF c, f
    <3> QED
      BY Zenon, <2>3, <3>1
  <2> HIDE DEF Whole, f
  <2> QED
    BY Zenon, <2>4
<1>8. Whole(From(w))
  <2> HIDE DEF Whole
  <2> QED
    BY Zenon, <1>2, <1>7
<1> QED
  BY Zenon, <1>8 DEF Body

(* The rest of a list is linked from what the first block points to. *)
LEMMA LinkedTail ==
  ASSUME NEW w, NEW p, NEW s \in Seq(HeapUnits), s # <<>>, Linked(w, p, s)
  PROVE  /\ p = Head(s) /\ p \in HeapUnits
         /\ Tail(s) \in Seq(HeapUnits) /\ Len(Tail(s)) = Len(s) - 1 /\ Len(s) \in Nat
         /\ \A n \in 1..Len(Tail(s)) : Tail(s)[n] = s[n + 1] /\ n + 1 \in 1..Len(s)
         /\ Linked(w, Pointer(w[p]), Tail(s))
<1> DEFINE t == Tail(s)
<1>1. /\ t \in Seq(HeapUnits) /\ Len(s) \in Nat /\ Len(s) >= 1 /\ Len(t) = Len(s) - 1
      /\ Head(s) = s[1] /\ \A n \in 1..Len(s) - 1 : t[n] = s[n + 1]
  OBVIOUS
<1> HIDE DEF t
<1>2. 1 \in 1..Len(s) /\ s[1] \in HeapUnits
  BY <1>1, ElementOfSeq
<1>3. p = s[1] /\ \A n \in 1..Len(s) : Pointer(w[s[n]]) = IF n = Len(s) THEN Null ELSE s[n + 1]
  BY Zenon DEF Linked
<1>4. Pointer(w[p]) = IF 1 = Len(s) THEN Null ELSE s[1 + 1]
  BY Zenon, <1>2, <1>3
<1>5. t = <<>> => Pointer(w[p]) = Null
  <2>1. t = <<>> => Len(t) = 0
    OBVIOUS
  <2> QED
    BY <2>1, <1>1, <1>4
<1>6. t # <<>> => Pointer(w[p]) = t[1]
  <2> SUFFICES ASSUME t # <<>> PROVE Pointer(w[p]) = t[1]
    BY Zenon
  <2>1. Len(t) # 0
    BY <1>1
  <2>2. 1 # Len(s) /\ 1 \in 1..Len(s) - 1
    BY <2>1, <1>1
  <2> QED
    BY Zenon, <2>2, <1>1, <1>4
<1>7. ASSUME NEW n \in 1..Len(t)
      PROVE  Pointer(w[t[n]]) = IF n = Len(t) THEN Null ELSE t[n + 1]
  <2>1. n + 1 \in 1..Len(s) /\ t[n] = s[n + 1] /\ (n = Len(t) <=> n + 1 = Len(s))
    BY <1>1
  <2>2. n # Len(t) => n + 1 \in 1..Len(s) - 1
    BY <1>1
  <2>3. n # Len(t) => t[n + 1] = s[(n + 1) + 1]
    BY Zenon, <2>2, <1>1
  <2> QED
    BY Zenon, <2>1, <2>3, <1>3
<1>8. Linked(w, Pointer(w[p]), t)
  BY Zenon, <1>5, <1>6, <1>7 DEF Linked
<1>9. \A n \in 1..Len(t) : t[n] = s[n + 1] /\ n + 1 \in 1..Len(s)
  BY <1>1
<1> QED
  BY Zenon, <1>1, <1>2, <1>3, <1>8, <1>9 DEF t

(* A block in front of a list. *)
LEMMA LinkedFront ==
  ASSUME NEW w, NEW p, NEW x \in HeapUnits, NEW s \in Seq(HeapUnits),
         Linked(w, p, s), Pointer(w[x]) = p
  PROVE  Linked(w, x, <<x>> \o s)
<1> DEFINE t == <<x>> \o s
<1>1. /\ t \in Seq(HeapUnits) /\ Len(s) \in Nat /\ Len(t) = Len(s) + 1 /\ t[1] = x
      /\ \A n \in 1..Len(s) : t[n + 1] = s[n]
  BY Zenon, Front
<1> HIDE DEF t
<1>2. /\ s = <<>> => p = Null
      /\ s # <<>> => p = s[1]
      /\ \A n \in 1..Len(s) : Pointer(w[s[n]]) = IF n = Len(s) THEN Null ELSE s[n + 1]
  BY Zenon DEF Linked
<1>3. ASSUME NEW n \in 1..Len(t)
      PROVE  Pointer(w[t[n]]) = IF n = Len(t) THEN Null ELSE t[n + 1]
  <2>1. CASE n = 1
    <3>1. CASE s = <<>>
      <4>1. Len(s) = 0
        BY Zenon, <3>1
      <4> QED
        BY <4>1, <3>1, <2>1, <1>1, <1>2
    <3>2. CASE s # <<>>
      <4>1. Len(s) # 0
        BY <3>2
      <4>2. 1 \in 1..Len(s) /\ n # Len(t)
        BY <4>1, <2>1, <1>1
      <4>3. t[1 + 1] = s[1]
        BY Zenon, <4>2, <1>1
      <4> QED
        BY Zenon, <4>2, <4>3, <3>2, <2>1, <1>1, <1>2
    <3> QED
      BY Zenon, <3>1, <3>2
  <2>2. CASE n # 1
    <3>1. n - 1 \in 1..Len(s) /\ (n - 1) + 1 = n /\ (n - 1 = Len(s) <=> n = Len(t))
      BY <2>2, <1>1
    <3>2. t[n] = s[n - 1]
      BY Zenon, <3>1, <1>1
    <3>3. n # Len(t) => n \in 1..Len(s)
      BY <1>1
    <3>4. n # Len(t) => t[n + 1] = s[n]
      BY Zenon, <3>3, <1>1
    <3> QED
      BY Zenon, <3>1, <3>2, <3>4, <1>2
  <2> QED
    BY Zenon, <2>1, <2>2
<1>4. t # <<>>
  <2>1. Len(t) # 0
    BY <1>1
  <2> QED
    BY <2>1
<1> QED
  BY Zenon, <1>1, <1>3, <1>4 DEF Linked, t

(* Writing elsewhere leaves a list alone. *)
LEMMA LinkedFrame ==
  ASSUME NEW w, NEW v, NEW p, NEW s,
         \A n \in 1..Len(s) : v[s[n]] = w[s[n]], Linked(w, p, s)
  PROVE  Linked(v, p, s)
  BY Zenon DEF Linked

(* A list of different blocks is no longer than the heap. *)
LEMMA ListFits ==
  ASSUME NEW s \in Seq(HeapUnits), \A m, n \in 1..Len(s) : s[m] = s[n] => m = n
  PROVE  Len(s) <= HEAP_SIZE
<1>1. Len(s) \in Nat /\ HEAP_SIZE \in Nat /\ s \in [1..Len(s) -> HeapUnits]
  BY Zenon, HeapAssumption, LenProperties
<1>2. s \in Injection(1..Len(s), HeapUnits)
  BY Zenon, <1>1 DEF Injection, IsInjective
<1>3. IsFiniteSet(HeapUnits) /\ Cardinality(HeapUnits) = IF 0 > HEAP_SIZE - 1 THEN 0 ELSE HEAP_SIZE
  <2>1. 0 \in Int /\ HEAP_SIZE - 1 \in Int /\ HEAP_SIZE - 1 - 0 + 1 = HEAP_SIZE
    BY <1>1
  <2> QED
    BY Zenon, <2>1, FS_Interval DEF HeapUnits
<1>4. Cardinality(1..Len(s)) = IF 1 > Len(s) THEN 0 ELSE Len(s)
  <2>1. 1 \in Int /\ Len(s) \in Int /\ Len(s) - 1 + 1 = Len(s)
    BY <1>1
  <2> QED
    BY Zenon, <2>1, FS_Interval
<1>5. Cardinality(1..Len(s)) <= Cardinality(HeapUnits)
  BY Zenon, <1>2, <1>3, FS_Injection
<1> QED
  BY <1>1, <1>3, <1>4, <1>5

(* Following the pointers of a list finds the list. *)
LEMMA Followed ==
  ASSUME NEW w, NEW p, NEW s \in Seq(HeapUnits), Linked(w, p, s),
         \A m, n \in 1..Len(s) : s[m] = s[n] => m = n
  PROVE  From(w)[HEAP_SIZE][p] = s
<1> DEFINE f == From(w)
           T == {n \in Nat : \A t \in Seq(HeapUnits) : \A q :
                               Len(t) <= n /\ Linked(w, q, t) => f[n][q] = t}
<1>1. \A n \in Nat : f[n] = [q \in Cells |-> IF n = 0 \/ q = Null THEN <<>>
                                             ELSE <<q>> \o f[n - 1][Pointer(w[q])]]
  <2>1. f = [n \in Nat |-> [q \in Cells |-> IF n = 0 \/ q = Null THEN <<>>
                                            ELSE <<q>> \o f[n - 1][Pointer(w[q])]]]
    BY Zenon, FromDef
  <2> HIDE DEF f
  <2> QED
    BY Zenon, <2>1
<1> HIDE DEF f
<1>2. ASSUME NEW t \in Seq(HeapUnits), NEW q, Linked(w, q, t), t = <<>>, NEW n \in Nat
      PROVE  f[n][q] = t
  <2>1. q = Null /\ q \in Cells
    BY Zenon, <1>2 DEF Linked, Cells
  <2> QED
    BY Zenon, <2>1, <1>1, <1>2
<1>3. 0 \in T
  <2> SUFFICES ASSUME NEW t \in Seq(HeapUnits), NEW q, Len(t) <= 0, Linked(w, q, t)
               PROVE  f[0][q] = t
    BY Zenon
  <2>1. t = <<>>
    <3>1. Len(t) = 0
      BY LenProperties
    <3> QED
      BY <3>1
  <2> QED
    BY ZenonT(30), <2>1, <1>2
<1>4. ASSUME NEW n \in T PROVE n + 1 \in T
  <2> SUFFICES ASSUME NEW t \in Seq(HeapUnits), NEW q, Len(t) <= n + 1, Linked(w, q, t), t # <<>>
               PROVE  f[n + 1][q] = t
    BY <1>2
  <2>1. /\ q = Head(t) /\ q \in HeapUnits /\ Tail(t) \in Seq(HeapUnits)
        /\ Len(Tail(t)) = Len(t) - 1 /\ Len(t) \in Nat /\ Linked(w, Pointer(w[q]), Tail(t))
    BY Zenon, LinkedTail
  <2>2. Len(Tail(t)) <= n /\ n \in Nat /\ n + 1 \in Nat /\ (n + 1) - 1 = n /\ n + 1 # 0
    BY SMTT(30), <2>1
  <2>3. f[n][Pointer(w[q])] = Tail(t)
    BY Zenon, <2>1, <2>2
  <2>4. q # Null /\ q \in Cells
    BY Zenon, <2>1, NullFacts DEF Cells
  <2>5. f[n + 1][q] = <<q>> \o f[n][Pointer(w[q])]
    <3>1. f[n + 1] = [r \in Cells |-> IF n + 1 = 0 \/ r = Null THEN <<>>
                                      ELSE <<r>> \o f[(n + 1) - 1][Pointer(w[r])]]
      BY Zenon, <2>2, <1>1
    <3> QED
      BY SMTT(30), <3>1, <2>2, <2>4
  <2>6. t = <<Head(t)>> \o Tail(t)
    BY HeadTailProperties
  <2> QED
    BY Zenon, <2>1, <2>3, <2>5, <2>6
<1>5. T = Nat
  <2> HIDE DEF T
  <2> QED
    BY Zenon, <1>3, <1>4, SetInduction DEF T
<1>6. Len(s) <= HEAP_SIZE /\ HEAP_SIZE \in Nat
  BY Zenon, ListFits, HeapAssumption
<1> QED
  BY Zenon, <1>5, <1>6 DEF f

-----------------------------------------------------------------------------
(* The inductive invariant *)

MemTypes ==
  /\ list_heads \in [Indices -> Cells]
  /\ DOMAIN word = HeapUnits
  /\ live \subseteq [at: HeapUnits, layout: Layouts, mem: Nat, host: BOOLEAN]

(* The pointers in the free blocks are those of the lists. *)
LinkInv == \A i \in Indices : Linked(word, list_heads[i], Lists[i])

(* uACPI was given the address behind the size. *)
LiveInv ==
  /\ \A b, c \in live : b.at = c.at => b = c
  /\ \A b \in live :
       IF b.host THEN /\ b.mem = b.at + 1 /\ b.layout = HostLayout(b.layout.size - 1)
                      /\ word[b.at] = Size(b.layout.size - 1)
                 ELSE b.mem = b.at

IInv == Blocks /\ MemTypes /\ LinkInv /\ LiveInv

-----------------------------------------------------------------------------
(* What the invariant says of addresses *)

(* A free block has its address, one list, and no caller. *)
LEMMA FreeBlocks ==
  ASSUME Blocks
  PROVE  /\ \A i \in Indices : /\ Lists[i] \in Seq(HeapUnits)
                               /\ \A m, n \in 1..Len(Lists[i]) : Lists[i][m] = Lists[i][n] => m = n
                               /\ \A n \in 1..Len(Lists[i]) : Lists[i][n] \in Free(i)
         /\ \A i, j \in Indices : \A x \in Free(i), y \in Free(j) : x = y => i = j
         /\ \A i \in Indices : \A x \in Free(i) :
              x \in HeapUnits /\ x \in taken /\ \A b \in Held : x \notin Extent(b)
<1>1. BlockTypes /\ DisjointInv /\ CoverInv
  BY Zenon DEF Blocks
<1>2. ASSUME NEW i \in Indices
      PROVE  /\ Lists[i] \in Seq(HeapUnits)
             /\ \A m, n \in 1..Len(Lists[i]) : Lists[i][m] = Lists[i][n] => m = n
             /\ \A n \in 1..Len(Lists[i]) : Lists[i][n] \in Free(i)
  BY Zenon, <1>1 DEF BlockTypes, DisjointInv, Once, Free
<1>3. ASSUME NEW i \in Indices, NEW x \in Free(i)
      PROVE  x \in HeapUnits /\ x \in Piece(i, x)
  <2>1. PICK n \in 1..Len(Lists[i]) : x = Lists[i][n]
    BY Zenon DEF Free
  <2>2. x \in HeapUnits
    BY Zenon, <2>1, <1>2, ElementOfSeq
  <2>3. BLOCK_SIZES[i] \in Nat \ {0}
    BY Zenon, HeapAssumption, ElementOfSeq DEF Indices
  <2> QED
    BY Zenon, <2>2, <2>3, NullFacts, UnitsFacts DEF Piece
<1>4. ASSUME NEW i \in Indices, NEW j \in Indices, NEW x \in Free(i), x \in Free(j)
      PROVE  i = j
  <2>1. x \in Piece(i, x) /\ x \in Piece(j, x)
    BY Zenon, <1>3, <1>4
  <2>2. i # j => <<i, x>> # <<j, x>>
    BY Zenon
  <2> QED
    BY Zenon, <2>1, <2>2, <1>1, <1>4 DEF DisjointInv
<1>5. ASSUME NEW i \in Indices, NEW x \in Free(i)
      PROVE  x \in taken /\ \A b \in Held : x \notin Extent(b)
  BY Zenon, <1>1, <1>3 DEF CoverInv, DisjointInv
<1> QED
  BY <1>2, <1>3, <1>4, <1>5

(* A caller's block has its address and all that was asked for; no other      *)
(* caller has any of it.                                                      *)
LEMMA HeldBlocks ==
  ASSUME Blocks, MemTypes, LiveInv, NEW b \in live
  PROVE  /\ [at |-> b.at, layout |-> b.layout] \in Held
         /\ b.at \in HeapUnits /\ b.at \in Nat /\ b.layout \in Layouts /\ b.layout.size \in Nat \ {0}
         /\ b.at \in Extent(b) /\ Extent(b) \subseteq taken
         /\ b.at..(b.at + b.layout.size - 1) \subseteq Extent(b)
         /\ Extent([at |-> b.at, layout |-> b.layout]) = Extent(b)
         /\ \A c \in live : c # b => Extent(c) \cap Extent(b) = {}
<1>1. BlockTypes /\ DisjointInv /\ CoverInv
  BY Zenon DEF Blocks
<1>2. \A c \in live : c.at \in HeapUnits /\ c.layout \in Layouts
  BY Zenon DEF MemTypes
<1>3. \A c \in live : [at |-> c.at, layout |-> c.layout] \in Held
  BY Zenon DEF Held
<1>4. \A c \in live : Extent([at |-> c.at, layout |-> c.layout]) = Extent(c)
  BY Zenon DEF Extent
<1>5. b.at \in Nat /\ b.layout.size \in Nat \ {0} /\ block_size(b.layout) \in Nat \ {0}
      /\ block_size(b.layout) >= b.layout.size
  BY Zenon, <1>2, NullFacts, BlockFacts, HeapAssumption
<1>6. b.at \in Extent(b) /\ b.at..(b.at + block_size(b.layout) - 1) \subseteq Extent(b)
  BY Zenon, <1>5, UnitsFacts DEF Extent
<1>7. b.at..(b.at + b.layout.size - 1) \subseteq Extent(b)
  <2>1. \A u \in b.at..(b.at + b.layout.size - 1) : u \in b.at..(b.at + block_size(b.layout) - 1)
    BY <1>5
  <2> QED
    BY Zenon, <2>1, <1>6
<1>8. Extent(b) \subseteq taken
  BY Zenon, <1>1, <1>3, <1>4 DEF CoverInv
<1>9. ASSUME NEW c \in live, c # b PROVE Extent(c) \cap Extent(b) = {}
  <2> DEFINE x == [at |-> c.at, layout |-> c.layout]
             y == [at |-> b.at, layout |-> b.layout]
  <2>1. c.at # b.at
    BY Zenon, <1>9 DEF LiveInv
  <2>2. x # y
    BY Zenon, <2>1
  <2>3. x \in Held /\ y \in Held /\ Extent(x) = Extent(c) /\ Extent(y) = Extent(b)
    BY Zenon, <1>3, <1>4
  <2> HIDE DEF x, y
  <2> QED
    BY Zenon, <2>2, <2>3, <1>1 DEF DisjointInv
<1> QED
  BY Zenon, <1>2, <1>3, <1>4, <1>5, <1>6, <1>7, <1>8, <1>9

-----------------------------------------------------------------------------
(* What the steps do to the lists *)

(* The lists are what the pointers lead through. *)
LEMMA ListsAre ==
  ASSUME NEW S \in [Indices -> Seq(HeapUnits)],
         \A i \in Indices : /\ Linked(word', list_heads'[i], S[i])
                            /\ \A m, n \in 1..Len(S[i]) : S[i][m] = S[i][n] => m = n
  PROVE  Lists' = S /\ LinkInv'
<1>1. \A i \in Indices : From(word')[HEAP_SIZE][list_heads'[i]] = S[i]
  BY Zenon, Followed
<1>2. Lists' = [i \in Indices |-> From(word')[HEAP_SIZE][list_heads'[i]]]
  BY Zenon DEF Lists, Chain
<1>3. Lists' = S
  BY Zenon, <1>1, <1>2
<1> QED
  BY Zenon, <1>3 DEF LinkInv

(* Nothing happens to them as long as nobody writes to a free block. *)
LEMMA ListsFrame ==
  ASSUME IInv, list_heads' = list_heads,
         \A i \in Indices : \A x \in Free(i) : word'[x] = word[x]
  PROVE  Lists' = Lists /\ LinkInv'
<1>1. Blocks /\ LinkInv /\ Lists \in [Indices -> Seq(HeapUnits)]
  BY Zenon DEF IInv, Blocks, BlockTypes
<1>2. ASSUME NEW i \in Indices
      PROVE  /\ Linked(word', list_heads'[i], Lists[i])
             /\ \A m, n \in 1..Len(Lists[i]) : Lists[i][m] = Lists[i][n] => m = n
  <2>1. /\ \A m, n \in 1..Len(Lists[i]) : Lists[i][m] = Lists[i][n] => m = n
        /\ \A n \in 1..Len(Lists[i]) : Lists[i][n] \in Free(i)
    BY Zenon, <1>1, FreeBlocks
  <2>2. Linked(word, list_heads[i], Lists[i])
    BY Zenon, <1>1 DEF LinkInv
  <2>3. \A n \in 1..Len(Lists[i]) : word'[Lists[i][n]] = word[Lists[i][n]]
    BY Zenon, <2>1
  <2>4. Linked(word', list_heads[i], Lists[i])
    BY Zenon, <2>2, <2>3, LinkedFrame
  <2> QED
    BY Zenon, <2>1, <2>4
<1> QED
  BY Zenon, <1>1, <1>2, ListsAre

(* alloc takes the block at the head and goes on where it points. *)
LEMMA ListPopped ==
  ASSUME IInv, NEW l \in Layouts, NEW at \in HeapUnits, alloc_from_list(l, at),
         \A u \in HeapUnits \ {at} : word'[u] = word[u]
  PROVE  /\ list_index(l) # 0 /\ Lists[list_index(l)] # <<>> /\ at = Head(Lists[list_index(l)])
         /\ Lists' = [Lists EXCEPT ![list_index(l)] = Tail(Lists[list_index(l)])]
         /\ taken' = taken /\ LinkInv' /\ list_heads' \in [Indices -> Cells]
         /\ \A b \in live : b.at # at
<1> DEFINE i == list_index(l)
           s == Lists[i]
<1>1. /\ i # 0 /\ at = list_heads[i] /\ at # Null /\ taken' = taken
      /\ list_heads' = [list_heads EXCEPT ![i] = Pointer(word[at])]
  BY Zenon DEF alloc_from_list
<1>2. i \in Indices
  BY Zenon, <1>1, BlockFacts
<1>3. /\ Blocks /\ MemTypes /\ LinkInv /\ LiveInv /\ Lists \in [Indices -> Seq(HeapUnits)]
      /\ list_heads \in [Indices -> Cells]
  BY Zenon DEF IInv, Blocks, BlockTypes, MemTypes
<1> HIDE DEF i
<1>4. /\ s \in Seq(HeapUnits) /\ \A m, n \in 1..Len(s) : s[m] = s[n] => m = n
      /\ Linked(word, list_heads[i], s)
  BY Zenon, <1>2, <1>3, FreeBlocks DEF LinkInv
<1>5. s # <<>>
  BY Zenon, <1>1, <1>4 DEF Linked
<1>6. /\ at = Head(s) /\ Tail(s) \in Seq(HeapUnits) /\ Len(Tail(s)) = Len(s) - 1 /\ Len(s) \in Nat
      /\ Linked(word, Pointer(word[at]), Tail(s))
  BY Zenon, <1>1, <1>4, <1>5, LinkedTail
<1>7. /\ \A n \in 1..Len(s) - 1 : Tail(s)[n] = s[n + 1] /\ s[n + 1] # s[1] /\ Head(s) = s[1]
      /\ \A m, n \in 1..Len(Tail(s)) : Tail(s)[m] = Tail(s)[n] => m = n
      /\ Head(s) = s[1] /\ Len(s) >= 1
  BY Zenon, <1>4, <1>5, TailOnce
<1>8. at \in Free(i)
  <2>1. 1 \in 1..Len(s)
    BY <1>6, <1>7
  <2> QED
    BY SMTT(30), <2>1, <1>2, <1>3, <1>6, <1>7, FreeBlocks
<1>9. Linked(word', Pointer(word[at]), Tail(s))
  <2>1. \A n \in 1..Len(Tail(s)) : Tail(s)[n] \in HeapUnits \ {at}
    BY Zenon, <1>6, <1>7, ElementOfSeq
  <2>2. \A n \in 1..Len(Tail(s)) : word'[Tail(s)[n]] = word[Tail(s)[n]]
    BY Zenon, <2>1
  <2> HIDE DEF s
  <2> QED
    BY Zenon, <2>2, <1>6, LinkedFrame
<1>10. ASSUME NEW j \in Indices, j # i
       PROVE  /\ Linked(word', list_heads[j], Lists[j])
              /\ \A m, n \in 1..Len(Lists[j]) : Lists[j][m] = Lists[j][n] => m = n
  <2>1. /\ \A m, n \in 1..Len(Lists[j]) : Lists[j][m] = Lists[j][n] => m = n
        /\ \A n \in 1..Len(Lists[j]) : Lists[j][n] \in Free(j)
    BY Zenon, <1>3, FreeBlocks
  <2>2. \A x \in Free(j) : x \in HeapUnits /\ x # at
    BY Zenon, <1>2, <1>3, <1>8, <1>10, FreeBlocks
  <2>3. \A n \in 1..Len(Lists[j]) : word'[Lists[j][n]] = word[Lists[j][n]]
    BY Zenon, <2>1, <2>2
  <2>4. Linked(word, list_heads[j], Lists[j])
    BY Zenon, <1>3 DEF LinkInv
  <2> QED
    BY Zenon, <2>1, <2>3, <2>4, LinkedFrame
<1> DEFINE S == [Lists EXCEPT ![i] = Tail(s)]
<1>11. S \in [Indices -> Seq(HeapUnits)] /\ S[i] = Tail(s)
       /\ \A j \in Indices : j # i => S[j] = Lists[j]
  BY Zenon, <1>2, <1>3, <1>6
<1>12. /\ list_heads'[i] = Pointer(word[at])
       /\ \A j \in Indices : j # i => list_heads'[j] = list_heads[j]
  BY Zenon, <1>1, <1>2, <1>3
<1> HIDE DEF S, s
<1>13. ASSUME NEW j \in Indices
       PROVE  /\ Linked(word', list_heads'[j], S[j])
              /\ \A m, n \in 1..Len(S[j]) : S[j][m] = S[j][n] => m = n
  <2>1. CASE j = i
    BY SMTT(30), <2>1, <1>7, <1>9, <1>11, <1>12
  <2>2. CASE j # i
    BY Zenon, <2>2, <1>10, <1>11, <1>12
  <2> QED
    BY Zenon, <2>1, <2>2
<1>14. Lists' = S /\ LinkInv'
  BY Zenon, <1>11, <1>13, ListsAre
<1>15. list_heads' \in [Indices -> Cells]
  <2>1. Pointer(word[at]) \in Cells
    <3>1. CASE Tail(s) = <<>>
      BY Zenon, <3>1, <1>6 DEF Linked, Cells
    <3>2. CASE Tail(s) # <<>>
      BY Zenon, <3>2, <1>6, LinkedTail DEF Cells
    <3> QED
      BY Zenon, <3>1, <3>2
  <2> QED
    BY Zenon, <2>1, <1>1, <1>3
<1>16. \A b \in live : b.at # at
  <2> TAKE b \in live
  <2>1. [at |-> b.at, layout |-> b.layout] \in Held /\ b.at \in Extent(b)
        /\ Extent([at |-> b.at, layout |-> b.layout]) = Extent(b)
    BY Zenon, <1>3, HeldBlocks
  <2> QED
    BY <2>1, <1>2, <1>3, <1>8, FreeBlocks
<1> QED
  BY Zenon, <1>1, <1>5, <1>6, <1>14, <1>15, <1>16 DEF S, s, i

(* A block that is carved out was nobody's. *)
LEMMA NewCarved ==
  ASSUME IInv, NEW l \in Layouts, NEW at \in HeapUnits, alloc_new(l, at),
         \A u \in HeapUnits \ {at} : word'[u] = word[u]
  PROVE  /\ list_index(l) # 0 => Lists[list_index(l)] = <<>>
         /\ Lists' = Lists /\ LinkInv' /\ list_heads' = list_heads
         /\ \A b \in live : b.at # at
<1>1. /\ list_index(l) # 0 => list_heads[list_index(l)] = Null
      /\ Units(at, block_size(l)) \cap taken = {} /\ list_heads' = list_heads
  BY Zenon DEF alloc_new, allocate_first_fit
<1>2. Blocks /\ MemTypes /\ LinkInv /\ LiveInv
  BY Zenon DEF IInv
<1>3. at \notin taken
  BY Zenon, <1>1, NullFacts, BlockFacts, UnitsFacts
<1>4. \A i \in Indices : \A x \in Free(i) : word'[x] = word[x]
  BY <1>2, <1>3, FreeBlocks
<1>5. Lists' = Lists /\ LinkInv'
  BY Zenon, <1>1, <1>4, ListsFrame
<1>6. ASSUME list_index(l) # 0 PROVE Lists[list_index(l)] = <<>>
  <2> DEFINE i == list_index(l)
  <2>1. i \in Indices
    BY Zenon, <1>6, BlockFacts
  <2>2. list_heads[i] = Null
    BY Zenon, <1>1, <1>6
  <2> HIDE DEF i
  <2>3. Linked(word, list_heads[i], Lists[i]) /\ Lists[i] \in Seq(HeapUnits)
    BY Zenon, <2>1, <1>2, FreeBlocks DEF LinkInv
  <2>4. Lists[i] # <<>> => list_heads[i] \in HeapUnits
    BY Zenon, <2>3, LinkedTail
  <2> QED
    BY Zenon, <2>2, <2>4, NullFacts DEF i
<1>7. \A b \in live : b.at # at
  BY ZenonT(30), <1>2, <1>3, HeldBlocks
<1> QED
  BY Zenon, <1>1, <1>5, <1>6, <1>7

(* dealloc writes the old head into the block and makes it the head. *)
LEMMA ListPushed ==
  ASSUME IInv, NEW b \in live, list_index(b.layout) # 0, dealloc(b.at, b.layout)
  PROVE  /\ Lists' = [Lists EXCEPT ![list_index(b.layout)] =
                        <<b.at>> \o Lists[list_index(b.layout)]]
         /\ taken' = taken /\ LinkInv' /\ list_heads' \in [Indices -> Cells]
         /\ word' = [word EXCEPT ![b.at] = word'[b.at]]
<1> DEFINE i == list_index(b.layout)
           s == Lists[i]
<1>1. /\ word' = [word EXCEPT ![b.at] = Link(list_heads[i])] /\ taken' = taken
      /\ list_heads' = [list_heads EXCEPT ![i] = b.at]
  BY Zenon DEF dealloc
<1>2. /\ Blocks /\ MemTypes /\ LinkInv /\ LiveInv /\ Lists \in [Indices -> Seq(HeapUnits)]
      /\ list_heads \in [Indices -> Cells] /\ DOMAIN word = HeapUnits
  BY Zenon DEF IInv, Blocks, BlockTypes, MemTypes
<1>3. /\ b.at \in HeapUnits /\ b.layout \in Layouts /\ b.at \in Extent(b)
      /\ [at |-> b.at, layout |-> b.layout] \in Held
      /\ Extent([at |-> b.at, layout |-> b.layout]) = Extent(b)
  BY Zenon, <1>2, HeldBlocks
<1>4. i \in Indices
  BY Zenon, <1>3, BlockFacts
<1> HIDE DEF i
<1>5. \A j \in Indices : \A x \in Free(j) : x \in HeapUnits /\ x # b.at
  BY <1>2, <1>3, FreeBlocks
<1>6. /\ \A u \in HeapUnits \ {b.at} : word'[u] = word[u]
      /\ word'[b.at] = Link(list_heads[i]) /\ word' = [word EXCEPT ![b.at] = word'[b.at]]
  <2>1. word'[b.at] = Link(list_heads[i])
    BY Zenon, <1>1, <1>2, <1>3
  <2>2. \A u \in HeapUnits \ {b.at} : word'[u] = word[u]
    BY Zenon, <1>1, <1>2, <1>3
  <2> QED
    BY Zenon, <2>1, <2>2, <1>1
<1>7. Pointer(word'[b.at]) = list_heads[i]
  BY SMTT(30), <1>6 DEF Pointer, Link
<1>8. ASSUME NEW j \in Indices
      PROVE  /\ Linked(word', list_heads[j], Lists[j]) /\ Lists[j] \in Seq(HeapUnits)
             /\ \A m, n \in 1..Len(Lists[j]) : Lists[j][m] = Lists[j][n] => m = n
             /\ \A n \in 1..Len(Lists[j]) : Lists[j][n] # b.at
  <2>1. /\ \A m, n \in 1..Len(Lists[j]) : Lists[j][m] = Lists[j][n] => m = n
        /\ \A n \in 1..Len(Lists[j]) : Lists[j][n] \in Free(j)
        /\ Lists[j] \in Seq(HeapUnits)
    BY Zenon, <1>2, FreeBlocks
  <2>2. \A n \in 1..Len(Lists[j]) : word'[Lists[j][n]] = word[Lists[j][n]] /\ Lists[j][n] # b.at
    BY Zenon, <2>1, <1>5, <1>6
  <2>3. Linked(word, list_heads[j], Lists[j])
    BY Zenon, <1>2 DEF LinkInv
  <2>4. Linked(word', list_heads[j], Lists[j])
    BY Zenon, <2>2, <2>3, LinkedFrame
  <2> QED
    BY Zenon, <2>1, <2>2, <2>4
<1> DEFINE t == <<b.at>> \o s
           S == [Lists EXCEPT ![i] = t]
<1>9. /\ t \in Seq(HeapUnits) /\ Linked(word', b.at, t)
      /\ \A m, n \in 1..Len(t) : t[m] = t[n] => m = n
  <2>1. /\ s \in Seq(HeapUnits) /\ Linked(word', list_heads[i], s)
        /\ \A m, n \in 1..Len(s) : s[m] = s[n] => m = n
        /\ \A n \in 1..Len(s) : s[n] # b.at
    BY Zenon, <1>4, <1>8
  <2> HIDE DEF s
  <2>2. t \in Seq(HeapUnits)
    BY Zenon, <2>1, <1>3, Front
  <2>3. Linked(word', b.at, t)
    BY Zenon, <2>1, <1>3, <1>7, LinkedFront
  <2>4. \A m, n \in 1..Len(t) : t[m] = t[n] => m = n
    BY Zenon, <2>1, <1>3, FrontOnce
  <2> QED
    BY Zenon, <2>2, <2>3, <2>4
<1> HIDE DEF t
<1>10. S \in [Indices -> Seq(HeapUnits)] /\ S[i] = t
       /\ \A j \in Indices : j # i => S[j] = Lists[j]
  BY Zenon, <1>2, <1>4, <1>9
<1>11. /\ list_heads'[i] = b.at /\ \A j \in Indices : j # i => list_heads'[j] = list_heads[j]
       /\ list_heads' \in [Indices -> Cells]
  BY Zenon, <1>1, <1>2, <1>3, <1>4 DEF Cells
<1> HIDE DEF S
<1>12. ASSUME NEW j \in Indices
       PROVE  /\ Linked(word', list_heads'[j], S[j])
              /\ \A m, n \in 1..Len(S[j]) : S[j][m] = S[j][n] => m = n
  <2>1. CASE j = i
    BY ZenonT(30), <2>1, <1>9, <1>10, <1>11
  <2>2. CASE j # i
    BY Zenon, <2>2, <1>8, <1>10, <1>11
  <2> QED
    BY Zenon, <2>1, <2>2
<1>13. Lists' = S /\ LinkInv'
  BY Zenon, <1>10, <1>12, ListsAre
<1> QED
  BY Zenon, <1>1, <1>6, <1>11, <1>13 DEF S, t, i

-----------------------------------------------------------------------------
(* The steps of HeapWords are steps of KernelHeap *)

(* A block is handed out; uACPI's has its size in front. *)
LEMMA HandedOut ==
  ASSUME IInv, NEW l \in Layouts, NEW at \in HeapUnits, NEW mem \in Nat, NEW host \in BOOLEAN,
         alloc(l, at), Hand(at, l, mem, host), DOMAIN word' = HeapUnits,
         \A u \in HeapUnits \ {at} : word'[u] = word[u],
         IF host THEN mem = at + 1 /\ l = HostLayout(l.size - 1) /\ word'[at] = Size(l.size - 1)
                 ELSE mem = at
  PROVE  IInv' /\ (ListAlloc(l) \/ NewAlloc(l))
<1> DEFINE r == [at |-> at, layout |-> l, mem |-> mem, host |-> host]
<1>1. Blocks /\ MemTypes /\ LiveInv
  BY Zenon DEF IInv
<1>2. /\ r.at = at /\ r.layout = l /\ r.mem = mem /\ r.host = host
      /\ r \in [at: HeapUnits, layout: Layouts, mem: Nat, host: BOOLEAN]
  BY Zenon
<1>3. live' = live \cup {r}
  BY Zenon DEF Hand
<1> HIDE DEF r
<1>4. Held' = Held \cup {[at |-> at, layout |-> l]}
  BY Zenon, <1>2, <1>3 DEF Held
<1>5. /\ ListAlloc(l) \/ NewAlloc(l)
      /\ LinkInv' /\ list_heads' \in [Indices -> Cells] /\ \A b \in live : b.at # at
  <2>1. CASE alloc_from_list(l, at)
    <3>1. /\ list_index(l) # 0 /\ Lists[list_index(l)] # <<>> /\ at = Head(Lists[list_index(l)])
          /\ Lists' = [Lists EXCEPT ![list_index(l)] = Tail(Lists[list_index(l)])]
          /\ taken' = taken /\ LinkInv' /\ list_heads' \in [Indices -> Cells]
          /\ \A b \in live : b.at # at
      BY Zenon, <2>1, ListPopped
    <3>2. ListAlloc(l)
      BY Zenon, <3>1, <1>4 DEF ListAlloc
    <3> QED
      BY Zenon, <3>1, <3>2
  <2>2. CASE alloc_new(l, at)
    <3>1. /\ list_index(l) # 0 => Lists[list_index(l)] = <<>>
          /\ Lists' = Lists /\ LinkInv' /\ list_heads' = list_heads
          /\ \A b \in live : b.at # at
      BY Zenon, <2>2, NewCarved
    <3>2. allocate_first_fit(at, block_size(l), block_align(l))
      BY Zenon, <2>2 DEF alloc_new
    <3>3. NewAlloc(l)
      BY Zenon, <3>1, <3>2, <1>4 DEF NewAlloc
    <3> QED
      BY Zenon, <3>1, <3>3, <1>1 DEF MemTypes
  <2> QED
    BY Zenon, <2>1, <2>2 DEF alloc
<1>6. Blocks'
  BY Zenon, <1>1, <1>5, FromList, FromHeap
<1>7. MemTypes'
  BY Zenon, <1>1, <1>2, <1>3, <1>5 DEF MemTypes
<1>8. LiveInv'
  <2>1. \A b \in live : b.at \in HeapUnits \ {at}
    BY Zenon, <1>1, <1>5 DEF MemTypes
  <2>2. \A b, c \in live' : b.at = c.at => b = c
    BY Zenon, <2>1, <1>1, <1>2, <1>3 DEF LiveInv
  <2>3. ASSUME NEW b \in live'
        PROVE  IF b.host THEN /\ b.mem = b.at + 1 /\ b.layout = HostLayout(b.layout.size - 1)
                              /\ word'[b.at] = Size(b.layout.size - 1)
                         ELSE b.mem = b.at
    <3>1. CASE b = r
      BY Zenon, <3>1, <1>2
    <3>2. CASE b \in live
      <4>1. word'[b.at] = word[b.at]
        BY Zenon, <3>2, <2>1
      <4> QED
        BY Zenon, <4>1, <3>2, <1>1 DEF LiveInv
    <3> QED
      BY Zenon, <3>1, <3>2, <1>3
  <2> QED
    BY Zenon, <2>2, <2>3 DEF LiveInv
<1> QED
  BY Zenon, <1>5, <1>6, <1>7, <1>8 DEF IInv

(* Lists and blocks that do not change keep the invariant. *)
LEMMA BlocksFrame ==
  ASSUME Blocks, Lists' = Lists, Held' = Held, taken' = taken
  PROVE  Blocks'
<1>1. \A i \in Indices : Free(i)' = Free(i) /\ (Once(i)' <=> Once(i))
  BY Zenon DEF Free, Once
<1> QED
  BY <1>1 DEF Blocks, BlockTypes, AlignedInv, DisjointInv, CoverInv

(* A block is given back with the layout it was asked for. *)
LEMMA GivenBack ==
  ASSUME IInv, NEW b \in live, dealloc(b.at, b.layout), live' = live \ {b}
  PROVE  IInv' /\ \E c \in Held : Release(c)
<1> DEFINE c == [at |-> b.at, layout |-> b.layout]
<1>1. Blocks /\ MemTypes /\ LiveInv
  BY Zenon DEF IInv
<1>2. /\ c \in Held /\ b.at \in HeapUnits /\ b.layout \in Layouts /\ Extent(c) = Extent(b)
      /\ c.at = b.at /\ c.layout = b.layout
      /\ \A d \in live : d.at \in HeapUnits /\ d.at \in Extent(d)
      /\ \A d \in live : d # b => Extent(d) \cap Extent(b) = {}
  BY Zenon, <1>1, HeldBlocks
<1>3. Held' = Held \ {c}
  <2>1. \A d \in live : [at |-> d.at, layout |-> d.layout] = c => d = b
    BY Zenon, <1>1 DEF LiveInv
  <2> HIDE DEF c
  <2>2. Held' = {[at |-> d.at, layout |-> d.layout] : d \in live \ {b}}
    BY Zenon DEF Held
  <2>3. Held = {[at |-> d.at, layout |-> d.layout] : d \in live}
    BY Zenon DEF Held
  <2>4. \A d \in live \ {b} : [at |-> d.at, layout |-> d.layout] # c
    BY Zenon, <2>1
  <2>5. [at |-> b.at, layout |-> b.layout] = c
    BY Zenon DEF c
  <2> QED
    BY Zenon, <2>2, <2>3, <2>4, <2>5
<1> HIDE DEF c
<1>4. /\ Release(c) /\ LinkInv' /\ list_heads' \in [Indices -> Cells] /\ DOMAIN word' = HeapUnits
      /\ \A u \in HeapUnits \ Extent(b) : word'[u] = word[u]
  <2>1. CASE list_index(b.layout) # 0
    <3>1. /\ Lists' = [Lists EXCEPT ![list_index(b.layout)] =
                         <<b.at>> \o Lists[list_index(b.layout)]]
          /\ taken' = taken /\ LinkInv' /\ list_heads' \in [Indices -> Cells]
          /\ word' = [word EXCEPT ![b.at] = word'[b.at]]
      BY Zenon, <2>1, ListPushed
    <3>2. Release(c)
      BY Zenon, <2>1, <3>1, <1>2, <1>3 DEF Release
    <3>3. DOMAIN word' = HeapUnits /\ \A u \in HeapUnits \ Extent(b) : word'[u] = word[u]
      <4>1. b.at \in Extent(b) /\ DOMAIN word = HeapUnits
        BY Zenon, <1>1, <1>2 DEF MemTypes
      <4>2. DOMAIN word' = HeapUnits /\ \A u \in HeapUnits \ {b.at} : word'[u] = word[u]
        BY Zenon, <3>1, <4>1
      <4> QED
        BY Zenon, <4>1, <4>2
    <3> QED
      BY Zenon, <3>1, <3>2, <3>3
  <2>2. CASE list_index(b.layout) = 0
    <3>1. /\ taken' = taken \ Units(b.at, b.layout.size) /\ list_heads' = list_heads
          /\ word' = [u \in DOMAIN word |-> IF u \in Units(b.at, b.layout.size) THEN Data ELSE word[u]]
      BY Zenon, <2>2 DEF dealloc
    <3>2. Extent(b) = Units(b.at, b.layout.size)
      BY Zenon, <2>2, <1>2, BlockFacts DEF Extent
    <3>3. DOMAIN word' = HeapUnits /\ \A u \in HeapUnits \ Extent(b) : word'[u] = word[u]
      BY Zenon, <3>1, <3>2, <1>1 DEF MemTypes
    <3>4. \A i \in Indices : \A x \in Free(i) : word'[x] = word[x]
      BY Zenon, <3>3, <1>1, <1>2, FreeBlocks
    <3>5. Lists' = Lists /\ LinkInv'
      BY Zenon, <3>1, <3>4, ListsFrame
    <3>6. Release(c)
      BY Zenon, <2>2, <3>1, <3>5, <1>2, <1>3 DEF Release
    <3> QED
      BY Zenon, <3>1, <3>3, <3>5, <3>6, <1>1 DEF MemTypes
  <2> QED
    BY Zenon, <2>1, <2>2
<1>5. Blocks'
  BY Zenon, <1>1, <1>2, <1>4, ToList, ToHeap
<1>6. MemTypes'
  BY Zenon, <1>1, <1>4 DEF MemTypes
<1>7. LiveInv'
  <2>1. \A d \in live' : d \in live /\ d.at \in HeapUnits \ Extent(b)
    BY Zenon, <1>2
  <2>2. \A d \in live' : word'[d.at] = word[d.at]
    BY Zenon, <2>1, <1>4
  <2> QED
    BY Zenon, <2>1, <2>2, <1>1 DEF LiveInv
<1> QED
  BY Zenon, <1>2, <1>4, <1>5, <1>6, <1>7 DEF IInv

(* A caller writes to its own block only, and uACPI not to the size. *)
LEMMA Filled ==
  ASSUME IInv, NEW b \in live, Fill(b)
  PROVE  IInv' /\ Lists' = Lists /\ Held' = Held /\ taken' = taken
<1> DEFINE range == b.mem..(b.at + b.layout.size - 1)
<1>1. /\ word' = [u \in DOMAIN word |-> IF u \in range THEN Data ELSE word[u]]
      /\ list_heads' = list_heads /\ taken' = taken /\ live' = live
  BY Zenon DEF Fill
<1>2. Blocks /\ MemTypes /\ LiveInv /\ LinkInv
  BY Zenon DEF IInv
<1>3. /\ b.at \in Nat /\ b.layout.size \in Nat \ {0} /\ [at |-> b.at, layout |-> b.layout] \in Held
      /\ b.at..(b.at + b.layout.size - 1) \subseteq Extent(b)
      /\ Extent([at |-> b.at, layout |-> b.layout]) = Extent(b)
      /\ \A d \in live : d.at \in HeapUnits /\ d.at \in Extent(d)
      /\ \A d \in live : d # b => Extent(d) \cap Extent(b) = {}
  BY Zenon, <1>2, HeldBlocks
<1>4. /\ b.mem = b.at \/ (b.host /\ b.mem = b.at + 1)
      /\ b.host => b.mem = b.at + 1
  BY Zenon, <1>2 DEF LiveInv
<1>5. range \subseteq Extent(b) /\ (b.host => b.at \notin range)
  <2>1. \A u \in range : u \in b.at..(b.at + b.layout.size - 1)
    BY <1>3, <1>4
  <2>2. b.host => b.at \notin range
    BY <1>3, <1>4
  <2> HIDE DEF range
  <2> QED
    BY Zenon, <2>1, <2>2, <1>3
<1> HIDE DEF range
<1>6. DOMAIN word' = HeapUnits /\ \A u \in HeapUnits \ range : word'[u] = word[u]
  BY Zenon, <1>1, <1>2 DEF MemTypes
<1>7. \A i \in Indices : \A x \in Free(i) : word'[x] = word[x]
  BY SMTT(30), <1>2, <1>3, <1>5, <1>6, FreeBlocks
<1>8. Lists' = Lists /\ LinkInv'
  BY Zenon, <1>1, <1>7, ListsFrame
<1>9. Held' = Held
  BY Zenon, <1>1 DEF Held
<1>10. Blocks'
  BY Zenon, <1>1, <1>2, <1>8, <1>9, BlocksFrame
<1>11. MemTypes'
  BY Zenon, <1>1, <1>2, <1>6 DEF MemTypes
<1>12. LiveInv'
  <2>1. \A d \in live : d.host => word'[d.at] = word[d.at]
    <3> SUFFICES ASSUME NEW d \in live, d.host PROVE d.at \in HeapUnits \ range
      BY Zenon, <1>6
    <3>1. CASE d = b
      BY Zenon, <3>1, <1>3, <1>5
    <3>2. CASE d # b
      BY Zenon, <3>2, <1>3, <1>5
    <3> QED
      BY Zenon, <3>1, <3>2
  <2> QED
    BY Zenon, <2>1, <1>1, <1>2 DEF LiveInv
<1> QED
  BY Zenon, <1>1, <1>8, <1>9, <1>10, <1>11, <1>12 DEF IInv

(* What a step of KernelHeap, or none, does to the lists and blocks. *)
Mapped ==
  \/ \E l \in Layouts : ListAlloc(l) \/ NewAlloc(l)
  \/ \E c \in Held : Release(c)
  \/ Lists' = Lists /\ Held' = Held /\ taken' = taken

(* alloc, for Rust code: the pointer is taken out of the block. *)
LEMMA ObtainStep ==
  ASSUME IInv, NEW l \in Layouts, Obtain(l)
  PROVE  IInv' /\ Mapped
<1>1. PICK at \in HeapUnits : alloc(l, at) /\ word' = Memory(l, at) /\ Hand(at, l, at, FALSE)
  BY Zenon DEF Obtain
<1>2. DOMAIN word = HeapUnits /\ at \in Nat
  BY Zenon, NullFacts DEF IInv, MemTypes
<1>3. DOMAIN word' = HeapUnits /\ \A u \in HeapUnits \ {at} : word'[u] = word[u]
  BY Zenon, <1>1, <1>2 DEF Memory
<1>4. PICK host \in BOOLEAN : host = FALSE
  BY Zenon
<1>5. Hand(at, l, at, host)
  BY Zenon, <1>1, <1>4 DEF Hand
<1>6. IInv' /\ (ListAlloc(l) \/ NewAlloc(l))
  BY Zenon, <1>1, <1>2, <1>3, <1>4, <1>5, HandedOut
<1> QED
  BY Zenon, <1>6 DEF Mapped

(* alloc, for uACPI: the size is written over the pointer. *)
LEMMA HostAllocStep ==
  ASSUME IInv, NEW n \in HostSizes, uacpi_kernel_alloc(n)
  PROVE  IInv' /\ Mapped
<1> DEFINE l == HostLayout(n)
<1>1. n \in Nat /\ l \in Layouts /\ l.size - 1 = n
  BY HostAssumption DEF HostLayout
<1>2. PICK at \in HeapUnits : /\ alloc(l, at) /\ word' = [Memory(l, at) EXCEPT ![at] = Size(n)]
                              /\ Hand(at, l, at + 1, TRUE)
  BY Zenon DEF uacpi_kernel_alloc
<1>3. DOMAIN word = HeapUnits /\ at \in Nat /\ at + 1 \in Nat
  BY NullFacts DEF IInv, MemTypes
<1>4. l = HostLayout(l.size - 1)
  BY Zenon, <1>1
<1> HIDE DEF l
<1>5. DOMAIN Memory(l, at) = HeapUnits /\ \A u \in HeapUnits \ {at} : Memory(l, at)[u] = word[u]
  BY Zenon, <1>3 DEF Memory
<1>6. /\ DOMAIN word' = HeapUnits /\ \A u \in HeapUnits \ {at} : word'[u] = word[u]
      /\ word'[at] = Size(n)
  BY Zenon, <1>2, <1>5
<1>7. PICK host \in BOOLEAN : host = TRUE
  BY Zenon
<1>8. Hand(at, l, at + 1, host)
  BY Zenon, <1>2, <1>7 DEF Hand
<1>9. word'[at] = Size(l.size - 1)
  BY Zenon, <1>1, <1>6
<1>10. IInv' /\ (ListAlloc(l) \/ NewAlloc(l))
  BY Zenon, <1>1, <1>2, <1>3, <1>4, <1>6, <1>7, <1>8, <1>9, HandedOut
<1> QED
  BY Zenon, <1>1, <1>10 DEF Mapped

(* dealloc, for uACPI: the size in front of the block gives the layout it was *)
(* asked for, and the address names one block.                                *)
LEMMA HostFreeStep ==
  ASSUME IInv, NEW b \in live, b.host, uacpi_kernel_free(b.mem)
  PROVE  IInv' /\ Mapped
<1>1. Blocks /\ MemTypes /\ LiveInv
  BY Zenon DEF IInv
<1>2. \A c \in live : c.at \in Nat
  BY Zenon, <1>1, NullFacts DEF MemTypes
<1>3. \A c \in live : c.host => c.mem = c.at + 1
  BY Zenon, <1>1 DEF LiveInv
<1>4. b.layout = HostLayout(b.layout.size - 1) /\ word[b.at] = Size(b.layout.size - 1)
  BY Zenon, <1>1 DEF LiveInv
<1>5. b.mem - 1 = b.at
  BY <1>2, <1>3
<1>6. HostLayout(word[b.at].n) = b.layout
  <2>1. word[b.at].n = b.layout.size - 1
    BY <1>4 DEF Size
  <2> QED
    BY Zenon, <2>1, <1>4
<1>7. dealloc(b.at, b.layout) /\ live' = {c \in live : ~(c.host /\ c.mem = b.mem)}
  BY Zenon, <1>5, <1>6 DEF uacpi_kernel_free
<1>8. \A c \in live : c.host /\ c.mem = b.mem <=> c = b
  <2> TAKE c \in live
  <2>1. c.host /\ c.mem = b.mem => c.at = b.at
    BY <1>2, <1>3
  <2> QED
    BY Zenon, <2>1, <1>1 DEF LiveInv
<1>9. live' = live \ {b}
  BY Zenon, <1>7, <1>8
<1> QED
  BY Zenon, <1>7, <1>9, GivenBack DEF Mapped

-----------------------------------------------------------------------------
(* The properties of KernelHeap on these lists and blocks *)

Listed == UNION {{<<i, n>> : n \in 1..Len(Lists[i])} : i \in Indices}
ListedExtent(e) == Units(Lists[e[1]][e[2]], BLOCK_SIZES[e[1]])

Apart ==
  /\ \A b, c \in Held : b # c => Extent(b) \cap Extent(c) = {}
  /\ \A b \in Held, e \in Listed : Extent(b) \cap ListedExtent(e) = {}
  /\ \A e, f \in Listed : e # f => ListedExtent(e) \cap ListedExtent(f) = {}

Fitting ==
  \A b \in Held :
    /\ b.at % b.layout.align = 0
    /\ b.at..(b.at + b.layout.size - 1) \subseteq Extent(b)
    /\ Extent(b) \subseteq 0..HEAP_SIZE - 1

AllHeld ==
  taken = UNION ({Extent(b) : b \in Held} \cup {ListedExtent(e) : e \in Listed})

(* The blocks on the lists, as the properties name them. *)
LEMMA ListedBlocks ==
  ASSUME BlockTypes
  PROVE  /\ \A e \in Listed : /\ e[1] \in Indices /\ Lists[e[1]][e[2]] \in Free(e[1])
                              /\ e[2] \in 1..Len(Lists[e[1]]) /\ e = <<e[1], e[2]>>
                              /\ ListedExtent(e) = Piece(e[1], Lists[e[1]][e[2]])
         /\ \A i \in Indices : \A x \in Free(i) :
              \E e \in Listed : ListedExtent(e) = Piece(i, x)
<1>1. ASSUME NEW e \in Listed
      PROVE  /\ e[1] \in Indices /\ Lists[e[1]][e[2]] \in Free(e[1])
             /\ e[2] \in 1..Len(Lists[e[1]]) /\ e = <<e[1], e[2]>>
             /\ ListedExtent(e) = Piece(e[1], Lists[e[1]][e[2]])
  <2>1. PICK i \in Indices : \E n \in 1..Len(Lists[i]) : e = <<i, n>>
    BY Zenon DEF Listed
  <2>2. PICK n \in 1..Len(Lists[i]) : e = <<i, n>>
    BY Zenon, <2>1
  <2>3. e[1] = i /\ e[2] = n
    BY Zenon, <2>2
  <2> QED
    BY Zenon, <2>2, <2>3 DEF Free, ListedExtent, Piece
<1>2. ASSUME NEW i \in Indices, NEW x \in Free(i)
      PROVE  \E e \in Listed : ListedExtent(e) = Piece(i, x)
  <2>1. PICK n \in 1..Len(Lists[i]) : x = Lists[i][n]
    BY Zenon DEF Free
  <2>2. <<i, n>> \in Listed
    BY DEF Listed
  <2>3. ListedExtent(<<i, n>>) = Piece(i, x)
    BY Zenon, <2>1 DEF ListedExtent, Piece
  <2> QED
    BY Zenon, <2>2, <2>3
<1> QED
  BY Zenon, <1>1, <1>2

(* The blocks of the invariant do not overlap. *)
LEMMA InvDisjoint == Blocks => Apart
<1> SUFFICES ASSUME Blocks PROVE Apart
  BY Zenon
<1>1. BlockTypes /\ DisjointInv
  BY Zenon DEF Blocks
<1>2. \A b, c \in Held : b # c => Extent(b) \cap Extent(c) = {}
  BY Zenon, <1>1 DEF DisjointInv
<1>3. ASSUME NEW b \in Held, NEW e \in Listed PROVE Extent(b) \cap ListedExtent(e) = {}
  BY <1>1, ListedBlocks DEF DisjointInv
<1>4. ASSUME NEW e \in Listed, NEW f \in Listed, e # f
      PROVE  ListedExtent(e) \cap ListedExtent(f) = {}
  <2> DEFINE x == Lists[e[1]][e[2]]
             y == Lists[f[1]][f[2]]
  <2>1. /\ e[1] \in Indices /\ e[2] \in 1..Len(Lists[e[1]]) /\ x \in Free(e[1])
        /\ f[1] \in Indices /\ f[2] \in 1..Len(Lists[f[1]]) /\ y \in Free(f[1])
        /\ ListedExtent(e) = Piece(e[1], x) /\ ListedExtent(f) = Piece(f[1], y)
        /\ e = <<e[1], e[2]>> /\ f = <<f[1], f[2]>>
    BY Zenon, <1>1, ListedBlocks
  <2>2. e[1] # f[1] \/ e[2] # f[2]
    BY Zenon, <2>1, <1>4
  <2>3. e[1] # f[1] \/ x # y
    BY Zenon, <2>1, <2>2, <1>1 DEF DisjointInv, Once
  <2> HIDE DEF x, y
  <2> QED
    BY ZenonT(30), <2>1, <2>3, <1>1 DEF DisjointInv
<1> QED
  BY Zenon, <1>2, <1>3, <1>4 DEF Apart

(* They are all that has been handed out. *)
LEMMA InvCovers == Blocks => AllHeld
<1> SUFFICES ASSUME Blocks PROVE AllHeld
  BY Zenon
<1>1. BlockTypes /\ CoverInv
  BY Zenon DEF Blocks
<1> DEFINE All == UNION ({Extent(b) : b \in Held} \cup {ListedExtent(e) : e \in Listed})
<1>2. ASSUME NEW u \in taken PROVE u \in All
  <2>1. CASE \E b \in Held : u \in Extent(b)
    BY Zenon, <2>1
  <2>2. CASE \E i \in Indices : \E x \in Free(i) : u \in Piece(i, x)
    <3>1. \E e \in Listed : u \in ListedExtent(e)
      BY Zenon, <2>2, <1>1, ListedBlocks
    <3> QED
      BY Zenon, <3>1
  <2> QED
    BY Zenon, <2>1, <2>2, <1>1 DEF CoverInv
<1>3. ASSUME NEW u \in All PROVE u \in taken
  <2>1. (\E b \in Held : u \in Extent(b)) \/ (\E e \in Listed : u \in ListedExtent(e))
    BY Zenon, <1>3
  <2>2. (\E e \in Listed : u \in ListedExtent(e)) =>
          \E i \in Indices : \E x \in Free(i) : u \in Piece(i, x)
    BY <1>1, ListedBlocks
  <2> QED
    BY Zenon, <2>1, <2>2, <1>1 DEF CoverInv
<1> QED
  BY Zenon, <1>2, <1>3 DEF AllHeld

(* They suit their layouts. *)
LEMMA InvFits == Blocks => Fitting
<1> SUFFICES ASSUME Blocks, NEW b \in Held
             PROVE  /\ b.at % b.layout.align = 0
                    /\ b.at..(b.at + b.layout.size - 1) \subseteq Extent(b)
                    /\ Extent(b) \subseteq 0..HEAP_SIZE - 1
  BY Zenon DEF Fitting
<1>1. BlockTypes /\ AlignedInv /\ CoverInv
  BY Zenon DEF Blocks
<1>2. b.at \in HeapUnits /\ b.layout \in Layouts /\ b.at % block_align(b.layout) = 0
  BY Zenon, <1>1 DEF BlockTypes, AlignedInv
<1>3. b.at \in Nat
  BY SMTT(30), <1>2, HeapAssumption DEF HeapUnits
<1>4. /\ block_size(b.layout) \in Nat \ {0} /\ block_align(b.layout) \in Nat \ {0}
      /\ block_size(b.layout) >= b.layout.size
      /\ list_index(b.layout) = 0 => block_align(b.layout) = b.layout.align
      /\ list_index(b.layout) # 0 => block_align(b.layout) % b.layout.align = 0
  BY Zenon, <1>2, BlockFacts
<1>5. b.layout.size \in Nat \ {0} /\ b.layout.align \in Nat \ {0}
  BY Zenon, <1>2, HeapAssumption
<1>6. b.at % b.layout.align = 0
  BY Zenon, <1>2, <1>3, <1>4, <1>5, AlignedTo
<1>7. b.at..(b.at + b.layout.size - 1) \subseteq Extent(b)
  <2>1. b.at..(b.at + block_size(b.layout) - 1) \subseteq Extent(b)
    BY Zenon, <1>3, <1>4, UnitsFacts DEF Extent
  <2>2. \A u \in b.at..(b.at + b.layout.size - 1) : u \in b.at..(b.at + block_size(b.layout) - 1)
    BY SMTT(30), <1>3, <1>4, <1>5
  <2> QED
    BY Zenon, <2>1, <2>2
<1>8. Extent(b) \subseteq 0..HEAP_SIZE - 1
  BY Zenon, <1>1 DEF CoverInv, BlockTypes, HeapUnits
<1> QED
  BY Zenon, <1>6, <1>7, <1>8

-----------------------------------------------------------------------------
(* KernelHeap with these lists and blocks for its variables *)

(* Its block sizes are those of HeapWords. *)
LEMMA SameBlocks ==
  /\ H!Indices = Indices /\ H!HeapUnits = HeapUnits
  /\ \A at, size : H!Units(at, size) = Units(at, size)
  /\ \A l : H!list_index(l) = list_index(l)
  /\ \A l : H!block_size(l) = block_size(l) /\ H!block_align(l) = block_align(l)
  /\ \A b : H!Extent(b) = Extent(b)
<1>1. H!Indices = Indices /\ H!HeapUnits = HeapUnits
  BY Zenon DEF H!Indices, Indices, H!HeapUnits, HeapUnits
<1>2. \A at, size : H!Units(at, size) = Units(at, size)
  BY Zenon DEF H!Units, Units, H!Max, Max
<1>3. \A l : H!list_index(l) = list_index(l)
  BY Zenon DEF H!list_index, list_index, H!Max, Max, H!Min, Min, H!Indices, Indices
<1>4. \A l : H!block_size(l) = block_size(l) /\ H!block_align(l) = block_align(l)
  BY Zenon, <1>3 DEF H!block_size, block_size, H!block_align, block_align
<1>5. \A b : H!Extent(b) = Extent(b)
  BY Zenon, <1>2, <1>4 DEF H!Extent, Extent
<1> QED
  BY Zenon, <1>1, <1>2, <1>3, <1>4, <1>5

(* Its properties are those of the lists and blocks. *)
LEMMA SameProperties ==
  /\ H!BlocksDisjoint <=> Apart
  /\ H!BlocksFit <=> Fitting
  /\ H!NoBlockLost <=> AllHeld
<1>1. H!Listed = Listed
  BY Zenon, SameBlocks DEF H!Listed, Listed, Lists
<1>2. \A e : H!ListedExtent(e) = ListedExtent(e)
  BY Zenon, SameBlocks DEF H!ListedExtent, ListedExtent, Lists
<1>3. H!BlocksDisjoint <=> Apart
  BY Zenon, <1>1, <1>2, SameBlocks DEF H!BlocksDisjoint, Apart, Held
<1>4. H!BlocksFit <=> Fitting
  BY Zenon, SameBlocks DEF H!BlocksFit, Fitting, Held
<1>5. H!NoBlockLost <=> AllHeld
  BY Zenon, <1>1, <1>2, SameBlocks DEF H!NoBlockLost, AllHeld, Held
<1> QED
  BY Zenon, <1>3, <1>4, <1>5

(* Its steps are those of Mapped. *)
LEMMA SameSteps == Mapped => [H!Next]_H!vars
<1>1. /\ [i \in Indices |-> Chain(list_heads[i])] = Lists
      /\ [i \in Indices |-> Chain(list_heads[i])]' = Lists'
      /\ {[at |-> b.at, layout |-> b.layout] : b \in live} = Held
      /\ {[at |-> b.at, layout |-> b.layout] : b \in live}' = Held'
  BY Zenon DEF Lists, Held
<1>2. ASSUME NEW l \in Layouts, ListAlloc(l) PROVE H!alloc_from_list(l)
  BY ZenonT(30), <1>1, <1>2, SameBlocks DEF ListAlloc, H!alloc_from_list, H!Hand
<1>3. ASSUME NEW l \in Layouts, NewAlloc(l) PROVE H!alloc_new(l)
  BY Zenon, <1>1, <1>3, SameBlocks
     DEF NewAlloc, H!alloc_new, H!Hand, H!allocate_first_fit, allocate_first_fit
<1>4. ASSUME NEW c \in Held, Release(c) PROVE H!dealloc(c)
  BY Zenon, <1>1, <1>4, SameBlocks DEF Release, H!dealloc
<1>5. ASSUME Lists' = Lists, Held' = Held, taken' = taken PROVE UNCHANGED H!vars
  BY Zenon, <1>1, <1>5 DEF H!vars
<1> QED
  BY Zenon, <1>1, <1>2, <1>3, <1>4, <1>5 DEF Mapped, H!Next

-----------------------------------------------------------------------------
(* The theorems *)

(* An empty heap has no blocks. *)
LEMMA InitInv == Init => IInv /\ H!Init
<1> SUFFICES ASSUME Init PROVE IInv /\ H!Init
  BY Zenon
<1>1. /\ list_heads = [i \in Indices |-> Null] /\ word = [u \in HeapUnits |-> Data]
      /\ taken = {} /\ live = {}
  BY Zenon DEF Init
<1>2. \A i \in Indices : Linked(word, list_heads[i], <<>>)
  BY <1>1 DEF Linked
<1>3. \A i \in Indices : Chain(list_heads[i]) = <<>>
  <2> TAKE i \in Indices
  <2>1. <<>> \in Seq(HeapUnits) /\ \A m, n \in 1..Len(<<>>) : <<>>[m] = <<>>[n] => m = n
    OBVIOUS
  <2> QED
    BY Zenon, <2>1, <1>2, Followed DEF Chain
<1>4. Lists = [i \in Indices |-> <<>>]
  BY Zenon, <1>3 DEF Lists
<1>5. Held = {}
  BY Zenon, <1>1 DEF Held
<1>6. \A i \in Indices : Free(i) = {} /\ Once(i)
  <2> TAKE i \in Indices
  <2>1. Len(Lists[i]) = 0
    BY Zenon, <1>4
  <2> QED
    BY <2>1 DEF Free, Once
<1>7. Blocks
  <2>1. BlockTypes
    BY SMTT(30), <1>1, <1>4, <1>5 DEF BlockTypes
  <2> QED
    BY Zenon, <2>1, <1>1, <1>5, <1>6 DEF Blocks, AlignedInv, DisjointInv, CoverInv
<1>8. MemTypes /\ LinkInv /\ LiveInv
  BY Zenon, <1>1, <1>2, <1>4 DEF MemTypes, LinkInv, LiveInv, Cells
<1>9. H!Init
  BY Zenon, <1>1, <1>4, <1>5, SameBlocks DEF H!Init, Lists, Held
<1> QED
  BY Zenon, <1>7, <1>8, <1>9 DEF IInv

(* Every step keeps the invariant and is one of KernelHeap, or none. *)
LEMMA InvStep == IInv /\ [Next]_vars => IInv' /\ Mapped
<1> SUFFICES ASSUME IInv, [Next]_vars PROVE IInv' /\ Mapped
  BY Zenon
<1>1. ASSUME list_heads' = list_heads, word' = word, taken' = taken, live' = live
      PROVE  IInv' /\ Mapped
  <2>1. Blocks /\ MemTypes /\ LiveInv
    BY Zenon DEF IInv
  <2>2. Lists' = Lists /\ LinkInv'
    BY Zenon, <1>1, ListsFrame
  <2>3. Held' = Held
    BY Zenon, <1>1 DEF Held
  <2>4. Blocks'
    BY Zenon, <2>1, <2>2, <2>3, <1>1, BlocksFrame
  <2>5. MemTypes' /\ LiveInv'
    BY Zenon, <2>1, <1>1 DEF MemTypes, LiveInv
  <2> QED
    BY Zenon, <2>2, <2>3, <2>4, <2>5, <1>1 DEF IInv, Mapped
<1>2. ASSUME NEW l \in Layouts, Obtain(l) PROVE IInv' /\ Mapped
  BY Zenon, <1>2, ObtainStep
<1>3. ASSUME NEW l \in Layouts, OutOfMemory(l) PROVE IInv' /\ Mapped
  BY Zenon, <1>1, <1>3 DEF OutOfMemory
<1>4. ASSUME NEW n \in HostSizes, uacpi_kernel_alloc(n) PROVE IInv' /\ Mapped
  BY Zenon, <1>4, HostAllocStep
<1>5. ASSUME NEW b \in live, GiveBack(b) PROVE IInv' /\ Mapped
  <2>1. dealloc(b.at, b.layout) /\ live' = live \ {b}
    BY Zenon, <1>5 DEF GiveBack
  <2> QED
    BY Zenon, <2>1, GivenBack DEF Mapped
<1>6. ASSUME NEW b \in live, Fill(b) PROVE IInv' /\ Mapped
  BY Zenon, <1>6, Filled DEF Mapped
<1>7. ASSUME NEW b \in live, b.host, uacpi_kernel_free(b.mem) PROVE IInv' /\ Mapped
  BY Zenon, <1>7, HostFreeStep
<1>8. CASE UNCHANGED vars
  BY Zenon, <1>1, <1>8 DEF vars
<1> QED
  BY Zenon, <1>2, <1>3, <1>4, <1>5, <1>6, <1>7, <1>8 DEF Next

(* The inductive invariant: blocks are aligned to their size, apart, and all  *)
(* that the linked-list allocator has handed out; the pointers in the free    *)
(* blocks are the lists; uACPI's blocks begin with their size.                *)
THEOREM HeapInvariant == Spec => []IInv
  BY InitInv, InvStep, PTL DEF Spec

(* The free lists kept in the blocks implement those of KernelHeap, whatever  *)
(* callers write to the blocks they hold.                                     *)
THEOREM HeapRefines == Spec => ImplementsHeap
<1>1. Init => H!Init
  BY Zenon, InitInv
<1>2. IInv /\ [Next]_vars => [H!Next]_H!vars
  BY Zenon, InvStep, SameSteps
<1> QED
  BY <1>1, <1>2, HeapInvariant, PTL DEF Spec, ImplementsHeap, H!Spec

(* No two blocks overlap, whether callers hold them or lists do. *)
THEOREM NoOverlap == Spec => []BlocksDisjoint
<1>1. IInv => BlocksDisjoint
  BY Zenon, InvDisjoint, SameProperties DEF IInv, BlocksDisjoint
<1> QED
  BY <1>1, HeapInvariant, PTL

(* A block suits the layout it was asked for, whatever layout it was carved   *)
(* out for.                                                                   *)
THEOREM BlocksSuit == Spec => []BlocksFit
<1>1. IInv => BlocksFit
  BY Zenon, InvFits, SameProperties DEF IInv, BlocksFit
<1> QED
  BY <1>1, HeapInvariant, PTL

(* What is neither held nor on a list is with the linked-list allocator. *)
THEOREM NothingLost == Spec => []NoBlockLost
<1>1. IInv => NoBlockLost
  BY Zenon, InvCovers, SameProperties DEF IInv, NoBlockLost
<1> QED
  BY <1>1, HeapInvariant, PTL

(* A block of uACPI's begins with its size for as long as it is held. *)
THEOREM SizeKept == Spec => []SizeIntact
<1>1. IInv => SizeIntact
  BY Zenon DEF IInv, LiveInv, SizeIntact
<1> QED
  BY <1>1, HeapInvariant, PTL

=============================================================================

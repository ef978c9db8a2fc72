-------------------------- MODULE BuddyFramesProofs --------------------------
(***************************************************************************)
(* The buddy allocator for any number of levels, any memory map within the *)
(* half of MAX_PHYS_MAP that level 0 has bits for, and any sequence of     *)
(* requests and returns: no page is lost or handed out twice, buddies are  *)
(* always merged, a request fails only if there is no free run for it, and *)
(* the bit array implements the ownership of pages.                        *)
(***************************************************************************)
EXTENDS BuddyFrames, NaturalsInduction, WellFoundedInduction, TLAPS

-----------------------------------------------------------------------------
(* Natural numbers *)

(* Every nonempty set of naturals has a least element: what a search of the   *)
(* code for the first index with some property finds.                         *)
LEMMA Least ==
  ASSUME NEW S \in SUBSET Nat, S # {}
  PROVE  \E n \in S : \A m \in S : n <= m
<1> DEFINE R == OpToRel(<, Nat)
<1>1. IsWellFoundedOn(R, Nat)
  BY Zenon, NatLessThanWellFounded
<1>2. PICK n \in S : \A m \in S : <<m, n>> \notin R
  <2> HIDE DEF R
  <2> QED
    BY Zenon, <1>1, WFMin
<1>3. ASSUME NEW m \in S PROVE ~(m < n)
  <2>1. m \in Nat /\ n \in Nat
    OBVIOUS
  <2>2. m < n => <<m, n>> \in R
    BY <2>1 DEF OpToRel
  <2> QED
    BY Zenon, <1>2, <2>2
<1>4. \A m \in S : n <= m
  BY <1>3
<1> QED
  BY <1>4

(* Induction over the naturals, for a set of them: the passes of a loop. *)
LEMMA SetInduction ==
  ASSUME NEW T \in SUBSET Nat, 0 \in T, \A n \in T : n + 1 \in T
  PROVE  T = Nat
<1> SUFFICES ASSUME Nat \ T # {} PROVE FALSE
  BY Zenon
<1>1. PICK n \in Nat \ T : \A m \in Nat \ T : n <= m
  BY Zenon, Least
<1>2. n # 0 /\ n - 1 \in Nat /\ n - 1 + 1 = n
  BY <1>1
<1>3. n - 1 \in T
  BY <1>1, <1>2
<1> QED
  BY <1>1, <1>2, <1>3

(* A nonempty set of naturals with a bound has a greatest element: where a    *)
(* loop of the code stops.                                                    *)
LEMMA Greatest ==
  ASSUME NEW N \in Nat, NEW S \in SUBSET (0..N), S # {}
  PROVE  \E n \in S : \A m \in S : n >= m
<1> DEFINE D == {d \in Nat : \E m \in S : d = N - m}
<1>1. D \in SUBSET Nat /\ D # {}
  <2>1. PICK m \in S : TRUE
    OBVIOUS
  <2>2. N - m \in Nat
    BY <2>1
  <2> QED
    BY <2>1, <2>2
<1>2. PICK d \in D : \A e \in D : d <= e
  <2> HIDE DEF D
  <2> QED
    BY Zenon, <1>1, Least
<1>3. PICK n \in S : d = N - n
  BY <1>2
<1>4. \A m \in S : n >= m
  <2> SUFFICES ASSUME NEW m \in S PROVE n >= m
    OBVIOUS
  <2>1. N - m \in D /\ m \in Int /\ n \in Int
    BY <1>3
  <2>2. d <= N - m
    BY <1>2, <2>1
  <2> QED
    BY <1>3, <2>1, <2>2
<1> QED
  BY <1>3, <1>4

-----------------------------------------------------------------------------
(* Powers of two *)

(* 2^l, for a level or a difference of levels. *)
Pow(l) == 2^l

(* Powers of two are positive and double from level to level. *)
LEMMA Powers ==
  /\ Pow(0) = 1
  /\ \A l \in 0..MapBits : Pow(l) \in Nat /\ Pow(l) > 0
  /\ \A l \in 0..MapBits : Pow(l + 1) = 2 * Pow(l)
<1>1. Pow(0) = 1
  BY DEF Pow
<1>2. \A l \in 0..MapBits : Pow(l + 1) = 2 * Pow(l)
  BY Zenon, Doubling DEF Pow
<1> DEFINE T == {l \in Nat : l <= MapBits => Pow(l) \in Nat /\ Pow(l) > 0}
<1>3. 0 \in T
  BY <1>1
<1>4. ASSUME NEW l \in T PROVE l + 1 \in T
  <2>1. CASE l + 1 <= MapBits
    <3>1. l \in 0..MapBits /\ l <= MapBits /\ l + 1 \in Nat
      BY <2>1, LayoutAssumption
    <3>2. Pow(l + 1) = 2 * Pow(l) /\ Pow(l) \in Nat /\ Pow(l) > 0
      BY Zenon, <1>2, <3>1
    <3> QED
      BY <3>1, <3>2
  <2>2. CASE ~(l + 1 <= MapBits)
    BY <2>2
  <2> QED
    BY Zenon, <2>1, <2>2
<1>5. T = Nat
  <2> HIDE DEF T
  <2> QED
    BY Zenon, <1>3, <1>4, SetInduction DEF T
<1> QED
  BY <1>1, <1>2, <1>5

(* The bits of a level. *)
Size(level) == Pow(MapBits - level - 1)

(* A level has half the bits of the one below it, and together they reach as  *)
(* far as level 0.                                                            *)
LEMMA Sizes ==
  ASSUME NEW l \in 0..BUDDY_LEVELS
  PROVE  /\ Size(l) \in Nat /\ Size(l) > 0
         /\ l # 0 => Size(l - 1) = 2 * Size(l)
         /\ Size(l) * Pow(l) = Pow(MapBits - 1)
<1>0. MapBits \in Nat /\ BUDDY_LEVELS \in Nat /\ BUDDY_LEVELS < MapBits
  BY Zenon, LayoutAssumption
<1>1. ASSUME NEW k \in 0..BUDDY_LEVELS
      PROVE  Size(k) \in Nat /\ Size(k) > 0 /\ (k # 0 => Size(k - 1) = 2 * Size(k))
  <2>1. MapBits - k - 1 \in 0..MapBits /\ MapBits - (k - 1) - 1 = MapBits - k - 1 + 1
    BY <1>0
  <2> QED
    BY Zenon, <2>1, Powers DEF Size
<1> DEFINE T == {k \in Nat : k <= BUDDY_LEVELS => Size(k) * Pow(k) = Pow(MapBits - 1)}
<1>2. 0 \in T
  <2>1. Size(0) = Pow(MapBits - 1) /\ Pow(0) = 1 /\ Size(0) \in Nat
    BY <1>0, <1>1, Powers DEF Size
  <2> QED
    BY <2>1
<1>3. ASSUME NEW k \in T PROVE k + 1 \in T
  <2> SUFFICES ASSUME k + 1 <= BUDDY_LEVELS PROVE Size(k + 1) * Pow(k + 1) = Pow(MapBits - 1)
    OBVIOUS
  <2>1. k \in 0..MapBits /\ k <= BUDDY_LEVELS /\ k + 1 \in 0..BUDDY_LEVELS /\ k + 1 # 0
        /\ k + 1 - 1 = k /\ k \in Nat
    BY <1>0
  <2>2. Pow(k + 1) = 2 * Pow(k) /\ Pow(k) \in Nat
    BY Zenon, <2>1, Powers
  <2>3. Size(k) = 2 * Size(k + 1) /\ Size(k + 1) \in Nat
    BY <1>1, <2>1
  <2>4. Size(k) * Pow(k) = Pow(MapBits - 1)
    BY Zenon, <2>1
  <2>5. Size(k + 1) * Pow(k + 1) = Size(k) * Pow(k)
    BY <2>2, <2>3
  <2> QED
    BY Zenon, <2>4, <2>5
<1>4. T = Nat
  <2> HIDE DEF T
  <2> QED
    BY Zenon, <1>2, <1>3, SetInduction DEF T
<1> QED
  BY <1>0, <1>1, <1>4

-----------------------------------------------------------------------------
(* Division *)

(* What a quotient is. *)
LEMMA Quotient ==
  ASSUME NEW n \in Int, NEW b \in Nat \ {0}
  PROVE  /\ n \div b \in Int
         /\ (n \div b) * b <= n /\ n < (n \div b) * b + b
         /\ n % b = n - (n \div b) * b
  OBVIOUS

(* Multiples of b that differ do so by b at least. *)
LEMMA Apart ==
  ASSUME NEW x \in Int, NEW y \in Int, NEW b \in Nat, x < y
  PROVE  x * b + b <= y * b
<1>1. PICK k \in Nat : y = x + 1 + k
  <2>1. y - x - 1 \in Nat /\ y = x + 1 + (y - x - 1)
    OBVIOUS
  <2> QED
    BY Zenon, <2>1
<1>2. y * b = x * b + b + k * b /\ k * b \in Nat /\ x * b \in Int
  BY <1>1
<1> QED
  BY <1>2

(* There is only one. *)
LEMMA TheQuotient ==
  ASSUME NEW n \in Int, NEW b \in Nat \ {0}, NEW q \in Int, q * b <= n, n < q * b + b
  PROVE  n \div b = q
<1> DEFINE d == n \div b
<1>1. d \in Int /\ d * b <= n /\ n < d * b + b /\ d * b \in Int /\ q * b \in Int
  BY Quotient
<1> HIDE DEF d
<1>2. ~(d < q)
  BY <1>1, Apart
<1>3. ~(q < d)
  BY <1>1, Apart
<1> QED
  BY <1>1, <1>2, <1>3 DEF d

-----------------------------------------------------------------------------
(* The bit array *)

Off(level) == LEVEL_OFFSETS[level]

Levels == 0..Top
Bits == 0..TOTAL_BUDDY_BITS - 1
Valid(i, level) == level \in Levels /\ i \in 0..Size(level) - 1

(* LEVEL_OFFSETS: the levels follow each other. *)
LEMMA Offsets ==
  /\ Off(0) = 0
  /\ \A l \in Levels : Off(l + 1) = Off(l) + Size(l)
<1>0. /\ MapBits \in Nat /\ BUDDY_LEVELS \in Nat /\ BUDDY_LEVELS < MapBits
      /\ Top \in Nat /\ Top + 1 = BUDDY_LEVELS
  BY LayoutAssumption DEF Top
<1> DEFINE f == [l \in 0..BUDDY_LEVELS |-> Pow(MapBits) - Pow(MapBits - l)]
           Body(g, l) == IF l = 0 THEN 0 ELSE g[l - 1] + (MAX_BUDDY_BITS \div 2^l)
           Is(g) == g = [l \in 0..BUDDY_LEVELS |-> Body(g, l)]
<1>1. ASSUME NEW l \in 1..BUDDY_LEVELS PROVE MAX_BUDDY_BITS \div 2^l = Size(l - 1)
  <2>1. l \in 0..BUDDY_LEVELS /\ l # 0 /\ l \in 0..MapBits /\ MapBits - 1 \in 0..MapBits
        /\ MapBits - 1 + 1 = MapBits /\ l - 1 \in 0..BUDDY_LEVELS /\ MapBits \in 0..MapBits
    BY <1>0
  <2>2. /\ Size(l - 1) = 2 * Size(l) /\ Size(l) * Pow(l) = Pow(MapBits - 1)
        /\ Pow(MapBits) = 2 * Pow(MapBits - 1)
        /\ Size(l) \in Nat /\ Size(l - 1) \in Nat
        /\ Pow(l) \in Nat \ {0} /\ Pow(MapBits) \in Nat
    BY <2>1, Sizes, Powers
  <2>3. Size(l - 1) * Pow(l) = Pow(MapBits)
    BY <2>2
  <2>4. Pow(MapBits) \div Pow(l) = Size(l - 1)
    BY <2>2, <2>3, TheQuotient
  <2> QED
    BY Zenon, <2>4 DEF Pow, MAX_BUDDY_BITS
<1>2. Is(f)
  <2>1. ASSUME NEW l \in 0..BUDDY_LEVELS PROVE f[l] = Body(f, l)
    <3>1. CASE l = 0
      <4>1. Pow(MapBits) \in Nat /\ MapBits - 0 = MapBits
        BY <1>0, Powers
      <4> QED
        BY <3>1, <4>1
    <3>2. CASE l # 0
      <4>1. l \in 1..BUDDY_LEVELS /\ l - 1 \in 0..BUDDY_LEVELS
            /\ MapBits - l \in 0..MapBits /\ MapBits - (l - 1) = MapBits - l + 1
            /\ MapBits - (l - 1) - 1 = MapBits - l
        BY <1>0, <3>2
      <4>2. Size(l - 1) = Pow(MapBits - l)
        BY Zenon, <4>1 DEF Size
      <4>3. Pow(MapBits - (l - 1)) = 2 * Pow(MapBits - l) /\ Pow(MapBits - l) \in Nat
            /\ Pow(MapBits) \in Nat
        BY <1>0, <4>1, Powers
      <4>4. f[l] = Pow(MapBits) - Pow(MapBits - l)
            /\ f[l - 1] = Pow(MapBits) - Pow(MapBits - (l - 1))
        BY Zenon, <4>1
      <4>5. Body(f, l) = f[l - 1] + Size(l - 1)
        BY Zenon, <1>1, <3>2, <4>1
      <4> QED
        BY <4>2, <4>3, <4>4, <4>5
    <3> QED
      BY Zenon, <3>1, <3>2
  <2>2. f = [l \in 0..BUDDY_LEVELS |-> f[l]]
    BY Zenon
  <2> HIDE DEF f, Body
  <2> QED
    BY Zenon, <2>1, <2>2
<1>3. LEVEL_OFFSETS = CHOOSE g : Is(g)
  BY Zenon DEF LEVEL_OFFSETS
<1>4. Is(LEVEL_OFFSETS)
  <2> HIDE DEF Is, f
  <2> QED
    BY Zenon, <1>2, <1>3
<1> DEFINE g == LEVEL_OFFSETS
<1>5. \A l \in 0..BUDDY_LEVELS : g[l] = Body(g, l)
  <2> HIDE DEF Body, g
  <2> QED
    BY Zenon, <1>4 DEF g
<1> HIDE DEF g, f
<1>6. g[0] = 0
  BY <1>0, <1>5
<1>7. ASSUME NEW l \in 1..BUDDY_LEVELS PROVE g[l] = g[l - 1] + Size(l - 1)
  <2>1. l \in 0..BUDDY_LEVELS /\ l # 0
    OBVIOUS
  <2>2. Body(g, l) = g[l - 1] + (MAX_BUDDY_BITS \div 2^l)
    BY Zenon, <2>1
  <2>3. g[l] = Body(g, l)
    BY Zenon, <1>5, <2>1
  <2> QED
    BY Zenon, <1>1, <2>2, <2>3
<1>8. ASSUME NEW l \in Levels PROVE g[l + 1] = g[l] + Size(l)
  <2>1. l \in Nat /\ l + 1 \in 1..BUDDY_LEVELS
    BY <1>0 DEF Levels
  <2> HIDE DEF Body, Is
  <2> QED
    BY <1>7, <2>1
<1> QED
  BY Zenon, <1>6, <1>8 DEF Off, g

(* Offsets grow from level to level, up to the length of the array. *)
LEMMA OffsetsGrow ==
  /\ \A l \in 0..BUDDY_LEVELS : Off(l) \in Nat
  /\ \A k, l \in 0..BUDDY_LEVELS : k < l => Off(k) + Size(k) <= Off(l)
  /\ TOTAL_BUDDY_BITS = Off(BUDDY_LEVELS)
<1>0. BUDDY_LEVELS \in Nat \ {0} /\ Top + 1 = BUDDY_LEVELS /\ Top \in Nat
  BY LayoutAssumption DEF Top
<1> DEFINE So(l) == /\ Off(l) \in Nat
                    /\ \A k \in 0..BUDDY_LEVELS :
                         k < l => Off(k) \in Nat /\ Off(k) + Size(k) <= Off(l)
           T == {l \in Nat : l <= BUDDY_LEVELS => So(l)}
<1>1. 0 \in T
  BY Offsets
<1>2. ASSUME NEW l \in T PROVE l + 1 \in T
  <2> SUFFICES ASSUME l + 1 <= BUDDY_LEVELS PROVE So(l + 1)
    OBVIOUS
  <2>1. l \in Levels /\ l \in 0..BUDDY_LEVELS /\ l \in Nat
    BY <1>0 DEF Levels
  <2>2. Off(l + 1) = Off(l) + Size(l) /\ Size(l) \in Nat /\ So(l)
    BY <1>0, <2>1, Offsets, Sizes
  <2>3. ASSUME NEW k \in 0..BUDDY_LEVELS, k < l + 1
        PROVE  Off(k) \in Nat /\ Off(k) + Size(k) <= Off(l + 1)
    <3>1. CASE k = l
      BY <2>2, <3>1
    <3>2. CASE k # l
      <4>1. k < l
        BY <2>1, <2>3, <3>2
      <4>2. Off(k) \in Nat /\ Off(k) + Size(k) <= Off(l) /\ Size(k) \in Nat
        BY Zenon, <2>2, <4>1, Sizes
      <4> QED
        BY <2>2, <4>2
    <3> QED
      BY Zenon, <3>1, <3>2
  <2> QED
    BY <2>2, <2>3
<1>3. T = Nat
  <2> HIDE DEF T
  <2> QED
    BY Zenon, <1>1, <1>2, SetInduction DEF T
<1> QED
  BY <1>3 DEF TOTAL_BUDDY_BITS, Off

(* absolute_to_relative undoes relative_to_absolute. *)
LEMMA Absolute ==
  ASSUME NEW i, NEW l, Valid(i, l)
  PROVE  /\ relative_to_absolute(i, l) \in Bits
         /\ LevelOf(relative_to_absolute(i, l)) = l
         /\ IndexOf(relative_to_absolute(i, l)) = i
<1> DEFINE b == relative_to_absolute(i, l)
           S == {k \in 0..Top : b < LEVEL_OFFSETS[k + 1]}
<1>0. BUDDY_LEVELS \in Nat \ {0} /\ Top + 1 = BUDDY_LEVELS /\ Top \in Nat
  BY LayoutAssumption DEF Top
<1>1. /\ l \in Levels /\ l \in 0..BUDDY_LEVELS /\ l + 1 \in 0..BUDDY_LEVELS /\ l \in Nat
      /\ i \in Nat /\ i < Size(l) /\ Size(l) \in Nat
      /\ Off(l) \in Nat /\ Off(l + 1) = Off(l) + Size(l)
      /\ b = i + Off(l)
  BY <1>0, Sizes, Offsets, OffsetsGrow DEF Valid, Levels, relative_to_absolute, Off
<1> HIDE DEF b
<1>2. l \in S
  BY <1>1 DEF Levels, Off
<1>3. ASSUME NEW k \in S PROVE k >= l
  <2>1. k \in Levels /\ k + 1 \in 0..BUDDY_LEVELS /\ b < Off(k + 1) /\ k \in Nat
    BY <1>0 DEF Levels, Off
  <2>2. ASSUME k < l PROVE FALSE
    <3>1. Off(k + 1) <= Off(l)
      <4>1. CASE k + 1 = l
        BY <4>1, <1>1
      <4>2. CASE k + 1 # l
        <5>1. k + 1 < l
          BY <1>1, <2>1, <2>2, <4>2
        <5>2. Off(k + 1) + Size(k + 1) <= Off(l) /\ Off(k + 1) \in Nat /\ Size(k + 1) \in Nat
          BY Zenon, <1>1, <2>1, <5>1, OffsetsGrow, Sizes
        <5> QED
          BY <1>1, <5>2
      <4> QED
        BY Zenon, <4>1, <4>2
    <3>2. Off(k + 1) \in Nat
      BY Zenon, <2>1, OffsetsGrow
    <3> QED
      BY <1>1, <2>1, <3>1, <3>2
  <2> QED
    BY <1>1, <2>1, <2>2
<1>4. LevelOf(b) = l
  <2>1. LevelOf(b) = CHOOSE x \in S : \A y \in S : x <= y
    BY Zenon DEF LevelOf, Min
  <2>2. \A k \in S : k \in Nat
    BY <1>0
  <2> HIDE DEF S
  <2>3. \A k \in S : l <= k
    BY Zenon, <1>1, <1>3, <2>2
  <2>4. ASSUME NEW x \in S, \A y \in S : x <= y PROVE x = l
    BY <1>1, <1>2, <1>3, <2>2, <2>4
  <2> QED
    BY Zenon, <1>2, <2>1, <2>3, <2>4
<1>5. IndexOf(b) = i
  BY <1>1, <1>4 DEF IndexOf, Off
<1>6. b \in Bits
  <2>1. Off(l + 1) <= Off(BUDDY_LEVELS) /\ Off(BUDDY_LEVELS) \in Nat
    <3>1. CASE l + 1 = BUDDY_LEVELS
      BY <3>1, <1>0, <1>1
    <3>2. CASE l + 1 # BUDDY_LEVELS
      <4>1. l + 1 < BUDDY_LEVELS /\ BUDDY_LEVELS \in 0..BUDDY_LEVELS
        BY <1>0, <1>1, <3>2
      <4>2. Off(l + 1) + Size(l + 1) <= Off(BUDDY_LEVELS) /\ Size(l + 1) \in Nat
            /\ Off(l + 1) \in Nat /\ Off(BUDDY_LEVELS) \in Nat
        BY Zenon, <1>1, <4>1, OffsetsGrow, Sizes
      <4> QED
        BY <4>2
    <3> QED
      BY Zenon, <3>1, <3>2
  <2>2. TOTAL_BUDDY_BITS = Off(BUDDY_LEVELS)
    BY Zenon, OffsetsGrow
  <2> QED
    BY <1>1, <2>1, <2>2 DEF Bits
<1> QED
  BY Zenon, <1>4, <1>5, <1>6 DEF b

(* Every bit stands for a chunk. *)
LEMMA Relative ==
  ASSUME NEW b \in Bits
  PROVE  /\ Valid(IndexOf(b), LevelOf(b))
         /\ relative_to_absolute(IndexOf(b), LevelOf(b)) = b
<1> DEFINE S == {k \in 0..Top : b < LEVEL_OFFSETS[k + 1]}
           l == LevelOf(b)
<1>0. BUDDY_LEVELS \in Nat \ {0} /\ Top + 1 = BUDDY_LEVELS /\ Top \in Nat
      /\ b \in Nat /\ Top \in Levels /\ TOTAL_BUDDY_BITS = Off(BUDDY_LEVELS)
      /\ BUDDY_LEVELS \in 0..BUDDY_LEVELS
  BY LayoutAssumption, OffsetsGrow DEF Top, Bits, Levels
<1>1. Top \in S
  <2>1. Off(BUDDY_LEVELS) \in Nat
    BY Zenon, <1>0, OffsetsGrow
  <2>2. b < Off(BUDDY_LEVELS)
    BY <1>0, <2>1 DEF Bits
  <2> QED
    BY <1>0, <2>2 DEF Off
<1>2. l \in S /\ \A k \in S : l <= k
  <2>1. S \in SUBSET Nat
    BY <1>0
  <2>2. l = CHOOSE x \in S : \A y \in S : x <= y
    BY Zenon DEF LevelOf, Min
  <2> HIDE DEF S, l
  <2>3. \E x \in S : \A y \in S : x <= y
    BY Zenon, <1>1, <2>1, Least
  <2> QED
    BY Zenon, <2>2, <2>3
<1> HIDE DEF l
<1>3. l \in Levels /\ l \in Nat /\ l \in 0..BUDDY_LEVELS /\ b < Off(l + 1)
      /\ Off(l) \in Nat /\ Size(l) \in Nat /\ Off(l + 1) = Off(l) + Size(l)
  <2>1. l \in Levels /\ l \in Nat /\ l \in 0..BUDDY_LEVELS /\ b < Off(l + 1)
    BY <1>0, <1>2 DEF Levels, Off
  <2> QED
    BY Zenon, <2>1, Offsets, OffsetsGrow, Sizes
<1>4. Off(l) <= b
  <2>1. CASE l = 0
    BY <2>1, <1>0, Offsets
  <2>2. CASE l # 0
    <3>1. l - 1 \in 0..Top /\ l - 1 + 1 = l /\ ~(l <= l - 1)
      BY <1>0, <1>3, <2>2 DEF Levels
    <3>2. l - 1 \notin S
      BY Zenon, <1>2, <3>1
    <3>3. ~(b < Off(l))
      BY Zenon, <3>1, <3>2 DEF Off
    <3> QED
      BY <1>0, <1>3, <3>3
  <2> QED
    BY Zenon, <2>1, <2>2
<1>5. IndexOf(b) = b - Off(l)
  BY Zenon DEF IndexOf, Off, l
<1>6. b - Off(l) \in 0..Size(l) - 1 /\ (b - Off(l)) + Off(l) = b
  BY <1>0, <1>3, <1>4
<1> QED
  BY Zenon, <1>3, <1>5, <1>6 DEF Valid, relative_to_absolute, l, Off

-----------------------------------------------------------------------------
(* Chunks *)

(* The pages of a chunk are those whose number shifted right is its index. *)
LEMMA InChunk ==
  ASSUME NEW i \in Int, NEW l \in 0..MapBits
  PROVE  /\ Chunk(i, l) = {p \in Int : i * Pow(l) <= p /\ p < i * Pow(l) + Pow(l)}
         /\ \A p : p \in Chunk(i, l) <=> p \in Int /\ i * Pow(l) <= p /\ p < i * Pow(l) + Pow(l)
         /\ \A p \in Int : p \in Chunk(i, l) <=> p \div Pow(l) = i
<1>1. Pow(l) \in Nat \ {0} /\ i * Pow(l) \in Int
  BY Powers
<1>2. Chunk(i, l) = (i * Pow(l))..((i + 1) * Pow(l) - 1)
  BY Zenon DEF Chunk, Pow
<1>3. (i + 1) * Pow(l) = i * Pow(l) + Pow(l)
  BY <1>1
<1>4. Chunk(i, l) = {p \in Int : i * Pow(l) <= p /\ p < i * Pow(l) + Pow(l)}
  BY SMTT(30), <1>1, <1>2, <1>3
<1>5. ASSUME NEW p \in Int PROVE p \in Chunk(i, l) <=> p \div Pow(l) = i
  <2>1. ASSUME p \in Chunk(i, l) PROVE p \div Pow(l) = i
    BY Zenon, <1>1, <1>4, <2>1, TheQuotient
  <2>2. ASSUME p \div Pow(l) = i PROVE p \in Chunk(i, l)
    <3>1. (p \div Pow(l)) * Pow(l) <= p /\ p < (p \div Pow(l)) * Pow(l) + Pow(l)
      BY Zenon, <1>1, Quotient
    <3> QED
      BY Zenon, <1>4, <2>2, <3>1
  <2> QED
    BY Zenon, <2>1, <2>2
<1> QED
  BY Zenon, <1>4, <1>5

(* A chunk has pages, and chunks of one level share none. *)
LEMMA Chunks ==
  ASSUME NEW i \in Int, NEW l \in 0..MapBits
  PROVE  /\ i * Pow(l) \in Chunk(i, l)
         /\ Chunk(i, l) \subseteq Int
         /\ \A j \in Int : i # j => Chunk(i, l) \cap Chunk(j, l) = {}
<1>1. Pow(l) \in Nat \ {0} /\ i * Pow(l) \in Int
  BY Powers
<1>2. i * Pow(l) \in Chunk(i, l) /\ Chunk(i, l) \subseteq Int
  <2>1. Chunk(i, l) = {p \in Int : i * Pow(l) <= p /\ p < i * Pow(l) + Pow(l)}
    BY Zenon, InChunk
  <2> QED
    BY <1>1, <2>1
<1>3. ASSUME NEW j \in Int, NEW p \in Chunk(i, l), p \in Chunk(j, l) PROVE i = j
  BY <1>2, <1>3, InChunk
<1> QED
  BY Zenon, <1>2, <1>3

(* A chunk is made of two buddies. *)
LEMMA Halves ==
  ASSUME NEW i \in Int, NEW l \in 0..MapBits - 1
  PROVE  /\ Chunk(i, l + 1) = Chunk(2 * i, l) \cup Chunk(2 * i + 1, l)
         /\ Chunk(2 * i, l) \cap Chunk(2 * i + 1, l) = {}
<1>1. MapBits \in Nat /\ l \in 0..MapBits /\ l + 1 \in 0..MapBits /\ 2 * i \in Int /\ 2 * i + 1 \in Int
  BY LayoutAssumption
<1> DEFINE w == Pow(l)
           x == i * w
<1>2. w \in Nat /\ w > 0 /\ Pow(l + 1) = 2 * w /\ x \in Int
  BY <1>1, Powers
<1> DEFINE a == i * (2 * w)
           b == (2 * i) * w
           c == (2 * i + 1) * w
<1>3. a = 2 * x /\ b = 2 * x /\ c = 2 * x + w
  BY <1>2
<1>4. /\ i * Pow(l + 1) = a /\ (2 * i) * Pow(l) = b /\ (2 * i + 1) * Pow(l) = c
      /\ Pow(l + 1) = 2 * w /\ Pow(l) = w
  BY Zenon, <1>2
<1> HIDE DEF w, x, a, b, c
<1>5. \A p : /\ p \in Chunk(i, l + 1) <=> p \in Int /\ a <= p /\ p < a + 2 * w
             /\ p \in Chunk(2 * i, l) <=> p \in Int /\ b <= p /\ p < b + w
             /\ p \in Chunk(2 * i + 1, l) <=> p \in Int /\ c <= p /\ p < c + w
  <2>1. \A p : p \in Chunk(i, l + 1)
                <=> p \in Int /\ i * Pow(l + 1) <= p /\ p < i * Pow(l + 1) + Pow(l + 1)
    BY Zenon, <1>1, InChunk
  <2>2. \A p : p \in Chunk(2 * i, l)
                <=> p \in Int /\ (2 * i) * Pow(l) <= p /\ p < (2 * i) * Pow(l) + Pow(l)
    BY Zenon, <1>1, InChunk
  <2>3. \A p : p \in Chunk(2 * i + 1, l)
                <=> p \in Int /\ (2 * i + 1) * Pow(l) <= p /\ p < (2 * i + 1) * Pow(l) + Pow(l)
    BY Zenon, <1>1, InChunk
  <2> QED
    BY Zenon, <1>4, <2>1, <2>2, <2>3
<1>6. \A p : /\ p \in Chunk(i, l + 1) <=> p \in Chunk(2 * i, l) \/ p \in Chunk(2 * i + 1, l)
             /\ ~(p \in Chunk(2 * i, l) /\ p \in Chunk(2 * i + 1, l))
  BY <1>2, <1>3, <1>5
<1> QED
  BY Zenon, <1>6

(* Of two chunks that share a page the larger holds the smaller. *)
LEMMA Nested ==
  ASSUME NEW i \in Int, NEW j \in Int, NEW l \in 0..MapBits, NEW k \in 0..MapBits, l <= k,
         NEW p \in Chunk(i, l), p \in Chunk(j, k)
  PROVE  Chunk(i, l) \subseteq Chunk(j, k)
<1> DEFINE So(d) == \E a \in Int : Chunk(i, l) \subseteq Chunk(a, l + d)
           T == {d \in Nat : l + d <= MapBits => So(d)}
<1>0. MapBits \in Nat
  BY Zenon, LayoutAssumption
<1>1. 0 \in T
  BY <1>0
<1>2. ASSUME NEW d \in T PROVE d + 1 \in T
  <2> SUFFICES ASSUME l + (d + 1) <= MapBits PROVE So(d + 1)
    OBVIOUS
  <2>1. d \in Nat /\ l + d <= MapBits /\ l + d \in 0..MapBits - 1 /\ l + (d + 1) = l + d + 1
    BY <1>0
  <2>2. PICK a \in Int : Chunk(i, l) \subseteq Chunk(a, l + d)
    BY Zenon, <2>1
  <2>3. PICK h \in Int : a = 2 * h \/ a = 2 * h + 1
    <3>1. a \div 2 \in Int /\ (a = 2 * (a \div 2) \/ a = 2 * (a \div 2) + 1)
      OBVIOUS
    <3> QED
      BY Zenon, <3>1
  <2>4. Chunk(h, l + d + 1) = Chunk(2 * h, l + d) \cup Chunk(2 * h + 1, l + d)
    BY <2>1, Halves
  <2>5. Chunk(i, l) \subseteq Chunk(h, l + (d + 1))
    BY Zenon, <2>1, <2>2, <2>3, <2>4
  <2> QED
    BY Zenon, <2>5
<1>3. T = Nat
  <2> HIDE DEF T
  <2> QED
    BY Zenon, <1>1, <1>2, SetInduction DEF T
<1>4. k - l \in Nat /\ l + (k - l) = k /\ k <= MapBits
  BY <1>0
<1>5. PICK a \in Int : Chunk(i, l) \subseteq Chunk(a, k)
  BY Zenon, <1>3, <1>4
<1>6. a = j
  BY Zenon, <1>5, Chunks
<1> QED
  BY Zenon, <1>5, <1>6

-----------------------------------------------------------------------------
(* Books *)

(* The free pages of a bit array. *)
Pages(bits) == UNION {PagesOf(b) : b \in bits}

(* No page is free twice. *)
Sound(bits) ==
  /\ bits \subseteq Bits
  /\ \A b, c \in bits : b # c => PagesOf(b) \cap PagesOf(c) = {}

(* Levels and indices are numbers the lemmas on chunks are about. *)
LEMMA ValidType ==
  ASSUME NEW i, NEW l, Valid(i, l)
  PROVE  i \in Nat /\ l \in Nat /\ l \in 0..MapBits - 1 /\ l \in 0..MapBits /\ l \in 0..BUDDY_LEVELS
<1>1. l \in 0..Top /\ Top + 1 = BUDDY_LEVELS /\ BUDDY_LEVELS \in Nat /\ MapBits \in Nat
      /\ BUDDY_LEVELS < MapBits /\ Top \in Nat
  BY LayoutAssumption DEF Valid, Levels, Top
<1>2. l \in 0..BUDDY_LEVELS
  BY <1>1
<1>3. Size(l) \in Nat
  BY Zenon, <1>2, Sizes
<1> QED
  BY <1>1, <1>2, <1>3 DEF Valid

(* The pages a bit stands for. *)
LEMMA BitPages ==
  /\ \A i, l : Valid(i, l) => PagesOf(relative_to_absolute(i, l)) = Chunk(i, l)
  /\ \A b \in Bits : PagesOf(b) # {} /\ PagesOf(b) \subseteq Nat
<1>1. ASSUME NEW i, NEW l, Valid(i, l) PROVE PagesOf(relative_to_absolute(i, l)) = Chunk(i, l)
  BY Zenon, <1>1, Absolute DEF PagesOf
<1>2. ASSUME NEW b \in Bits PROVE PagesOf(b) # {} /\ PagesOf(b) \subseteq Nat
  <2> DEFINE i == IndexOf(b)
             l == LevelOf(b)
  <2>1. Valid(i, l)
    BY Zenon, Relative
  <2> HIDE DEF i, l
  <2>2. i \in Nat /\ l \in 0..MapBits
    BY Zenon, <2>1, ValidType
  <2>3. Pow(l) \in Nat
    BY Zenon, <2>2, Powers
  <2>4. i * Pow(l) \in Nat
    BY <2>2, <2>3
  <2>5. i * Pow(l) \in Chunk(i, l)
        /\ Chunk(i, l) = {p \in Int : i * Pow(l) <= p /\ p < i * Pow(l) + Pow(l)}
    BY <2>2, Chunks, InChunk
  <2>6. PagesOf(b) = Chunk(i, l)
    BY Zenon DEF PagesOf, i, l
  <2> QED
    BY <2>3, <2>4, <2>5, <2>6
<1> QED
  BY Zenon, <1>1, <1>2

(* A bit set for pages that were not free. *)
LEMMA AddBit ==
  ASSUME NEW bits, Sound(bits), NEW b \in Bits, PagesOf(b) \cap Pages(bits) = {}
  PROVE  /\ b \notin bits /\ Sound(bits \cup {b})
         /\ Pages(bits \cup {b}) = Pages(bits) \cup PagesOf(b)
<1>1. \A c \in bits : PagesOf(c) \subseteq Pages(bits)
  BY Zenon DEF Pages
<1>2. \A c \in bits : PagesOf(b) \cap PagesOf(c) = {}
  BY Zenon, <1>1
<1>3. b \notin bits
  BY Zenon, <1>2, BitPages
<1>4. Sound(bits \cup {b})
  BY Zenon, <1>2 DEF Sound
<1>5. Pages(bits \cup {b}) = Pages(bits) \cup PagesOf(b)
  BY Zenon DEF Pages
<1> QED
  BY Zenon, <1>3, <1>4, <1>5

(* A bit cleared. *)
LEMMA RemoveBit ==
  ASSUME NEW bits, Sound(bits), NEW b \in bits
  PROVE  Sound(bits \ {b}) /\ Pages(bits \ {b}) = Pages(bits) \ PagesOf(b)
<1>1. Sound(bits \ {b})
  BY Zenon DEF Sound
<1>2. \A c \in bits \ {b} : PagesOf(b) \cap PagesOf(c) = {}
  BY Zenon DEF Sound
<1>3. Pages(bits \ {b}) = Pages(bits) \ PagesOf(b)
  BY Zenon, <1>2 DEF Pages
<1> QED
  BY Zenon, <1>1, <1>3

(* The bit of a chunk. *)
Bit(i, l) == relative_to_absolute(i, l)

(* It lies in the array, and level, index and pages can be told from it. *)
LEMMA BitFacts ==
  ASSUME NEW i, NEW l, Valid(i, l)
  PROVE  Bit(i, l) \in Bits /\ LevelOf(Bit(i, l)) = l /\ IndexOf(Bit(i, l)) = i
         /\ PagesOf(Bit(i, l)) = Chunk(i, l)
  BY Zenon, Absolute, BitPages DEF Bit

(* Not both halves of a chunk are free on their own. *)
Merged(bits) ==
  \A l \in 0..Top - 1, h \in Nat :
    Valid(h, l + 1) => ~(Bit(2 * h, l) \in bits /\ Bit(2 * h + 1, l) \in bits)

(* The halves of a chunk are chunks of the level below. *)
LEMMA ValidHalves ==
  ASSUME NEW l \in 0..Top - 1, NEW i, Valid(i, l + 1)
  PROVE  /\ Valid(2 * i, l) /\ Valid(2 * i + 1, l) /\ i \in Nat
         /\ Chunk(i, l + 1) = Chunk(2 * i, l) \cup Chunk(2 * i + 1, l)
         /\ Chunk(2 * i, l) \cap Chunk(2 * i + 1, l) = {}
         /\ Bit(2 * i, l) # Bit(2 * i + 1, l)
<1>0. BUDDY_LEVELS \in Nat /\ Top = BUDDY_LEVELS - 1
  BY Zenon, LayoutAssumption DEF Top
<1>a. l + 1 \in 0..BUDDY_LEVELS /\ l \in Levels /\ l + 1 # 0 /\ l + 1 - 1 = l
  BY <1>0 DEF Levels
<1>b. Size(l + 1) \in Nat
  BY Zenon, <1>a, Sizes
<1>1. i \in Nat /\ l + 1 \in 0..BUDDY_LEVELS /\ i < Size(l + 1) /\ l + 1 # 0 /\ l + 1 - 1 = l
      /\ l \in Levels
  BY <1>a, <1>b DEF Valid
<1>2. l \in 0..MapBits - 1 /\ Top \in Nat
  BY <1>1, LayoutAssumption DEF Top
<1>3. Size(l) = 2 * Size(l + 1) /\ Size(l + 1) \in Nat
  BY <1>1, Sizes
<1>4. Valid(2 * i, l) /\ Valid(2 * i + 1, l)
  BY <1>1, <1>3 DEF Valid
<1>5. /\ Chunk(i, l + 1) = Chunk(2 * i, l) \cup Chunk(2 * i + 1, l)
      /\ Chunk(2 * i, l) \cap Chunk(2 * i + 1, l) = {}
  BY <1>1, <1>2, Halves
<1>6. Bit(2 * i, l) # Bit(2 * i + 1, l)
  <2>1. IndexOf(Bit(2 * i, l)) = 2 * i /\ IndexOf(Bit(2 * i + 1, l)) = 2 * i + 1
    BY Zenon, <1>4, BitFacts
  <2> QED
    BY <1>1, <2>1
<1> QED
  BY Zenon, <1>1, <1>4, <1>5, <1>6

(* A bit set whose buddy is not set. *)
LEMMA AddMerged ==
  ASSUME NEW bits, Merged(bits), NEW l, NEW i, Valid(i, l),
         l < Top => \A h \in Nat : /\ i = 2 * h => Bit(2 * h + 1, l) \notin bits
                                   /\ i = 2 * h + 1 => Bit(2 * h, l) \notin bits
  PROVE  Merged(bits \cup {Bit(i, l)})
<1> SUFFICES ASSUME NEW k \in 0..Top - 1, NEW h \in Nat, Valid(h, k + 1),
                    Bit(2 * h, k) \in bits \cup {Bit(i, l)}, Bit(2 * h + 1, k) \in bits \cup {Bit(i, l)}
             PROVE  FALSE
  BY Zenon DEF Merged
<1>1. Valid(2 * h, k) /\ Valid(2 * h + 1, k) /\ Bit(2 * h, k) # Bit(2 * h + 1, k) /\ k < Top
  BY ValidHalves, LayoutAssumption DEF Top
<1>2. ~(Bit(2 * h, k) \in bits /\ Bit(2 * h + 1, k) \in bits)
  BY Zenon DEF Merged
<1>3. LevelOf(Bit(i, l)) = l /\ IndexOf(Bit(i, l)) = i
  BY Zenon, BitFacts
<1>4. CASE Bit(2 * h, k) = Bit(i, l)
  <2>1. k = l /\ 2 * h = i
    BY Zenon, <1>1, <1>3, <1>4, BitFacts
  <2>2. Bit(2 * h + 1, k) \in bits
    BY Zenon, <1>1, <1>4
  <2> QED
    BY Zenon, <1>1, <2>1, <2>2
<1>5. CASE Bit(2 * h + 1, k) = Bit(i, l)
  <2>1. k = l /\ 2 * h + 1 = i
    BY ZenonT(30), <1>1, <1>3, <1>5, BitFacts
  <2>2. Bit(2 * h, k) \in bits
    BY Zenon, <1>1, <1>5
  <2> QED
    BY Zenon, <1>1, <2>1, <2>2
<1> QED
  BY Zenon, <1>2, <1>4, <1>5

(* Bits cleared. *)
LEMMA SubsetMerged ==
  ASSUME NEW bits, Merged(bits), NEW less, less \subseteq bits
  PROVE  Merged(less)
  BY Zenon DEF Merged

(* A chunk that is not free, of which the right half is given back. *)
LEMMA GiveRight ==
  ASSUME NEW bits, Sound(bits), NEW l \in 0..Top - 1, NEW i, Valid(i, l + 1),
         Chunk(i, l + 1) \cap Pages(bits) = {}
  PROVE  LET new == bits \cup {Bit(2 * i + 1, l)}
         IN  /\ Sound(new) /\ Pages(new) = Pages(bits) \cup Chunk(2 * i + 1, l)
             /\ Bit(2 * i, l) \notin new
             /\ Merged(bits) => Merged(new)
<1> DEFINE x == Bit(2 * i, l)
           y == Bit(2 * i + 1, l)
<1>1. /\ Valid(2 * i, l) /\ Valid(2 * i + 1, l) /\ i \in Nat
      /\ Chunk(i, l + 1) = Chunk(2 * i, l) \cup Chunk(2 * i + 1, l) /\ x # y
  BY Zenon, ValidHalves
<1>2. x \in Bits /\ PagesOf(x) = Chunk(2 * i, l) /\ y \in Bits /\ PagesOf(y) = Chunk(2 * i + 1, l)
  BY Zenon, <1>1, BitFacts
<1> HIDE DEF x, y
<1>3. PagesOf(x) \cap Pages(bits) = {} /\ PagesOf(y) \cap Pages(bits) = {}
  BY Zenon, <1>1, <1>2
<1>4. x \notin bits
  BY Zenon, <1>2, <1>3, AddBit
<1>5. Sound(bits \cup {y}) /\ Pages(bits \cup {y}) = Pages(bits) \cup PagesOf(y)
  BY Zenon, <1>2, <1>3, AddBit
<1>6. ASSUME Merged(bits) PROVE Merged(bits \cup {y})
  <2>1. \A h \in Nat : (2 * i + 1 = 2 * h => Bit(2 * h + 1, l) \notin bits)
                       /\ (2 * i + 1 = 2 * h + 1 => Bit(2 * h, l) \notin bits)
    <3> SUFFICES ASSUME NEW h \in Nat
                 PROVE  2 * i + 1 # 2 * h /\ (2 * i + 1 = 2 * h + 1 => Bit(2 * h, l) \notin bits)
      BY Zenon
    <3>1. 2 * i + 1 # 2 * h /\ (2 * i + 1 = 2 * h + 1 => h = i)
      BY <1>1
    <3> QED
      BY Zenon, <1>4, <3>1 DEF x
  <2> QED
    BY Zenon, <1>1, <1>6, <2>1, AddMerged DEF y
<1> QED
  BY Zenon, <1>1, <1>2, <1>4, <1>5, <1>6 DEF x, y

-----------------------------------------------------------------------------
(* allocate_chunk_from_level *)

(* What is left of chunk i of a level once it was split down to level l: the  *)
(* bit array, and the index of the left half that was kept.                   *)
LeftAt(i, level, l) == i * Pow(level - l)
SplitTo(bits, i, level, l) ==
  (bits \ {Bit(LeftAt(i, level, k), k) : k \in l..level})
    \cup {Bit(LeftAt(i, level, k) + 1, k) : k \in l..level - 1}

(* The first pass of the loop clears the bit that was found. *)
LEMMA SplitStart ==
  ASSUME NEW bits, NEW level \in Levels, NEW i \in Nat
  PROVE  /\ LeftAt(i, level, level) = i
         /\ SplitTo(bits, i, level, level) = bits \ {Bit(i, level)}
<1>0. level \in Nat /\ level - level = 0
  BY DEF Levels
<1>1. LeftAt(i, level, level) = i
  BY <1>0, Powers DEF LeftAt
<1>2. level..level = {level} /\ level..level - 1 = {}
  BY <1>0
<1>3. SplitTo(bits, i, level, level)
        = (bits \ {Bit(LeftAt(i, level, k), k) : k \in {level}}) \cup {Bit(LeftAt(i, level, k) + 1, k) : k \in {}}
  BY Zenon, <1>2 DEF SplitTo
<1> QED
  BY Zenon, <1>1, <1>3

(* The bits change from one pass of the loop to the next by the right half    *)
(* that is set.                                                               *)
LEMMA SplitOnce ==
  ASSUME NEW bits, NEW level \in Levels, NEW i \in Nat, NEW l \in 0..level - 1
  PROVE  /\ LeftAt(i, level, l) = 2 * LeftAt(i, level, l + 1) /\ LeftAt(i, level, l + 1) \in Nat
         /\ LET x == Bit(LeftAt(i, level, l), l)
                y == Bit(LeftAt(i, level, l) + 1, l)
                old == SplitTo(bits, i, level, l + 1)
            IN  x \notin old \cup {y} => SplitTo(bits, i, level, l) = old \cup {y}
<1>0. level \in Nat /\ level \in 0..MapBits /\ l \in Nat /\ level - (l + 1) \in 0..MapBits
      /\ level - l = level - (l + 1) + 1
  BY LayoutAssumption DEF Levels, Top
<1>1. LeftAt(i, level, l) = 2 * LeftAt(i, level, l + 1) /\ LeftAt(i, level, l + 1) \in Nat
  <2>1. Pow(level - l) = 2 * Pow(level - (l + 1)) /\ Pow(level - (l + 1)) \in Nat
    BY Zenon, <1>0, Powers
  <2> HIDE <1>0
  <2>2. \A w \in Nat : i * (2 * w) = 2 * (i * w) /\ i * w \in Nat
    OBVIOUS
  <2> QED
    BY Zenon, <2>1, <2>2 DEF LeftAt
<1>2. LET x == Bit(LeftAt(i, level, l), l)
          y == Bit(LeftAt(i, level, l) + 1, l)
          old == SplitTo(bits, i, level, l + 1)
      IN  x \notin old \cup {y} => SplitTo(bits, i, level, l) = old \cup {y}
  <2> DEFINE X(k) == Bit(LeftAt(i, level, k), k)
             Y(k) == Bit(LeftAt(i, level, k) + 1, k)
  <2>1. l..level = (l + 1..level) \cup {l} /\ l..level - 1 = (l + 1..level - 1) \cup {l}
    BY <1>0
  <2>2. \A j : /\ SplitTo(bits, i, level, j)
                    = (bits \ {X(k) : k \in j..level}) \cup {Y(k) : k \in j..level - 1}
    BY Zenon DEF SplitTo
  <2> HIDE DEF X, Y
  <2>3. {X(k) : k \in l..level} = {X(k) : k \in l + 1..level} \cup {X(l)}
    BY Zenon, <2>1
  <2>4. {Y(k) : k \in l..level - 1} = {Y(k) : k \in l + 1..level - 1} \cup {Y(l)}
    BY Zenon, <2>1
  <2>5. X(l) \notin SplitTo(bits, i, level, l + 1) \cup {Y(l)}
          => SplitTo(bits, i, level, l) = SplitTo(bits, i, level, l + 1) \cup {Y(l)}
    <3> DEFINE P == {X(k) : k \in l + 1..level}
               Q == {Y(k) : k \in l + 1..level - 1}
    <3>1. SplitTo(bits, i, level, l + 1) = (bits \ P) \cup Q
      BY Zenon, <2>2
    <3>2. SplitTo(bits, i, level, l) = (bits \ (P \cup {X(l)})) \cup (Q \cup {Y(l)})
      BY Zenon, <2>2, <2>3, <2>4
    <3> HIDE DEF P, Q
    <3> QED
      BY Zenon, <3>1, <3>2
  <2> QED
    BY Zenon, <2>5 DEF X, Y
<1> QED
  BY Zenon, <1>1, <1>2

(* The whole loop: the left half that is kept is a chunk that was free, and   *)
(* it is all that is taken.                                                   *)
LEMMA Splitting ==
  ASSUME NEW bits, Sound(bits), NEW level, NEW i, Valid(i, level), Bit(i, level) \in bits,
         NEW m \in 0..level
  PROVE  LET left == LeftAt(i, level, m)
             new  == SplitTo(bits, i, level, m)
         IN  /\ Valid(left, m) /\ Chunk(left, m) \subseteq Pages(bits)
             /\ Sound(new) /\ Pages(new) = Pages(bits) \ Chunk(left, m)
             /\ Merged(bits) => Merged(new)
<1> DEFINE left(l) == LeftAt(i, level, l)
           new(l)  == SplitTo(bits, i, level, l)
           So(l) == /\ Valid(left(l), l) /\ Chunk(left(l), l) \subseteq Pages(bits)
                    /\ Sound(new(l)) /\ Pages(new(l)) = Pages(bits) \ Chunk(left(l), l)
                    /\ Merged(bits) => Merged(new(l))
           T == {d \in Nat : d <= level => So(level - d)}
<1>0. level \in Levels /\ i \in Nat /\ level \in Nat /\ Top \in Nat /\ level \in 0..Top
  BY ValidType, LayoutAssumption DEF Valid, Levels, Top
<1>1. So(level)
  <2>1. left(level) = i /\ new(level) = bits \ {Bit(i, level)}
    BY Zenon, <1>0, SplitStart
  <2>2. PagesOf(Bit(i, level)) = Chunk(i, level)
    BY Zenon, BitFacts
  <2>3. Sound(bits \ {Bit(i, level)}) /\ Pages(bits \ {Bit(i, level)}) = Pages(bits) \ Chunk(i, level)
    BY Zenon, <2>2, RemoveBit
  <2>4. Chunk(i, level) \subseteq Pages(bits)
    BY Zenon, <2>2 DEF Pages
  <2>5. Merged(bits) => Merged(bits \ {Bit(i, level)})
    BY Zenon, SubsetMerged
  <2> HIDE DEF left, new
  <2> QED
    BY Zenon, <2>1, <2>3, <2>4, <2>5
<1>2. ASSUME NEW l \in 0..level - 1, So(l + 1) PROVE So(l)
  <2> DEFINE j == left(l + 1)
             old == new(l + 1)
             x == Bit(2 * j, l)
             y == Bit(2 * j + 1, l)
  <2>0. l \in 0..Top - 1
    BY <1>0
  <2>1. Valid(j, l + 1) /\ Chunk(j, l + 1) \subseteq Pages(bits)
        /\ Sound(old) /\ Pages(old) = Pages(bits) \ Chunk(j, l + 1) /\ (Merged(bits) => Merged(old))
    BY Zenon, <1>2
  <2>2. left(l) = 2 * j /\ (Bit(left(l), l) \notin old \cup {Bit(left(l) + 1, l)}
                              => new(l) = old \cup {Bit(left(l) + 1, l)})
    BY <1>0, SplitOnce
  <2> HIDE DEF left, new, So
  <2>3. /\ Sound(old \cup {y}) /\ Pages(old \cup {y}) = Pages(old) \cup Chunk(2 * j + 1, l)
        /\ x \notin old \cup {y} /\ (Merged(old) => Merged(old \cup {y}))
    <3>1. Chunk(j, l + 1) \cap Pages(old) = {}
      BY Zenon, <2>1
    <3> HIDE DEF j, old
    <3> QED
      BY Zenon, <2>0, <2>1, <3>1, GiveRight
  <2>4. /\ Valid(2 * j, l) /\ Chunk(j, l + 1) = Chunk(2 * j, l) \cup Chunk(2 * j + 1, l)
        /\ Chunk(2 * j, l) \cap Chunk(2 * j + 1, l) = {}
    <3> HIDE DEF j
    <3> QED
      BY Zenon, <2>0, <2>1, ValidHalves
  <2>5. new(l) = old \cup {y}
    BY Zenon, <2>2, <2>3
  <2> HIDE DEF j, old, x, y
  <2> QED
    BY Zenon, <2>1, <2>2, <2>3, <2>4, <2>5 DEF So
<1> HIDE DEF So
<1>3. 0 \in T
  BY <1>0, <1>1
<1>4. ASSUME NEW d \in T PROVE d + 1 \in T
  <2>1. CASE d + 1 <= level
    <3>1. level - (d + 1) \in 0..level - 1 /\ level - (d + 1) + 1 = level - d /\ d <= level
      BY <1>0, <2>1
    <3>2. So(level - d)
      BY Zenon, <3>1
    <3>3. So(level - (d + 1))
      BY Zenon, <1>2, <3>1, <3>2
    <3> QED
      BY <3>3
  <2>2. CASE ~(d + 1 <= level)
    BY <2>2
  <2> QED
    BY Zenon, <2>1, <2>2
<1>5. T = Nat
  <2> HIDE DEF T
  <2> QED
    BY Zenon, <1>3, <1>4, SetInduction DEF T
<1>6. So(m)
  <2>1. level - m \in Nat /\ level - m <= level /\ level - (level - m) = m
    BY <1>0
  <2>2. level - m \in T
    BY Zenon, <1>5, <2>1
  <2> QED
    BY Zenon, <2>1, <2>2
<1> QED
  BY Zenon, <1>6 DEF So

(* The bits of a level and of those above it are the ones from its offset on. *)
LEMMA FromOffset ==
  ASSUME NEW b \in Bits, NEW m \in 0..BUDDY_LEVELS
  PROVE  b >= Off(m) <=> LevelOf(b) >= m
<1> DEFINE i == IndexOf(b)
           k == LevelOf(b)
<1>1. Valid(i, k) /\ b = i + Off(k)
  BY Zenon, Relative DEF relative_to_absolute, Off
<1>2. k \in 0..BUDDY_LEVELS /\ k \in Nat /\ i \in Nat /\ Size(k) \in Nat
  BY Zenon, <1>1, ValidType, Sizes
<1>3. i < Size(k)
  BY <1>1, <1>2 DEF Valid
<1>4. m \in Nat /\ Off(k) \in Nat /\ Off(m) \in Nat /\ Size(m) \in Nat
  BY <1>2, OffsetsGrow, Sizes, LayoutAssumption
<1>5. (k < m => Off(k) + Size(k) <= Off(m)) /\ (m < k => Off(m) + Size(m) <= Off(k))
  BY Zenon, <1>2, OffsetsGrow
<1> HIDE DEF i, k
<1>6. b >= Off(m) <=> k >= m
  BY <1>1, <1>2, <1>3, <1>4, <1>5
<1> QED
  BY Zenon, <1>6 DEF k

(* allocate_chunk_from_level finds a bit when there is one, ... *)
LEMMA Finds ==
  ASSUME NEW bits, bits \subseteq Bits, NEW m \in 0..BUDDY_LEVELS
  PROVE  allocate_chunk_from_level(bits, m).some <=> \E b \in bits : LevelOf(b) >= m
<1> DEFINE found == {b \in bits : b >= LEVEL_OFFSETS[m]}
<1>1. allocate_chunk_from_level(bits, m).some <=> found # {}
  <2>1. CASE found = {}
    BY Zenon, <2>1 DEF allocate_chunk_from_level, None
  <2>2. CASE found # {}
    BY Zenon, <2>2 DEF allocate_chunk_from_level
  <2> QED
    BY Zenon, <2>1, <2>2
<1>2. \A b \in bits : b \in found <=> LevelOf(b) >= m
  BY Zenon, FromOffset DEF Off
<1> HIDE DEF found
<1>3. \A b \in found : b \in bits
  BY Zenon DEF found
<1> QED
  BY Zenon, <1>1, <1>2, <1>3

(* ... and then takes a free chunk of the level, and nothing else. *)
LEMMA Allocates ==
  ASSUME NEW bits, Sound(bits), NEW m \in Levels, allocate_chunk_from_level(bits, m).some
  PROVE  LET got == allocate_chunk_from_level(bits, m)
         IN  /\ Valid(got.index, m) /\ Chunk(got.index, m) \subseteq Pages(bits)
             /\ Sound(got.bits) /\ Pages(got.bits) = Pages(bits) \ Chunk(got.index, m)
             /\ Merged(bits) => Merged(got.bits)
<1> DEFINE found == {b \in bits : b >= LEVEL_OFFSETS[m]}
           abs   == Min(found)
           level == LevelOf(abs)
           i     == IndexOf(abs)
           got   == allocate_chunk_from_level(bits, m)
<1>0. bits \subseteq Bits /\ m \in 0..BUDDY_LEVELS /\ m \in Nat /\ Bits \subseteq Nat
  BY LayoutAssumption DEF Sound, Levels, Top, Bits
<1>1. found # {}
  <2>1. PICK b \in bits : LevelOf(b) >= m
    BY Zenon, <1>0, Finds
  <2> QED
    BY Zenon, <1>0, <2>1, FromOffset DEF Off
<1>2. abs \in found
  <2>1. found \in SUBSET Nat
    BY Zenon, <1>0
  <2>2. abs = CHOOSE x \in found : \A y \in found : x <= y
    BY Zenon DEF Min
  <2> HIDE DEF found, abs
  <2> QED
    BY Zenon, <1>1, <2>1, <2>2, Least
<1> HIDE DEF abs
<1>3. abs \in bits /\ abs \in Bits /\ level >= m
  BY Zenon, <1>0, <1>2, FromOffset DEF Off
<1>4. Valid(i, level) /\ Bit(i, level) = abs /\ level \in Nat
  BY Zenon, <1>3, Relative, ValidType DEF Bit
<1>5. got.index = LeftAt(i, level, m) /\ got.bits = SplitTo(bits, i, level, m)
  <2>1. got = [some |-> TRUE,
               index |-> LeftAt(i, level, m),
               bits |-> (bits \ {Bit(LeftAt(i, level, k), k) : k \in m..level})
                          \cup {Bit(LeftAt(i, level, k) + 1, k) : k \in m..level - 1}]
    BY Zenon, <1>1 DEF allocate_chunk_from_level, LeftAt, Pow, Bit, abs
  <2> HIDE DEF got, i, level
  <2> QED
    BY Zenon, <2>1 DEF SplitTo
<1> HIDE DEF got, i, level
<1>6. m \in 0..level
  BY <1>0, <1>3, <1>4
<1>7. LET left == LeftAt(i, level, m)
          new  == SplitTo(bits, i, level, m)
      IN  /\ Valid(left, m) /\ Chunk(left, m) \subseteq Pages(bits)
          /\ Sound(new) /\ Pages(new) = Pages(bits) \ Chunk(left, m)
          /\ Merged(bits) => Merged(new)
  BY Zenon, <1>3, <1>4, <1>6, Splitting
<1> QED
  BY Zenon, <1>5, <1>7 DEF got

-----------------------------------------------------------------------------
(* pick_off_contiguous *)

(* Powers multiply. *)
LEMMA PowerOfSum ==
  ASSUME NEW a \in Nat, NEW c \in Nat, a + c <= MapBits
  PROVE  Pow(a + c) = Pow(a) * Pow(c)
<1> DEFINE T == {b \in Nat : a + b <= MapBits => Pow(a + b) = Pow(a) * Pow(b)}
<1>0. MapBits \in Nat /\ a \in 0..MapBits
  BY LayoutAssumption
<1>1. 0 \in T
  <2>1. Pow(a) \in Nat /\ Pow(0) = 1 /\ a + 0 = a
    BY <1>0, Powers
  <2> QED
    BY <2>1
<1>2. ASSUME NEW b \in T PROVE b + 1 \in T
  <2> SUFFICES ASSUME a + (b + 1) <= MapBits PROVE Pow(a + (b + 1)) = Pow(a) * Pow(b + 1)
    OBVIOUS
  <2>1. a + b \in 0..MapBits /\ a + (b + 1) = (a + b) + 1 /\ b \in 0..MapBits /\ a + b <= MapBits
    BY <1>0
  <2>2. Pow((a + b) + 1) = 2 * Pow(a + b) /\ Pow(b + 1) = 2 * Pow(b) /\ Pow(a) \in Nat /\ Pow(b) \in Nat
    BY Zenon, <1>0, <2>1, Powers
  <2>3. Pow(a + b) = Pow(a) * Pow(b)
    BY Zenon, <2>1
  <2>4. \A x, y \in Nat : 2 * (x * y) = x * (2 * y)
    OBVIOUS
  <2> QED
    BY <2>1, <2>2, <2>3, <2>4
<1>3. T = Nat
  <2> HIDE DEF T
  <2> QED
    BY Zenon, <1>1, <1>2, SetInduction DEF T
<1> QED
  BY Zenon, <1>3

(* next_power_of_two: the level holds the frames asked for. *)
LEMMA Holds ==
  ASSUME NEW n \in Nat, n <= Pow(BUDDY_LEVELS)
  PROVE  LevelFor(n) \in 0..BUDDY_LEVELS /\ n <= Pow(LevelFor(n))
<1> DEFINE S == {l \in 0..BUDDY_LEVELS : n <= 2^l}
<1>1. BUDDY_LEVELS \in S /\ S \in SUBSET Nat
  BY LayoutAssumption DEF Pow
<1>2. LevelFor(n) = CHOOSE x \in S : \A y \in S : x <= y
  BY Zenon DEF LevelFor, Min
<1>3. LevelFor(n) \in S
  <2> HIDE DEF S
  <2> QED
    BY Zenon, <1>1, <1>2, Least
<1> QED
  BY Zenon, <1>3 DEF Pow

(* What is over in the chunk beyond the frames asked for, in chunks of level  *)
(* l and in pages, and the piece that ends at the pages given back at higher  *)
(* levels.                                                                    *)
Over(over, l)  == over \div Pow(l)
Piece(g, t, over, l) == (g + 1) * Pow(t - l) - Over(over, l)

(* The piece of a level: where it starts and ends, that it is a right half,   *)
(* and that its buddy begins among the frames asked for.                      *)
LEMMA PieceFacts ==
  ASSUME NEW t, NEW g, Valid(g, t), NEW over \in Nat, over < Pow(t), NEW l \in 0..t - 1
  PROVE  LET q == Over(over, l)
             R == q * Pow(l)
             E == (g + 1) * Pow(t)
             i == Piece(g, t, over, l)
         IN  /\ q \in Nat /\ R \in Nat /\ R <= over /\ over < R + Pow(l) /\ R + Pow(l) <= Pow(t)
             /\ i * Pow(l) = E - R
             /\ q % 2 = 1 => Valid(i, l) /\ \E h \in Nat : i = 2 * h + 1 /\ Valid(h, l + 1)
             /\ Over(over, l + 1) * Pow(l + 1) = IF q % 2 = 1 THEN R - Pow(l) ELSE R
<1> DEFINE q == Over(over, l)
           w == Pow(l)
           s == Pow(t - l)
           R == q * w
           i == Piece(g, t, over, l)
<1>0. /\ t \in Nat /\ g \in Nat /\ l \in Nat /\ t \in 0..MapBits /\ l \in 0..MapBits /\ t - l \in Nat
      /\ MapBits \in Nat
      /\ t - l \in 0..MapBits /\ t - l - 1 \in 0..MapBits /\ t - l - 1 \in Nat /\ t - l - 1 + 1 = t - l
      /\ l + (t - l) = t /\ t \in 0..BUDDY_LEVELS /\ l \in 0..BUDDY_LEVELS /\ l + 1 \in Levels
      /\ l + 1 \in 0..BUDDY_LEVELS /\ l \in Levels /\ (t - l - 1) + (l + 1) = t
      /\ MapBits - t - 1 \in Nat /\ (MapBits - t - 1) + (t - l) = MapBits - l - 1
      /\ MapBits - l - 1 <= MapBits /\ t <= MapBits
  <2>1. t \in Nat /\ g \in Nat /\ t \in 0..MapBits /\ t \in 0..BUDDY_LEVELS /\ t \in 0..Top
    BY Zenon, ValidType DEF Valid, Levels
  <2>2. Top = BUDDY_LEVELS - 1 /\ BUDDY_LEVELS \in Nat /\ MapBits \in Nat /\ MapBits > BUDDY_LEVELS
    BY Zenon, LayoutAssumption DEF Top
  <2> QED
    BY <2>1, <2>2 DEF Levels
<1>1. /\ w \in Nat /\ w > 0 /\ s \in Nat /\ Pow(t) \in Nat /\ Pow(l + 1) = 2 * w
      /\ Pow(t - l - 1) \in Nat /\ s = 2 * Pow(t - l - 1)
  BY Zenon, <1>0, Powers
<1>2. Pow(t) = w * s
  BY <1>0, PowerOfSum
<1>3. q \in Int /\ R <= over /\ over < R + w
  <2>1. w \in Nat \ {0} /\ q = over \div w /\ over \in Int
    BY <1>1 DEF Over
  <2> HIDE DEF q, w
  <2> QED
    BY Zenon, <2>1, Quotient
<1> HIDE DEF q, w, s
<1>4. q \in Nat /\ R \in Nat
  <2>1. q >= 0
    <3>1. CASE q < 0
      <4>1. q * w + w <= 0 * w
        BY <1>1, <1>3, <3>1, Apart
      <4> QED
        BY <1>1, <1>3, <4>1
    <3> QED
      BY <1>3, <3>1
  <2> QED
    BY <1>1, <1>3, <2>1
<1>5. q < s /\ R + w <= Pow(t)
  <2>1. CASE s <= q
    <3>1. s * w <= q * w
      <4>1. CASE s < q
        BY <1>1, <1>4, <4>1, Apart
      <4> QED
        BY <2>1, <4>1, <1>1, <1>4
    <3>2. w * s = s * w /\ w * s \in Nat
      BY <1>1
    <3> QED
      BY <1>1, <1>2, <1>3, <1>4, <3>1, <3>2
  <2>2. CASE q < s
    <3>1. q * w + w <= s * w
      BY <1>1, <1>4, <2>2, Apart
    <3>2. w * s = s * w /\ w * s \in Nat
      BY <1>1
    <3> QED
      BY Zenon, <1>2, <2>2, <3>1, <3>2
  <2> QED
    BY <1>1, <1>4, <2>1, <2>2
<1> DEFINE G == (g + 1) * s
<1>6. i = G - q /\ G \in Nat /\ g * s \in Nat /\ G = g * s + s
  BY <1>0, <1>1 DEF Piece, q, s
<1> HIDE DEF i
<1>7. i * w = (g + 1) * Pow(t) - R
  <2>1. \A x, y \in Int : (x - y) * w = x * w - y * w
    BY <1>1
  <2>2. \A x \in Int : (x * s) * w = x * (w * s)
    BY <1>1
  <2>3. (g + 1) * (w * s) = G * w
    BY <1>0, <2>2
  <2>4. i * w = G * w - q * w
    BY <1>4, <1>6, <2>1
  <2> QED
    BY Zenon, <1>2, <2>3, <2>4
<1>8. Size(l) = Size(t) * s /\ Size(t) \in Nat /\ g + 1 <= Size(t)
  <2>1. Pow(MapBits - l - 1) = Pow(MapBits - t - 1) * Pow(t - l)
    <3>1. (MapBits - t - 1) + (t - l) <= MapBits
      BY Zenon, <1>0
    <3>2. Pow((MapBits - t - 1) + (t - l)) = Pow(MapBits - t - 1) * Pow(t - l)
      BY Zenon, <1>0, <3>1, PowerOfSum
    <3> QED
      BY Zenon, <1>0, <3>2
  <2>2. Size(t) \in Nat
    BY Zenon, <1>0, Sizes
  <2> QED
    BY <1>0, <2>1, <2>2 DEF Size, s, Valid
<1>9. i \in Nat
  BY <1>1, <1>4, <1>5, <1>6
<1> DEFINE c == q \div 2
<1>10. c \in Nat /\ (q % 2 = 1 <=> q = 2 * c + 1) /\ (q % 2 # 1 <=> q = 2 * c)
  BY <1>4
<1>11. ASSUME q % 2 = 1 PROVE Valid(i, l) /\ \E h \in Nat : i = 2 * h + 1 /\ Valid(h, l + 1)
  <2>1. G <= Size(t) * s
    <3>1. CASE g + 1 < Size(t)
      <4>1. (g + 1) * s + s <= Size(t) * s
        BY <1>0, <1>1, <1>8, <3>1, Apart
      <4>2. Size(t) * s \in Nat
        BY <1>1, <1>8
      <4> QED
        BY <1>1, <1>6, <4>1, <4>2
    <3>2. CASE g + 1 = Size(t)
      BY <1>6, <3>2
    <3> QED
      BY <1>0, <1>8, <3>1, <3>2
  <2>2. i < Size(l) /\ Size(l) \in Nat
    <3>1. Size(l) \in Nat
      BY Zenon, <1>0, Sizes
    <3> HIDE DEF G
    <3> QED
      BY <1>4, <1>6, <1>8, <1>11, <2>1, <3>1
  <2>3. Valid(i, l)
    BY <1>0, <1>9, <2>2 DEF Valid
  <2> DEFINE X == (g + 1) * Pow(t - l - 1)
  <2>4. G = 2 * X /\ X \in Nat
    <3>1. \A u \in Nat : (g + 1) * (2 * u) = 2 * ((g + 1) * u) /\ (g + 1) * u \in Nat
      BY <1>0
    <3> QED
      BY Zenon, <1>1, <3>1
  <2> HIDE DEF X, G, c
  <2>5. i = 2 * (X - c - 1) + 1 /\ X - c - 1 \in Nat
    BY <1>6, <1>9, <1>10, <1>11, <2>4
  <2>6. Valid(X - c - 1, l + 1)
    <3>1. Size(l) = 2 * Size(l + 1) /\ Size(l + 1) \in Nat
      <4>1. l + 1 # 0 /\ l + 1 - 1 = l
        BY <1>0
      <4> QED
        BY <1>0, <4>1, Sizes
    <3>2. X - c - 1 \in 0..Size(l + 1) - 1
      BY <2>2, <2>5, <3>1
    <3> QED
      BY Zenon, <1>0, <3>2 DEF Valid
  <2> QED
    BY Zenon, <2>3, <2>5, <2>6
<1> HIDE DEF c
<1>12. Over(over, l + 1) * Pow(l + 1) = IF q % 2 = 1 THEN R - w ELSE R
  <2>1. c * (2 * w) = IF q % 2 = 1 THEN R - w ELSE R
    <3>1. c * (2 * w) = (2 * c) * w /\ (2 * c + 1) * w = (2 * c) * w + w /\ (2 * c) * w \in Nat
      BY <1>1, <1>10
    <3> QED
      BY <1>10, <1>1, <3>1
  <2>2. 2 * w \in Nat \ {0}
    BY <1>1
  <2>3. c * (2 * w) <= over /\ over < c * (2 * w) + 2 * w
    <3> HIDE DEF R
    <3> QED
      BY <1>1, <1>3, <1>4, <2>1
  <2>4. over \div (2 * w) = c
    BY <1>10, <2>2, <2>3, TheQuotient
  <2> QED
    BY Zenon, <1>1, <2>1, <2>4 DEF Over
<1> HIDE DEF R
<1> QED
  BY Zenon, <1>3, <1>4, <1>5, <1>7, <1>11, <1>12 DEF q, w, R, i

(* The next multiple. *)
LEMMA OneMore ==
  ASSUME NEW x \in Int, NEW b \in Nat
  PROVE  (x + 1) * b = x * b + b /\ x * b \in Int
  OBVIOUS

(* The pieces of the levels below l, set in the bit array. *)
TailBelow(over, t, l) == {k \in 0..t : k < l /\ Over(over, k) % 2 = 1}
WithTail(bits, g, t, over, l) ==
  bits \cup {Bit(Piece(g, t, over, k), k) : k \in TailBelow(over, t, l)}

(* One pass of the loop: the piece of level l is given back, or there is none *)
(* and nothing changes.                                                       *)
LEMMA GivePiece ==
  ASSUME NEW bits, Sound(bits), NEW t, NEW g, Valid(g, t), NEW over \in Nat, over < Pow(t),
         NEW l \in 0..t - 1, Over(over, l) % 2 = 1,
         NEW E, E = (g + 1) * Pow(t),
         NEW R, R = Over(over, l) * Pow(l),
         \A p \in Chunk(g, t) : p \in Pages(bits) <=> E - over <= p /\ p < E - R
  PROVE  LET new == bits \cup {Bit(Piece(g, t, over, l), l)}
         IN  /\ Sound(new)
             /\ Pages(new) = Pages(bits) \cup {p \in Int : E - R <= p /\ p < E - R + Pow(l)}
             /\ Merged(bits) => Merged(new)
<1> DEFINE i == Piece(g, t, over, l)
           y == Bit(i, l)
<1>0. t \in Nat /\ g \in Nat /\ t \in 0..MapBits /\ l \in Nat /\ l \in 0..MapBits /\ g \in Int
      /\ l \in 0..Top - 1 /\ E \in Int
  <2>1. t \in Nat /\ g \in Nat /\ t \in 0..MapBits /\ t \in Levels
    BY Zenon, ValidType DEF Valid
  <2>2. Pow(t) \in Nat
    BY Zenon, <2>1, Powers
  <2>3. (g + 1) * Pow(t) \in Int
    BY <2>1, <2>2
  <2> QED
    BY <2>1, <2>3, LayoutAssumption DEF Levels, Top
<1>1. /\ R \in Nat /\ R <= over /\ over < R + Pow(l) /\ R + Pow(l) <= Pow(t)
      /\ i * Pow(l) = E - R /\ Valid(i, l) /\ \E h \in Nat : i = 2 * h + 1 /\ Valid(h, l + 1)
  BY PieceFacts
<1>2. PICK h \in Nat : i = 2 * h + 1 /\ Valid(h, l + 1)
  BY Zenon, <1>1
<1>3. y \in Bits /\ PagesOf(y) = Chunk(i, l)
  BY Zenon, <1>1, BitFacts
<1>4. Pow(l) \in Nat /\ Pow(l) > 0 /\ Pow(t) \in Nat
  BY Zenon, <1>0, Powers
<1> HIDE DEF i
<1>5. \A p : p \in Chunk(i, l) <=> p \in Int /\ E - R <= p /\ p < E - R + Pow(l)
  BY <1>0, <1>1, <1>2, InChunk
<1>6. \A p : p \in Chunk(g, t) <=> p \in Int /\ E - Pow(t) <= p /\ p < E
  <2>1. E = g * Pow(t) + Pow(t) /\ g * Pow(t) \in Int
    BY <1>0, <1>4
  <2>2. \A p : p \in Chunk(g, t) <=> p \in Int /\ g * Pow(t) <= p /\ p < g * Pow(t) + Pow(t)
    BY Zenon, <1>0, InChunk
  <2> DEFINE x == g * Pow(t)
  <2> HIDE DEF x
  <2>3. E = x + Pow(t) /\ x \in Int /\ \A p : p \in Chunk(g, t) <=> p \in Int /\ x <= p /\ p < x + Pow(t)
    BY Zenon, <2>1, <2>2 DEF x
  <2>4. x = E - Pow(t)
    BY <1>4, <2>3
  <2> QED
    BY Zenon, <2>3, <2>4
<1> HIDE DEF y
<1>7. PagesOf(y) \cap Pages(bits) = {}
  <2> SUFFICES ASSUME NEW p \in Chunk(i, l), p \in Pages(bits) PROVE FALSE
    BY Zenon, <1>3
  <2>1. p \in Int /\ E - R <= p /\ p < E - R + Pow(l)
    BY Zenon, <1>5
  <2>2. p \in Chunk(g, t)
    <3>1. \A p1 : p1 \in Int /\ E - Pow(t) <= p1 /\ p1 < E => p1 \in Chunk(g, t)
      BY Zenon, <1>6
    <3>2. Over(over, l) \in Nat /\ Pow(l) <= R
      <4>1. Over(over, l) \in Nat
        BY Zenon, PieceFacts
      <4>2. Over(over, l) >= 1
        BY <4>1
      <4> DEFINE q == Over(over, l)
                 w == Pow(l)
      <4> HIDE DEF q, w
      <4>a. q \in Nat /\ q >= 1 /\ w \in Nat /\ R = q * w
        BY Zenon, <1>4, <4>1, <4>2 DEF q, w
      <4>4. 0 * w + w <= q * w /\ q * w \in Int
        BY <4>a, Apart
      <4> QED
        BY <4>1, <4>a, <4>4 DEF w
    <3>3. E - Pow(t) <= p /\ p < E
      BY <1>0, <1>1, <1>4, <2>1, <3>2
    <3> QED
      BY Zenon, <2>1, <3>1, <3>3
  <2>3. p < E - R
    BY Zenon, <2>2
  <2> QED
    BY <1>0, <1>1, <2>1, <2>3
<1>8. Sound(bits \cup {y}) /\ Pages(bits \cup {y}) = Pages(bits) \cup Chunk(i, l)
  BY Zenon, <1>3, <1>7, AddBit
<1>9. Chunk(i, l) = {p \in Int : E - R <= p /\ p < E - R + Pow(l)}
  BY Zenon, <1>5
<1>10. Bit(2 * h, l) \notin bits
  <2> DEFINE p == E - R - Pow(l)
  <2>1. Valid(2 * h, l)
    BY Zenon, <1>0, <1>2, ValidHalves
  <2>2. PagesOf(Bit(2 * h, l)) = Chunk(2 * h, l)
    BY Zenon, <2>1, BitFacts
  <2>3. p \in Chunk(2 * h, l)
    <3>1. (2 * h) * Pow(l) = p /\ p \in Int
      <4> DEFINE w == Pow(l)
                 z == (2 * h) * w
      <4>0. 2 * h \in Int /\ w \in Nat
        BY <1>4
      <4>1. (2 * h + 1) * w = z + w /\ z \in Int /\ w \in Nat
        BY Zenon, <4>0, OneMore
      <4>2. (2 * h + 1) * w = E - R
        BY Zenon, <1>1, <1>2
      <4> HIDE DEF w, z
      <4>a. z + w = E - R
        BY Zenon, <4>1, <4>2
      <4>3. z = E - R - w
        BY <1>0, <1>1, <4>1, <4>a
      <4> QED
        BY Zenon, <1>0, <1>1, <4>1, <4>3 DEF w, z
    <3>2. 2 * h \in Int
      OBVIOUS
    <3> HIDE DEF p
    <3> QED
      BY Zenon, <1>0, <3>1, <3>2, Chunks
  <2>4. p \in Chunk(g, t) /\ ~(E - over <= p)
    <3>1. E - Pow(t) <= p /\ p < E /\ p \in Int /\ ~(E - over <= p)
      BY <1>0, <1>1, <1>4
    <3> HIDE DEF p
    <3> QED
      BY Zenon, <1>6, <3>1
  <2>5. p \notin Pages(bits)
    <3> HIDE DEF p
    <3> QED
      BY Zenon, <2>4
  <2> QED
    BY Zenon, <2>2, <2>3, <2>5 DEF Pages
<1>11. ASSUME Merged(bits) PROVE Merged(bits \cup {y})
  <2>1. \A k \in Nat : (i = 2 * k => Bit(2 * k + 1, l) \notin bits)
                       /\ (i = 2 * k + 1 => Bit(2 * k, l) \notin bits)
    <3> SUFFICES ASSUME NEW k \in Nat
                 PROVE  i # 2 * k /\ (i = 2 * k + 1 => Bit(2 * k, l) \notin bits)
      BY Zenon
    <3>1. i # 2 * k /\ (i = 2 * k + 1 => k = h)
      BY <1>2
    <3> QED
      BY Zenon, <1>10, <3>1
  <2> QED
    BY Zenon, <1>1, <1>11, <2>1, AddMerged DEF y
<1> QED
  BY Zenon, <1>8, <1>9, <1>11 DEF y, i

(* The whole tail: the pieces cover exactly what is over. *)
LEMMA GiveTail ==
  ASSUME NEW bits, Sound(bits), NEW t, NEW g, Valid(g, t), NEW over \in Nat, over < Pow(t),
         NEW E, E = (g + 1) * Pow(t), Chunk(g, t) \cap Pages(bits) = {}
  PROVE  LET new == bits \cup {Bit(Piece(g, t, over, l), l) : l \in {k \in 0..t : Over(over, k) % 2 = 1}}
         IN  /\ Sound(new) /\ Pages(new) = Pages(bits) \cup {p \in Int : E - over <= p /\ p < E}
             /\ Merged(bits) => Merged(new)
<1> DEFINE new(l) == WithTail(bits, g, t, over, l)
           R(l) == Over(over, l) * Pow(l)
           Given(l) == {p \in Int : E - over <= p /\ p < E - R(l)}
           So(l) == /\ Sound(new(l)) /\ Pages(new(l)) = Pages(bits) \cup Given(l)
                    /\ Merged(bits) => Merged(new(l))
           T == {l \in Nat : l <= t => So(l)}
<1>0. /\ t \in Nat /\ g \in Nat /\ t \in 0..MapBits /\ E \in Int /\ Pow(t) \in Nat \ {0}
      /\ Chunk(g, t) \subseteq Int
  <2>1. t \in Nat /\ g \in Nat /\ t \in 0..MapBits
    BY Zenon, ValidType
  <2>2. Pow(t) \in Nat \ {0} /\ Chunk(g, t) \subseteq Int
    BY SMTT(30), <2>1, Powers, Chunks
  <2>3. (g + 1) * Pow(t) \in Int
    BY <2>1, <2>2
  <2> QED
    BY Zenon, <2>1, <2>2, <2>3
<1>1. So(0)
  <2>1. new(0) = bits
    <3>1. TailBelow(over, t, 0) = {}
      BY <1>0 DEF TailBelow
    <3> QED
      BY Zenon, <3>1 DEF WithTail
  <2>2. R(0) = over
    <3>1. Over(over, 0) = over \div 1
      BY Zenon, Powers DEF Over
    <3>2. over \div 1 = over
      OBVIOUS
    <3> QED
      BY <3>1, <3>2, Powers
  <2>3. Given(0) = {}
    <3> HIDE DEF R
    <3> QED
      BY <1>0, <2>2
  <2> HIDE DEF new, Given
  <2> QED
    BY Zenon, <2>1, <2>3
<1>2. ASSUME NEW l \in 0..t - 1, So(l) PROVE So(l + 1)
  <2>0. /\ R(l) \in Nat /\ R(l) <= over
        /\ R(l + 1) = IF Over(over, l) % 2 = 1 THEN R(l) - Pow(l) ELSE R(l)
    BY PieceFacts
  <2>1. CASE Over(over, l) % 2 = 1
    <3>1. new(l + 1) = new(l) \cup {Bit(Piece(g, t, over, l), l)}
      <4>1. TailBelow(over, t, l + 1) = TailBelow(over, t, l) \cup {l}
        <5> DEFINE Odd(k) == Over(over, k) % 2 = 1
        <5>1. \A k, j : k \in TailBelow(over, t, j) <=> k \in 0..t /\ k < j /\ Odd(k)
          BY Zenon DEF TailBelow
        <5>2. Odd(l)
          BY Zenon, <2>1
        <5> HIDE DEF Odd
        <5>3. \A k : k \in TailBelow(over, t, l + 1) <=> k \in TailBelow(over, t, l) \/ k = l
          BY <1>0, <5>1, <5>2
        <5> QED
          BY Zenon, <5>3
      <4> QED
        BY Zenon, <4>1 DEF WithTail
    <3> HIDE DEF new, R
    <3>2. \A p \in Chunk(g, t) : p \in Pages(new(l)) <=> E - over <= p /\ p < E - R(l)
      BY Zenon, <1>0, <1>2
    <3>3. Sound(new(l)) /\ R(l) = Over(over, l) * Pow(l)
      BY Zenon, <1>2 DEF R
    <3> DEFINE old == new(l)
               r == R(l)
               after == old \cup {Bit(Piece(g, t, over, l), l)}
    <3>4. /\ Sound(after)
          /\ Pages(after) = Pages(old) \cup {p \in Int : E - r <= p /\ p < E - r + Pow(l)}
          /\ Merged(old) => Merged(after)
      <4> HIDE DEF old, r
      <4> QED
        BY SMTT(30), <2>1, <3>2, <3>3, GivePiece DEF old, r
    <3>5. Given(l + 1) = Given(l) \cup {p \in Int : E - r <= p /\ p < E - r + Pow(l)}
      <4>1. R(l + 1) = r - Pow(l) /\ r \in Nat /\ r <= over
        BY Zenon, <2>0, <2>1
      <4>2. Pow(l) \in Nat /\ Pow(l) <= r
        <5>1. l \in 0..MapBits /\ l + 1 \in 0..MapBits
          BY <1>0, LayoutAssumption
        <5>2. Pow(l) \in Nat /\ Pow(l) > 0
          BY Zenon, <5>1, Powers
        <5>3. Over(over, l) \in Nat /\ 0 < Over(over, l)
          <6>1. Over(over, l) \in Nat
            BY Zenon, PieceFacts
          <6> QED
            BY <2>1, <6>1
        <5>c. 0 \in Int /\ Over(over, l) \in Int
          BY <5>3
        <5>4. 0 * Pow(l) + Pow(l) <= Over(over, l) * Pow(l)
          BY Zenon, <5>2, <5>3, <5>c, Apart
        <5>b. 0 * Pow(l) + Pow(l) = Pow(l)
          BY <5>2
        <5>a. Pow(l) <= Over(over, l) * Pow(l)
          BY Zenon, <5>4, <5>b
        <5> QED
          <6> DEFINE z == Over(over, l) * Pow(l)
          <6>1. r = z /\ Pow(l) <= z
            BY Zenon, <3>3, <5>2, <5>a
          <6> HIDE DEF z
          <6> QED
            BY Zenon, <5>2, <6>1
      <4>3. E - R(l + 1) = E - r + Pow(l) /\ E - r \in Int /\ E - over \in Int /\ E - over <= E - r
            /\ E - r <= E - r + Pow(l)
        BY <1>0, <4>1, <4>2
      <4> HIDE DEF r
      <4>4. Given(l) = {p \in Int : E - over <= p /\ p < E - r}
        BY Zenon DEF r
      <4> QED
        BY <4>2, <4>3, <4>4
    <3> HIDE DEF Given, after
    <3>6. new(l + 1) = after /\ Pages(after) = Pages(bits) \cup Given(l + 1)
      BY Zenon, <1>2, <3>1, <3>4, <3>5 DEF after
    <3> QED
      BY Zenon, <1>2, <3>4, <3>6
  <2>2. CASE Over(over, l) % 2 # 1
    <3>1. new(l + 1) = new(l)
      <4>1. TailBelow(over, t, l + 1) = TailBelow(over, t, l)
        BY <1>0, <2>2 DEF TailBelow
      <4> QED
        BY Zenon, <4>1 DEF WithTail
    <3>2. Given(l + 1) = Given(l)
      <4> HIDE DEF R
      <4> QED
        BY Zenon, <2>0, <2>2
    <3> HIDE DEF new, Given
    <3> QED
      BY Zenon, <1>2, <3>1, <3>2
  <2> QED
    BY Zenon, <2>1, <2>2
<1> HIDE DEF So
<1>3. 0 \in T
  BY Zenon, <1>1
<1>4. ASSUME NEW l \in T PROVE l + 1 \in T
  <2>1. CASE l + 1 <= t
    BY <1>0, <1>2, <2>1
  <2>2. CASE ~(l + 1 <= t)
    BY <2>2
  <2> QED
    BY Zenon, <2>1, <2>2
<1>5. T = Nat
  <2> HIDE DEF T
  <2> QED
    BY Zenon, <1>3, <1>4, SetInduction DEF T
<1>6. So(t)
  BY <1>0, <1>5
<1>7. Over(over, t) = 0
  BY <1>0, TheQuotient DEF Over
<1>8. new(t) = bits \cup {Bit(Piece(g, t, over, l), l) : l \in {k \in 0..t : Over(over, k) % 2 = 1}}
  <2>1. TailBelow(over, t, t) = {k \in 0..t : Over(over, k) % 2 = 1}
    <3> DEFINE Odd(k) == Over(over, k) % 2 = 1
    <3>1. ~Odd(t)
      BY <1>7
    <3>2. TailBelow(over, t, t) = {k \in 0..t : k < t /\ Odd(k)}
      BY Zenon DEF TailBelow
    <3> HIDE DEF Odd
    <3>3. \A k \in 0..t : k < t /\ Odd(k) <=> Odd(k)
      BY <1>0, <3>1
    <3>4. TailBelow(over, t, t) = {k \in 0..t : Odd(k)}
      BY Zenon, <3>2, <3>3
    <3> QED
      BY Zenon, <3>4 DEF Odd
  <2> QED
    BY Zenon, <2>1 DEF WithTail
<1>9. Given(t) = {p \in Int : E - over <= p /\ p < E}
  <2>1. R(t) = 0
    BY <1>0, <1>7
  <2> HIDE DEF R
  <2> QED
    BY <1>0, <2>1
<1> HIDE DEF new, Given
<1> QED
  BY Zenon, <1>6, <1>8, <1>9 DEF So

(* pick_off_contiguous hands out a run of n free pages, and nothing else.     *)
LEMMA PicksOff ==
  ASSUME NEW bits, Sound(bits), NEW n \in Nat \ {0}, n <= Pow(BUDDY_LEVELS), NEW min_frames,
         pick_off_contiguous(bits, n, min_frames).some
  PROVE  LET got == pick_off_contiguous(bits, n, min_frames)
             run == got.page..(got.page + n - 1)
         IN  /\ got.page \in Int /\ run \subseteq Pages(bits)
             /\ Sound(got.bits) /\ Pages(got.bits) = Pages(bits) \ run
             /\ Merged(bits) => Merged(got.bits)
<1> DEFINE t == LevelFor(n)
           chunk == allocate_chunk_from_level(bits, t)
           g == chunk.index
           B == chunk.bits
           over == 2^t - n
           tail == {l \in 0..t : (over \div 2^l) % 2 = 1}
           piece(l) == (g + 1) * 2^(t - l) - over \div 2^l
           got == pick_off_contiguous(bits, n, min_frames)
           after == (B \ {relative_to_absolute(g, t)}) \cup {relative_to_absolute(piece(l), l) : l \in tail}
<1>1. chunk.some /\ got.page = g * 2^t /\ got.bits = after
  <2>1. CASE LevelFor(min_frames) > t \/ ~chunk.some
    <3>1. got = None
      BY Zenon, <2>1 DEF pick_off_contiguous
    <3> QED
      BY <3>1 DEF None
  <2>2. CASE ~(LevelFor(min_frames) > t \/ ~chunk.some)
    <3>1. got = [some |-> TRUE, page |-> g * 2^t, bits |-> after]
      BY Zenon, <2>2 DEF pick_off_contiguous
    <3> HIDE DEF got, after, g, t
    <3> QED
      BY Zenon, <2>2, <3>1
  <2> QED
    BY Zenon, <2>1, <2>2
<1>2. t \in 0..BUDDY_LEVELS /\ n <= Pow(t)
  BY Zenon, Holds
<1> HIDE DEF t
<1>3. t \in Levels
  <2>1. PICK b \in bits : LevelOf(b) >= t
    BY Zenon, <1>1, <1>2, Finds DEF Sound
  <2>2. LevelOf(b) \in Levels
    BY Zenon, <2>1, Relative DEF Sound, Valid
  <2> QED
    BY <1>2, <2>1, <2>2, LayoutAssumption DEF Levels, Top
<1> DEFINE i == g
<1>4. /\ Valid(g, t) /\ Chunk(g, t) \subseteq Pages(bits)
      /\ Sound(B) /\ Pages(B) = Pages(bits) \ Chunk(g, t)
      /\ Merged(bits) => Merged(B)
  BY Zenon, <1>1, <1>3, Allocates
<1> HIDE DEF chunk, g, B, got
<1>5. /\ t \in Nat /\ t \in 0..MapBits /\ g \in Nat /\ Pow(t) \in Nat /\ Pow(t) > 0
      /\ over \in Nat /\ over = Pow(t) - n /\ over < Pow(t)
  <2>1. t \in Nat /\ t \in 0..MapBits /\ g \in Nat
    BY Zenon, <1>4, ValidType
  <2>2. Pow(t) \in Nat /\ Pow(t) > 0
    BY Zenon, <2>1, Powers
  <2> QED
    BY <1>2, <2>1, <2>2 DEF Pow
<1>6. after = B \cup {Bit(Piece(g, t, over, l), l) : l \in {k \in 0..t : Over(over, k) % 2 = 1}}
  <2>1. Bit(g, t) \notin B
    <3>1. PagesOf(Bit(g, t)) = Chunk(g, t) /\ PagesOf(Bit(g, t)) # {}
      BY Zenon, <1>4, BitFacts, BitPages
    <3> QED
      BY Zenon, <1>4, <3>1 DEF Pages
  <2>2. after = (B \ {Bit(g, t)}) \cup {Bit(Piece(g, t, over, l), l) : l \in {k \in 0..t : Over(over, k) % 2 = 1}}
    BY Zenon DEF Bit, Piece, Over, Pow
  <2> HIDE DEF after, over
  <2> QED
    BY Zenon, <2>1, <2>2
<1> HIDE DEF after, over
<1> DEFINE E == (g + 1) * Pow(t)
           Rest == {p \in Int : E - over <= p /\ p < E}
<1>7. Sound(after) /\ Pages(after) = Pages(B) \cup Rest /\ (Merged(B) => Merged(after))
  <2>1. Chunk(g, t) \cap Pages(B) = {}
    BY Zenon, <1>4
  <2> QED
    BY <1>4, <1>5, <1>6, <2>1, GiveTail
<1> DEFINE x == g * Pow(t)
<1>8. x \in Int /\ E = x + Pow(t) /\ \A p : p \in Chunk(g, t) <=> p \in Int /\ x <= p /\ p < x + Pow(t)
  <2>1. g \in Int
    BY <1>5
  <2> QED
    BY Zenon, <1>5, <2>1, InChunk, OneMore
<1>9. got.page = x
  BY Zenon, <1>1 DEF Pow
<1> HIDE DEF x
<1>10. E - over = x + n
  <2> HIDE DEF E
  <2> QED
    BY <1>5, <1>8
<1>11. \A p : /\ p \in x..(x + n - 1) <=> p \in Int /\ x <= p /\ p < x + n
              /\ p \in Rest <=> p \in Int /\ x + n <= p /\ p < x + Pow(t)
  <2> HIDE DEF E
  <2> QED
    BY <1>8, <1>10
<1> HIDE DEF Rest
<1>12. x..(x + n - 1) = Chunk(g, t) \ Rest /\ Rest \subseteq Chunk(g, t)
  <2> HIDE DEF E
  <2>1. \A p : p \in x..(x + n - 1) <=> p \in Chunk(g, t) /\ p \notin Rest
    BY <1>2, <1>5, <1>8, <1>11
  <2>2. \A p : p \in Rest => p \in Chunk(g, t)
    BY <1>5, <1>8, <1>11
  <2> QED
    BY Zenon, <2>1, <2>2
<1>13. x..(x + n - 1) \subseteq Pages(bits) /\ Pages(after) = Pages(bits) \ (x..(x + n - 1))
  <2> DEFINE run == x..(x + n - 1)
  <2>1. run = Chunk(g, t) \ Rest
    BY Zenon, <1>12
  <2> HIDE DEF run
  <2>2. run \subseteq Pages(bits) /\ Pages(after) = Pages(bits) \ run
    BY Zenon, <1>4, <1>7, <1>12, <2>1
  <2> QED
    BY Zenon, <2>2 DEF run
<1> QED
  BY Zenon, <1>1, <1>4, <1>7, <1>8, <1>9, <1>13 DEF got

-----------------------------------------------------------------------------
(* merge_up_from *)

(* A shift by one more is half the shift. *)
LEMMA HalfQuotient ==
  ASSUME NEW n \in Nat, NEW w \in Nat \ {0}
  PROVE  n \div w \in Nat /\ n \div (2 * w) = (n \div w) \div 2
<1> DEFINE q == n \div w
           c == q \div 2
<1>1. q \in Int /\ q * w <= n /\ n < q * w + w
  BY Quotient
<1> HIDE DEF q
<1>2. q \in Nat
  <2>1. CASE q < 0
    <3>1. q \in Int /\ 0 \in Int /\ w \in Nat
      BY <1>1
    <3>2. q * w + w <= 0 * w
      BY Zenon, <2>1, <3>1, Apart
    <3>3. 0 * w = 0
      OBVIOUS
    <3> DEFINE z == q * w
    <3>4. z \in Int /\ z + w <= 0 /\ n < z + w
      BY <1>1, <3>2, <3>3
    <3> HIDE DEF z
    <3> QED
      BY <3>4
  <2> QED
    BY <1>1, <2>1
<1>3. c \in Nat /\ (q = 2 * c \/ q = 2 * c + 1)
  BY <1>2
<1> HIDE DEF c
<1> DEFINE z == c * (2 * w)
<1>4. z \in Nat /\ (q * w = z \/ q * w = z + w)
  <2>1. c * (2 * w) = (2 * c) * w /\ (2 * c + 1) * w = (2 * c) * w + w /\ (2 * c) * w \in Nat
    BY <1>3
  <2> QED
    BY Zenon, <1>3, <2>1
<1>5. z <= n /\ n < z + 2 * w
  <2> DEFINE y == q * w
  <2>1. y <= n /\ n < y + w /\ (y = z \/ y = z + w)
    BY Zenon, <1>1, <1>4
  <2> HIDE DEF y, z
  <2> QED
    BY <1>4, <2>1
<1>6. 2 * w \in Nat \ {0} /\ c \in Int /\ n \in Int
  BY <1>3
<1>7. n \div (2 * w) = c
  BY Zenon, <1>5, <1>6, TheQuotient
<1> QED
  BY Zenon, <1>2, <1>7 DEF q, c

(* A pair of buddies becomes one chunk: the same pages stay free. *)
LEMMA MergePair ==
  ASSUME NEW bits, Sound(bits), NEW l \in 0..Top - 1, NEW h, Valid(h, l + 1),
         Bit(2 * h, l) \in bits, Bit(2 * h + 1, l) \in bits
  PROVE  LET less == bits \ {Bit(2 * h, l), Bit(2 * h + 1, l)}
             new  == less \cup {Bit(h, l + 1)}
         IN  Sound(new) /\ Pages(new) = Pages(bits) /\ Bit(h, l + 1) \notin less
<1> DEFINE x == Bit(2 * h, l)
           y == Bit(2 * h + 1, l)
           z == Bit(h, l + 1)
           one == bits \ {x}
           less == one \ {y}
<1>1. /\ Valid(2 * h, l) /\ Valid(2 * h + 1, l)
      /\ Chunk(h, l + 1) = Chunk(2 * h, l) \cup Chunk(2 * h + 1, l)
      /\ Chunk(2 * h, l) \cap Chunk(2 * h + 1, l) = {} /\ x # y
  BY Zenon, ValidHalves
<1>2. /\ PagesOf(x) = Chunk(2 * h, l) /\ PagesOf(y) = Chunk(2 * h + 1, l)
      /\ z \in Bits /\ PagesOf(z) = Chunk(h, l + 1)
  BY Zenon, <1>1, BitFacts
<1> HIDE DEF x, y, z
<1>3. x \in bits /\ y \in bits
  BY Zenon DEF x, y
<1>4. Sound(one) /\ Pages(one) = Pages(bits) \ PagesOf(x)
  BY Zenon, <1>3, RemoveBit
<1>5. y \in one
  BY Zenon, <1>1, <1>3
<1> HIDE DEF one
<1>6. Sound(less) /\ Pages(less) = Pages(one) \ PagesOf(y)
  BY Zenon, <1>4, <1>5, RemoveBit
<1> HIDE DEF less
<1>7. PagesOf(z) \cap Pages(less) = {}
  BY <1>1, <1>2, <1>4, <1>6
<1>8. z \notin less /\ Sound(less \cup {z}) /\ Pages(less \cup {z}) = Pages(less) \cup PagesOf(z)
  BY Zenon, <1>2, <1>6, <1>7, AddBit
<1>9. PagesOf(x) \subseteq Pages(bits) /\ PagesOf(y) \subseteq Pages(bits)
  BY Zenon, <1>3 DEF Pages
<1>10. Pages(less \cup {z}) = Pages(bits)
  <2>1. PagesOf(z) = PagesOf(x) \cup PagesOf(y)
    BY Zenon, <1>1, <1>2
  <2>2. Pages(less) = (Pages(bits) \ PagesOf(x)) \ PagesOf(y)
    BY Zenon, <1>4, <1>6
  <2> QED
    BY Zenon, <1>8, <1>9, <2>1, <2>2
<1>11. less = bits \ {x, y}
  BY Zenon DEF less, one
<1> QED
  BY Zenon, <1>8, <1>10, <1>11 DEF x, y, z

(* The chunk that the freed one has become on level l, and the bit array      *)
(* then.                                                                      *)
At(index, level, l) == index \div Pow(l - level)
Pair(h, l) == {Bit(2 * h, l), Bit(2 * h + 1, l)}
Climbed(bits, index, level, l) ==
  (bits \ UNION {Pair(At(index, level, k) \div 2, k) : k \in level..l - 1})
    \cup {Bit(At(index, level, l), l) : k \in level + 1..l}
Merges(bits, index, level, l) ==
  Pair(At(index, level, l) \div 2, l) \subseteq bits \cup {Bit(At(index, level, k), k) : k \in level + 1..l}

(* A chunk and the pair it is half of. *)
LEMMA AtFacts ==
  ASSUME NEW level \in Levels, NEW l \in Levels, level <= l, NEW index, Valid(index, level)
  PROVE  LET at == At(index, level, l)
             h  == at \div 2
         IN  /\ Valid(at, l) /\ At(index, level, level) = index
             /\ h \in Nat /\ (at = 2 * h \/ at = 2 * h + 1)
             /\ l < Top => Valid(h, l + 1) /\ At(index, level, l + 1) = h
<1> DEFINE at(k) == At(index, level, k)
           So(k) == Valid(at(k), k)
           T == {d \in Nat : level + d <= Top => So(level + d)}
<1>0. /\ Top \in Nat /\ level \in Nat /\ l \in Nat /\ MapBits \in Nat /\ BUDDY_LEVELS \in Nat
      /\ Top + 1 = BUDDY_LEVELS /\ BUDDY_LEVELS < MapBits /\ index \in Nat /\ l <= Top
  <2>1. index \in Nat
    BY Zenon, ValidType
  <2> QED
    BY <2>1, LayoutAssumption DEF Levels, Top
<1>1. at(level) = index
  <2>1. at(level) = index \div 1
    <3>1. level - level = 0
      BY <1>0
    <3> QED
      BY Zenon, <3>1, Powers DEF At
  <2> QED
    BY <1>0, <2>1
<1>2. ASSUME NEW k \in Levels, level <= k
      PROVE  at(k) \in Nat /\ at(k + 1) = at(k) \div 2
  <2>1. k \in Nat /\ k - level \in 0..MapBits /\ (k + 1) - level = k - level + 1
    BY <1>0, <1>2 DEF Levels
  <2>2. Pow(k - level) \in Nat \ {0} /\ Pow((k + 1) - level) = 2 * Pow(k - level)
    BY <2>1, Powers
  <2> DEFINE w == Pow(k - level)
  <2> HIDE DEF w
  <2>3. at(k) = index \div w /\ at(k + 1) = index \div (2 * w) /\ w \in Nat \ {0}
    <3>1. at(k) = index \div w
      BY Zenon DEF At, w
    <3>2. at(k + 1) = index \div Pow((k + 1) - level)
      BY Zenon DEF At
    <3>3. w \in Nat \ {0}
      BY Zenon, <2>2 DEF w
    <3>4. Pow((k + 1) - level) = 2 * w
      BY Zenon, <2>2 DEF w
    <3> QED
      BY Zenon, <3>1, <3>2, <3>3, <3>4
  <2>4. index \div w \in Nat /\ index \div (2 * w) = (index \div w) \div 2
    BY Zenon, <1>0, <2>3, HalfQuotient
  <2> HIDE DEF at
  <2> QED
    BY Zenon, <2>3, <2>4
<1>3. ASSUME NEW k \in Levels, level <= k
      PROVE  LET h == at(k) \div 2 IN h \in Nat /\ (at(k) = 2 * h \/ at(k) = 2 * h + 1)
  <2>1. at(k) \in Nat
    BY Zenon, <1>2, <1>3
  <2> HIDE DEF at
  <2> QED
    BY <2>1
<1> HIDE DEF at
<1>4. ASSUME NEW k \in Levels, level <= k, k < Top, So(k)
      PROVE  Valid(at(k) \div 2, k + 1)
  <2> DEFINE h == at(k) \div 2
  <2>1. h \in Nat /\ (at(k) = 2 * h \/ at(k) = 2 * h + 1)
    BY Zenon, <1>3, <1>4
  <2> HIDE DEF h
  <2>2. k + 1 \in 0..BUDDY_LEVELS /\ k + 1 # 0 /\ k + 1 - 1 = k /\ k + 1 \in Levels /\ k \in 0..BUDDY_LEVELS
    BY <1>0, <1>4 DEF Levels
  <2>3. Size(k) = 2 * Size(k + 1) /\ Size(k + 1) \in Nat /\ Size(k) \in Nat
    BY <2>2, Sizes
  <2>4. at(k) < Size(k) /\ at(k) \in Nat
    BY <1>4, <2>3 DEF Valid
  <2>5. h \in 0..Size(k + 1) - 1
    BY <2>1, <2>3, <2>4
  <2> QED
    BY Zenon, <2>2, <2>5 DEF Valid, h
<1>5. 0 \in T
  BY <1>0, <1>1
<1>6. ASSUME NEW d \in T PROVE d + 1 \in T
  <2> SUFFICES ASSUME level + (d + 1) <= Top PROVE So(level + (d + 1))
    OBVIOUS
  <2>1. level + d \in Levels /\ level <= level + d /\ level + d < Top /\ level + d <= Top
        /\ level + (d + 1) = (level + d) + 1
    BY <1>0 DEF Levels
  <2>2. So(level + d)
    BY Zenon, <2>1
  <2> DEFINE k == level + d
  <2> HIDE DEF k
  <2>3. Valid(at(k) \div 2, k + 1) /\ at(k + 1) = at(k) \div 2
    BY Zenon, <1>2, <1>4, <2>1, <2>2 DEF k
  <2> QED
    BY Zenon, <2>1, <2>3 DEF k
<1>7. T = Nat
  <2> HIDE DEF T
  <2> QED
    BY Zenon, <1>5, <1>6, SetInduction DEF T
<1>8. So(l)
  <2>1. l - level \in Nat /\ level + (l - level) = l
    BY <1>0
  <2>2. l - level \in T
    BY Zenon, <1>7, <2>1
  <2> QED
    BY Zenon, <1>0, <2>1, <2>2
<1> QED
  BY Zenon, <1>1, <1>2, <1>3, <1>4, <1>8 DEF at

(* The bits of a pair, by level. *)
LEMMA PairFacts ==
  ASSUME NEW k \in 0..Top - 1, NEW h, Valid(h, k + 1)
  PROVE  \A x \in Pair(h, k) : LevelOf(x) = k
  BY Zenon, ValidHalves, BitFacts DEF Pair

(* One pass of the loop: the chunk and its buddy become one of the next level.*)
LEMMA ClimbOnce ==
  ASSUME NEW bits, NEW index, NEW level \in Levels, Valid(index, level), NEW l \in level..Top - 1,
         Bit(At(index, level, l), l) \in Climbed(bits, index, level, l),
         Merges(bits, index, level, l)
  PROVE  LET old == Climbed(bits, index, level, l)
             h   == At(index, level, l) \div 2
         IN  /\ Valid(h, l + 1) /\ Bit(At(index, level, l), l) \in Pair(h, l) /\ Pair(h, l) \subseteq old
             /\ At(index, level, l + 1) = h
             /\ Climbed(bits, index, level, l + 1) = (old \ Pair(h, l)) \cup {Bit(h, l + 1)}
<1> DEFINE at(k) == At(index, level, k)
           half(k) == at(k) \div 2
           own == Bit(at(l), l)
           old == Climbed(bits, index, level, l)
           P(k) == Pair(half(k), k)
           U(j) == UNION {P(k) : k \in level..j - 1}
<1>0. Top \in Nat /\ level \in Nat /\ l \in Nat /\ l \in Levels /\ level <= l /\ l < Top /\ l \in 0..Top - 1
      /\ (l + 1) - 1 = l
  BY LayoutAssumption DEF Levels, Top
<1>1. ASSUME NEW k \in level..l
      PROVE  k \in 0..Top - 1 /\ Valid(at(k), k) /\ Valid(half(k), k + 1) /\ at(k + 1) = half(k)
             /\ half(k) \in Nat /\ (at(k) = 2 * half(k) \/ at(k) = 2 * half(k) + 1)
  <2>1. k \in Levels /\ level <= k /\ k < Top /\ k \in 0..Top - 1
    BY <1>0 DEF Levels
  <2> QED
    BY <2>1, AtFacts
<1>2. l \in level..l
  BY <1>0
<1>3. own \in P(l)
  BY Zenon, <1>1, <1>2 DEF Pair
<1>4. \A k \in level..l : \A x \in P(k) : LevelOf(x) = k
  <2> SUFFICES ASSUME NEW k \in level..l PROVE \A x \in P(k) : LevelOf(x) = k
    BY Zenon
  <2>1. k \in 0..Top - 1 /\ Valid(half(k), k + 1)
    BY Zenon, <1>1
  <2> HIDE DEF half
  <2> QED
    BY Zenon, <2>1, PairFacts
<1>5. old = (bits \ U(l)) \cup {Bit(at(l), l) : k \in level + 1..l}
  BY Zenon DEF Climbed
<1>6. P(l) \subseteq bits \cup {Bit(at(k), k) : k \in level + 1..l}
  BY Zenon DEF Merges
<1>7. \A k \in level + 1..l : LevelOf(Bit(at(k), k)) = k
  <2> SUFFICES ASSUME NEW k \in level + 1..l PROVE LevelOf(Bit(at(k), k)) = k
    BY Zenon
  <2>1. k \in level..l
    BY <1>0
  <2>2. Valid(at(k), k)
    BY Zenon, <1>1, <2>1
  <2> QED
    BY Zenon, <2>2, BitFacts
<1>8. own \in old
  BY Zenon
<1> HIDE DEF old, P
<1>9. P(l) \subseteq old
  <2> SUFFICES ASSUME NEW x \in P(l), x \notin old PROVE FALSE
    BY Zenon
  <2>1. LevelOf(x) = l
    BY Zenon, <1>2, <1>4
  <2>2. x \in bits
    <3>1. CASE \E k \in level + 1..l : x = Bit(at(k), k)
      <4>1. PICK k \in level + 1..l : x = Bit(at(k), k)
        BY Zenon, <3>1
      <4>2. k = l
        BY Zenon, <1>7, <2>1, <4>1
      <4> QED
        BY Zenon, <1>8, <4>1, <4>2
    <3> HIDE DEF at
    <3> QED
      BY Zenon, <1>6, <3>1
  <2>3. x \in U(l)
    <3> HIDE DEF at, U
    <3> QED
      BY Zenon, <1>5, <2>2
  <2>4. PICK k \in level..l - 1 : x \in P(k)
    BY Zenon, <2>3
  <2>5. k \in level..l /\ k # l
    BY <1>0
  <2> QED
    BY Zenon, <1>4, <2>1, <2>4, <2>5
<1>10. Climbed(bits, index, level, l + 1) = (bits \ U(l + 1)) \cup {Bit(half(l), l + 1)}
  <2>1. at(l + 1) = half(l)
    BY Zenon, <1>1, <1>2
  <2>2. Climbed(bits, index, level, l + 1) = (bits \ U(l + 1)) \cup {Bit(at(l + 1), l + 1) : k \in level + 1..l + 1}
    BY Zenon DEF Climbed, P
  <2>3. l + 1 \in level + 1..l + 1
    BY <1>0
  <2> HIDE DEF U, at, half
  <2> QED
    BY Zenon, <2>1, <2>2, <2>3
<1>11. U(l + 1) = U(l) \cup P(l)
  <2>1. level..(l + 1) - 1 = (level..l - 1) \cup {l}
    BY <1>0
  <2>2. U(l + 1) = UNION {P(k) : k \in (level..l - 1) \cup {l}}
    BY Zenon, <2>1
  <2> QED
    BY Zenon, <2>2
<1> HIDE DEF U
<1>12. old \ P(l) = bits \ U(l + 1)
  <2> HIDE DEF at
  <2>1. \A x \in {Bit(at(l), l) : k \in level + 1..l} : x \in P(l)
    BY Zenon, <1>3
  <2> DEFINE W == {Bit(at(l), l) : k \in level + 1..l}
  <2> HIDE DEF W
  <2>2. old = (bits \ U(l)) \cup W /\ W \subseteq P(l)
    BY Zenon, <1>5, <2>1 DEF W
  <2> QED
    BY Zenon, <1>11, <2>2
<1> QED
  BY Zenon, <1>1, <1>2, <1>3, <1>9, <1>10, <1>12 DEF old, P

(* The whole climb. *)
LEMMA Climbs ==
  ASSUME NEW bits, Sound(bits), NEW index, NEW level \in Levels, Valid(index, level),
         Bit(index, level) \in bits, NEW l \in level..Top,
         \A k \in level..l - 1 : Merges(bits, index, level, k)
  PROVE  LET new == Climbed(bits, index, level, l)
             own == Bit(At(index, level, l), l)
         IN  /\ Sound(new) /\ Pages(new) = Pages(bits) /\ own \in new
             /\ new \ {own} \subseteq bits \ {Bit(index, level)}
<1> DEFINE new(k) == Climbed(bits, index, level, k)
           at(k)  == At(index, level, k)
           own(k) == Bit(at(k), k)
           So(k) == /\ Sound(new(k)) /\ Pages(new(k)) = Pages(bits) /\ own(k) \in new(k)
                    /\ new(k) \ {own(k)} \subseteq bits \ {Bit(index, level)}
           T == {d \in Nat : level + d <= l => So(level + d)}
<1>0. Top \in Nat /\ level \in Nat /\ l \in Nat /\ l <= Top /\ level <= l /\ level <= Top
  BY LayoutAssumption DEF Levels, Top
<1>1. So(level)
  <2>1. at(level) = index
    BY <1>0, AtFacts
  <2>2. new(level) = bits
    <3>1. level..level - 1 = {} /\ level + 1..level = {}
      BY <1>0
    <3>2. new(level) = (bits \ UNION {Pair(At(index, level, k) \div 2, k) : k \in {}})
                         \cup {Bit(At(index, level, level), level) : k \in {}}
      BY Zenon, <3>1 DEF Climbed
    <3> QED
      BY Zenon, <3>2
  <2> HIDE DEF new, at
  <2> QED
    BY Zenon, <2>1, <2>2
<1>2. ASSUME NEW k \in level..l - 1, So(k) PROVE So(k + 1)
  <2> DEFINE h == at(k) \div 2
  <2>0. k \in level..Top - 1 /\ k \in 0..Top - 1
    BY <1>0
  <2>1. /\ Valid(h, k + 1) /\ own(k) \in Pair(h, k) /\ Pair(h, k) \subseteq new(k)
        /\ at(k + 1) = h /\ new(k + 1) = (new(k) \ Pair(h, k)) \cup {Bit(h, k + 1)}
    <3>1. Merges(bits, index, level, k) /\ own(k) \in new(k)
      BY Zenon, <1>2
    <3> QED
      BY <2>0, <3>1, ClimbOnce
  <2> HIDE DEF h, new, at
  <2>2. Sound(new(k + 1)) /\ Pages(new(k + 1)) = Pages(new(k))
    <3>1. Pair(h, k) = {Bit(2 * h, k), Bit(2 * h + 1, k)}
      BY Zenon DEF Pair
    <3>2. Bit(2 * h, k) \in new(k) /\ Bit(2 * h + 1, k) \in new(k)
      BY Zenon, <2>1, <3>1
    <3>3. new(k + 1) = (new(k) \ {Bit(2 * h, k), Bit(2 * h + 1, k)}) \cup {Bit(h, k + 1)}
      BY Zenon, <2>1, <3>1
    <3>4. Sound(new(k))
      BY Zenon, <1>2
    <3> QED
      BY <2>0, <2>1, <3>2, <3>3, <3>4, MergePair
  <2>3. own(k + 1) = Bit(h, k + 1)
    BY Zenon, <2>1
  <2> HIDE DEF own
  <2> QED
    BY Zenon, <1>2, <2>1, <2>2, <2>3
<1> HIDE DEF So
<1>3. 0 \in T
  BY <1>0, <1>1
<1>4. ASSUME NEW d \in T PROVE d + 1 \in T
  <2> SUFFICES ASSUME level + (d + 1) <= l PROVE So(level + (d + 1))
    OBVIOUS
  <2>1. level + d \in level..l - 1 /\ level + d <= l /\ level + (d + 1) = (level + d) + 1
    BY <1>0
  <2>2. So(level + d)
    BY Zenon, <2>1
  <2>3. So((level + d) + 1)
    BY Zenon, <1>2, <2>1, <2>2
  <2> QED
    BY Zenon, <2>1, <2>3
<1>5. T = Nat
  <2> HIDE DEF T
  <2> QED
    BY Zenon, <1>3, <1>4, SetInduction DEF T
<1>6. So(l)
  <2>1. l - level \in Nat /\ level + (l - level) = l
    BY <1>0
  <2>2. l - level \in T
    BY Zenon, <1>5, <2>1
  <2> QED
    BY <1>0, <2>1, <2>2
<1> QED
  BY Zenon, <1>6 DEF So

(* merge_up_from keeps the pages that are free, and leaves no pair of buddies *)
(* that were not there before the chunk was freed.                            *)
LEMMA MergesUp ==
  ASSUME NEW bits, Sound(bits), NEW index, NEW level \in Levels, Valid(index, level),
         Bit(index, level) \in bits
  PROVE  LET new == merge_up_from(bits, index, level)
         IN  /\ Sound(new) /\ Pages(new) = Pages(bits)
             /\ Merged(bits \ {Bit(index, level)}) => Merged(new)
<1> DEFINE at(l)     == index \div 2^(l - level)
           pair(l)   == {relative_to_absolute(at(l) - (at(l) % 2) + d, l) : d \in {0, 1}}
           merges(l) == pair(l) \subseteq bits \cup {relative_to_absolute(at(k), k) : k \in level + 1..l}
           S         == {l \in level..Top : \A k \in level..l - 1 : merges(k)}
           top       == Max(S)
           own       == {relative_to_absolute(at(top), top) : k \in level + 1..top}
           new       == (bits \ UNION {pair(l) : l \in level..top - 1}) \cup own
<1>0. Top \in Nat /\ level \in Nat /\ level <= Top
  BY LayoutAssumption DEF Levels, Top
<1>1. merge_up_from(bits, index, level) = new
  BY Zenon DEF merge_up_from
<1>2. \A l : at(l) = At(index, level, l)
  BY Zenon DEF At, Pow
<1>3. ASSUME NEW l \in level..Top
      PROVE  /\ Valid(At(index, level, l), l)
             /\ pair(l) = Pair(At(index, level, l) \div 2, l)
             /\ At(index, level, l) \div 2 \in Nat
             /\ \/ At(index, level, l) = 2 * (At(index, level, l) \div 2)
                \/ At(index, level, l) = 2 * (At(index, level, l) \div 2) + 1
  <2> DEFINE a == At(index, level, l)
             h == a \div 2
  <2>1. Valid(a, l) /\ h \in Nat /\ (a = 2 * h \/ a = 2 * h + 1)
    <3>1. l \in Levels /\ level <= l
      BY <1>0 DEF Levels
    <3> QED
      BY <3>1, AtFacts
  <2>2. a \in Nat
    BY Zenon, <2>1, ValidType
  <2>3. at(l) = a
    BY Zenon, <1>2
  <2> HIDE DEF at, a
  <2>4. a - (a % 2) + 0 = 2 * h /\ a - (a % 2) + 1 = 2 * h + 1
    BY <2>2
  <2>5. pair(l) = {Bit(a - (a % 2) + 0, l), Bit(a - (a % 2) + 1, l)}
    BY Zenon, <2>3 DEF Bit
  <2> HIDE DEF pair, h
  <2> QED
    BY Zenon, <2>1, <2>4, <2>5 DEF Pair, a, h
<1> HIDE DEF at, pair
<1>4. ASSUME NEW l \in level..Top PROVE merges(l) <=> Merges(bits, index, level, l)
  BY Zenon, <1>2, <1>3 DEF Merges, Bit
<1> HIDE DEF merges
<1>5. top \in S /\ \A l \in S : top >= l
  <2>1. level \in S /\ S \in SUBSET (0..Top)
    BY <1>0
  <2>2. top = CHOOSE x \in S : \A y \in S : x >= y
    BY Zenon DEF Max
  <2> HIDE DEF S, top
  <2> QED
    BY Zenon, <1>0, <2>1, <2>2, Greatest
<1> HIDE DEF top
<1>6. top \in level..Top /\ top \in Nat /\ \A k \in level..top - 1 : Merges(bits, index, level, k)
  <2>1. top \in level..Top /\ \A k \in level..top - 1 : merges(k)
    BY Zenon, <1>5
  <2>2. top \in Nat /\ \A k \in level..top - 1 : k \in level..Top
    BY <1>0, <2>1
  <2> QED
    BY Zenon, <1>4, <2>1, <2>2
<1> DEFINE mine == Bit(At(index, level, top), top)
<1>7. new = Climbed(bits, index, level, top)
  <2>1. own = {mine : k \in level + 1..top}
    BY Zenon, <1>2 DEF Bit
  <2>2. \A l \in level..top - 1 : pair(l) = Pair(At(index, level, l) \div 2, l)
    <3>1. \A l \in level..top - 1 : l \in level..Top
      BY <1>0, <1>6
    <3> QED
      BY Zenon, <1>3, <3>1
  <2>3. {pair(l) : l \in level..top - 1} = {Pair(At(index, level, l) \div 2, l) : l \in level..top - 1}
    BY Zenon, <2>2
  <2> QED
    BY Zenon, <2>1, <2>3 DEF Climbed
<1> HIDE DEF new, S
<1>8. /\ Sound(new) /\ Pages(new) = Pages(bits) /\ mine \in new
      /\ new \ {mine} \subseteq bits \ {Bit(index, level)}
  BY Zenon, <1>6, <1>7, Climbs
<1>9. top < Top => ~Merges(bits, index, level, top)
  <2> SUFFICES ASSUME top < Top, Merges(bits, index, level, top) PROVE FALSE
    BY Zenon
  <2>1. top + 1 \in level..Top /\ (top + 1) - 1 = top /\ ~(top >= top + 1)
    BY <1>0, <1>6
  <2>2. \A k \in level..(top + 1) - 1 : merges(k)
    <3>1. \A k \in level..(top + 1) - 1 : k \in level..Top /\ (k \in level..top - 1 \/ k = top)
      BY <1>0, <1>6
    <3> QED
      BY Zenon, <1>4, <1>6, <3>1
  <2>3. top + 1 \in S
    BY Zenon, <2>1, <2>2 DEF S
  <2> QED
    BY Zenon, <1>5, <2>1, <2>3
<1>10. ASSUME Merged(bits \ {Bit(index, level)}) PROVE Merged(new)
  <2> DEFINE a == At(index, level, top)
             less == new \ {mine}
  <2>1. Merged(less)
    BY Zenon, <1>8, <1>10, SubsetMerged
  <2>2. Valid(a, top) /\ a \in Nat
    BY Zenon, <1>3, <1>6, ValidType
  <2>3. mine \in bits \cup {Bit(At(index, level, k), k) : k \in level + 1..top}
    <3>1. CASE top = level
      <4>1. a = index
        BY <3>1, AtFacts, <1>0
      <4> QED
        BY Zenon, <3>1, <4>1
    <3>2. CASE top # level
      <4>1. top \in level + 1..top
        BY <1>0, <1>6, <3>2
      <4> QED
        BY Zenon, <4>1
    <3> QED
      BY Zenon, <3>1, <3>2
  <2> HIDE DEF a
  <2>4. ASSUME top < Top, NEW h \in Nat, a = 2 * h \/ a = 2 * h + 1
        PROVE  ~(Pair(h, top) \subseteq less \cup {mine})
    <3>1. At(index, level, top) \div 2 = h
      <4>1. a \div 2 = h
        BY <2>4
      <4> QED
        BY Zenon, <4>1 DEF a
    <3>2. ~(Pair(h, top) \subseteq bits \cup {Bit(At(index, level, k), k) : k \in level + 1..top})
      BY Zenon, <1>9, <2>4, <3>1 DEF Merges
    <3>3. less \subseteq bits
      BY Zenon, <1>8
    <3> DEFINE C == {Bit(At(index, level, k), k) : k \in level + 1..top}
    <3> HIDE DEF C, mine, less
    <3>4. ~(Pair(h, top) \subseteq bits \cup C) /\ mine \in bits \cup C
      BY Zenon, <2>3, <3>2 DEF C
    <3> QED
      BY Zenon, <3>3, <3>4
  <2>5. ASSUME top < Top, NEW h \in Nat
        PROVE  /\ a = 2 * h => Bit(2 * h + 1, top) \notin less
               /\ a = 2 * h + 1 => Bit(2 * h, top) \notin less
    <3>1. mine = Bit(a, top)
      BY Zenon DEF a
    <3> HIDE DEF mine, less
    <3> QED
      BY Zenon, <2>4, <2>5, <3>1 DEF Pair
  <2>6. new = less \cup {Bit(a, top)}
    BY Zenon, <1>8 DEF a
  <2> HIDE DEF less
  <2>7. Merged(less \cup {Bit(a, top)})
    BY Zenon, <2>1, <2>2, <2>5, AddMerged
  <2> QED
    BY Zenon, <2>6, <2>7
<1> QED
  BY Zenon, <1>1, <1>8, <1>10

-----------------------------------------------------------------------------
(* new: the memory map is marked *)

(* Two bit arrays with no page in common. *)
LEMMA JoinBits ==
  ASSUME NEW A, NEW B, Sound(A), Sound(B), Pages(A) \cap Pages(B) = {}
  PROVE  Sound(A \cup B) /\ Pages(A \cup B) = Pages(A) \cup Pages(B)
<1>1. Pages(A \cup B) = Pages(A) \cup Pages(B)
  BY Zenon DEF Pages
<1>2. \A a \in A, b \in B : PagesOf(a) \cap PagesOf(b) = {}
  BY Zenon DEF Pages
<1> QED
  BY Zenon, <1>1, <1>2 DEF Sound

(* Chunks of one level. *)
LevelBits(I, l) == {Bit(i, l) : i \in I}

(* Their pages are those whose number shifted right is one of the indices.    *)
LEMMA OneLevel ==
  ASSUME NEW l \in Levels, NEW I, \A i \in I : Valid(i, l)
  PROVE  Sound(LevelBits(I, l)) /\ Pages(LevelBits(I, l)) = {p \in Int : p \div Pow(l) \in I}
<1>0. l \in 0..MapBits
  BY LayoutAssumption DEF Levels, Top
<1>1. \A i \in I : /\ Bit(i, l) \in Bits /\ PagesOf(Bit(i, l)) = Chunk(i, l) /\ i \in Int
                   /\ IndexOf(Bit(i, l)) = i
  BY BitFacts, ValidType
<1>2. \A i \in I : Chunk(i, l) \subseteq Int /\ \A p \in Int : p \in Chunk(i, l) <=> p \div Pow(l) = i
  BY Zenon, <1>0, <1>1, InChunk, Chunks
<1>3. Sound(LevelBits(I, l))
  <2>1. \A i, j \in I : i # j => Chunk(i, l) \cap Chunk(j, l) = {}
    BY Zenon, <1>0, <1>1, Chunks
  <2>2. \A b \in LevelBits(I, l) : \E i \in I : b = Bit(i, l)
    BY Zenon DEF LevelBits
  <2>3. LevelBits(I, l) \subseteq Bits
    BY Zenon, <1>1, <2>2
  <2>4. ASSUME NEW b \in LevelBits(I, l), NEW c \in LevelBits(I, l), b # c
        PROVE  PagesOf(b) \cap PagesOf(c) = {}
    <3>1. PICK i \in I : b = Bit(i, l)
      BY Zenon, <2>2
    <3>2. PICK j \in I : c = Bit(j, l)
      BY Zenon, <2>2
    <3>3. i # j
      BY Zenon, <2>4, <3>1, <3>2
    <3> QED
      BY Zenon, <1>1, <2>1, <3>1, <3>2, <3>3
  <2> QED
    BY Zenon, <2>3, <2>4 DEF Sound
<1>4. \A p : p \in Pages(LevelBits(I, l)) <=> \E i \in I : p \in Chunk(i, l)
  <2>1. \A p : p \in Pages(LevelBits(I, l)) <=> \E i \in I : p \in PagesOf(Bit(i, l))
    BY Zenon DEF Pages, LevelBits
  <2> QED
    BY Zenon, <1>1, <2>1
<1>5. \A p : p \in Pages(LevelBits(I, l)) <=> p \in Int /\ p \div Pow(l) \in I
  BY <1>2, <1>4
<1> QED
  BY Zenon, <1>3, <1>5

(* An entry of the memory map, and its chunks of level l: from the first that *)
(* begins in it to the last that ends in it.                                  *)
UsableEntry(e) == e[1] \in Nat /\ e[2] \in Nat /\ e[1] < e[2] /\ e[2] <= Pow(MapBits - 1)
Lo(e, l) == (e[1] + (Pow(l) - 1)) \div Pow(l)
Hi(e, l) == e[2] \div Pow(l)
Within(e, l, p) == Lo(e, l) <= p \div Pow(l) /\ p \div Pow(l) < Hi(e, l)

(* Rounding up and down. *)
LEMMA Rounding ==
  ASSUME NEW e, UsableEntry(e), NEW l \in Levels
  PROVE  /\ Lo(e, l) \in Nat /\ Hi(e, l) \in Nat /\ Hi(e, l) <= Size(l)
         /\ e[1] <= Lo(e, l) * Pow(l) /\ Lo(e, l) * Pow(l) < e[1] + Pow(l)
         /\ Hi(e, l) * Pow(l) <= e[2] /\ e[2] < Hi(e, l) * Pow(l) + Pow(l)
<1> DEFINE w == Pow(l)
           n == e[1] + (w - 1)
           a == n \div w
           b == e[2] \div w
<1>0. l \in 0..MapBits /\ l \in 0..BUDDY_LEVELS /\ MapBits \in Nat
  BY LayoutAssumption DEF Levels, Top
<1>1. w \in Nat /\ w > 0 /\ w \in Nat \ {0}
  BY <1>0, Powers
<1>2. e[1] \in Nat /\ e[2] \in Nat /\ e[2] <= Pow(MapBits - 1) /\ e[2] \in Int
  BY DEF UsableEntry
<1>3. Size(l) \in Nat /\ Size(l) * w = Pow(MapBits - 1)
  BY Zenon, <1>0, Sizes
<1> HIDE DEF w
<1>4. n \in Nat /\ n \in Int
  BY <1>1, <1>2
<1>5. a \in Nat /\ a * w <= n /\ n < a * w + w /\ a \in Int
  <2> HIDE DEF n
  <2> QED
    BY Zenon, <1>1, <1>4, Quotient, HalfQuotient
<1>6. b \in Nat /\ b * w <= e[2] /\ e[2] < b * w + w
  BY Zenon, <1>1, <1>2, Quotient, HalfQuotient
<1> HIDE DEF a, b
<1>7. e[1] <= a * w /\ a * w < e[1] + w
  <2> DEFINE x == a * w
  <2>1. x \in Int /\ x <= n /\ n < x + w
    BY <1>1, <1>5
  <2> HIDE DEF x
  <2>2. e[1] <= x /\ x < e[1] + w
    BY <1>1, <1>2, <2>1
  <2> QED
    BY Zenon, <2>2 DEF x
<1>8. b <= Size(l)
  <2>1. CASE Size(l) < b
    <3>1. Size(l) \in Int /\ b \in Int
      BY <1>3, <1>6
    <3>2. Size(l) * w + w <= b * w
      BY Zenon, <1>1, <2>1, <3>1, Apart
    <3> DEFINE x == b * w
               y == Size(l) * w
    <3>3. x \in Int /\ y \in Int /\ y + w <= x /\ x <= e[2] /\ e[2] <= y
      BY <1>1, <1>2, <1>3, <1>6, <3>2
    <3> HIDE DEF x, y
    <3> QED
      BY <1>1, <1>2, <3>3
  <2> QED
    BY <1>3, <1>6, <2>1
<1> QED
  BY Zenon, <1>5, <1>6, <1>7, <1>8 DEF a, b, w, Lo, Hi

(* The chunks of a level within the entry hold only pages of the entry. *)
LEMMA WithinEntry ==
  ASSUME NEW e, UsableEntry(e), NEW l \in Levels, NEW p \in Int, Within(e, l, p)
  PROVE  e[1] <= p /\ p < e[2]
<1> DEFINE w == Pow(l)
           d == p \div w
           a == Lo(e, l)
           b == Hi(e, l)
<1>0. l \in 0..MapBits
  BY LayoutAssumption DEF Levels, Top
<1>1. w \in Nat /\ w \in Nat \ {0}
  BY <1>0, Powers
<1>2. e[1] \in Nat /\ e[2] \in Nat
  BY Zenon DEF UsableEntry
<1>3. a \in Int /\ b \in Int /\ e[1] <= a * w /\ b * w <= e[2]
  BY Rounding
<1>4. a <= d /\ d < b
  BY Zenon DEF Within
<1> HIDE DEF w, a, b
<1>5. d \in Int /\ d * w <= p /\ p < d * w + w
  BY Zenon, <1>1, Quotient
<1> HIDE DEF d
<1>6. d * w + w <= b * w
  BY Zenon, <1>1, <1>3, <1>4, <1>5, Apart
<1>7. a * w <= d * w
  <2>1. CASE a < d
    <3>1. a * w + w <= d * w
      BY Zenon, <1>1, <1>3, <1>5, <2>1, Apart
    <3> DEFINE x == a * w
               y == d * w
    <3>2. x \in Int /\ y \in Int /\ x + w <= y
      BY <1>1, <1>3, <1>5, <3>1
    <3> HIDE DEF x, y
    <3>3. x <= y
      BY <1>1, <3>2
    <3> QED
      BY Zenon, <3>3 DEF x, y
  <2>2. CASE a = d
    BY <1>1, <1>5, <2>2
  <2> QED
    BY <1>3, <1>4, <1>5, <2>1, <2>2
<1> DEFINE x == a * w
           y == d * w
           z == b * w
<1>8. x \in Int /\ y \in Int /\ z \in Int /\ e[1] <= x /\ x <= y /\ y <= p /\ p < y + w /\ y + w <= z /\ z <= e[2]
  BY <1>1, <1>3, <1>5, <1>6, <1>7
<1> HIDE DEF x, y, z
<1> QED
  BY <1>1, <1>2, <1>8

(* From one level to the next, rounding starts from what was rounded.         *)
LEMMA NextRounding ==
  ASSUME NEW e, UsableEntry(e), NEW l \in 0..Top - 1, NEW p \in Nat
  PROVE  /\ Lo(e, l + 1) = (Lo(e, l) + 1) \div 2
         /\ Hi(e, l + 1) = Hi(e, l) \div 2
         /\ p \div Pow(l) \in Nat
         /\ p \div Pow(l + 1) = (p \div Pow(l)) \div 2
<1> DEFINE w == Pow(l)
           a == Lo(e, l)
           n == e[1] + (2 * w - 1)
<1>0. l \in 0..MapBits /\ l \in Levels
  BY LayoutAssumption DEF Levels, Top
<1>1. w \in Nat /\ w > 0 /\ w \in Nat \ {0} /\ Pow(l + 1) = 2 * w
  BY <1>0, Powers
<1>2. e[1] \in Nat /\ e[2] \in Nat
  BY Zenon DEF UsableEntry
<1>3. a \in Nat /\ e[1] <= a * w /\ a * w < e[1] + w
  BY Zenon, <1>0, Rounding
<1> HIDE DEF w, a
<1>4. Hi(e, l + 1) = Hi(e, l) \div 2
  BY Zenon, <1>1, <1>2, HalfQuotient DEF Hi, w
<1>5. p \div Pow(l) \in Nat /\ p \div Pow(l + 1) = (p \div Pow(l)) \div 2
  BY Zenon, <1>1, HalfQuotient DEF w
<1>6. n \in Nat /\ n \in Int
  BY <1>1, <1>2
<1>7. n \div w = a + 1
  <2>1. (a + 1) * w = a * w + w /\ a * w \in Int /\ a + 1 \in Int
    BY <1>1, <1>3
  <2>2. (a + 1) * w <= n /\ n < (a + 1) * w + w
    <3> DEFINE x == a * w
               y == (a + 1) * w
    <3>1. y = x + w /\ x \in Int /\ e[1] <= x /\ x < e[1] + w
      BY Zenon, <1>3, <2>1
    <3> HIDE DEF x, y
    <3>2. y <= n /\ n < y + w
      BY <1>1, <1>2, <3>1
    <3> QED
      BY Zenon, <3>2 DEF y
  <2> HIDE DEF n
  <2> QED
    BY Zenon, <1>1, <1>6, <2>1, <2>2, TheQuotient
<1>8. Lo(e, l + 1) = n \div (2 * w)
  BY Zenon, <1>1 DEF Lo
<1>9. n \div (2 * w) = (n \div w) \div 2
  <2> HIDE DEF n
  <2> QED
    BY Zenon, <1>1, <1>6, HalfQuotient
<1> HIDE DEF n
<1>10. Lo(e, l + 1) = (a + 1) \div 2
  BY Zenon, <1>7, <1>8, <1>9
<1> QED
  BY Zenon, <1>4, <1>5, <1>10 DEF a

(* The odd chunks at either end of a level. *)
Ends(e, l) == {i \in {Lo(e, l)} : i % 2 = 1} \cup {i - 1 : i \in {j \in {Hi(e, l)} : j % 2 = 1}}

(* The chunks of a level are the ends and the halves of those of the next.    *)
LEMMA EndsAndHalves ==
  ASSUME NEW a \in Nat, NEW b \in Nat, NEW d \in Nat, a < b
  PROVE  LET end  == (d = a /\ a % 2 = 1) \/ (d = b - 1 /\ b % 2 = 1)
             next == (a + 1) \div 2 <= d \div 2 /\ d \div 2 < b \div 2
         IN  /\ end => a <= d /\ d < b
             /\ (a <= d /\ d < b) <=> (end \/ next)
             /\ ~(end /\ next)
  OBVIOUS

(* The marks of the levels below l. *)
MarkBelow(e, l) == UNION {LevelBits(Ends(e, k), k) : k \in {j \in 0..Top - 1 : j < l /\ Lo(e, j) < Hi(e, j)}}

(* The passes of the loop over levels: what is marked is the entry but for    *)
(* the chunks that are left for the levels above.                             *)
LEMMA MarksBelow ==
  ASSUME NEW e, UsableEntry(e), NEW l \in Levels
  PROVE  /\ Sound(MarkBelow(e, l))
         /\ Pages(MarkBelow(e, l)) = {p \in e[1]..(e[2] - 1) : ~Within(e, l, p)}
<1> DEFINE Done(k) == {p \in e[1]..(e[2] - 1) : ~Within(e, k, p)}
           So(k) == Sound(MarkBelow(e, k)) /\ Pages(MarkBelow(e, k)) = Done(k)
           T == {k \in Nat : k <= Top => So(k)}
<1>0. Top \in Nat /\ e[1] \in Nat /\ e[2] \in Nat /\ e[1] < e[2] /\ l \in Nat /\ l <= Top
  BY LayoutAssumption DEF Top, UsableEntry, Levels
<1>1. So(0)
  <2>1. MarkBelow(e, 0) = {}
    <3>1. {j \in 0..Top - 1 : j < 0 /\ Lo(e, j) < Hi(e, j)} = {}
      BY <1>0
    <3> QED
      BY Zenon, <3>1 DEF MarkBelow
  <2>2. Done(0) = {}
    <3> SUFFICES ASSUME NEW p \in e[1]..(e[2] - 1) PROVE Within(e, 0, p)
      BY Zenon
    <3>1. Pow(0) = 1
      BY Zenon, Powers
    <3>2. Lo(e, 0) = e[1] /\ Hi(e, 0) = e[2]
      <4>1. Lo(e, 0) = (e[1] + (1 - 1)) \div 1 /\ Hi(e, 0) = e[2] \div 1
        BY Zenon, <3>1 DEF Lo, Hi
      <4> QED
        BY <1>0, <4>1
    <3>3. p \div Pow(0) = p /\ p \in Int
      <4>1. p \div 1 = p /\ p \in Int
        BY <1>0
      <4> QED
        BY Zenon, <3>1, <4>1
    <3> QED
      BY <1>0, <3>2, <3>3 DEF Within
  <2>3. Sound({}) /\ Pages({}) = {}
    BY Zenon DEF Sound, Pages
  <2> HIDE DEF Done
  <2> QED
    BY Zenon, <2>1, <2>2, <2>3
<1>2. ASSUME NEW k \in 0..Top - 1, So(k) PROVE So(k + 1)
  <2> DEFINE a == Lo(e, k)
             b == Hi(e, k)
             J(m) == {j \in 0..Top - 1 : j < m /\ Lo(e, j) < Hi(e, j)}
  <2>0. k \in Levels /\ k \in Nat /\ k + 1 \in Levels
    BY <1>0 DEF Levels
  <2>1. a \in Nat /\ b \in Nat /\ b <= Size(k) /\ Size(k) \in Nat
    <3>1. k \in 0..BUDDY_LEVELS
      BY <2>0, LayoutAssumption DEF Levels, Top
    <3> QED
      BY Zenon, <2>0, <3>1, Rounding, Sizes
  <2>2. ASSUME NEW p \in Nat
        PROVE  /\ p \div Pow(k) \in Nat
               /\ Within(e, k, p) <=> a <= p \div Pow(k) /\ p \div Pow(k) < b
               /\ Within(e, k + 1, p) <=> (a + 1) \div 2 <= (p \div Pow(k)) \div 2
                                          /\ (p \div Pow(k)) \div 2 < b \div 2
    <3>1. /\ Lo(e, k + 1) = (a + 1) \div 2 /\ Hi(e, k + 1) = b \div 2 /\ p \div Pow(k) \in Nat
          /\ p \div Pow(k + 1) = (p \div Pow(k)) \div 2
      BY Zenon, NextRounding
    <3> QED
      BY Zenon, <3>1 DEF Within
  <2> HIDE DEF a, b
  <2>3. CASE a < b
    <3>1. J(k + 1) = J(k) \cup {k}
      <4> DEFINE Marks(j) == Lo(e, j) < Hi(e, j)
      <4>1. Marks(k)
        BY Zenon, <2>3 DEF a, b
      <4> HIDE DEF Marks
      <4>2. \A j : /\ j \in J(k) <=> j \in 0..Top - 1 /\ j < k /\ Marks(j)
                   /\ j \in J(k + 1) <=> j \in 0..Top - 1 /\ j < k + 1 /\ Marks(j)
        BY Zenon DEF Marks
      <4> HIDE DEF J
      <4>3. \A j : j \in J(k + 1) <=> j \in J(k) \/ j = k
        BY SMTT(30), <1>0, <4>1, <4>2
      <4> QED
        BY Zenon, <4>3
    <3>2. MarkBelow(e, k + 1) = MarkBelow(e, k) \cup LevelBits(Ends(e, k), k)
      <4>1. \A m : MarkBelow(e, m) = UNION {LevelBits(Ends(e, j), j) : j \in J(m)}
        BY Zenon DEF MarkBelow
      <4> HIDE DEF J
      <4> QED
        BY <3>1, <4>1
    <3>3. \A i : i \in Ends(e, k) <=> (i = a /\ a % 2 = 1) \/ (i = b - 1 /\ b % 2 = 1)
      BY Zenon DEF Ends, a, b
    <3>4. \A i \in Ends(e, k) : Valid(i, k)
      <4>1. \A i \in Ends(e, k) : i \in 0..Size(k) - 1
        BY <2>1, <2>3, <3>3
      <4> QED
        BY Zenon, <2>0, <4>1 DEF Valid
    <3>5. /\ Sound(LevelBits(Ends(e, k), k))
          /\ Pages(LevelBits(Ends(e, k), k)) = {p \in Int : p \div Pow(k) \in Ends(e, k)}
      BY Zenon, <2>0, <3>4, OneLevel
    <3>6. ASSUME NEW p \in Nat
          PROVE  /\ p \div Pow(k) \in Ends(e, k) => Within(e, k, p)
                 /\ Within(e, k, p) <=> p \div Pow(k) \in Ends(e, k) \/ Within(e, k + 1, p)
                 /\ ~(p \div Pow(k) \in Ends(e, k) /\ Within(e, k + 1, p))
      <4> DEFINE d == p \div Pow(k)
      <4>1. /\ d \in Nat
            /\ Within(e, k, p) <=> a <= d /\ d < b
            /\ Within(e, k + 1, p) <=> (a + 1) \div 2 <= d \div 2 /\ d \div 2 < b \div 2
            /\ d \in Ends(e, k) <=> (d = a /\ a % 2 = 1) \/ (d = b - 1 /\ b % 2 = 1)
        BY Zenon, <2>2, <3>3
      <4> HIDE DEF d
      <4>2. /\ d \in Ends(e, k) => Within(e, k, p)
            /\ Within(e, k, p) <=> d \in Ends(e, k) \/ Within(e, k + 1, p)
            /\ ~(d \in Ends(e, k) /\ Within(e, k + 1, p))
        BY ZenonT(30), <2>1, <2>3, <4>1, EndsAndHalves
      <4> QED
        BY Zenon, <4>2 DEF d
    <3>7. ASSUME NEW p \in Int, p \div Pow(k) \in Ends(e, k) PROVE p \in e[1]..(e[2] - 1)
      <4> DEFINE d == p \div Pow(k)
      <4>1. Within(e, k, p)
        <5>1. a <= d /\ d < b
          <6>1. (d = a /\ a % 2 = 1) \/ (d = b - 1 /\ b % 2 = 1)
            BY Zenon, <3>3, <3>7
          <6> HIDE DEF d
          <6> QED
            BY <2>1, <2>3, <6>1
        <5> QED
          BY Zenon, <5>1 DEF Within, a, b
      <4> QED
        BY <1>0, <2>0, <4>1, WithinEntry
    <3> DEFINE New == Pages(LevelBits(Ends(e, k), k))
               Old == Pages(MarkBelow(e, k))
    <3>8. \A p : /\ p \in New <=> p \in e[1]..(e[2] - 1) /\ p \div Pow(k) \in Ends(e, k)
                 /\ p \in Old <=> p \in e[1]..(e[2] - 1) /\ ~Within(e, k, p)
      <4>1. \A p : p \in New <=> p \in Int /\ p \div Pow(k) \in Ends(e, k)
        BY Zenon, <3>5
      <4>2. \A p : p \in e[1]..(e[2] - 1) => p \in Int
        BY <1>0
      <4> QED
        BY Zenon, <1>2, <3>7, <4>1, <4>2
    <3>9. \A p \in e[1]..(e[2] - 1) : p \in Nat
      BY <1>0
    <3> HIDE DEF New, Old
    <3>10. New \cap Old = {}
      BY Zenon, <3>6, <3>8, <3>9
    <3>11. Old \cup New = Done(k + 1)
      BY Zenon, <3>6, <3>8, <3>9
    <3>12. Sound(MarkBelow(e, k + 1)) /\ Pages(MarkBelow(e, k + 1)) = Old \cup New
      BY SMTT(30), <1>2, <3>2, <3>5, <3>10, JoinBits DEF Old, New
    <3> QED
      BY Zenon, <3>11, <3>12
  <2>4. CASE ~(a < b)
    <3>1. MarkBelow(e, k + 1) = MarkBelow(e, k)
      <4> DEFINE Marks(j) == Lo(e, j) < Hi(e, j)
      <4>1. ~Marks(k)
        BY Zenon, <2>4 DEF a, b
      <4> HIDE DEF Marks
      <4>2. \A j : /\ j \in J(k) <=> j \in 0..Top - 1 /\ j < k /\ Marks(j)
                   /\ j \in J(k + 1) <=> j \in 0..Top - 1 /\ j < k + 1 /\ Marks(j)
        BY Zenon DEF Marks
      <4>3. \A m : MarkBelow(e, m) = UNION {LevelBits(Ends(e, j), j) : j \in J(m)}
        BY Zenon DEF MarkBelow
      <4> HIDE DEF J
      <4>4. \A j : j \in J(k + 1) <=> j \in J(k)
        BY <1>0, <4>1, <4>2
      <4> QED
        BY Zenon, <4>3, <4>4
    <3>2. Done(k + 1) = Done(k)
      <4>1. \A p \in Nat : ~Within(e, k, p) /\ ~Within(e, k + 1, p)
        <5> SUFFICES ASSUME NEW p \in Nat PROVE ~Within(e, k, p) /\ ~Within(e, k + 1, p)
          BY Zenon
        <5> DEFINE d == p \div Pow(k)
        <5>1. /\ d \in Nat
              /\ Within(e, k, p) <=> a <= d /\ d < b
              /\ Within(e, k + 1, p) <=> (a + 1) \div 2 <= d \div 2 /\ d \div 2 < b \div 2
          BY Zenon, <2>2
        <5> HIDE DEF d
        <5> QED
          BY <2>1, <2>4, <5>1
      <4>2. \A p \in e[1]..(e[2] - 1) : p \in Nat
        BY <1>0
      <4> QED
        BY Zenon, <4>1, <4>2
    <3> HIDE DEF Done
    <3> QED
      BY Zenon, <1>2, <3>1, <3>2
  <2> QED
    BY Zenon, <2>3, <2>4
<1> HIDE DEF So
<1>3. 0 \in T
  BY Zenon, <1>1
<1>4. ASSUME NEW k \in T PROVE k + 1 \in T
  BY <1>0, <1>2
<1>5. T = Nat
  <2> HIDE DEF T
  <2> QED
    BY Zenon, <1>3, <1>4, SetInduction DEF T
<1>6. So(l)
  BY Zenon, <1>0, <1>5
<1> QED
  BY Zenon, <1>6 DEF So

(* MarkEntry frees exactly the pages of the entry.  A left half that it marks *)
(* below the top level is the last chunk of its level: its buddy reaches      *)
(* beyond the entry.                                                          *)
LEMMA Marks ==
  ASSUME NEW e, UsableEntry(e)
  PROVE  /\ Sound(MarkEntry(e)) /\ Pages(MarkEntry(e)) = e[1]..(e[2] - 1)
         /\ \A l \in 0..Top - 1, h \in Nat :
              Valid(2 * h, l) /\ Bit(2 * h, l) \in MarkEntry(e) => 2 * h + 1 = Hi(e, l)
<1> DEFINE I == Lo(e, Top)..(Hi(e, Top) - 1)
           J == {j \in 0..Top - 1 : Lo(e, j) < Hi(e, j)}
           M == MarkBelow(e, Top)
<1>0. Top \in Nat /\ Top \in Levels /\ Top \in 0..BUDDY_LEVELS /\ e[1] \in Nat /\ e[2] \in Nat
  BY LayoutAssumption DEF Top, Levels, UsableEntry
<1>1. M = UNION {LevelBits(Ends(e, k), k) : k \in J}
  <2>1. \A j \in 0..Top - 1 : j < Top
    BY <1>0
  <2>2. {j \in 0..Top - 1 : j < Top /\ Lo(e, j) < Hi(e, j)} = J
    BY Zenon, <2>1
  <2> HIDE DEF J
  <2> QED
    BY Zenon, <2>2 DEF MarkBelow
<1>2. MarkEntry(e) = M \cup LevelBits(I, Top)
  <2>1. MarkEntry(e) = (UNION {LevelBits(Ends(e, k), k) : k \in J}) \cup LevelBits(I, Top)
    BY Zenon DEF MarkEntry, LevelBits, Ends, Lo, Hi, Pow, Bit
  <2> HIDE DEF M, I, J
  <2> QED
    BY Zenon, <1>1, <2>1
<1>3. Lo(e, Top) \in Nat /\ Hi(e, Top) \in Nat /\ Hi(e, Top) <= Size(Top) /\ Size(Top) \in Nat
  BY Zenon, <1>0, Rounding, Sizes
<1>4. \A i \in I : Valid(i, Top)
  BY <1>0, <1>3 DEF Valid
<1>5. Sound(M) /\ Pages(M) = {p \in e[1]..(e[2] - 1) : ~Within(e, Top, p)}
  BY Zenon, <1>0, MarksBelow
<1> HIDE DEF M
<1>6. Sound(LevelBits(I, Top)) /\ Pages(LevelBits(I, Top)) = {p \in Int : p \div Pow(Top) \in I}
  <2> HIDE DEF I
  <2> QED
    BY Zenon, <1>0, <1>4, OneLevel
<1>7. \A p : p \in Pages(LevelBits(I, Top)) <=> p \in e[1]..(e[2] - 1) /\ Within(e, Top, p)
  <2>1. \A p \in Int : p \div Pow(Top) \in I <=> Within(e, Top, p)
    <3> SUFFICES ASSUME NEW p \in Int PROVE p \div Pow(Top) \in I <=> Within(e, Top, p)
      BY Zenon
    <3>1. p \div Pow(Top) \in Int
      <4>1. Pow(Top) \in Nat \ {0}
        BY <1>0, Powers, LayoutAssumption DEF Top
      <4> QED
        BY Zenon, <4>1, Quotient
    <3> DEFINE d == p \div Pow(Top)
    <3> HIDE DEF d
    <3>2. d \in I <=> Lo(e, Top) <= d /\ d < Hi(e, Top)
      BY <1>3, <3>1 DEF d
    <3> QED
      BY Zenon, <3>2 DEF Within, d
  <2>2. \A p \in Int : Within(e, Top, p) => e[1] <= p /\ p < e[2]
    BY Zenon, <1>0, WithinEntry
  <2>3. \A p : p \in e[1]..(e[2] - 1) <=> p \in Int /\ e[1] <= p /\ p < e[2]
    BY <1>0
  <2> HIDE DEF I
  <2> QED
    BY Zenon, <1>6, <2>1, <2>2, <2>3
<1>8. Pages(M) \cap Pages(LevelBits(I, Top)) = {}
      /\ Pages(M) \cup Pages(LevelBits(I, Top)) = e[1]..(e[2] - 1)
  <2> HIDE DEF I
  <2> QED
    BY Zenon, <1>5, <1>7
<1>9. Sound(MarkEntry(e)) /\ Pages(MarkEntry(e)) = e[1]..(e[2] - 1)
  <2> DEFINE N == LevelBits(I, Top)
  <2>1. Sound(M) /\ Sound(N) /\ Pages(M) \cap Pages(N) = {}
    BY Zenon, <1>5, <1>6, <1>8
  <2>2. MarkEntry(e) = M \cup N /\ Pages(M) \cup Pages(N) = e[1]..(e[2] - 1)
    BY Zenon, <1>2, <1>8
  <2> HIDE DEF N
  <2>3. Sound(M \cup N) /\ Pages(M \cup N) = Pages(M) \cup Pages(N)
    BY Zenon, <2>1, JoinBits
  <2> QED
    BY Zenon, <2>2, <2>3
<1>10. ASSUME NEW l \in 0..Top - 1, NEW h \in Nat, Valid(2 * h, l), Bit(2 * h, l) \in MarkEntry(e)
       PROVE  2 * h + 1 = Hi(e, l)
  <2>1. LevelOf(Bit(2 * h, l)) = l /\ IndexOf(Bit(2 * h, l)) = 2 * h /\ l # Top
    BY <1>0, <1>10, BitFacts
  <2>2. Bit(2 * h, l) \notin LevelBits(I, Top)
    <3> SUFFICES ASSUME NEW i \in I, Bit(2 * h, l) = Bit(i, Top) PROVE FALSE
      BY Zenon DEF LevelBits
    <3>1. LevelOf(Bit(i, Top)) = Top
      BY Zenon, <1>4, BitFacts
    <3> QED
      BY Zenon, <2>1, <3>1
  <2>3. PICK k \in J : Bit(2 * h, l) \in LevelBits(Ends(e, k), k)
    BY Zenon, <1>1, <1>2, <1>10, <2>2
  <2>4. PICK i \in Ends(e, k) : Bit(2 * h, l) = Bit(i, k)
    BY Zenon, <2>3 DEF LevelBits
  <2>5. k \in Levels /\ Lo(e, k) < Hi(e, k) /\ k \in 0..BUDDY_LEVELS
    BY <1>0, <2>3, LayoutAssumption DEF Levels, Top
  <2>6. Lo(e, k) \in Nat /\ Hi(e, k) \in Nat /\ Hi(e, k) <= Size(k) /\ Size(k) \in Nat
    BY Zenon, <2>5, Rounding, Sizes
  <2>7. (i = Lo(e, k) /\ Lo(e, k) % 2 = 1) \/ (i = Hi(e, k) - 1 /\ Hi(e, k) % 2 = 1)
    BY Zenon DEF Ends
  <2>8. Valid(i, k)
    BY SMTT(30), <2>5, <2>6, <2>7 DEF Valid
  <2>9. k = l /\ i = 2 * h
    BY Zenon, <2>1, <2>4, <2>8, BitFacts
  <2> QED
    BY <2>6, <2>7, <2>9
<1> QED
  BY Zenon, <1>9, <1>10

(* The memory map lies in the half of MAX_PHYS_MAP that level 0 has bits for. *)
WithinHalf == \A r \in Memmap : r[2] <= 2^(MapBits - 1)

(* What new leaves: every usable page is free once, and buddies are merged.   *)
LEMMA Starts ==
  ASSUME WithinHalf
  PROVE  LET bits == UNION {MarkEntry(e) : e \in Memmap}
         IN  Sound(bits) /\ Pages(bits) = Usable /\ Merged(bits)
<1> DEFINE bits == UNION {MarkEntry(e) : e \in Memmap}
<1>1. \A e \in Memmap : UsableEntry(e)
  BY Zenon, LayoutAssumption DEF WithinHalf, UsableEntry, Pow
<1>2. \A e \in Memmap : Sound(MarkEntry(e)) /\ Pages(MarkEntry(e)) = e[1]..(e[2] - 1)
  BY Zenon, <1>1, Marks
<1>3. Pages(bits) = Usable
  <2>1. \A p : p \in Pages(bits) <=> \E e \in Memmap : p \in Pages(MarkEntry(e))
    BY DEF Pages
  <2>2. \A p : p \in Pages(bits) <=> \E e \in Memmap : p \in e[1]..(e[2] - 1)
    BY Zenon, <1>2, <2>1
  <2> HIDE DEF bits
  <2> QED
    BY Zenon, <2>2 DEF Usable
<1>4. Sound(bits)
  <2>1. bits \subseteq Bits
    BY Zenon, <1>2 DEF Sound
  <2>2. ASSUME NEW b \in bits, NEW c \in bits, b # c PROVE PagesOf(b) \cap PagesOf(c) = {}
    <3>1. PICK e \in Memmap : b \in MarkEntry(e)
      BY Zenon
    <3>2. PICK f \in Memmap : c \in MarkEntry(f)
      BY Zenon
    <3>3. CASE e = f
      BY Zenon, <1>2, <2>2, <3>1, <3>2, <3>3 DEF Sound
    <3>4. CASE e # f
      <4>1. PagesOf(b) \subseteq e[1]..(e[2] - 1) /\ PagesOf(c) \subseteq f[1]..(f[2] - 1)
        <5>1. PagesOf(b) \subseteq Pages(MarkEntry(e)) /\ PagesOf(c) \subseteq Pages(MarkEntry(f))
          BY Zenon, <3>1, <3>2 DEF Pages
        <5> QED
          BY Zenon, <1>2, <5>1
      <4>2. (e[1]..(e[2] - 1)) \cap (f[1]..(f[2] - 1)) = {}
        BY <3>4, LayoutAssumption
      <4> QED
        BY Zenon, <4>1, <4>2
    <3> QED
      BY Zenon, <3>3, <3>4
  <2> HIDE DEF bits
  <2> QED
    BY Zenon, <2>1, <2>2 DEF Sound
<1>5. Merged(bits)
  <2> SUFFICES ASSUME NEW l \in 0..Top - 1, NEW h \in Nat, Valid(h, l + 1),
                      Bit(2 * h, l) \in bits, Bit(2 * h + 1, l) \in bits
               PROVE  FALSE
    BY Zenon DEF Merged
  <2>0. l \in Levels /\ l \in 0..MapBits
    BY LayoutAssumption DEF Levels, Top
  <2>1. Valid(2 * h, l) /\ Valid(2 * h + 1, l)
    BY Zenon, ValidHalves
  <2>2. PICK e \in Memmap : Bit(2 * h, l) \in MarkEntry(e)
    BY Zenon
  <2>3. 2 * h + 1 = Hi(e, l)
    BY Zenon, <1>1, <2>1, <2>2, Marks
  <2>4. e[2] \in Int /\ e[2] \in Nat
    BY <1>1 DEF UsableEntry
  <2>5. e[2] \in Chunk(2 * h + 1, l)
    <3>1. e[2] \div Pow(l) = 2 * h + 1 /\ 2 * h + 1 \in Int
      BY <2>3 DEF Hi
    <3> QED
      BY Zenon, <2>0, <2>4, <3>1, InChunk
  <2>6. e[2] \in Pages(bits)
    <3>1. PagesOf(Bit(2 * h + 1, l)) = Chunk(2 * h + 1, l)
      BY Zenon, <2>1, BitFacts
    <3> HIDE DEF bits
    <3> QED
      BY Zenon, <2>5, <3>1 DEF Pages
  <2>7. e[2] \in Usable
    BY Zenon, <1>3, <2>6
  <2>8. PICK f \in Memmap : e[2] \in f[1]..(f[2] - 1)
    BY Zenon, <2>7 DEF Usable
  <2> QED
    BY <2>4, <2>8, LayoutAssumption
<1> QED
  BY Zenon, <1>3, <1>4, <1>5

-----------------------------------------------------------------------------
(* The allocator *)

(* The inductive invariant: no page is free twice, a page is free or handed   *)
(* out, and buddies are merged.                                               *)
BuddyInv ==
  /\ Sound(buddy_bytes) /\ Merged(buddy_bytes)
  /\ Pages(buddy_bytes) \cap used = {} /\ Pages(buddy_bytes) \cup used = Usable

(* A page of the memory map is a chunk of level 0 with the bit of its number. *)
LEMMA UsablePages ==
  ASSUME WithinHalf, NEW p \in Usable
  PROVE  p \in Nat /\ p < Pow(MapBits - 1) /\ Valid(p, 0) /\ Bit(p, 0) = p /\ Chunk(p, 0) = {p}
<1>0. MapBits \in Nat /\ 0 \in Levels /\ 0 \in 0..BUDDY_LEVELS /\ MapBits - 1 \in 0..MapBits
  BY LayoutAssumption DEF Levels, Top
<1>1. PICK r \in Memmap : p \in r[1]..(r[2] - 1)
  BY Zenon DEF Usable
<1>2. r[1] \in Nat /\ r[2] \in Nat /\ r[2] <= Pow(MapBits - 1)
  BY Zenon, LayoutAssumption DEF WithinHalf, Pow
<1>3. Pow(MapBits - 1) \in Nat /\ Pow(0) = 1
  BY Zenon, <1>0, Powers
<1>4. p \in Nat /\ p < Pow(MapBits - 1)
  BY <1>1, <1>2, <1>3
<1>5. Size(0) = Pow(MapBits - 1)
  BY <1>0 DEF Size
<1>6. Valid(p, 0)
  BY <1>0, <1>3, <1>4, <1>5 DEF Valid
<1>7. Bit(p, 0) = p
  BY <1>4, Offsets DEF Bit, relative_to_absolute, Off
<1>8. Chunk(p, 0) = {p}
  <2>1. Chunk(p, 0) = (p * 1)..((p + 1) * 1 - 1)
    BY Zenon, <1>3 DEF Chunk, Pow
  <2> QED
    BY <1>4, <2>1
<1> QED
  BY Zenon, <1>4, <1>6, <1>7, <1>8

(* A run of pages that an operation takes or gives back. *)
Takes(run) ==
  run \subseteq Pages(buddy_bytes) /\ Pages(buddy_bytes)' = Pages(buddy_bytes) \ run
  /\ used' = used \cup run
Returns(run) ==
  run \subseteq used /\ Pages(buddy_bytes)' = Pages(buddy_bytes) \cup run /\ used' = used \ run

(* allocate_frame takes a chunk of the level. *)
LEMMA AllocateStep ==
  ASSUME BuddyInv, NEW level \in Levels, allocate_frame(level)
  PROVE  /\ Sound(buddy_bytes)' /\ Merged(buddy_bytes)'
         /\ \E i \in Nat : Takes(Chunk(i, level))
<1> DEFINE got == allocate_chunk_from_level(buddy_bytes, level)
<1>1. got.some /\ buddy_bytes' = got.bits /\ used' = used \cup Chunk(got.index, level)
  BY Zenon DEF allocate_frame
<1>2. /\ Valid(got.index, level) /\ Chunk(got.index, level) \subseteq Pages(buddy_bytes)
      /\ Sound(got.bits) /\ Pages(got.bits) = Pages(buddy_bytes) \ Chunk(got.index, level)
      /\ Merged(got.bits)
  BY Zenon, <1>1, Allocates DEF BuddyInv
<1>3. got.index \in Nat
  BY Zenon, <1>2, ValidType
<1> HIDE DEF got
<1>4. Takes(Chunk(got.index, level))
  BY Zenon, <1>1, <1>2 DEF Takes
<1> QED
  BY Zenon, <1>1, <1>2, <1>3, <1>4

(* pick_off_contiguous takes a run of n pages. *)
LEMMA PickOffStep ==
  ASSUME BuddyInv, NEW n \in Nat \ {0}, n <= MaxRequest, NEW min_frames, pick_off(n, min_frames)
  PROVE  /\ Sound(buddy_bytes)' /\ Merged(buddy_bytes)'
         /\ \E p \in Int : Takes(p..(p + n - 1))
<1> DEFINE got == pick_off_contiguous(buddy_bytes, n, min_frames)
           run == got.page..(got.page + n - 1)
<1>0. n <= Pow(BUDDY_LEVELS)
  <2>1. MaxRequest \in Nat /\ MaxRequest <= Pow(BUDDY_LEVELS) /\ BUDDY_LEVELS \in 0..MapBits
    BY LayoutAssumption DEF Pow
  <2>2. Pow(BUDDY_LEVELS) \in Nat
    BY Zenon, <2>1, Powers
  <2> QED
    BY <2>1, <2>2
<1>1. got.some /\ buddy_bytes' = got.bits /\ used' = used \cup run
  BY Zenon DEF pick_off
<1>2. /\ got.page \in Int /\ run \subseteq Pages(buddy_bytes)
      /\ Sound(got.bits) /\ Pages(got.bits) = Pages(buddy_bytes) \ run
      /\ Merged(got.bits)
  BY Zenon, <1>0, <1>1, PicksOff DEF BuddyInv
<1>3. Takes(run)
  <2> HIDE DEF run, got
  <2> QED
    BY Zenon, <1>1, <1>2 DEF Takes
<1> HIDE DEF got
<1> QED
  BY Zenon, <1>1, <1>2, <1>3

(* deallocate_frame gives one page back. *)
LEMMA DeallocateStep ==
  ASSUME WithinHalf, BuddyInv, NEW page, deallocate_frame(page)
  PROVE  /\ Sound(buddy_bytes)' /\ Merged(buddy_bytes)' /\ page \in Usable
         /\ Returns({page})
<1> DEFINE set == buddy_bytes \cup {page}
           new == merge_up_from(set, page, 0)
<1>1. page \in used /\ buddy_bytes' = new /\ used' = used \ {page}
  BY Zenon DEF deallocate_frame, deallocate_4k
<1>2. page \in Usable /\ 0 \in Levels
  BY <1>1, LayoutAssumption DEF BuddyInv, Levels, Top
<1>3. Valid(page, 0) /\ Bit(page, 0) = page /\ Chunk(page, 0) = {page}
  BY Zenon, <1>2, UsablePages
<1>4. page \in Bits /\ PagesOf(page) = {page}
  BY Zenon, <1>3, BitFacts
<1>5. page \notin Pages(buddy_bytes)
  BY Zenon, <1>1 DEF BuddyInv
<1>6. page \notin buddy_bytes /\ Sound(set) /\ Pages(set) = Pages(buddy_bytes) \cup {page}
  BY <1>4, <1>5, AddBit DEF BuddyInv
<1>7. Sound(new) /\ Pages(new) = Pages(set) /\ (Merged(set \ {page}) => Merged(new))
  <2>1. Bit(page, 0) \in set
    BY Zenon, <1>3
  <2> HIDE DEF set
  <2> QED
    BY Zenon, <1>2, <1>3, <1>6, <2>1, MergesUp
<1>8. set \ {page} = buddy_bytes
  BY Zenon, <1>6
<1> HIDE DEF new, set
<1>9. Returns({page})
  BY Zenon, <1>1, <1>6, <1>7 DEF Returns
<1> QED
  BY Zenon, <1>1, <1>2, <1>7, <1>8, <1>9 DEF BuddyInv

(* Every operation takes a run of free pages or gives one back. *)
LEMMA NextStep ==
  ASSUME WithinHalf, BuddyInv, Next
  PROVE  /\ Sound(buddy_bytes)' /\ Merged(buddy_bytes)'
         /\ \E first, last \in Usable :
              first..last # {} /\ (Takes(first..last) \/ Returns(first..last))
<1> DEFINE Good == \E first, last \in Usable :
                     first..last # {} /\ (Takes(first..last) \/ Returns(first..last))
<1>0. Pages(buddy_bytes) \subseteq Usable /\ used \subseteq Usable
  BY Zenon DEF BuddyInv
<1>1. ASSUME NEW level \in Levels, allocate_frame(level)
      PROVE  Sound(buddy_bytes)' /\ Merged(buddy_bytes)' /\ Good
  <2>1. PICK i \in Nat : Sound(buddy_bytes)' /\ Merged(buddy_bytes)' /\ Takes(Chunk(i, level))
    BY Zenon, <1>1, AllocateStep
  <2> DEFINE first == i * Pow(level)
             last == (i + 1) * Pow(level) - 1
  <2>2. Chunk(i, level) = first..last
    BY Zenon DEF Chunk, Pow
  <2>3. first \in Int /\ last \in Int /\ first <= last
    <3>1. level \in 0..MapBits
      BY LayoutAssumption DEF Levels, Top
    <3>2. Pow(level) \in Nat /\ Pow(level) > 0
      BY Zenon, <3>1, Powers
    <3>a. i \in Int
      OBVIOUS
    <3>3. (i + 1) * Pow(level) = first + Pow(level) /\ first \in Int
      BY Zenon, <3>2, <3>a, OneMore
    <3> HIDE DEF first
    <3> QED
      BY <3>2, <3>3
  <2> HIDE DEF first, last
  <2>4. first \in first..last /\ last \in first..last
    BY <2>3
  <2>5. first..last \subseteq Usable /\ Takes(first..last)
    BY Zenon, <1>0, <2>1, <2>2 DEF Takes
  <2> QED
    BY Zenon, <2>1, <2>4, <2>5
<1>2. ASSUME NEW n \in Nat \ {0}, n <= MaxRequest, NEW min_frames, pick_off(n, min_frames)
      PROVE  Sound(buddy_bytes)' /\ Merged(buddy_bytes)' /\ Good
  <2>1. PICK p \in Int : Sound(buddy_bytes)' /\ Merged(buddy_bytes)' /\ Takes(p..(p + n - 1))
    BY Zenon, <1>2, PickOffStep
  <2> DEFINE last == p + n - 1
  <2>2. p \in p..last /\ last \in p..last
    OBVIOUS
  <2> HIDE DEF last
  <2>3. p..last \subseteq Usable /\ Takes(p..last)
    BY Zenon, <1>0, <2>1 DEF Takes, last
  <2> QED
    BY Zenon, <2>1, <2>2, <2>3
<1>3. ASSUME NEW page, deallocate_frame(page)
      PROVE  Sound(buddy_bytes)' /\ Merged(buddy_bytes)' /\ Good
  <2>1. Sound(buddy_bytes)' /\ Merged(buddy_bytes)' /\ page \in Usable /\ Returns({page})
    BY Zenon, <1>3, DeallocateStep
  <2>2. page \in Nat
    BY Zenon, <2>1, UsablePages
  <2>3. page..page = {page}
    BY <2>2
  <2> QED
    BY Zenon, <2>1, <2>3
<1>4. 0 \in Levels /\ LEVEL_2MIB \in Levels /\ LEVEL_2MIB \in 0..MapBits /\ MaxRequest \in Nat
  BY LayoutAssumption DEF Levels, Top
<1>5. \A k \in 1..MaxRequest : k * 2^LEVEL_2MIB \in Nat \ {0}
  <2>1. Pow(LEVEL_2MIB) \in Nat /\ Pow(LEVEL_2MIB) > 0
    BY Zenon, <1>4, Powers
  <2>2. \A k \in 1..MaxRequest : k * Pow(LEVEL_2MIB) \in Nat \ {0}
    BY <1>4, <2>1
  <2> QED
    BY Zenon, <2>2 DEF Pow
<1> HIDE DEF Good
<1>6. CASE allocate_frame(0) \/ allocate_frame(LEVEL_2MIB)
  BY Zenon, <1>1, <1>4, <1>6 DEF Good
<1>7. CASE \E n \in 1..MaxRequest : pick_off(n, 1)
  <2>1. PICK n \in 1..MaxRequest : pick_off(n, 1)
    BY Zenon, <1>7
  <2>2. n \in Nat \ {0} /\ n <= MaxRequest
    BY <1>4
  <2> QED
    BY Zenon, <1>2, <2>1, <2>2 DEF Good
<1>8. CASE \E n \in {k * 2^LEVEL_2MIB : k \in 1..MaxRequest} :
             n <= MaxRequest /\ pick_off(n, 2^LEVEL_2MIB)
  <2>1. PICK k \in 1..MaxRequest :
          k * 2^LEVEL_2MIB <= MaxRequest /\ pick_off(k * 2^LEVEL_2MIB, 2^LEVEL_2MIB)
    BY Zenon, <1>8
  <2>2. k * 2^LEVEL_2MIB \in Nat \ {0}
    BY Zenon, <1>5
  <2> DEFINE n == k * 2^LEVEL_2MIB
             m == 2^LEVEL_2MIB
  <2>3. n \in Nat \ {0} /\ n <= MaxRequest /\ pick_off(n, m)
    BY Zenon, <2>1, <2>2
  <2> HIDE DEF n, m
  <2> QED
    BY Zenon, <1>2, <2>3 DEF Good
<1>9. CASE \E page \in Usable : deallocate_frame(page)
  BY Zenon, <1>3, <1>9 DEF Good
<1> QED
  BY Zenon, <1>6, <1>7, <1>8, <1>9 DEF Next

(* The invariant holds at first and every operation keeps it. *)
THEOREM BuddyInvariance == WithinHalf => (Spec => []BuddyInv)
<1> SUFFICES ASSUME WithinHalf PROVE Spec => []BuddyInv
  BY Zenon
<1>1. Init => BuddyInv
  <2> SUFFICES ASSUME Init PROVE BuddyInv
    BY Zenon
  <2>1. Sound(buddy_bytes) /\ Pages(buddy_bytes) = Usable /\ Merged(buddy_bytes)
    BY Zenon, Starts DEF Init
  <2>2. used = {}
    BY Zenon DEF Init
  <2> QED
    BY Zenon, <2>1, <2>2 DEF BuddyInv
<1>2. BuddyInv /\ [Next]_vars => BuddyInv'
  <2>1. ASSUME BuddyInv, Next PROVE BuddyInv'
    <3>1. /\ Sound(buddy_bytes)' /\ Merged(buddy_bytes)'
          /\ \E run : Takes(run) \/ Returns(run)
      BY Zenon, <2>1, NextStep
    <3>2. PICK run : Takes(run) \/ Returns(run)
      BY Zenon, <3>1
    <3> DEFINE old == Pages(buddy_bytes)
               new == Pages(buddy_bytes)'
    <3>3. old \cap used = {} /\ old \cup used = Usable
      BY Zenon, <2>1 DEF BuddyInv
    <3>4. \/ run \subseteq old /\ new = old \ run /\ used' = used \cup run
          \/ run \subseteq used /\ new = old \cup run /\ used' = used \ run
      BY Zenon, <3>2 DEF Takes, Returns
    <3> HIDE DEF old, new
    <3>5. new \cap used' = {} /\ new \cup used' = Usable
      BY Zenon, <3>3, <3>4
    <3> QED
      BY Zenon, <3>1, <3>5 DEF BuddyInv, new
  <2>2. ASSUME BuddyInv, UNCHANGED vars PROVE BuddyInv'
    <3>1. buddy_bytes' = buddy_bytes /\ used' = used
      BY Zenon, <2>2 DEF vars
    <3> QED
      BY Zenon, <2>2, <3>1 DEF BuddyInv
  <2> QED
    BY Zenon, <2>1, <2>2
<1> QED
  BY <1>1, <1>2, PTL DEF Spec

(* Conserved: through any sequence of splits, tails given back and merges, a  *)
(* usable page is in one free chunk or handed out, never both, never lost.    *)
THEOREM PagesConserved == WithinHalf => (Spec => []Conserved)
<1>1. BuddyInv => Conserved
  BY Zenon DEF BuddyInv, Conserved, FreePages, Pages, Sound
<1> QED
  BY <1>1, BuddyInvariance, PTL

(* Coalesced: after any sequence of operations, no two free buddies are left  *)
(* unmerged below the top level.                                              *)
THEOREM BuddiesMerge == WithinHalf => (Spec => []Coalesced)
<1>1. BuddyInv => Coalesced
  <2> SUFFICES ASSUME BuddyInv, NEW b \in buddy_bytes, LevelOf(b) < Top
               PROVE  relative_to_absolute(IndexOf(b) + 1 - 2 * (IndexOf(b) % 2), LevelOf(b)) \notin buddy_bytes
    BY Zenon DEF Coalesced
  <2> DEFINE l == LevelOf(b)
             i == IndexOf(b)
             h == i \div 2
  <2>1. b \in Bits /\ Merged(buddy_bytes)
    BY Zenon DEF BuddyInv, Sound
  <2>2. Valid(i, l) /\ Bit(i, l) = b
    BY Zenon, <2>1, Relative DEF Bit
  <2>3. i \in Nat /\ l \in Levels /\ l \in Nat /\ l \in 0..Top - 1
    <3>1. i \in Nat /\ l \in Nat /\ l \in Levels
      BY Zenon, <2>2, ValidType DEF Valid
    <3> QED
      BY <3>1, LayoutAssumption DEF Top
  <2> HIDE DEF l, i
  <2>4. h \in Nat /\ (i = 2 * h \/ i = 2 * h + 1) /\ Valid(h, l + 1)
    <3>1. l <= l /\ l < Top
      BY <2>3 DEF l
    <3> QED
      BY <2>2, <2>3, <3>1, AtFacts
  <2>5. ~(Bit(2 * h, l) \in buddy_bytes /\ Bit(2 * h + 1, l) \in buddy_bytes)
    BY Zenon, <2>1, <2>3, <2>4 DEF Merged
  <2>6. CASE i = 2 * h
    <3>1. i + 1 - 2 * (i % 2) = 2 * h + 1
      BY <2>3, <2>4, <2>6
    <3> QED
      BY Zenon, <2>2, <2>5, <2>6, <3>1 DEF Bit, l, i
  <2>7. CASE i = 2 * h + 1
    <3>1. i + 1 - 2 * (i % 2) = 2 * h
      BY <2>3, <2>4, <2>7
    <3> QED
      BY Zenon, <2>2, <2>5, <2>7, <3>1 DEF Bit, l, i
  <2> QED
    BY Zenon, <2>4, <2>6, <2>7
<1> QED
  BY <1>1, BuddyInvariance, PTL

(* With buddies merged, an aligned run of free pages lies in one free chunk.  *)
LEMMA InOneChunk ==
  ASSUME NEW bits, Sound(bits), Merged(bits), NEW l \in Levels, NEW i, Valid(i, l),
         Chunk(i, l) \subseteq Pages(bits)
  PROVE  \E b \in bits : LevelOf(b) >= l
<1> DEFINE Has(k, j) == \E b \in bits : LevelOf(b) >= k /\ Chunk(j, k) \subseteq PagesOf(b)
           So(k) == \A j : Valid(j, k) /\ Chunk(j, k) \subseteq Pages(bits) => Has(k, j)
           T == {k \in Nat : k <= Top => So(k)}
<1>0. Top \in Nat /\ l \in Nat /\ l <= Top /\ Top < MapBits /\ MapBits \in Nat /\ Top <= BUDDY_LEVELS
      /\ BUDDY_LEVELS \in Nat
  BY LayoutAssumption DEF Levels, Top
<1>1. \A b \in bits : /\ Valid(IndexOf(b), LevelOf(b)) /\ Bit(IndexOf(b), LevelOf(b)) = b
                      /\ LevelOf(b) \in Nat /\ LevelOf(b) \in 0..MapBits /\ IndexOf(b) \in Int
                      /\ PagesOf(b) = Chunk(IndexOf(b), LevelOf(b))
  <2> SUFFICES ASSUME NEW b \in bits
               PROVE  /\ Valid(IndexOf(b), LevelOf(b)) /\ Bit(IndexOf(b), LevelOf(b)) = b
                      /\ LevelOf(b) \in Nat /\ LevelOf(b) \in 0..MapBits /\ IndexOf(b) \in Int
                      /\ PagesOf(b) = Chunk(IndexOf(b), LevelOf(b))
    BY Zenon
  <2>1. Valid(IndexOf(b), LevelOf(b)) /\ Bit(IndexOf(b), LevelOf(b)) = b
    BY Zenon, Relative DEF Sound, Bit
  <2>2. LevelOf(b) \in Nat /\ LevelOf(b) \in 0..MapBits /\ IndexOf(b) \in Int
    BY <2>1, ValidType
  <2> QED
    BY Zenon, <2>1, <2>2 DEF PagesOf
<1>2. ASSUME NEW k \in Levels, NEW j, Valid(j, k), NEW b \in bits, LevelOf(b) >= k,
             NEW p \in Chunk(j, k), p \in PagesOf(b)
      PROVE  Chunk(j, k) \subseteq PagesOf(b)
  <2>1. j \in Int /\ k \in 0..MapBits /\ k \in Nat
    BY <1>2, ValidType
  <2>2. k <= LevelOf(b)
    BY Zenon, <1>1, <1>2, <2>1
  <2> QED
    BY SMTT(30), <1>1, <1>2, <2>1, <2>2, Nested
<1>3. So(0)
  <2> SUFFICES ASSUME NEW j, Valid(j, 0), Chunk(j, 0) \subseteq Pages(bits) PROVE Has(0, j)
    BY Zenon
  <2>1. j \in Int /\ 0 \in 0..MapBits /\ 0 \in Levels
    BY <1>0, ValidType DEF Levels
  <2>2. PICK p : p \in Chunk(j, 0)
    BY Zenon, <2>1, Chunks
  <2>3. PICK b \in bits : p \in PagesOf(b)
    BY Zenon, <2>2 DEF Pages
  <2>4. LevelOf(b) >= 0
    BY <1>1, <2>3
  <2>5. Chunk(j, 0) \subseteq PagesOf(b)
    BY Zenon, <1>2, <2>1, <2>2, <2>3, <2>4
  <2> QED
    BY Zenon, <2>3, <2>4, <2>5
<1>4. ASSUME NEW k \in 0..Top - 1, So(k) PROVE So(k + 1)
  <2> SUFFICES ASSUME NEW j, Valid(j, k + 1), Chunk(j, k + 1) \subseteq Pages(bits) PROVE Has(k + 1, j)
    BY Zenon
  <2>0. k \in Levels /\ k + 1 \in Levels /\ k \in 0..MapBits /\ k \in Nat
    BY <1>0 DEF Levels
  <2>1. /\ Valid(2 * j, k) /\ Valid(2 * j + 1, k) /\ j \in Nat
        /\ Chunk(j, k + 1) = Chunk(2 * j, k) \cup Chunk(2 * j + 1, k)
    BY Zenon, ValidHalves
  <2>2. Has(k, 2 * j) /\ Has(k, 2 * j + 1)
    <3> HIDE DEF Has
    <3> QED
      BY Zenon, <1>4, <2>1
  <2>3. ASSUME NEW c \in {2 * j, 2 * j + 1}, ~Has(k + 1, j) PROVE Bit(c, k) \in bits
    <3>1. PICK b \in bits : LevelOf(b) >= k /\ Chunk(c, k) \subseteq PagesOf(b)
      BY Zenon, <2>2
    <3>2. c \in Int /\ Valid(c, k) /\ Chunk(c, k) \subseteq Chunk(j, k + 1)
      BY <2>1
    <3>3. PICK p : p \in Chunk(c, k)
      BY Zenon, <2>0, <3>2, Chunks
    <3>4. p \in PagesOf(b) /\ p \in Chunk(j, k + 1)
      BY Zenon, <3>1, <3>2, <3>3
    <3>5. ~(LevelOf(b) >= k + 1)
      <4> SUFFICES ASSUME LevelOf(b) >= k + 1 PROVE FALSE
        BY Zenon
      <4>1. Chunk(j, k + 1) \subseteq PagesOf(b)
        BY Zenon, <1>2, <2>0, <3>4
      <4> QED
        BY Zenon, <2>3, <4>1
    <3>6. LevelOf(b) = k
      BY <1>1, <2>0, <3>1, <3>5
    <3>7. PagesOf(b) = Chunk(IndexOf(b), k) /\ IndexOf(b) \in Int /\ Bit(IndexOf(b), k) = b
      BY Zenon, <1>1, <3>6
    <3>8. IndexOf(b) = c
      BY SMTT(30), <2>0, <3>2, <3>3, <3>4, <3>7, Chunks
    <3> QED
      BY Zenon, <3>7, <3>8
  <2>4. ~(Bit(2 * j, k) \in bits /\ Bit(2 * j + 1, k) \in bits)
    BY Zenon, <2>1 DEF Merged
  <2> QED
    BY Zenon, <2>3, <2>4
<1> HIDE DEF So
<1>5. 0 \in T
  BY Zenon, <1>3
<1>6. ASSUME NEW k \in T PROVE k + 1 \in T
  BY <1>0, <1>4
<1>7. T = Nat
  <2> HIDE DEF T
  <2> QED
    BY Zenon, <1>5, <1>6, SetInduction DEF T
<1>8. So(l)
  BY Zenon, <1>0, <1>7
<1> QED
  BY Zenon, <1>8 DEF So

(* With buddies merged, a chunk is found for every aligned run of free pages. *)
LEMMA RunIsFound ==
  ASSUME WithinHalf, NEW bits, Sound(bits), Merged(bits), NEW level \in 0..Top,
         NEW p \in Usable, p % 2^level = 0, p..(p + 2^level - 1) \subseteq Pages(bits)
  PROVE  allocate_chunk_from_level(bits, level).some
<1> DEFINE w == Pow(level)
           i == p \div w
<1>0. level \in Levels /\ level \in 0..BUDDY_LEVELS /\ level \in 0..MapBits /\ MapBits - 1 \in 0..MapBits
  BY LayoutAssumption DEF Levels, Top
<1>1. w \in Nat /\ w > 0 /\ w \in Nat \ {0} /\ Size(level) \in Nat /\ Size(level) * w = Pow(MapBits - 1)
  BY <1>0, Powers, Sizes
<1>2. p \in Nat /\ p < Pow(MapBits - 1) /\ p \in Int
  BY UsablePages
<1>3. p % w = 0 /\ p..(p + w - 1) \subseteq Pages(bits)
  BY Zenon DEF Pow
<1> HIDE DEF w
<1>4. i \in Nat /\ i * w <= p /\ p % w = p - i * w
  BY Zenon, <1>1, <1>2, Quotient, HalfQuotient
<1> HIDE DEF i
<1> DEFINE x == i * w
<1>5. x \in Int /\ x = p
  <2>1. x \in Int /\ p - x = 0
    BY <1>1, <1>3, <1>4
  <2> HIDE DEF x
  <2> QED
    BY <1>2, <2>1
<1>6. Valid(i, level)
  <2>1. CASE Size(level) <= i
    <3> DEFINE y == Size(level) * w
    <3>1. y <= x
      <4>1. CASE Size(level) < i
        <5>1. Size(level) \in Int /\ i \in Int
          BY <1>1, <1>4
        <5>2. y + w <= x
          BY Zenon, <1>1, <4>1, <5>1, Apart
        <5>3. y \in Int
          BY <1>1
        <5> HIDE DEF x, y
        <5> QED
          BY <1>1, <1>5, <5>2, <5>3
      <4>2. CASE Size(level) = i
        BY <1>1, <1>5, <4>2
      <4> QED
        BY <1>1, <1>4, <2>1, <4>1, <4>2
    <3>2. y \in Int /\ p < y
      BY <1>1, <1>2
    <3> HIDE DEF x, y
    <3> QED
      BY <1>2, <1>5, <3>1, <3>2
  <2> QED
    BY <1>0, <1>1, <1>4, <2>1 DEF Valid
<1>7. Chunk(i, level) \subseteq Pages(bits)
  <2>1. i \in Int
    BY <1>4
  <2>2. \A q : q \in Chunk(i, level) <=> q \in Int /\ x <= q /\ q < x + w
    BY Zenon, <1>0, <2>1, InChunk DEF w
  <2> HIDE DEF x
  <2>3. \A q : q \in Chunk(i, level) => q \in p..(p + w - 1)
    BY <1>1, <1>5, <2>2
  <2> QED
    BY Zenon, <1>3, <2>3
<1>8. \E b \in bits : LevelOf(b) >= level
  BY Zenon, <1>0, <1>6, <1>7, InOneChunk
<1> QED
  BY Zenon, <1>0, <1>8, Finds DEF Sound

(* FindsFreeRun: allocate_chunk_from_level answers None only if no aligned    *)
(* run of that many pages is free.                                            *)
THEOREM FreeRunsAreFound == WithinHalf => (Spec => []FindsFreeRun)
<1> SUFFICES ASSUME WithinHalf PROVE Spec => []FindsFreeRun
  BY Zenon
<1>1. ASSUME BuddyInv PROVE FindsFreeRun
  <2> SUFFICES ASSUME NEW level \in 0..Top, NEW p \in Usable, p % 2^level = 0,
                      p..(p + 2^level - 1) \subseteq FreePages
               PROVE  allocate_chunk_from_level(buddy_bytes, level).some
    BY Zenon DEF FindsFreeRun
  <2>1. p..(p + 2^level - 1) \subseteq Pages(buddy_bytes) /\ Sound(buddy_bytes) /\ Merged(buddy_bytes)
    BY Zenon, <1>1 DEF FreePages, Pages, BuddyInv
  <2> QED
    BY Zenon, <2>1, RunIsFound
<1>2. BuddyInv => FindsFreeRun
  BY Zenon, <1>1
<1>3. Spec => []BuddyInv
  BY Zenon, BuddyInvariance
<1> QED
  BY <1>2, <1>3, PTL

(* ImplementsOwnership: new frees the usable pages, allocate_frame and        *)
(* pick_off_contiguous grant contiguous free pages, and deallocate_4k         *)
(* reclaims a page that was handed out, whatever splits and merges do to the  *)
(* bit array.                                                                 *)
THEOREM OwnershipImplemented == WithinHalf => (Spec => ImplementsOwnership)
<1> SUFFICES ASSUME WithinHalf PROVE Spec => ImplementsOwnership
  BY Zenon
<1>0. FreePages = Pages(buddy_bytes) /\ FreePages' = Pages(buddy_bytes)'
  BY Zenon DEF FreePages, Pages
<1>1. Init => Owner!Init
  BY Zenon, <1>0, Starts DEF Init, Owner!Init
<1>2. BuddyInv /\ [Next]_vars => [Owner!Next]_Owner!vars
  <2>1. ASSUME BuddyInv, Next PROVE Owner!Next
    <3>1. PICK first \in Usable, last \in Usable :
            first..last # {} /\ (Takes(first..last) \/ Returns(first..last))
      BY Zenon, <2>1, NextStep
    <3>2. CASE Takes(first..last)
      <4>1. Owner!Grant(first, last)
        BY Zenon, <1>0, <3>1, <3>2 DEF Takes, Owner!Grant
      <4> QED
        BY Zenon, <4>1 DEF Owner!Next
    <3>3. CASE Returns(first..last)
      <4>1. Owner!Reclaim(first, last)
        BY Zenon, <1>0, <3>1, <3>3 DEF Returns, Owner!Reclaim
      <4> QED
        BY Zenon, <4>1 DEF Owner!Next
    <3> QED
      BY Zenon, <3>1, <3>2, <3>3
  <2>2. ASSUME UNCHANGED vars PROVE UNCHANGED Owner!vars
    BY Zenon, <2>2 DEF vars, Owner!vars, FreePages
  <2> QED
    BY Zenon, <2>1, <2>2
<1>3. Spec => []BuddyInv
  BY Zenon, BuddyInvariance
<1> QED
  BY <1>1, <1>2, <1>3, PTL DEF Spec, ImplementsOwnership, Owner!Spec

-----------------------------------------------------------------------------
(* What the mapping functions need of the allocator *)

(* One page, allocated from level 0. *)
LEMMA AllocatesPage ==
  ASSUME NEW bits, Sound(bits), Merged(bits)
  PROVE  LET got == allocate_chunk_from_level(bits, 0)
         IN  /\ got.some => /\ got.index \in Pages(bits)
                            /\ Sound(got.bits) /\ Merged(got.bits)
                            /\ Pages(got.bits) = Pages(bits) \ {got.index}
             /\ Pages(bits) # {} => got.some
<1> DEFINE got == allocate_chunk_from_level(bits, 0)
<1>1. 0 \in Levels /\ 0 \in 0..BUDDY_LEVELS /\ 0 \in 0..MapBits /\ Pow(0) = 1
  BY LayoutAssumption, Powers DEF Levels, Top
<1>2. ASSUME got.some
      PROVE  /\ got.index \in Pages(bits) /\ Sound(got.bits) /\ Merged(got.bits)
             /\ Pages(got.bits) = Pages(bits) \ {got.index}
  <2>1. /\ Valid(got.index, 0) /\ Chunk(got.index, 0) \subseteq Pages(bits)
        /\ Sound(got.bits) /\ Pages(got.bits) = Pages(bits) \ Chunk(got.index, 0)
        /\ Merged(got.bits)
    BY Zenon, <1>1, <1>2, Allocates
  <2> HIDE DEF got
  <2>2. got.index \in Int
    BY <2>1, ValidType
  <2>3. Chunk(got.index, 0) = {got.index}
    <3> DEFINE i == got.index
    <3> HIDE DEF i
    <3>1. i \in Int
      BY Zenon, <2>2 DEF i
    <3>2. \A p : p \in Chunk(i, 0) <=> p \in Int /\ i * 1 <= p /\ p < i * 1 + 1
      BY Zenon, <1>1, <3>1, InChunk
    <3>3. Chunk(i, 0) = {i}
      BY <3>1, <3>2
    <3> QED
      BY Zenon, <3>3 DEF i
  <2> QED
    BY Zenon, <2>1, <2>3
<1>3. ASSUME Pages(bits) # {} PROVE got.some
  <2>1. PICK b \in bits : TRUE
    BY Zenon, <1>3 DEF Pages
  <2>2. bits \subseteq Bits
    BY Zenon DEF Sound
  <2>3. LevelOf(b) >= 0
    <3>1. Valid(IndexOf(b), LevelOf(b))
      BY Zenon, <2>2, Relative
    <3>2. LevelOf(b) \in Nat
      BY Zenon, <3>1, ValidType
    <3> QED
      BY <3>2
  <2> QED
    BY Zenon, <1>1, <2>2, <2>3, Finds
<1> QED
  BY Zenon, <1>2, <1>3

(* A request for single frames is refused only if there is no chunk for it. *)
LEMMA PicksOffSome ==
  ASSUME NEW bits, NEW n \in Nat \ {0}, n <= 2^BUDDY_LEVELS
  PROVE  /\ LevelFor(n) \in 0..BUDDY_LEVELS
         /\ pick_off_contiguous(bits, n, 1).some <=> allocate_chunk_from_level(bits, LevelFor(n)).some
<1>1. LevelFor(n) \in 0..BUDDY_LEVELS
  BY Zenon, Holds DEF Pow
<1>2. LevelFor(1) = 0
  <2> DEFINE L == {l \in 0..BUDDY_LEVELS : 1 <= 2^l}
  <2>1. 0 \in L
    BY Powers, LayoutAssumption DEF Pow
  <2>2. \A l \in L : 0 <= l /\ l \in Nat
    BY LayoutAssumption
  <2> HIDE DEF L
  <2>3. \A y \in L : (\A k \in L : y <= k) => y = 0
    BY <2>1, <2>2
  <2>4. Min(L) = 0
    BY Zenon, <2>1, <2>2, <2>3 DEF Min
  <2> QED
    BY Zenon, <2>4 DEF LevelFor, L
<1>3. ~(LevelFor(1) > LevelFor(n))
  BY <1>1, <1>2, LayoutAssumption
<1> DEFINE got == allocate_chunk_from_level(bits, LevelFor(n))
           p == pick_off_contiguous(bits, n, 1)
<1>4. (~got.some => p = None) /\ (got.some => p.some)
  <2>1. ~got.some => p = None
    BY Zenon, <1>3 DEF pick_off_contiguous
  <2>2. ASSUME got.some PROVE p.some
    BY Zenon, <1>3, <2>2 DEF pick_off_contiguous
  <2> QED
    BY Zenon, <2>1, <2>2
<1>5. ~None.some
  BY Zenon DEF None
<1> HIDE DEF got, p
<1> QED
  BY Zenon, <1>1, <1>4, <1>5 DEF got, p

(* The level of a request no larger than the largest chunk. *)
LEMMA LevelExists ==
  ASSUME NEW n \in Nat, n <= 2^Top
  PROVE  LevelFor(n) \in 0..Top
<1> DEFINE S == {l \in 0..BUDDY_LEVELS : n <= 2^l}
<1>1. Top \in S /\ S \in SUBSET Nat
  BY LayoutAssumption DEF Top
<1>2. LevelFor(n) = CHOOSE x \in S : \A y \in S : x <= y
  BY Zenon DEF LevelFor, Min
<1> HIDE DEF S
<1>3. \E x \in S : \A y \in S : x <= y
  BY Zenon, <1>1, Least
<1>4. LevelFor(n) \in S /\ LevelFor(n) <= Top
  BY Zenon, <1>1, <1>2, <1>3
<1>5. LevelFor(n) \in Nat /\ Top \in Nat
  BY Zenon, <1>1, <1>4
<1> QED
  BY <1>4, <1>5

(* A refused request: no aligned run of free pages would have held it. *)
LEMMA Refused ==
  ASSUME WithinHalf, NEW bits, Sound(bits), Merged(bits), NEW n \in Nat \ {0}, n <= 2^Top,
         n <= 2^BUDDY_LEVELS, ~pick_off_contiguous(bits, n, 1).some,
         NEW p \in Usable, p % 2^LevelFor(n) = 0
  PROVE  ~(p..(p + 2^LevelFor(n) - 1) \subseteq Pages(bits))
<1>1. ~allocate_chunk_from_level(bits, LevelFor(n)).some
  BY Zenon, PicksOffSome
<1>2. LevelFor(n) \in 0..Top
  BY LevelExists
<1> DEFINE l == LevelFor(n)
<1>3. l \in 0..Top /\ p % 2^l = 0 /\ ~allocate_chunk_from_level(bits, l).some
  BY Zenon, <1>1, <1>2
<1> HIDE DEF l
<1>4. ~(p..(p + 2^l - 1) \subseteq Pages(bits))
  BY Zenon, <1>3, RunIsFound
<1> QED
  BY Zenon, <1>4 DEF l

=============================================================================

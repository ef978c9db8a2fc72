-------------------------- MODULE KernelPagingProofs --------------------------
(***************************************************************************)
(* The layout of the kernel's address space and the mapping functions, for *)
(* any number and size of stacks and any memory map: the addresses that    *)
(* make_kernel_stack computes, what map_to and its loops do to the entries *)
(* and the page tables, and what becomes of the frames they take.          *)
(***************************************************************************)
EXTENDS KernelStacks, FiniteSetTheorems, BuddyFramesProofs

(* Most leaves are first-order; those that need arithmetic ask for SMT. *)
USE Zenon

-----------------------------------------------------------------------------
(* The layout of vmem.rs *)

(* Stack i of a row of stacks of n pages each that starts with a guard. *)
RowGuard(base, n, i) == base + i * (1 + n)
RowStack(base, n, i) == (RowGuard(base, n, i) + 1)..(RowGuard(base, n, i) + n)

(* Consecutive guards are one stack apart. *)
LEMMA RowStep ==
  ASSUME NEW base \in Nat, NEW n \in Nat \ {0}, NEW i \in Nat, NEW j \in Nat
  PROVE  /\ RowGuard(base, n, i) \in Nat
         /\ RowGuard(base, n, i + 1) = RowGuard(base, n, i) + n + 1
         /\ i <= j => RowGuard(base, n, i) <= RowGuard(base, n, j)
         /\ i < j => RowGuard(base, n, i) + n + 1 <= RowGuard(base, n, j)
<1> DEFINE w == 1 + n
<1>1. w \in Nat /\ \A k \in Nat : k * w \in Nat
  BY SMT
<1>2. (i + 1) * w = i * w + w
  BY SMT
<1>3. ASSUME i < j PROVE i * w + w <= j * w
  <2>1. PICK k \in Nat : j = i + 1 + k
    <3>1. j - i - 1 \in Nat /\ j = i + 1 + (j - i - 1)
      BY SMT, <1>3
    <3> QED
      BY <3>1
  <2>2. j * w = i * w + w + k * w
    BY SMT, <2>1
  <2> QED
    BY SMT, <1>1, <2>2
<1> HIDE DEF w
<1>4. RowGuard(base, n, i) = base + i * w /\ RowGuard(base, n, j) = base + j * w
      /\ RowGuard(base, n, i + 1) = base + (i + 1) * w /\ w = n + 1
  BY SMT DEF RowGuard, w
<1>5. i * w \in Nat /\ j * w \in Nat
  BY <1>1
<1> QED
  <2> DEFINE a == i * w
             b == j * w
             c == (i + 1) * w
  <2>1. a \in Nat /\ b \in Nat /\ c = a + w /\ (i < j => a + w <= b) /\ (i = j => a = b)
    BY <1>2, <1>3, <1>5
  <2>2. RowGuard(base, n, i) = base + a /\ RowGuard(base, n, j) = base + b
        /\ RowGuard(base, n, i + 1) = base + c
    BY <1>4
  <2> HIDE DEF a, b, c
  <2> QED
    BY SMT, <1>1, <1>4, <2>1, <2>2

(* A stack lies between two consecutive guards of its row and holds none. *)
LEMMA RowApart ==
  ASSUME NEW base \in Nat, NEW n \in Nat \ {0}, NEW i \in Nat, NEW j \in Nat
  PROVE  /\ RowGuard(base, n, j) \notin RowStack(base, n, i)
         /\ i # j => RowStack(base, n, i) \cap RowStack(base, n, j) = {}
<1> DEFINE a == RowGuard(base, n, i)
           b == RowGuard(base, n, j)
<1>1. /\ a \in Nat /\ b \in Nat
      /\ i < j => a + n + 1 <= b
      /\ j < i => b + n + 1 <= a
      /\ i = j => a = b
  BY RowStep
<1>2. RowStack(base, n, i) = (a + 1)..(a + n) /\ RowStack(base, n, j) = (b + 1)..(b + n)
  BY DEF RowStack
<1> HIDE DEF a, b
<1>3. b \notin (a + 1)..(a + n) /\ (i # j => (a + 1)..(a + n) \cap (b + 1)..(b + n) = {})
  BY SMT, <1>1
<1> QED
  BY <1>2, <1>3 DEF b

LargeGuard(i) == RowGuard(KernelBottom, LARGE_KERNEL_STACK_PAGES, i)
SmallBase     == LargeGuard(N_LARGE_KERNEL_STACKS)
SmallGuard(i) == RowGuard(SmallBase, SMALL_KERNEL_STACK_PAGES, i)

LargeStack(i) == <<LargeGuard(i) + 1, LargeGuard(i) + LARGE_KERNEL_STACK_PAGES>>
SmallStack(i) == <<SmallGuard(i) + 1, SmallGuard(i) + SMALL_KERNEL_STACK_PAGES>>

LargeIds == 0..N_LARGE_KERNEL_STACKS - 1
SmallIds == 0..N_SMALL_KERNEL_STACKS - 1

(* The base of the small row, and the end of it. *)
LEMMA Bases ==
  /\ SmallBase \in Nat
  /\ SmallBase = KernelBottom + N_LARGE_KERNEL_STACKS * (1 + LARGE_KERNEL_STACK_PAGES)
  /\ SmallGuard(N_SMALL_KERNEL_STACKS) < SchedBottom
  /\ \A i \in 0..N_LARGE_KERNEL_STACKS : LargeGuard(i) \in Nat /\ LargeGuard(i) <= SmallBase
  /\ \A i \in 0..N_SMALL_KERNEL_STACKS :
       /\ SmallGuard(i) \in Nat /\ SmallBase <= SmallGuard(i)
       /\ SmallGuard(i) <= SmallGuard(N_SMALL_KERNEL_STACKS)
<1>1. SmallBase \in Nat
  BY StackAssumption, RowStep DEF SmallBase, LargeGuard
<1>2. SmallBase = KernelBottom + N_LARGE_KERNEL_STACKS * (1 + LARGE_KERNEL_STACK_PAGES)
  BY DEF SmallBase, LargeGuard, RowGuard
<1>3. SmallGuard(N_SMALL_KERNEL_STACKS) < SchedBottom
  BY <1>2, StackAssumption DEF SmallGuard, RowGuard
<1>4. ASSUME NEW i \in 0..N_LARGE_KERNEL_STACKS
      PROVE  LargeGuard(i) \in Nat /\ LargeGuard(i) <= SmallBase
  <2>1. i \in Nat /\ i <= N_LARGE_KERNEL_STACKS /\ N_LARGE_KERNEL_STACKS \in Nat
    BY SMT, StackAssumption
  <2> QED
    BY <2>1, StackAssumption, RowStep DEF SmallBase, LargeGuard
<1>5. ASSUME NEW i \in 0..N_SMALL_KERNEL_STACKS
      PROVE  /\ SmallGuard(i) \in Nat /\ SmallBase <= SmallGuard(i)
             /\ SmallGuard(i) <= SmallGuard(N_SMALL_KERNEL_STACKS)
  <2>1. i \in Nat /\ 0 <= i /\ i <= N_SMALL_KERNEL_STACKS /\ N_SMALL_KERNEL_STACKS \in Nat
    BY SMT, StackAssumption
  <2>2. SmallGuard(0) = SmallBase
    BY SMT, <1>1, StackAssumption DEF SmallGuard, RowGuard
  <2>3. SmallGuard(0) <= SmallGuard(i) /\ SmallGuard(i) <= SmallGuard(N_SMALL_KERNEL_STACKS)
    BY <1>1, <2>1, StackAssumption, RowStep DEF SmallGuard
  <2>4. SmallGuard(i) \in Nat
    BY <1>1, <2>1, StackAssumption, RowStep DEF SmallGuard
  <2> QED
    BY <2>2, <2>3, <2>4
<1> QED
  BY <1>1, <1>2, <1>3, <1>4, <1>5

(* The guards of stack::init are those of the two rows. *)
LEMMA Guards ==
  /\ GuardPages = {LargeGuard(i) : i \in LargeIds}
                    \cup {SmallGuard(i) : i \in 0..N_SMALL_KERNEL_STACKS}
  /\ GuardPages \subseteq VPages /\ GuardPages \subseteq Nat
  /\ \A g \in GuardPages : g < SchedBottom
<1>1. GuardPages = {LargeGuard(i) : i \in LargeIds}
                     \cup {SmallGuard(i) : i \in 0..N_SMALL_KERNEL_STACKS}
  BY Bases DEF GuardPages, LargeGuard, SmallGuard, RowGuard, LargeIds
<1>2. ASSUME NEW i \in LargeIds
      PROVE  LargeGuard(i) \in VPages /\ LargeGuard(i) \in Nat /\ LargeGuard(i) < SchedBottom
  <2>1. /\ i \in 0..N_LARGE_KERNEL_STACKS
        /\ 0 \in 0..N_SMALL_KERNEL_STACKS
    BY SMT, StackAssumption DEF LargeIds
  <2>2. LargeGuard(i) \in Nat /\ LargeGuard(i) < SchedBottom
    BY SMT, <2>1, Bases, StackAssumption
  <2> QED
    BY SMT, <2>2, StackAssumption DEF VPages
<1>3. ASSUME NEW i \in 0..N_SMALL_KERNEL_STACKS
      PROVE  SmallGuard(i) \in VPages /\ SmallGuard(i) \in Nat /\ SmallGuard(i) < SchedBottom
  <2>1. SmallGuard(i) \in Nat /\ SmallGuard(i) < SchedBottom
    <3>1. N_SMALL_KERNEL_STACKS \in 0..N_SMALL_KERNEL_STACKS
      BY SMT, StackAssumption
    <3> QED
      BY SMT, <3>1, Bases, StackAssumption
  <2> QED
    BY SMT, <2>1, StackAssumption DEF VPages
<1> QED
  BY <1>1, <1>2, <1>3

(* The addresses map_large_stack and map_small_stack compute. *)
LEMMA StackEnds ==
  /\ \A i \in LargeIds :
       <<LargeEnd(i) - LARGE_KERNEL_STACK_PAGES, LargeEnd(i) - 1>> = LargeStack(i)
  /\ \A i \in SmallIds :
       <<SmallEnd(i) - SMALL_KERNEL_STACK_PAGES, SmallEnd(i) - 1>> = SmallStack(i)
<1>1. ASSUME NEW i \in LargeIds
      PROVE  <<LargeEnd(i) - LARGE_KERNEL_STACK_PAGES, LargeEnd(i) - 1>> = LargeStack(i)
  <2>1. i \in Nat /\ (LARGE_KERNEL_STACK_PAGES + 1) * i = i * (1 + LARGE_KERNEL_STACK_PAGES)
        /\ i * (1 + LARGE_KERNEL_STACK_PAGES) \in Nat
    BY SMT, StackAssumption DEF LargeIds
  <2> QED
    BY SMT, <2>1, StackAssumption DEF LargeEnd, LargeStack, LargeGuard, RowGuard
<1>2. ASSUME NEW i \in SmallIds
      PROVE  <<SmallEnd(i) - SMALL_KERNEL_STACK_PAGES, SmallEnd(i) - 1>> = SmallStack(i)
  <2>1. i \in Nat /\ (SMALL_KERNEL_STACK_PAGES + 1) * i = i * (1 + SMALL_KERNEL_STACK_PAGES)
        /\ i * (1 + SMALL_KERNEL_STACK_PAGES) \in Nat
    BY SMT, StackAssumption DEF SmallIds
  <2>2. SmallBase = KernelBottom + (1 + LARGE_KERNEL_STACK_PAGES) * N_LARGE_KERNEL_STACKS
    BY SMT, Bases, StackAssumption
  <2>3. SmallEnd(i) = SmallBase + 1 + SMALL_KERNEL_STACK_PAGES
                        + i * (1 + SMALL_KERNEL_STACK_PAGES)
    BY <2>1, <2>2 DEF SmallEnd
  <2> QED
    BY SMT, <2>1, <2>3, Bases, StackAssumption DEF SmallStack, SmallGuard, RowGuard
<1> QED
  BY <1>1, <1>2

AllStacks == {LargeStack(i) : i \in LargeIds} \cup {SmallStack(i) : i \in SmallIds}

(* Where a large stack lies: below the small row, a guard on either side. *)
LEMMA LargeSpans ==
  ASSUME NEW i \in LargeIds
  PROVE  /\ LargeGuard(i) \in Nat
         /\ LargeGuard(i) \in GuardPages /\ LargeGuard(i + 1) \in GuardPages
         /\ LargeGuard(i + 1) = LargeGuard(i) + LARGE_KERNEL_STACK_PAGES + 1
         /\ LargeGuard(i) + LARGE_KERNEL_STACK_PAGES < SmallBase
<1>1. i \in Nat /\ i + 1 \in Nat /\ i < N_LARGE_KERNEL_STACKS
      /\ i + 1 \in 0..N_LARGE_KERNEL_STACKS /\ i \in 0..N_LARGE_KERNEL_STACKS
  BY SMT, StackAssumption DEF LargeIds
<1>2. LargeGuard(i) \in Nat /\ LargeGuard(i + 1) <= SmallBase /\ SmallBase \in Nat
  BY <1>1, Bases
<1>3. LargeGuard(i + 1) = LargeGuard(i) + LARGE_KERNEL_STACK_PAGES + 1
  BY SMT, <1>1, StackAssumption, RowStep DEF LargeGuard
<1>4. LargeGuard(i + 1) \in GuardPages
  <2>1. CASE i + 1 \in LargeIds
    BY <2>1, Guards
  <2>2. CASE i + 1 = N_LARGE_KERNEL_STACKS
    <3>1. SmallGuard(0) = SmallBase /\ 0 \in 0..N_SMALL_KERNEL_STACKS
      BY SMT, <1>2, StackAssumption DEF SmallGuard, RowGuard
    <3>2. SmallBase \in GuardPages
      BY <3>1, Guards
    <3> QED
      BY <2>2, <3>2 DEF SmallBase
  <2> QED
    BY SMT, <1>1, <2>1, <2>2, StackAssumption DEF LargeIds
<1>5. LargeGuard(i) \in GuardPages
  BY Guards
<1> QED
  BY SMT, <1>2, <1>3, <1>4, <1>5, StackAssumption

(* Where a small stack lies. *)
LEMMA SmallSpans ==
  ASSUME NEW i \in SmallIds
  PROVE  /\ SmallGuard(i) \in Nat /\ SmallBase <= SmallGuard(i)
         /\ SmallGuard(i) \in GuardPages /\ SmallGuard(i + 1) \in GuardPages
         /\ SmallGuard(i + 1) = SmallGuard(i) + SMALL_KERNEL_STACK_PAGES + 1
         /\ SmallGuard(i + 1) < SchedBottom
<1>1. i \in Nat /\ i + 1 \in 0..N_SMALL_KERNEL_STACKS /\ i \in 0..N_SMALL_KERNEL_STACKS
      /\ N_SMALL_KERNEL_STACKS \in 0..N_SMALL_KERNEL_STACKS
  BY SMT, StackAssumption DEF SmallIds
<1>2. /\ SmallGuard(i) \in Nat /\ SmallBase <= SmallGuard(i) /\ SmallBase \in Nat
      /\ SmallGuard(i + 1) <= SmallGuard(N_SMALL_KERNEL_STACKS) /\ SmallGuard(i + 1) \in Nat
      /\ SmallGuard(N_SMALL_KERNEL_STACKS) < SchedBottom
      /\ SmallGuard(N_SMALL_KERNEL_STACKS) \in Nat
  BY <1>1, Bases
<1>3. SmallGuard(i + 1) = SmallGuard(i) + SMALL_KERNEL_STACK_PAGES + 1
  BY SMTT(30), <1>1, <1>2, StackAssumption, RowStep DEF SmallGuard
<1>4. SmallGuard(i + 1) \in GuardPages /\ SmallGuard(i) \in GuardPages
  BY <1>1, Guards
<1> QED
  BY SMT, <1>2, <1>3, <1>4, StackAssumption

(* On either side of a stack lies a guard page. *)
LEMMA Neighbours ==
  ASSUME NEW s \in AllStacks
  PROVE  {s[1] - 1, s[2] + 1} \subseteq GuardPages
<1>1. CASE \E i \in LargeIds : s = LargeStack(i)
  <2>1. PICK i \in LargeIds : s = LargeStack(i)
    BY <1>1
  <2>2. s[1] - 1 = LargeGuard(i) /\ s[2] + 1 = LargeGuard(i + 1)
    BY SMT, <2>1, LargeSpans, StackAssumption DEF LargeStack
  <2> QED
    BY <2>2, LargeSpans
<1>2. CASE \E i \in SmallIds : s = SmallStack(i)
  <2>1. PICK i \in SmallIds : s = SmallStack(i)
    BY <1>2
  <2>2. s[1] - 1 = SmallGuard(i) /\ s[2] + 1 = SmallGuard(i + 1)
    BY SMT, <2>1, SmallSpans, StackAssumption DEF SmallStack
  <2> QED
    BY <2>2, SmallSpans
<1> QED
  BY <1>1, <1>2 DEF AllStacks

(* No guard lies in a stack. *)
LEMMA GuardsOutside ==
  ASSUME NEW s \in AllStacks
  PROVE  (s[1]..s[2]) \cap GuardPages = {}
<1> SUFFICES ASSUME NEW g \in GuardPages, g \in s[1]..s[2] PROVE FALSE
  OBVIOUS
<1>0. SmallBase \in Nat
  BY Bases
<1>1. CASE \E i \in LargeIds : s = LargeStack(i)
  <2>1. PICK i \in LargeIds : s = LargeStack(i)
    BY <1>1
  <2>2. g \in RowStack(KernelBottom, LARGE_KERNEL_STACK_PAGES, i) /\ i \in Nat
    BY SMT, <2>1 DEF LargeStack, RowStack, LargeGuard, LargeIds
  <2>3. g < SmallBase
    BY SMT, <1>0, <2>1, LargeSpans, StackAssumption DEF LargeStack
  <2>4. CASE \E j \in LargeIds : g = LargeGuard(j)
    <3>1. PICK j \in Nat : g = LargeGuard(j)
      BY SMT, <2>4 DEF LargeIds
    <3> QED
      BY <2>2, <3>1, RowApart, StackAssumption DEF LargeGuard
  <2>5. CASE \E j \in 0..N_SMALL_KERNEL_STACKS : g = SmallGuard(j)
    <3>1. SmallBase <= g /\ g \in Nat
      BY <2>5, Bases
    <3> QED
      BY SMT, <1>0, <2>3, <3>1
  <2> QED
    BY <2>4, <2>5, Guards
<1>2. CASE \E i \in SmallIds : s = SmallStack(i)
  <2>1. PICK i \in SmallIds : s = SmallStack(i)
    BY <1>2
  <2>2. g \in RowStack(SmallBase, SMALL_KERNEL_STACK_PAGES, i) /\ i \in Nat
    BY SMT, <2>1 DEF SmallStack, RowStack, SmallGuard, SmallIds
  <2>3. SmallBase < g /\ g \in Int
    BY SMT, <1>0, <2>1, SmallSpans, StackAssumption DEF SmallStack
  <2>4. CASE \E j \in LargeIds : g = LargeGuard(j)
    <3>1. PICK j \in LargeIds : g = LargeGuard(j)
      BY <2>4
    <3>2. g <= SmallBase
      BY SMT, <1>0, <3>1, LargeSpans, StackAssumption
    <3> QED
      BY SMT, <1>0, <2>3, <3>2
  <2>5. CASE \E j \in 0..N_SMALL_KERNEL_STACKS : g = SmallGuard(j)
    <3>1. PICK j \in Nat : g = SmallGuard(j)
      BY SMT, <2>5 DEF SmallIds
    <3> QED
      BY <1>0, <2>2, <3>1, RowApart, StackAssumption DEF SmallGuard
  <2> QED
    BY <2>4, <2>5, Guards
<1> QED
  BY <1>1, <1>2 DEF AllStacks

(* Two stacks share no page. *)
LEMMA StacksDisjoint ==
  ASSUME NEW s \in AllStacks, NEW t \in AllStacks, s # t
  PROVE  (s[1]..s[2]) \cap (t[1]..t[2]) = {}
<1>0. SmallBase \in Nat
  BY Bases
<1>1. ASSUME NEW i \in LargeIds, NEW u, u = LargeStack(i)
      PROVE  /\ u[1]..u[2] = RowStack(KernelBottom, LARGE_KERNEL_STACK_PAGES, i) /\ i \in Nat
             /\ \A p \in u[1]..u[2] : p < SmallBase
  BY SMT, <1>0, <1>1, LargeSpans, StackAssumption DEF LargeStack, RowStack, LargeGuard, LargeIds
<1>2. ASSUME NEW i \in SmallIds, NEW u, u = SmallStack(i)
      PROVE  /\ u[1]..u[2] = RowStack(SmallBase, SMALL_KERNEL_STACK_PAGES, i) /\ i \in Nat
             /\ \A p \in u[1]..u[2] : p > SmallBase
  BY SMT, <1>0, <1>2, SmallSpans, StackAssumption DEF SmallStack, RowStack, SmallGuard, SmallIds
<1>3. ASSUME NEW i \in LargeIds, s = LargeStack(i), NEW j \in LargeIds, t = LargeStack(j)
      PROVE  (s[1]..s[2]) \cap (t[1]..t[2]) = {}
  <2>1. i # j
    BY <1>3
  <2>2. /\ s[1]..s[2] = RowStack(KernelBottom, LARGE_KERNEL_STACK_PAGES, i) /\ i \in Nat
        /\ t[1]..t[2] = RowStack(KernelBottom, LARGE_KERNEL_STACK_PAGES, j) /\ j \in Nat
    BY <1>1, <1>3
  <2> QED
    BY <2>1, <2>2, RowApart, StackAssumption
<1>4. ASSUME NEW i \in SmallIds, s = SmallStack(i), NEW j \in SmallIds, t = SmallStack(j)
      PROVE  (s[1]..s[2]) \cap (t[1]..t[2]) = {}
  <2>1. i # j
    BY <1>4
  <2>2. /\ s[1]..s[2] = RowStack(SmallBase, SMALL_KERNEL_STACK_PAGES, i) /\ i \in Nat
        /\ t[1]..t[2] = RowStack(SmallBase, SMALL_KERNEL_STACK_PAGES, j) /\ j \in Nat
    BY <1>2, <1>4
  <2> QED
    BY <1>0, <2>1, <2>2, RowApart, StackAssumption
<1>5. ASSUME NEW i \in LargeIds, NEW j \in SmallIds, NEW u, u = LargeStack(i),
             NEW v, v = SmallStack(j)
      PROVE  (u[1]..u[2]) \cap (v[1]..v[2]) = {}
  <2>1. \A p \in u[1]..u[2] : p < SmallBase
    BY <1>1, <1>5
  <2>2. \A p \in v[1]..v[2] : p > SmallBase
    BY <1>2, <1>5
  <2> QED
    BY SMT, <1>0, <2>1, <2>2
<1> QED
  BY <1>3, <1>4, <1>5 DEF AllStacks

(* Where a stack lies, and how long it is. *)
LEMMA StackSpans ==
  /\ \A i \in LargeIds : LET s == LargeStack(i)
                         IN  /\ s[1] \in Nat /\ s[1] + LARGE_KERNEL_STACK_PAGES - 1 = s[2] /\ s[1] \in s[1]..s[2]
                             /\ s[1]..s[2] \subseteq VPages /\ \A v \in s[1]..s[2] : v < SchedBottom
  /\ \A i \in SmallIds : LET s == SmallStack(i)
                         IN  /\ s[1] \in Nat /\ s[1] + SMALL_KERNEL_STACK_PAGES - 1 = s[2] /\ s[1] \in s[1]..s[2]
                             /\ s[1]..s[2] \subseteq VPages /\ \A v \in s[1]..s[2] : v < SchedBottom
<1>0. SmallBase \in Nat /\ SmallBase < SchedBottom
  <2>1. 0 \in 0..N_SMALL_KERNEL_STACKS /\ N_SMALL_KERNEL_STACKS \in 0..N_SMALL_KERNEL_STACKS
    BY SMT, StackAssumption
  <2> QED
    BY SMT, <2>1, Bases, StackAssumption
<1>1. ASSUME NEW i \in LargeIds
      PROVE  LET s == LargeStack(i)
             IN  /\ s[1] \in Nat /\ s[1] + LARGE_KERNEL_STACK_PAGES - 1 = s[2] /\ s[1] \in s[1]..s[2]
                 /\ s[1]..s[2] \subseteq VPages /\ \A v \in s[1]..s[2] : v < SchedBottom
  <2>1. LargeGuard(i) \in Nat /\ LargeGuard(i) + LARGE_KERNEL_STACK_PAGES < SmallBase
    BY LargeSpans
  <2> QED
    BY SMT, <1>0, <2>1, StackAssumption DEF LargeStack, VPages
<1>2. ASSUME NEW i \in SmallIds
      PROVE  LET s == SmallStack(i)
             IN  /\ s[1] \in Nat /\ s[1] + SMALL_KERNEL_STACK_PAGES - 1 = s[2] /\ s[1] \in s[1]..s[2]
                 /\ s[1]..s[2] \subseteq VPages /\ \A v \in s[1]..s[2] : v < SchedBottom
  <2>1. SmallGuard(i) \in Nat /\ SmallGuard(i) + SMALL_KERNEL_STACK_PAGES + 1 < SchedBottom
    BY SmallSpans
  <2> QED
    BY SMT, <2>1, StackAssumption DEF SmallStack, VPages
<1> QED
  BY <1>1, <1>2

(* Every index has a stack of its own. *)
LEMMA StackIds ==
  /\ \A i, j \in LargeIds : LargeStack(i) = LargeStack(j) => i = j
  /\ \A i, j \in SmallIds : SmallStack(i) = SmallStack(j) => i = j
  /\ \A i \in LargeIds, j \in SmallIds : LargeStack(i) # SmallStack(j)
<1>0. SmallBase \in Nat
  BY Bases
<1>1. ASSUME NEW i \in LargeIds, NEW j \in LargeIds, i # j PROVE LargeStack(i) # LargeStack(j)
  <2>1. i \in Nat /\ j \in Nat
    BY SMT, StackAssumption DEF LargeIds
  <2>2. RowStack(KernelBottom, LARGE_KERNEL_STACK_PAGES, i)
          \cap RowStack(KernelBottom, LARGE_KERNEL_STACK_PAGES, j) = {}
    BY <1>1, <2>1, RowApart, StackAssumption
  <2>3. \A k \in LargeIds : LET s == LargeStack(k)
                            IN  s[1]..s[2] = RowStack(KernelBottom, LARGE_KERNEL_STACK_PAGES, k)
    BY DEF LargeStack, RowStack, LargeGuard
  <2>4. LargeStack(i)[1] \in LargeStack(i)[1]..LargeStack(i)[2]
    BY StackSpans
  <2> QED
    BY <2>2, <2>3, <2>4
<1>2. ASSUME NEW i \in SmallIds, NEW j \in SmallIds, i # j PROVE SmallStack(i) # SmallStack(j)
  <2>1. i \in Nat /\ j \in Nat
    BY SMT, StackAssumption DEF SmallIds
  <2>2. RowStack(SmallBase, SMALL_KERNEL_STACK_PAGES, i)
          \cap RowStack(SmallBase, SMALL_KERNEL_STACK_PAGES, j) = {}
    BY <1>0, <1>2, <2>1, RowApart, StackAssumption
  <2>3. \A k \in SmallIds : LET s == SmallStack(k)
                            IN  s[1]..s[2] = RowStack(SmallBase, SMALL_KERNEL_STACK_PAGES, k)
    BY DEF SmallStack, RowStack, SmallGuard
  <2>4. SmallStack(i)[1] \in SmallStack(i)[1]..SmallStack(i)[2]
    BY StackSpans
  <2> QED
    BY <2>2, <2>3, <2>4
<1>3. ASSUME NEW i \in LargeIds, NEW j \in SmallIds PROVE LargeStack(i) # SmallStack(j)
  <2>1. LargeStack(i)[1] < SmallBase
    BY SMT, <1>0, LargeSpans, StackAssumption DEF LargeStack
  <2>2. SmallStack(j)[1] > SmallBase
    BY SMT, <1>0, SmallSpans DEF SmallStack
  <2>3. LargeStack(i)[1] \in Nat
    BY StackSpans
  <2> QED
    BY SMT, <1>0, <2>1, <2>2, <2>3
<1> QED
  BY <1>1, <1>2, <1>3

-----------------------------------------------------------------------------
(* The mapping functions *)

(* What the mapping functions work on, with an entry for every page. *)
Memory(m) ==
  \E b, u, p, t, x :
    /\ m = [bits |-> b, used |-> u, pte |-> p, tables |-> t, panic |-> x]
    /\ p = [w \in VPages |-> p[w]]

(* n has every entry that is set in m. *)
Kept(m, n) == Memory(n) /\ \A w \in VPages : m.pte[w] # Unused => n.pte[w] = m.pte[w]

(* The updates of the mapping functions. *)
WithTable(m, b, u, t) == [m EXCEPT !.bits = b, !.used = u, !.tables = t]
WithFrames(m, b, u)   == [m EXCEPT !.bits = b, !.used = u]
WithEntry(m, v, e)    == [m EXCEPT !.pte[v] = e]
WithPanic(m, x)       == [m EXCEPT !.panic = x]
SetEntry(p, v, e)     == [p EXCEPT ![v] = e]

(* Frames handed out leave the entries alone. *)
LEMMA FramesUpdate ==
  ASSUME NEW m, Memory(m), NEW b, NEW u
  PROVE  /\ Memory(WithFrames(m, b, u))
         /\ WithFrames(m, b, u).pte = m.pte
         /\ WithFrames(m, b, u).panic = m.panic
         /\ WithFrames(m, b, u).bits = b /\ WithFrames(m, b, u).used = u
         /\ WithFrames(m, b, u).tables = m.tables
<1>1. PICK b0, u0, p0, t0, x0 :
         /\ m = [bits |-> b0, used |-> u0, pte |-> p0, tables |-> t0, panic |-> x0]
         /\ p0 = [w \in VPages |-> p0[w]]
  BY DEF Memory
<1> DEFINE m1 == [bits |-> b, used |-> u0, pte |-> p0, tables |-> t0, panic |-> x0]
           m2 == [bits |-> b, used |-> u, pte |-> p0, tables |-> t0, panic |-> x0]
<1>2. [m EXCEPT !.bits = b] = m1
  BY SMT, <1>1
<1>3. [m1 EXCEPT !.used = u] = m2
  BY SMT
<1>4. WithFrames(m, b, u) = [[m EXCEPT !.bits = b] EXCEPT !.used = u]
  BY DEF WithFrames
<1>5. Memory(m2) /\ m2.pte = p0 /\ m2.panic = x0 /\ m2.bits = b /\ m2.used = u /\ m2.tables = t0
  BY <1>1 DEF Memory
<1>6. m.pte = p0 /\ m.panic = x0 /\ m.tables = t0
  BY <1>1
<1> HIDE DEF m1, m2
<1> QED
  BY <1>2, <1>3, <1>4, <1>5, <1>6

(* So does a page table made of one of them. *)
LEMMA TableUpdate ==
  ASSUME NEW m, Memory(m), NEW b, NEW u, NEW t
  PROVE  /\ Memory(WithTable(m, b, u, t))
         /\ WithTable(m, b, u, t).pte = m.pte
         /\ WithTable(m, b, u, t).panic = m.panic
         /\ WithTable(m, b, u, t).bits = b /\ WithTable(m, b, u, t).used = u
         /\ WithTable(m, b, u, t).tables = t
<1> DEFINE n == WithFrames(m, b, u)
<1>1. Memory(n) /\ n.pte = m.pte /\ n.panic = m.panic /\ n.bits = b /\ n.used = u
  BY SMT, FramesUpdate
<1>2. WithTable(m, b, u, t) = [n EXCEPT !.tables = t]
  BY DEF WithTable, WithFrames
<1> HIDE DEF n
<1>3. PICK b0, u0, p0, t0, x0 :
         /\ n = [bits |-> b0, used |-> u0, pte |-> p0, tables |-> t0, panic |-> x0]
         /\ p0 = [w \in VPages |-> p0[w]]
  BY <1>1 DEF Memory
<1> DEFINE k == [bits |-> b0, used |-> u0, pte |-> p0, tables |-> t, panic |-> x0]
<1>4. [n EXCEPT !.tables = t] = k
  BY SMT, <1>3
<1>5. Memory(k) /\ k.pte = p0 /\ k.panic = x0 /\ k.bits = b0 /\ k.used = u0 /\ k.tables = t
  BY <1>3 DEF Memory
<1>6. n.pte = p0 /\ n.panic = x0 /\ n.bits = b0 /\ n.used = u0
  BY <1>3
<1> HIDE DEF k
<1> QED
  BY <1>1, <1>2, <1>4, <1>5, <1>6

(* What that leaves alone and what it writes, of the memory k it makes. *)
TableMade(m, b, u, t, k) ==
  Memory(k) /\ k.pte = m.pte /\ k.bits = b /\ k.used = u /\ k.tables = t

(* A page table made of a frame is such a memory. *)
LEMMA TableIsMade ==
  ASSUME NEW m, Memory(m), NEW b, NEW u, NEW t
  PROVE  TableMade(m, b, u, t, WithTable(m, b, u, t))
BY SMT, TableUpdate DEF TableMade

(* An entry set. *)
LEMMA EntryUpdate ==
  ASSUME NEW m, Memory(m), NEW v, NEW e
  PROVE  /\ Memory(WithEntry(m, v, e))
         /\ WithEntry(m, v, e).pte = SetEntry(m.pte, v, e)
         /\ WithEntry(m, v, e).panic = m.panic /\ WithEntry(m, v, e).bits = m.bits
         /\ WithEntry(m, v, e).used = m.used /\ WithEntry(m, v, e).tables = m.tables
<1>1. PICK b0, u0, p0, t0, x0 :
         /\ m = [bits |-> b0, used |-> u0, pte |-> p0, tables |-> t0, panic |-> x0]
         /\ p0 = [w \in VPages |-> p0[w]]
  BY DEF Memory
<1> DEFINE q == [p0 EXCEPT ![v] = e]
           k == [bits |-> b0, used |-> u0, pte |-> q, tables |-> t0, panic |-> x0]
<1>2. WithEntry(m, v, e) = [m EXCEPT !.pte = [m.pte EXCEPT ![v] = e]]
  BY DEF WithEntry
<1>3. m.pte = p0 /\ m.panic = x0 /\ m.bits = b0 /\ m.used = u0 /\ m.tables = t0
  BY <1>1
<1>4. q = [w \in VPages |-> q[w]]
  BY <1>1
<1>5. WithEntry(m, v, e) = [m EXCEPT !.pte = q]
  BY <1>2, <1>3
<1>6. q = SetEntry(m.pte, v, e)
  BY <1>3 DEF SetEntry
<1> HIDE DEF q
<1>7. [m EXCEPT !.pte = q] = k
  BY SMT, <1>1
<1>8. Memory(k) /\ k.pte = q /\ k.panic = x0 /\ k.bits = b0 /\ k.used = u0 /\ k.tables = t0
  BY <1>4 DEF Memory
<1> HIDE DEF k
<1> QED
  BY <1>3, <1>5, <1>6, <1>7, <1>8

(* A panic. *)
LEMMA PanicUpdate ==
  ASSUME NEW m, Memory(m), NEW x
  PROVE  /\ Memory(WithPanic(m, x)) /\ WithPanic(m, x).pte = m.pte /\ WithPanic(m, x).bits = m.bits
         /\ WithPanic(m, x).used = m.used /\ WithPanic(m, x).tables = m.tables
         /\ WithPanic(m, x).panic = x
<1>1. PICK b0, u0, p0, t0, x0 :
         /\ m = [bits |-> b0, used |-> u0, pte |-> p0, tables |-> t0, panic |-> x0]
         /\ p0 = [w \in VPages |-> p0[w]]
  BY DEF Memory
<1> DEFINE k == [bits |-> b0, used |-> u0, pte |-> p0, tables |-> t0, panic |-> x]
<1>2. WithPanic(m, x) = k
  BY SMT, <1>1 DEF WithPanic
<1>3. Memory(k) /\ k.pte = p0 /\ k.bits = b0 /\ k.used = u0 /\ k.tables = t0 /\ k.panic = x
  BY <1>1 DEF Memory
<1>4. m.pte = p0 /\ m.bits = b0 /\ m.used = u0 /\ m.tables = t0
  BY <1>1
<1> HIDE DEF k
<1> QED
  BY <1>2, <1>3, <1>4

(* map_to sets an entry only where there is none, and makes page tables       *)
(* without touching entries.                                                  *)
LEMMA MapTo ==
  ASSUME NEW m, Memory(m), NEW v, NEW frame, NEW kind
  PROVE  /\ Kept(m, map_to(m, v, frame, kind))
         /\ \A w \in VPages : w # v => map_to(m, v, frame, kind).pte[w] = m.pte[w]
<1> DEFINE fresh == Group(v) \notin Tabled \cup DOMAIN m.tables
           got   == allocate_chunk_from_level(m.bits, 0)
           tabs  == [h \in DOMAIN m.tables \cup {Group(v)} |->
                       IF h = Group(v) THEN got.index ELSE m.tables[h]]
           n     == IF fresh THEN WithTable(m, got.bits, m.used \cup {got.index}, tabs)
                    ELSE m
           r     == map_to(m, v, frame, kind)
<1>1. r = IF Group(v) \in HugeGroups \/ (fresh /\ ~got.some) THEN m
          ELSE IF fresh /\ kind = "guard" THEN WithPanic(n, TRUE)
          ELSE IF n.pte[v] # Unused THEN n
          ELSE WithEntry(n, v, Entry(kind, frame))
  BY DEF map_to, WithTable, WithEntry, WithPanic
<1>2. Memory(n) /\ n.pte = m.pte
  <2> DEFINE b == got.bits
             u == m.used \cup {got.index}
             k == WithTable(m, b, u, tabs)
  <2>1. n = k \/ n = m
    <3> HIDE DEF fresh, k
    <3> QED
      BY DEF k
  <2> HIDE DEF b, u, tabs
  <2>2. Memory(k) /\ k.pte = m.pte
    BY SMT, TableUpdate
  <2> HIDE DEF n, k
  <2> QED
    BY <2>1, <2>2
<1> HIDE DEF fresh, got, n, r
<1>3. /\ Memory(WithPanic(n, TRUE)) /\ WithPanic(n, TRUE).pte = m.pte
      /\ Memory(WithEntry(n, v, Entry(kind, frame)))
      /\ WithEntry(n, v, Entry(kind, frame)).pte = SetEntry(m.pte, v, Entry(kind, frame))
  <2>1. Memory(WithPanic(n, TRUE)) /\ WithPanic(n, TRUE).pte = n.pte
    BY <1>2, PanicUpdate
  <2> DEFINE e == Entry(kind, frame)
  <2> HIDE DEF e
  <2>2. /\ Memory(WithEntry(n, v, e))
        /\ WithEntry(n, v, e).pte = SetEntry(n.pte, v, e)
    BY SMT, <1>2, EntryUpdate
  <2> QED
    BY <1>2, <2>1, <2>2 DEF e
<1>4. m.pte = [w \in VPages |-> m.pte[w]]
  BY SMT DEF Memory
<1>5. /\ Memory(r)
      /\ r.pte = m.pte \/ (m.pte[v] = Unused /\ r.pte = SetEntry(m.pte, v, Entry(kind, frame)))
  BY <1>1, <1>2, <1>3
<1> DEFINE p == m.pte
           e == Entry(kind, frame)
<1> HIDE DEF p, e
<1>6. /\ p = [w \in VPages |-> p[w]]
      /\ r.pte = p \/ (p[v] = Unused /\ r.pte = SetEntry(p, v, e))
  BY <1>4, <1>5 DEF p, e
<1>7. \A w \in VPages : p[w] # Unused \/ w # v => r.pte[w] = p[w]
  BY <1>6 DEF SetEntry
<1> QED
  BY <1>5, <1>7 DEF Kept, r, p

(* Mapping after mapping. *)
LEMMA KeptTrans ==
  ASSUME NEW m, NEW n, NEW r, Kept(m, n), Kept(n, r)
  PROVE  Kept(m, r)
  BY DEF Kept

(* The pages of a finite set in increasing order, counted from 1: the order   *)
(* in which the code's loops go through a range.                              *)
Ranked(pages, i) == CHOOSE p \in pages : Cardinality({q \in pages : q < p}) = i - 1

(* Every page has its turn, and only they have. *)
LEMMA Ranks ==
  ASSUME NEW pages \in SUBSET Int, IsFiniteSet(pages), NEW v \in pages
  PROVE  /\ \E i \in 1..Cardinality(pages) : Ranked(pages, i) = v
         /\ \A i \in 1..Cardinality(pages) :
              /\ Ranked(pages, i) \in pages
              /\ Cardinality({q \in pages : q < Ranked(pages, i)}) = i - 1
<1> DEFINE below(p) == {q \in pages : q < p}
<1>1. ASSUME NEW p \in pages
      PROVE  IsFiniteSet(below(p)) /\ Cardinality(below(p)) \in Nat
             /\ Cardinality(below(p)) < Cardinality(pages)
  <2>1. below(p) \subseteq pages /\ p \notin below(p)
    BY SMT
  <2> HIDE DEF below
  <2>2. /\ IsFiniteSet(below(p))
        /\ Cardinality(below(p)) <= Cardinality(pages)
        /\ Cardinality(below(p)) = Cardinality(pages) => below(p) = pages
    BY <2>1, FS_Subset
  <2>3. Cardinality(below(p)) \in Nat /\ Cardinality(pages) \in Nat
    BY <2>2, FS_CardinalityType
  <2> QED
    BY SMT, <2>1, <2>2, <2>3
<1>2. ASSUME NEW p \in pages, NEW q \in pages, p < q
      PROVE  Cardinality(below(p)) < Cardinality(below(q))
  <2>1. p \in Int /\ q \in Int /\ p \in below(q) /\ p \notin below(p)
    BY SMT, <1>2
  <2>2. ASSUME NEW x \in below(p) PROVE x \in below(q)
    <3>1. x \in pages /\ x < p
      OBVIOUS
    <3>2. x \in Int
      BY <3>1
    <3> QED
      BY SMT, <1>2, <2>1, <3>1, <3>2
  <2>3. below(p) \subseteq below(q)
    BY <2>2
  <2>4. IsFiniteSet(below(q)) /\ Cardinality(below(q)) \in Nat /\ Cardinality(below(p)) \in Nat
    BY <1>1
  <2> HIDE DEF below
  <2>5. Cardinality(below(p)) <= Cardinality(below(q))
        /\ (Cardinality(below(p)) = Cardinality(below(q)) => below(p) = below(q))
    BY <2>3, <2>4, FS_Subset
  <2> QED
    BY SMT, <2>1, <2>4, <2>5
<1> DEFINE i == Cardinality(below(v)) + 1
<1>3. i \in 1..Cardinality(pages) /\ Cardinality(below(v)) = i - 1
  <2>1. Cardinality(pages) \in Nat
    BY FS_CardinalityType
  <2> HIDE DEF below
  <2> QED
    BY SMT, <1>1, <2>1
<1>4. ASSUME NEW p \in pages, Cardinality(below(p)) = i - 1 PROVE p = v
  <2>1. Cardinality(below(p)) = Cardinality(below(v)) /\ Cardinality(below(v)) \in Nat
    BY <1>1, <1>3, <1>4
  <2>2. p \in Int /\ v \in Int
    OBVIOUS
  <2> HIDE DEF below
  <2>3. ~(p < v) /\ ~(v < p)
    BY SMT, <1>2, <2>1
  <2> QED
    BY SMT, <2>2, <2>3
<1>5. Ranked(pages, i) = v
  <2> HIDE DEF i
  <2> QED
    BY <1>3, <1>4 DEF Ranked
<1>6. ASSUME NEW j \in 1..Cardinality(pages)
      PROVE  /\ Ranked(pages, j) \in pages
             /\ Cardinality({q \in pages : q < Ranked(pages, j)}) = j - 1
  <2> DEFINE N == Cardinality(pages)
             f == [p \in pages |-> Cardinality(below(p))]
  <2>1. N \in Nat /\ IsFiniteSet(0..N - 1) /\ Cardinality(0..N - 1) = N
    <3>1. N \in Nat
      BY FS_CardinalityType
    <3> HIDE DEF N
    <3> QED
      BY SMT, <3>1, FS_Interval
  <2>2. ASSUME NEW p \in pages PROVE f[p] = Cardinality(below(p)) /\ f[p] \in 0..N - 1
    <3> HIDE DEF below
    <3> QED
      BY SMT, <1>1, <2>1
  <2>3. ASSUME NEW p \in pages, NEW q \in pages, f[p] = f[q] PROVE p = q
    <3>1. p \in Int /\ q \in Int
      OBVIOUS
    <3>2. Cardinality(below(p)) = Cardinality(below(q)) /\ Cardinality(below(p)) \in Nat
      BY <1>1, <2>2, <2>3
    <3> HIDE DEF below
    <3>3. ~(p < q) /\ ~(q < p)
      BY SMT, <1>2, <3>2
    <3> QED
      BY SMT, <3>1, <3>3
  <2>4. f = [p \in pages |-> f[p]]
    OBVIOUS
  <2> HIDE DEF f, N, below
  <2>5. f \in Injection(pages, 0..N - 1)
    BY <2>2, <2>3, <2>4 DEF Injection, IsInjective
  <2>6. f \in Surjection(pages, 0..N - 1)
    <3>1. Cardinality(pages) = Cardinality(0..N - 1)
      BY <2>1 DEF N
    <3> QED
      BY <2>1, <2>5, <3>1, FS_Injection
  <2>7. j - 1 \in 0..N - 1
    BY SMT, <2>1 DEF N
  <2>8. PICK p \in pages : f[p] = j - 1
    BY <2>6, <2>7 DEF Surjection
  <2>9. Cardinality(below(p)) = j - 1
    BY <2>2, <2>8
  <2> QED
    BY <2>9 DEF Ranked, below
<1> QED
  BY <1>3, <1>5, <1>6

(* One pass of MapAll's loop. *)
MapNext(m, v, frameOf, kind) ==
  IF m.panic THEN m ELSE map_to(m, v, frameOf[v], kind)

(* MapAll maps one page after the other: the states between its passes. *)
LEMMA MapAllPasses ==
  ASSUME NEW m, NEW pages, Cardinality(pages) \in Nat, NEW frameOf, NEW kind
  PROVE  \E f : /\ MapAll(m, pages, frameOf, kind) = f[Cardinality(pages)]
                /\ f[0] = m
                /\ \A i \in 1..Cardinality(pages) :
                     f[i] = MapNext(f[i - 1], Ranked(pages, i), frameOf, kind)
<1> DEFINE N          == Cardinality(pages)
           Body(g, i) == IF i = 0 THEN m
                         ELSE MapNext(g[i - 1], Ranked(pages, i), frameOf, kind)
           Upto(n, g) == g = [i \in 0..n |-> Body(g, i)]
           T          == {n \in Nat : \E g : Upto(n, g)}
           done       == CHOOSE g : Upto(N, g)
<1>1. MapAll(m, pages, frameOf, kind) = done[N]
  BY DEF MapAll, MapNext, Ranked
<1>2. /\ \A g : Body(g, 0) = m
      /\ \A g : \A i \in 1..N : Body(g, i) = MapNext(g[i - 1], Ranked(pages, i), frameOf, kind)
      /\ \A g, h : \A i \in Nat : i = 0 \/ g[i - 1] = h[i - 1] => Body(g, i) = Body(h, i)
  BY SMT
<1> HIDE DEF Body
<1>3. 0 \in T
  <2> DEFINE z == [i \in 0..0 |-> m]
  <2>1. \A i \in 0..0 : i = 0
    BY SMT
  <2>2. Upto(0, z)
    BY <1>2, <2>1
  <2> HIDE DEF z, Upto
  <2> QED
    BY <2>2
<1>4. ASSUME NEW n \in T PROVE n + 1 \in T
  <2>1. PICK g : Upto(n, g)
    OBVIOUS
  <2> DEFINE h == [i \in 0..n + 1 |-> IF i <= n THEN g[i] ELSE Body(g, n + 1)]
  <2>2. ASSUME NEW i \in 0..n + 1 PROVE h[i] = Body(h, i)
    <3>1. i # 0 => h[i - 1] = g[i - 1]
      BY SMT
    <3>2. h[i] = Body(g, i)
      BY SMTT(30), <2>1
    <3> HIDE DEF h
    <3>3. Body(h, i) = Body(g, i)
      BY SMT, <3>1, <1>2
    <3> QED
      BY <3>2, <3>3
  <2>3. Upto(n + 1, h)
    <3>1. h = [i \in 0..n + 1 |-> h[i]]
      OBVIOUS
    <3> HIDE DEF h
    <3> QED
      BY <2>2, <3>1
  <2> HIDE DEF h, Upto
  <2> QED
    BY SMT, <2>3
<1>5. T = Nat
  <2> HIDE DEF T
  <2> QED
    BY <1>3, <1>4, SetInduction DEF T
<1>6. Upto(N, done)
  <2>1. \E g : Upto(N, g)
    BY <1>5
  <2> HIDE DEF Upto, N
  <2> QED
    BY <2>1
<1> HIDE DEF done
<1>7. \A i \in 0..N : done[i] = Body(done, i)
  BY <1>6
<1>8. done[0] = m /\ \A i \in 1..N : done[i] = MapNext(done[i - 1], Ranked(pages, i), frameOf, kind)
  BY SMT, <1>2, <1>7
<1> QED
  BY <1>1, <1>8

(* Whatever MapAll is asked to map, entries that are set stay as they are. *)
LEMMA MapAllKeeps ==
  ASSUME NEW m, Memory(m), NEW pages, Cardinality(pages) \in Nat, NEW frameOf, NEW kind
  PROVE  Kept(m, MapAll(m, pages, frameOf, kind))
<1>1. PICK f : /\ MapAll(m, pages, frameOf, kind) = f[Cardinality(pages)]
               /\ f[0] = m
               /\ \A i \in 1..Cardinality(pages) :
                    f[i] = MapNext(f[i - 1], Ranked(pages, i), frameOf, kind)
  BY SMT, MapAllPasses
<1> DEFINE N == Cardinality(pages)
           T == {i \in Nat : i <= N => Kept(m, f[i])}
<1>2. 0 \in T
  BY <1>1 DEF Kept
<1>3. ASSUME NEW i \in T PROVE i + 1 \in T
  <2> SUFFICES ASSUME i + 1 <= N PROVE Kept(m, f[i + 1])
    BY SMT
  <2>1. Kept(m, f[i]) /\ Memory(f[i]) /\ i + 1 \in 1..N /\ i + 1 - 1 = i
    BY SMT DEF Kept
  <2>2. f[i + 1] = MapNext(f[i], Ranked(pages, i + 1), frameOf, kind)
    BY SMT, <1>1, <2>1
  <2>3. Kept(f[i], f[i + 1])
    <3>1. Kept(f[i], f[i])
      BY <2>1 DEF Kept
    <3> QED
      BY SMT, <2>1, <2>2, <3>1, MapTo DEF MapNext
  <2> QED
    BY <2>1, <2>3, KeptTrans
<1>4. T = Nat
  <2> HIDE DEF T
  <2> QED
    BY <1>2, <1>3, SetInduction DEF T
<1> QED
  BY SMT, <1>1, <1>4

(* One pass of WithTables' loop. *)
TablesNext(d, gs) ==
  LET n   == d.m
      got == allocate_chunk_from_level(n.bits, 0)
      g   == CHOOSE h \in gs \ DOMAIN n.tables : TRUE
  IN  IF ~d.ok \/ ~got.some THEN [ok |-> FALSE, m |-> n]
      ELSE [ok |-> TRUE,
            m |-> WithTable(n, got.bits, n.used \cup {got.index},
                            [h \in DOMAIN n.tables \cup {g} |->
                               IF h = g THEN got.index ELSE n.tables[h]])]

(* The passes of WithTables. *)
LEMMA WithTablesPasses ==
  ASSUME NEW m, NEW gs, Cardinality(gs) \in Nat
  PROVE  \E f : /\ WithTables(m, gs) = f[Cardinality(gs)]
                /\ f[0] = [ok |-> TRUE, m |-> m]
                /\ \A i \in 1..Cardinality(gs) : f[i] = TablesNext(f[i - 1], gs)
<1> DEFINE N          == Cardinality(gs)
           Body(g, i) == IF i = 0 THEN [ok |-> TRUE, m |-> m] ELSE TablesNext(g[i - 1], gs)
           Upto(n, g) == g = [i \in 0..n |-> Body(g, i)]
           T          == {n \in Nat : \E g : Upto(n, g)}
           done       == CHOOSE g : Upto(N, g)
<1>1. WithTables(m, gs) = done[N]
  BY DEF WithTables, TablesNext, WithTable
<1> DEFINE start == [ok |-> TRUE, m |-> m]
<1> HIDE DEF start
<1>2. /\ \A g : Body(g, 0) = start
      /\ \A g : \A i \in 1..N : Body(g, i) = TablesNext(g[i - 1], gs)
      /\ \A g, h : \A i \in Nat : i = 0 \/ g[i - 1] = h[i - 1] => Body(g, i) = Body(h, i)
  BY SMT DEF start
<1> HIDE DEF Body
<1>3. 0 \in T
  <2> DEFINE z == [i \in 0..0 |-> start]
  <2>1. \A i \in 0..0 : i = 0
    BY SMT
  <2>2. Upto(0, z)
    BY <1>2, <2>1
  <2> HIDE DEF z, Upto
  <2> QED
    BY <2>2
<1>4. ASSUME NEW n \in T PROVE n + 1 \in T
  <2>1. PICK g : Upto(n, g)
    OBVIOUS
  <2> DEFINE h == [i \in 0..n + 1 |-> IF i <= n THEN g[i] ELSE Body(g, n + 1)]
  <2>2. ASSUME NEW i \in 0..n + 1 PROVE h[i] = Body(h, i)
    <3>1. i # 0 => h[i - 1] = g[i - 1]
      BY SMT
    <3>2. h[i] = Body(g, i)
      BY SMT, <2>1
    <3> HIDE DEF h
    <3>3. Body(h, i) = Body(g, i)
      BY SMT, <3>1, <1>2
    <3> QED
      BY <3>2, <3>3
  <2>3. Upto(n + 1, h)
    <3>1. h = [i \in 0..n + 1 |-> h[i]]
      OBVIOUS
    <3> HIDE DEF h
    <3> QED
      BY <2>2, <3>1
  <2> HIDE DEF h, Upto
  <2> QED
    BY SMT, <2>3
<1>5. T = Nat
  <2> HIDE DEF T
  <2> QED
    BY <1>3, <1>4, SetInduction DEF T
<1>6. Upto(N, done)
  <2>1. \E g : Upto(N, g)
    BY <1>5
  <2> HIDE DEF Upto, N
  <2> QED
    BY <2>1
<1> HIDE DEF done
<1>7. \A i \in 0..N : done[i] = Body(done, i)
  BY <1>6
<1>8. done[0] = start /\ \A i \in 1..N : done[i] = TablesNext(done[i - 1], gs)
  BY SMT, <1>2, <1>7
<1> QED
  BY <1>1, <1>8 DEF start

(* Page tables of their own leave every entry as it is. *)
LEMMA WithTablesKeeps ==
  ASSUME NEW m, Memory(m), NEW gs, Cardinality(gs) \in Nat
  PROVE  Memory(WithTables(m, gs).m) /\ WithTables(m, gs).m.pte = m.pte
<1>1. PICK f : /\ WithTables(m, gs) = f[Cardinality(gs)]
               /\ f[0] = [ok |-> TRUE, m |-> m]
               /\ \A i \in 1..Cardinality(gs) : f[i] = TablesNext(f[i - 1], gs)
  BY SMT, WithTablesPasses
<1> DEFINE N == Cardinality(gs)
           So(d) == Memory(d.m) /\ d.m.pte = m.pte
           T == {i \in Nat : i <= N => So(f[i])}
<1>2. 0 \in T
  <2>1. f[0].m = m
    BY SMT, <1>1
  <2> QED
    BY <2>1
<1>3. ASSUME NEW i \in T PROVE i + 1 \in T
  <2> SUFFICES ASSUME i + 1 <= N PROVE So(f[i + 1])
    <3>1. i + 1 \in Nat
      BY SMT
    <3> HIDE DEF So, N
    <3> QED
      BY <3>1
  <2>1. i + 1 \in 1..N /\ i + 1 - 1 = i /\ i <= N
    BY SMT
  <2>2. f[i + 1] = TablesNext(f[i], gs) /\ So(f[i])
    BY SMT, <1>1, <2>1
  <2> DEFINE n   == f[i].m
             got == allocate_chunk_from_level(n.bits, 0)
             g   == CHOOSE h \in gs \ DOMAIN n.tables : TRUE
             b   == got.bits
             u   == n.used \cup {got.index}
             t   == [h \in DOMAIN n.tables \cup {g} |-> IF h = g THEN got.index ELSE n.tables[h]]
  <2>3. f[i + 1] = [ok |-> FALSE, m |-> n] \/ f[i + 1] = [ok |-> TRUE, m |-> WithTable(n, b, u, t)]
    BY <2>2 DEF TablesNext
  <2> HIDE DEF b, u, t, n
  <2>4. f[i + 1].m = n \/ f[i + 1].m = WithTable(n, b, u, t)
    BY SMT, <2>3
  <2>5. Memory(n) /\ n.pte = m.pte
    BY <2>2 DEF n
  <2>6. Memory(WithTable(n, b, u, t)) /\ WithTable(n, b, u, t).pte = n.pte
    BY SMT, <2>5, TableUpdate
  <2> QED
    BY <2>4, <2>5, <2>6
<1>4. T = Nat
  <2> HIDE DEF T
  <2> QED
    BY <1>2, <1>3, SetInduction DEF T
<1> QED
  BY SMT, <1>1, <1>4

(* page_region keeps every entry that is set. *)
LEMMA PageRegionKeeps ==
  ASSUME NEW m, Memory(m), NEW first \in Int, NEW n \in Nat
  PROVE  Kept(m, page_region(m, first, n).m)
<1> DEFINE got == pick_off_contiguous(m.bits, n, 1)
           b   == got.bits
           u   == m.used \cup got.page..(got.page + n - 1)
           m0  == WithFrames(m, b, u)
           pages   == first..(first + n - 1)
           frameOf == [v \in pages |-> got.page + (v - first)]
           r   == MapAll(m0, pages, frameOf, "stack")
<1>1. page_region(m, first, n) = IF got.some THEN [ok |-> TRUE, m |-> r] ELSE [ok |-> FALSE, m |-> m]
  BY DEF page_region, WithFrames
<1>2. Cardinality(pages) \in Nat
  <2>1. first + n - 1 \in Int
    BY SMT
  <2>2. IsFiniteSet(pages)
    BY <2>1, FS_Interval
  <2> QED
    BY <2>2, FS_CardinalityType
<1> HIDE DEF b, u, pages, frameOf
<1>3. Memory(m0) /\ m0.pte = m.pte
  BY SMT, FramesUpdate
<1> HIDE DEF m0
<1>4. Kept(m0, r)
  BY <1>2, <1>3, MapAllKeeps
<1> HIDE DEF r
<1>5. page_region(m, first, n).m = r \/ page_region(m, first, n).m = m
  BY SMT, <1>1
<1>6. Kept(m, m) /\ Kept(m, r)
  BY <1>3, <1>4 DEF Kept
<1> QED
  BY <1>5, <1>6

-----------------------------------------------------------------------------
(* Who has which frame *)

(* Every frame that was handed out is reserved (R), maps one stack page or is *)
(* one page table, at most; none is free in the allocator.                    *)
Own(b, u, p, t, R) ==
  /\ Sound(b) /\ Merged(b) /\ Pages(b) \cap u = {} /\ R \subseteq u
  /\ \A w \in VPages : p[w].kind = "stack" => p[w].frame \in u /\ p[w].frame \notin R
  /\ \A v, w \in VPages :
       p[v].kind = "stack" /\ p[w].kind = "stack" /\ p[v].frame = p[w].frame => v = w
  /\ \A g \in DOMAIN t : t[g] \in u /\ t[g] \notin R
  /\ \A g, h \in DOMAIN t : t[g] = t[h] => g = h
  /\ \A g \in DOMAIN t, w \in VPages : p[w].kind = "stack" => p[w].frame # t[g]

(* t with the frame f as page table of g. *)
Extends(t, g, f, s) ==
  /\ DOMAIN s = DOMAIN t \cup {g} /\ s[g] = f
  /\ \A h \in DOMAIN t : h # g => s[h] = t[h]

(* A free frame becomes a page table. *)
LEMMA OwnTable ==
  ASSUME NEW b, NEW u, NEW p, NEW t, NEW R, Own(b, u, p, t, R), NEW f \in Pages(b),
         NEW c, Sound(c), Merged(c), Pages(c) = Pages(b) \ {f}, NEW g, NEW s, Extends(t, g, f, s)
  PROVE  Own(c, u \cup {f}, p, s, R)
<1>1. /\ Pages(b) \cap u = {} /\ R \subseteq u
      /\ \A w \in VPages : p[w].kind = "stack" => p[w].frame \in u /\ p[w].frame \notin R
      /\ \A v, w \in VPages :
           p[v].kind = "stack" /\ p[w].kind = "stack" /\ p[v].frame = p[w].frame => v = w
      /\ \A h \in DOMAIN t : t[h] \in u /\ t[h] \notin R
      /\ \A h, k \in DOMAIN t : t[h] = t[k] => h = k
      /\ \A h \in DOMAIN t, w \in VPages : p[w].kind = "stack" => p[w].frame # t[h]
  BY DEF Own
<1>2. f \notin u /\ f \notin R
  BY <1>1
<1>3. \A h \in DOMAIN s : (h = g /\ s[h] = f) \/ (h \in DOMAIN t /\ h # g /\ s[h] = t[h])
  BY DEF Extends
<1>4. Pages(c) \cap (u \cup {f}) = {} /\ R \subseteq u \cup {f}
  BY <1>1
<1>5. \A h \in DOMAIN s : s[h] \in u \cup {f} /\ s[h] \notin R
  BY <1>1, <1>2, <1>3
<1>6. ASSUME NEW h \in DOMAIN s, NEW k \in DOMAIN s, s[h] = s[k] PROVE h = k
  BY ZenonT(30), <1>1, <1>2, <1>3, <1>6
<1>7. ASSUME NEW h \in DOMAIN s, NEW w \in VPages, p[w].kind = "stack" PROVE p[w].frame # s[h]
  BY <1>1, <1>2, <1>3, <1>7
<1> QED
  BY <1>1, <1>4, <1>5, <1>6, <1>7 DEF Own

(* Frames are handed out at once, for a purpose that comes later. *)
LEMMA OwnFrames ==
  ASSUME NEW b, NEW u, NEW p, NEW t, NEW R, Own(b, u, p, t, R), NEW run, run \subseteq Pages(b),
         NEW c, Sound(c), Merged(c), Pages(c) = Pages(b) \ run
  PROVE  Own(c, u \cup run, p, t, R \cup run) /\ R \cap run = {}
<1>1. /\ Pages(b) \cap u = {} /\ R \subseteq u
      /\ \A w \in VPages : p[w].kind = "stack" => p[w].frame \in u /\ p[w].frame \notin R
      /\ \A h \in DOMAIN t : t[h] \in u /\ t[h] \notin R
  BY DEF Own
<1>2. \A f \in run : f \notin u
  BY <1>1
<1>3. Pages(c) \cap (u \cup run) = {} /\ R \cup run \subseteq u \cup run /\ R \cap run = {}
  BY <1>1, <1>2
<1>4. \A w \in VPages : p[w].kind = "stack" => p[w].frame \in u \cup run /\ p[w].frame \notin R \cup run
  BY <1>1, <1>2
<1>5. \A h \in DOMAIN t : t[h] \in u \cup run /\ t[h] \notin R \cup run
  BY <1>1, <1>2
<1>6. Own(c, u \cup run, p, t, R \cup run)
  BY <1>3, <1>4, <1>5 DEF Own
<1> QED
  BY <1>3, <1>6

(* A reserved frame is mapped. *)
LEMMA OwnEntry ==
  ASSUME NEW b, NEW u, NEW p, NEW t, NEW R, Own(b, u, p, t, R), NEW f \in R, NEW v \in VPages,
         p = [w \in VPages |-> p[w]]
  PROVE  Own(b, u, [p EXCEPT ![v] = Entry("stack", f)], t, R \ {f})
<1> DEFINE q == [p EXCEPT ![v] = Entry("stack", f)]
<1>1. /\ q[v].kind = "stack" /\ q[v].frame = f
      /\ \A w \in VPages : w # v => q[w] = p[w]
  BY DEF Entry
<1>2. /\ R \subseteq u
      /\ \A w \in VPages : p[w].kind = "stack" => p[w].frame \in u /\ p[w].frame \notin R
      /\ \A x, w \in VPages :
           p[x].kind = "stack" /\ p[w].kind = "stack" /\ p[x].frame = p[w].frame => x = w
      /\ \A h \in DOMAIN t : t[h] \in u /\ t[h] \notin R
      /\ \A h, k \in DOMAIN t : t[h] = t[k] => h = k
      /\ \A h \in DOMAIN t, w \in VPages : p[w].kind = "stack" => p[w].frame # t[h]
  BY DEF Own
<1> HIDE DEF q
<1>3. \A w \in VPages : q[w].kind = "stack" => q[w].frame \in u /\ q[w].frame \notin R \ {f}
  BY <1>1, <1>2
<1>4. ASSUME NEW x \in VPages, NEW w \in VPages, q[x].kind = "stack", q[w].kind = "stack",
             q[x].frame = q[w].frame
      PROVE  x = w
  BY SMT, <1>1, <1>2, <1>4
<1>5. ASSUME NEW h \in DOMAIN t, NEW w \in VPages, q[w].kind = "stack" PROVE q[w].frame # t[h]
  BY ZenonT(30), <1>1, <1>2, <1>5
<1>6. Own(b, u, q, t, R \ {f})
  BY <1>2, <1>3, <1>4, <1>5 DEF Own
<1> QED
  BY <1>6 DEF q

(* An entry without a frame. *)
LEMMA OwnGuard ==
  ASSUME NEW b, NEW u, NEW p, NEW t, NEW R, Own(b, u, p, t, R), NEW e, e.kind # "stack", NEW v \in VPages,
         p = [w \in VPages |-> p[w]], p[v].kind # "stack"
  PROVE  Own(b, u, [p EXCEPT ![v] = e], t, R)
<1> DEFINE q == [p EXCEPT ![v] = e]
<1>1. \A w \in VPages : q[w].kind = "stack" <=> p[w].kind = "stack"
  OBVIOUS
<1>2. \A w \in VPages : p[w].kind = "stack" => q[w] = p[w]
  OBVIOUS
<1> HIDE DEF q
<1>3. Own(b, u, q, t, R)
  BY SMT, <1>1, <1>2 DEF Own
<1> QED
  BY <1>3 DEF q

(* Frames are no longer reserved. *)
LEMMA OwnLess ==
  ASSUME NEW b, NEW u, NEW p, NEW t, NEW R, Own(b, u, p, t, R), NEW S, S \subseteq R
  PROVE  Own(b, u, p, t, S)
  BY DEF Own

(* The same of what the mapping functions work on. *)
Owned(m, R) == Own(m.bits, m.used, m.pte, m.tables, R)

(* A page table is needed for v. *)
NeedsTable(m, v) == Group(v) \notin Tabled \cup DOMAIN m.tables

(* The memory r after map_to: perhaps a page table, perhaps the entry. *)
MapParts(m, v, frame, kind, r) ==
  LET got == allocate_chunk_from_level(m.bits, 0)
      set == SetEntry(m.pte, v, Entry(kind, frame))
  IN  /\ Memory(r)
      /\ \/ r.bits = m.bits /\ r.used = m.used /\ r.tables = m.tables
         \/ /\ NeedsTable(m, v) /\ got.some
            /\ r.bits = got.bits /\ r.used = m.used \cup {got.index}
            /\ Extends(m.tables, Group(v), got.index, r.tables)
      /\ r.pte = m.pte \/ (m.pte[v] = Unused /\ r.pte = set)
      /\ (/\ Group(v) \notin HugeGroups /\ m.pte[v] = Unused
          /\ NeedsTable(m, v) => got.some /\ kind # "guard") => r.pte = set
      /\ (/\ Group(v) \notin HugeGroups /\ kind = "guard"
          /\ NeedsTable(m, v) /\ got.some) => r.panic = TRUE
      /\ kind # "guard" => r.panic = m.panic

(* What map_to does. *)
LEMMA MapToParts ==
  ASSUME NEW m, Memory(m), NEW v, NEW frame, NEW kind
  PROVE  MapParts(m, v, frame, kind, map_to(m, v, frame, kind))
<1> DEFINE fresh == NeedsTable(m, v)
           got   == allocate_chunk_from_level(m.bits, 0)
           b     == got.bits
           u     == m.used \cup {got.index}
           tabs  == [h \in DOMAIN m.tables \cup {Group(v)} |->
                       IF h = Group(v) THEN got.index ELSE m.tables[h]]
           k     == WithTable(m, b, u, tabs)
           n     == IF fresh THEN k ELSE m
           e     == Entry(kind, frame)
           r     == map_to(m, v, frame, kind)
<1>1. r = IF Group(v) \in HugeGroups \/ (fresh /\ ~got.some) THEN m
          ELSE IF fresh /\ kind = "guard" THEN WithPanic(n, TRUE)
          ELSE IF n.pte[v] # Unused THEN n
          ELSE WithEntry(n, v, e)
  BY DEF map_to, WithTable, WithEntry, WithPanic, NeedsTable
<1>2. Extends(m.tables, Group(v), got.index, tabs)
  <2> DEFINE i == got.index
             t == m.tables
  <2> HIDE DEF i, t
  <2> QED
    BY DEF Extends, i, t
<1> HIDE DEF fresh, got, b, u, tabs, e, r
<1>3. Memory(k) /\ k.pte = m.pte /\ k.panic = m.panic /\ k.bits = b /\ k.used = u /\ k.tables = tabs
  BY SMT, TableUpdate
<1> HIDE DEF k
<1>4. /\ Memory(n) /\ n.pte = m.pte /\ n.panic = m.panic
      /\ fresh => n.bits = b /\ n.used = u /\ n.tables = tabs
      /\ ~fresh => n.bits = m.bits /\ n.used = m.used /\ n.tables = m.tables
  BY <1>3
<1> HIDE DEF n
<1> DEFINE x == WithPanic(n, TRUE)
           y == WithEntry(n, v, e)
<1>5. /\ Memory(x) /\ x.pte = n.pte /\ x.panic = TRUE
      /\ x.bits = n.bits /\ x.used = n.used /\ x.tables = n.tables
  BY <1>4, PanicUpdate
<1>6. /\ Memory(y) /\ y.pte = SetEntry(n.pte, v, e) /\ y.panic = n.panic
      /\ y.bits = n.bits /\ y.used = n.used /\ y.tables = n.tables
  BY SMT, <1>4, EntryUpdate
<1> HIDE DEF x, y
<1>7. \/ r = m /\ (Group(v) \in HugeGroups \/ (fresh /\ ~got.some))
      \/ r = x /\ fresh /\ kind = "guard" /\ (fresh => got.some)
      \/ r = n /\ n.pte[v] # Unused /\ (fresh => got.some /\ kind # "guard")
      \/ r = y /\ n.pte[v] = Unused /\ (fresh => got.some /\ kind # "guard")
  BY <1>1 DEF x, y
<1>8. /\ Memory(r)
      /\ \/ r.bits = m.bits /\ r.used = m.used /\ r.tables = m.tables
         \/ fresh /\ got.some /\ r.bits = b /\ r.used = u /\ r.tables = tabs
      /\ r.pte = m.pte \/ (m.pte[v] = Unused /\ r.pte = SetEntry(m.pte, v, e))
      /\ (/\ Group(v) \notin HugeGroups /\ m.pte[v] = Unused
          /\ fresh => got.some /\ kind # "guard") => r.pte = SetEntry(m.pte, v, e)
      /\ (Group(v) \notin HugeGroups /\ kind = "guard" /\ fresh /\ got.some) => r.panic = TRUE
      /\ kind # "guard" => r.panic = m.panic
  BY <1>4, <1>5, <1>6, <1>7
<1>9. MapParts(m, v, frame, kind, r)
  BY <1>2, <1>8 DEF fresh, got, b, u, e, MapParts
<1> QED
  BY <1>9 DEF r

(* Entries other than that of v are what they were. *)
OthersKept(m, v, r) == \A w \in VPages : w # v => r.pte[w] = m.pte[w]

(* map_to changes no other entry. *)
LEMMA MapToOthers ==
  ASSUME NEW m, Memory(m), NEW v, NEW frame, NEW kind
  PROVE  OthersKept(m, v, map_to(m, v, frame, kind))
  BY SMT, MapTo DEF OthersKept

(* The entry of v in the memory r, after mapping it with that frame in m: as  *)
(* it was or set.  Unless m had a huge page there and no entry, it is set, or *)
(* the mapping panicked, or no frame is left.                                 *)
Filled(m, v, frame, kind, r) ==
  /\ r.pte[v] = m.pte[v] \/ r.pte[v] = Entry(kind, frame)
  /\ (Group(v) \in HugeGroups => m.pte[v] # Unused) =>
       r.panic \/ r.pte[v] # Unused \/ Pages(r.bits) = {}

(* The allocator and the entry of v after map_to. *)
MapFills(m, v, frame, kind, r) ==
  /\ Memory(r) /\ Sound(r.bits) /\ Merged(r.bits) /\ Pages(r.bits) \subseteq Pages(m.bits)
  /\ Filled(m, v, frame, kind, r)

(* map_to sets the entry, unless there is one or no frame is left for a page  *)
(* table.                                                                     *)
LEMMA MapToFills ==
  ASSUME NEW m, Memory(m), NEW v \in VPages, NEW frame, NEW kind \in {"stack", "guard"},
         Sound(m.bits), Merged(m.bits)
  PROVE  MapFills(m, v, frame, kind, map_to(m, v, frame, kind))
<1> DEFINE r   == map_to(m, v, frame, kind)
           got == allocate_chunk_from_level(m.bits, 0)
           e   == Entry(kind, frame)
           set == SetEntry(m.pte, v, e)
<1>1. /\ Memory(r)
      /\ \/ r.bits = m.bits
         \/ got.some /\ r.bits = got.bits
      /\ r.pte = m.pte \/ (m.pte[v] = Unused /\ r.pte = set)
      /\ (/\ Group(v) \notin HugeGroups /\ m.pte[v] = Unused
          /\ NeedsTable(m, v) => got.some /\ kind # "guard") => r.pte = set
      /\ (/\ Group(v) \notin HugeGroups /\ kind = "guard"
          /\ NeedsTable(m, v) /\ got.some) => r.panic = TRUE
  <2>1. MapParts(m, v, frame, kind, r)
    BY MapToParts
  <2> HIDE DEF r
  <2> QED
    BY <2>1 DEF MapParts
<1>2. /\ got.some => /\ Sound(got.bits) /\ Merged(got.bits)
                     /\ Pages(got.bits) = Pages(m.bits) \ {got.index}
      /\ Pages(m.bits) # {} => got.some
  BY AllocatesPage
<1> HIDE DEF r, got
<1>3. Sound(r.bits) /\ Merged(r.bits) /\ Pages(r.bits) \subseteq Pages(m.bits)
  BY <1>1, <1>2
<1>4. set[v] = e /\ e # Unused
  <2>1. m.pte = [w \in VPages |-> m.pte[w]]
    BY SMT DEF Memory
  <2>2. e.kind = kind /\ Unused.kind = "unused"
    BY DEF Entry, Unused
  <2>3. "unused" \notin {"stack", "guard"}
    OBVIOUS
  <2> DEFINE p == m.pte
  <2> HIDE DEF e, p
  <2>4. set[v] = e
    BY <2>1 DEF SetEntry, p
  <2> QED
    BY <2>2, <2>3, <2>4
<1> HIDE DEF set, e
<1>5. r.pte[v] = m.pte[v] \/ r.pte[v] = e
  BY <1>1, <1>4
<1>6. ASSUME Group(v) \in HugeGroups => m.pte[v] # Unused
      PROVE  r.panic \/ r.pte[v] # Unused \/ Pages(r.bits) = {}
  <2>1. CASE m.pte[v] # Unused
    BY <1>1, <2>1
  <2>2. CASE m.pte[v] = Unused /\ NeedsTable(m, v) /\ ~got.some
    BY <1>2, <1>3, <2>2
  <2>3. CASE m.pte[v] = Unused /\ NeedsTable(m, v) /\ got.some /\ kind = "guard"
    BY <1>1, <1>6, <2>3
  <2>4. CASE m.pte[v] = Unused /\ (NeedsTable(m, v) => got.some /\ kind # "guard")
    BY <1>1, <1>4, <1>6, <2>4
  <2> QED
    BY <2>1, <2>2, <2>3, <2>4
<1> QED
  BY <1>1, <1>3, <1>5, <1>6 DEF MapFills, Filled, r, e

(* The frames that stay reserved. *)
MapOwns(frame, kind, R, r) ==
  Memory(r) /\ Owned(r, IF kind = "stack" THEN R \ {frame} ELSE R)

(* map_to keeps the books: the frame it is given moves from the reserved ones *)
(* to the mapped ones, a page table it makes was free.                        *)
LEMMA MapToOwn ==
  ASSUME NEW m, Memory(m), NEW v \in VPages, NEW frame, NEW kind \in {"stack", "guard"},
         NEW R, Owned(m, R), kind = "stack" => frame \in R
  PROVE  MapOwns(frame, kind, R, map_to(m, v, frame, kind))
<1> DEFINE r   == map_to(m, v, frame, kind)
           got == allocate_chunk_from_level(m.bits, 0)
           set == SetEntry(m.pte, v, Entry(kind, frame))
           S   == IF kind = "stack" THEN R \ {frame} ELSE R
<1>1. /\ Memory(r)
      /\ \/ r.bits = m.bits /\ r.used = m.used /\ r.tables = m.tables
         \/ /\ NeedsTable(m, v) /\ got.some
            /\ r.bits = got.bits /\ r.used = m.used \cup {got.index}
            /\ Extends(m.tables, Group(v), got.index, r.tables)
      /\ r.pte = m.pte \/ (m.pte[v] = Unused /\ r.pte = set)
  <2>1. MapParts(m, v, frame, kind, r)
    BY MapToParts
  <2> HIDE DEF r
  <2> QED
    BY <2>1 DEF MapParts
<1> HIDE DEF r
<1>2. Sound(m.bits) /\ Merged(m.bits) /\ Own(m.bits, m.used, m.pte, m.tables, R)
  BY DEF Owned, Own
<1>3. got.some => /\ got.index \in Pages(m.bits) /\ Sound(got.bits) /\ Merged(got.bits)
                  /\ Pages(got.bits) = Pages(m.bits) \ {got.index}
  BY <1>2, AllocatesPage
<1> HIDE DEF got
<1>4. Own(r.bits, r.used, m.pte, r.tables, R)
  <2>1. CASE r.bits = m.bits /\ r.used = m.used /\ r.tables = m.tables
    BY <1>2, <2>1
  <2>2. CASE /\ NeedsTable(m, v) /\ got.some
             /\ r.bits = got.bits /\ r.used = m.used \cup {got.index}
             /\ Extends(m.tables, Group(v), got.index, r.tables)
    <3> DEFINE b == m.bits
               u == m.used
               t == m.tables
               f == got.index
               c == got.bits
               s == r.tables
               g == Group(v)
               p == m.pte
    <3>1. Own(b, u, p, t, R) /\ f \in Pages(b) /\ Sound(c) /\ Merged(c) /\ Pages(c) = Pages(b) \ {f}
          /\ Extends(t, g, f, s)
      BY <1>2, <1>3, <2>2
    <3> HIDE DEF b, u, t, f, c, s, g, p
    <3>2. Own(c, u \cup {f}, p, s, R)
      BY <3>1, OwnTable
    <3> QED
      BY <2>2, <3>2 DEF u, f, c, s, p
  <2> QED
    BY <1>1, <2>1, <2>2
<1> DEFINE p == m.pte
           b == r.bits
           u == r.used
           t == r.tables
           e == Entry(kind, frame)
           q == [p EXCEPT ![v] = e]
<1>5. p = [w \in VPages |-> p[w]]
  BY SMT DEF Memory
<1>6. set = q /\ Unused.kind # "stack"
  BY DEF Unused, SetEntry
<1> HIDE DEF set, p, b, u, t
<1>7. Own(b, u, p, t, R)
  BY <1>4 DEF p, b, u, t
<1>8. CASE kind = "stack"
  <2>1. frame \in R /\ S = R \ {frame} /\ q = [p EXCEPT ![v] = Entry("stack", frame)]
    BY <1>8
  <2>2. Own(b, u, p, t, R \ {frame})
    <3>1. R \ {frame} \subseteq R
      OBVIOUS
    <3> QED
      BY <1>7, <3>1, OwnLess
  <2> HIDE DEF S, q
  <2>3. Own(b, u, q, t, R \ {frame})
    BY <1>5, <1>7, <2>1, OwnEntry
  <2>4. r.pte = p \/ r.pte = q
    BY <1>1, <1>6 DEF p
  <2>5. Owned(r, S)
    BY <2>1, <2>2, <2>3, <2>4 DEF Owned, b, u, t
  <2> QED
    BY <1>1, <2>5 DEF r, S, MapOwns
<1>9. CASE kind = "guard"
  <2>1. S = R /\ e.kind # "stack"
    BY <1>9 DEF Entry
  <2> HIDE DEF S, e
  <2>2. p[v].kind # "stack" => Own(b, u, q, t, R)
    BY <1>5, <1>7, <2>1, OwnGuard
  <2> HIDE DEF q
  <2>3. r.pte = p \/ (p[v].kind # "stack" /\ r.pte = q)
    BY <1>1, <1>6 DEF p
  <2>4. Owned(r, S)
    BY <1>7, <2>1, <2>2, <2>3 DEF Owned, b, u, t
  <2> QED
    BY <1>1, <2>4 DEF r, S, MapOwns
<1> QED
  BY <1>8, <1>9

(* Each page has one turn, and every turn is that of a page. *)
LEMMA Turns ==
  ASSUME NEW pages \in SUBSET VPages
  PROVE  /\ Cardinality(pages) \in Nat
         /\ \A v \in pages : \E i \in 1..Cardinality(pages) : Ranked(pages, i) = v
         /\ \A i \in 1..Cardinality(pages) : Ranked(pages, i) \in pages
         /\ \A i, j \in 1..Cardinality(pages) : Ranked(pages, i) = Ranked(pages, j) => i = j
<1>1. IsFiniteSet(pages) /\ pages \in SUBSET Int
  <2>1. IsFiniteSet(VPages) /\ VPages \subseteq Int
    <3>1. 0 \in Int /\ SchedBottom + SCHEDULER_STACK_SIZE + 1 \in Int
      BY SMT, StackAssumption
    <3>2. IsFiniteSet(VPages)
      BY <3>1, FS_Interval DEF VPages
    <3> QED
      BY SMT, <3>1, <3>2 DEF VPages
  <2>2. IsFiniteSet(pages)
    BY <2>1, FS_Subset
  <2> QED
    BY <2>1, <2>2
<1>2. Cardinality(pages) \in Nat
  BY <1>1, FS_CardinalityType
<1>3. CASE pages = {}
  <2>1. Cardinality(pages) = 0
    BY <1>3, FS_EmptySet
  <2> QED
    BY SMT, <1>3, <2>1
<1>4. CASE pages # {}
  <2> DEFINE below(v) == Cardinality({q \in pages : q < v})
             N == Cardinality(pages)
  <2>1. /\ \A v \in pages : \E i \in 1..N : Ranked(pages, i) = v
        /\ \A i \in 1..N : Ranked(pages, i) \in pages /\ below(Ranked(pages, i)) = i - 1
    BY <1>1, <1>4, Ranks
  <2> HIDE DEF below
  <2>2. ASSUME NEW i \in 1..N, NEW j \in 1..N, Ranked(pages, i) = Ranked(pages, j) PROVE i = j
    <3>1. i - 1 = j - 1
      BY <2>1, <2>2
    <3> QED
      BY SMT, <1>2, <3>1
  <2> QED
    BY <1>2, <2>1, <2>2
<1> QED
  BY <1>3, <1>4

(* The memory r after mapping the pages one by one in m. *)
MapAllFills(m, pages, frameOf, kind, r) ==
  /\ Memory(r) /\ Pages(r.bits) \subseteq Pages(m.bits)
  /\ \A w \in VPages \ pages : r.pte[w] = m.pte[w]
  /\ \A v \in pages : Filled(m, v, frameOf[v], kind, r)

(* MapAll leaves every page with an entry unless it panics or no frame is     *)
(* left: an entry set stays, and frames only get fewer.                       *)
LEMMA MapAllFilled ==
  ASSUME NEW m, Memory(m), NEW pages \in SUBSET VPages, NEW frameOf, NEW kind \in {"stack", "guard"},
         Sound(m.bits), Merged(m.bits)
  PROVE  MapAllFills(m, pages, frameOf, kind, MapAll(m, pages, frameOf, kind))
<1> DEFINE N       == Cardinality(pages)
           Done(i) == {Ranked(pages, j) : j \in 1..i}
<1>1. /\ N \in Nat
      /\ \A v \in pages : \E i \in 1..N : Ranked(pages, i) = v
      /\ \A i \in 1..N : Ranked(pages, i) \in pages
      /\ \A i, j \in 1..N : Ranked(pages, i) = Ranked(pages, j) => i = j
  BY Turns
<1>2. PICK f : /\ MapAll(m, pages, frameOf, kind) = f[N]
               /\ f[0] = m
               /\ \A i \in 1..N : f[i] = MapNext(f[i - 1], Ranked(pages, i), frameOf, kind)
  BY SMT, <1>1, MapAllPasses
<1> DEFINE Ok(n, D) ==
             /\ Memory(n) /\ Sound(n.bits) /\ Merged(n.bits) /\ Pages(n.bits) \subseteq Pages(m.bits)
             /\ \A w \in VPages : w \notin D => n.pte[w] = m.pte[w]
             /\ \A w \in D : Filled(m, w, frameOf[w], kind, n)
           So(i) == Ok(f[i], Done(i)) \/ (f[i].panic /\ Ok(f[i], pages))
           T     == {i \in Nat : i <= N => So(i)}
<1>3. Done(0) = {} /\ Done(N) = pages
  <2>1. Done(0) = {}
    BY SMT
  <2>2. Done(N) = pages
    BY SMT, <1>1
  <2> QED
    BY <2>1, <2>2
<1>4. 0 \in T
  <2>1. So(0)
    <3> HIDE DEF Done
    <3> QED
      BY <1>2, <1>3
  <2> QED
    BY <2>1
<1>5. ASSUME NEW i \in T PROVE i + 1 \in T
  <2> SUFFICES ASSUME i + 1 <= N PROVE So(i + 1)
    <3>1. i + 1 \in Nat
      BY SMT
    <3> HIDE DEF So, N
    <3> QED
      BY <3>1
  <2> DEFINE v == Ranked(pages, i + 1)
             n == f[i]
             r == f[i + 1]
             fr == frameOf[v]
  <2>1. i + 1 \in 1..N /\ i + 1 - 1 = i /\ i <= N /\ i \in Nat
    BY SMT, <1>1
  <2>2. So(i)
    BY <2>1
  <2>3. v \in pages /\ v \in VPages
    BY <1>1, <2>1
  <2>4. v \notin Done(i)
    <3> SUFFICES ASSUME NEW j \in 1..i, Ranked(pages, j) = v PROVE FALSE
      OBVIOUS
    <3>1. j \in 1..N /\ j # i + 1
      BY SMT, <1>1, <2>1
    <3> QED
      BY <1>1, <2>1, <3>1
  <2>5. Done(i + 1) = Done(i) \cup {v} /\ Done(i) \subseteq pages
    <3>1. 1..(i + 1) = (1..i) \cup {i + 1}
      BY SMT, <2>1
    <3>2. \A j \in 1..i : j \in 1..N
      BY SMT, <1>1, <2>1
    <3> QED
      BY SMT, <1>1, <3>1, <3>2
  <2>6. r = IF n.panic THEN n ELSE map_to(n, v, fr, kind)
    BY SMT, <1>2, <2>1 DEF MapNext
  <2> HIDE DEF Done, v, n, r, fr
  <2>7. CASE n.panic
    <3>1. r = n
      BY <2>6, <2>7
    <3>2. Ok(n, Done(i)) => Ok(n, pages)
      <4> SUFFICES ASSUME Ok(n, Done(i)) PROVE Ok(n, pages)
        OBVIOUS
      <4>1. \A w \in VPages : w \notin pages => n.pte[w] = m.pte[w]
        BY <2>5
      <4>2. ASSUME NEW w \in pages PROVE Filled(m, w, frameOf[w], kind, n)
        <5>1. CASE w \in Done(i)
          BY <5>1
        <5>2. CASE w \notin Done(i)
          <6>1. n.pte[w] = m.pte[w]
            BY <5>2
          <6> QED
            BY <2>7, <6>1 DEF Filled
        <5> QED
          BY <5>1, <5>2
      <4> QED
        BY <4>1, <4>2
    <3> HIDE DEF Ok
    <3> QED
      BY <2>2, <2>7, <3>1, <3>2 DEF n, r
  <2>8. CASE ~n.panic
    <3>1. r = map_to(n, v, fr, kind) /\ Ok(n, Done(i))
      BY <2>2, <2>6, <2>8 DEF n
    <3>2. MapFills(n, v, fr, kind, r)
      BY <2>3, <3>1, MapToFills
    <3>3. OthersKept(n, v, r)
      BY <3>1, MapToOthers
    <3>4. /\ Memory(r) /\ Sound(r.bits) /\ Merged(r.bits) /\ Pages(r.bits) \subseteq Pages(n.bits)
          /\ Pages(r.bits) \subseteq Pages(m.bits)
      BY <3>1, <3>2 DEF MapFills
    <3>5. \A w \in VPages : w \notin Done(i + 1) => r.pte[w] = m.pte[w]
      BY <2>5, <3>1, <3>3 DEF OthersKept
    <3>6. ASSUME NEW w \in Done(i) PROVE Filled(m, w, frameOf[w], kind, r)
      <4>1. Filled(m, w, frameOf[w], kind, n)
        BY <3>1
      <4>2. r.pte[w] = n.pte[w]
        BY <2>4, <2>5, <3>3 DEF OthersKept
      <4> QED
        BY <2>8, <3>4, <4>1, <4>2 DEF Filled
    <3>7. Filled(m, v, frameOf[v], kind, r)
      <4>1. Filled(n, v, fr, kind, r) /\ n.pte[v] = m.pte[v]
        BY <2>3, <2>4, <3>1, <3>2 DEF MapFills
      <4> QED
        BY <4>1 DEF Filled, fr
    <3>8. Ok(r, Done(i + 1))
      BY <2>5, <3>4, <3>5, <3>6, <3>7
    <3> HIDE DEF Ok
    <3> QED
      BY <3>8 DEF r
  <2> QED
    BY <2>7, <2>8
<1>6. T = Nat
  <2> HIDE DEF T
  <2> QED
    BY <1>4, <1>5, SetInduction DEF T
<1>7. So(N)
  <2>1. N \in T /\ N \in Nat
    <3> HIDE DEF T
    <3> QED
      BY <1>1, <1>6
  <2> HIDE DEF So, N
  <2> QED
    BY SMT, <2>1
<1> HIDE DEF Done, N
<1>8. Ok(f[N], pages)
  BY <1>3, <1>7
<1> QED
  BY <1>2, <1>8 DEF MapAllFills

(* What mapping the pages of a stack one by one leaves, with R the frames   *)
(* kept for others before. *)
MapAllLeaves(m, pages, frameOf, R) ==
  LET r == MapAll(m, pages, frameOf, "stack")
  IN  ~r.panic /\ Owned(r, R \ {frameOf[v] : v \in pages})

(* MapAll for page_region: every reserved frame it is given has become that   *)
(* of its page, or of none where map_to failed.                               *)
LEMMA MapAllOwn ==
  ASSUME NEW m, Memory(m), ~m.panic, NEW pages \in SUBSET VPages, NEW frameOf, NEW R, Owned(m, R),
         \A v \in pages : frameOf[v] \in R,
         \A v, w \in pages : frameOf[v] = frameOf[w] => v = w
  PROVE  MapAllLeaves(m, pages, frameOf, R)
<1> DEFINE N == Cardinality(pages)
<1>1. /\ N \in Nat
      /\ \A v \in pages : \E i \in 1..N : Ranked(pages, i) = v
      /\ \A i \in 1..N : Ranked(pages, i) \in pages
      /\ \A i, j \in 1..N : Ranked(pages, i) = Ranked(pages, j) => i = j
  BY Turns
<1>2. PICK f : /\ MapAll(m, pages, frameOf, "stack") = f[N]
               /\ f[0] = m
               /\ \A i \in 1..N : f[i] = MapNext(f[i - 1], Ranked(pages, i), frameOf, "stack")
  <2> DEFINE kind == "stack"
  <2> HIDE DEF kind
  <2>1. \E f : /\ MapAll(m, pages, frameOf, kind) = f[Cardinality(pages)]
               /\ f[0] = m
               /\ \A i \in 1..Cardinality(pages) :
                    f[i] = MapNext(f[i - 1], Ranked(pages, i), frameOf, kind)
    <3>1. Cardinality(pages) \in Nat
      BY <1>1
    <3> QED
      BY SMT, <3>1, MapAllPasses
  <2> QED
    BY <2>1 DEF kind
<1> DEFINE Done(i) == {Ranked(pages, j) : j \in 1..i}
           Left(i) == R \ {frameOf[v] : v \in Done(i)}
           So(i)   == Memory(f[i]) /\ ~f[i].panic /\ Owned(f[i], Left(i))
           T       == {i \in Nat : i <= N => So(i)}
<1>3. Done(0) = {} /\ Left(0) = R /\ Done(N) = pages
  <2>1. Done(0) = {}
    BY SMT
  <2>2. Done(N) = pages
    BY SMT, <1>1
  <2> HIDE DEF Done
  <2> QED
    BY <2>1, <2>2
<1>4. 0 \in T
  <2>1. So(0)
    <3> HIDE DEF Done, Left
    <3> QED
      BY <1>2, <1>3
  <2> QED
    BY <2>1
<1>5. ASSUME NEW i \in T PROVE i + 1 \in T
  <2> SUFFICES ASSUME i + 1 <= N PROVE So(i + 1)
    <3>1. i + 1 \in Nat
      BY SMT
    <3> HIDE DEF So, N
    <3> QED
      BY <3>1
  <2> DEFINE v == Ranked(pages, i + 1)
             n == f[i]
             r == f[i + 1]
  <2>1. i + 1 \in 1..N /\ i + 1 - 1 = i /\ i <= N /\ i \in Nat
    BY SMT, <1>1
  <2>2. So(i)
    BY <2>1
  <2>3. v \in pages /\ v \in VPages
    BY <1>1, <2>1
  <2>4. v \notin Done(i)
    <3> SUFFICES ASSUME NEW j \in 1..i, Ranked(pages, j) = v PROVE FALSE
      OBVIOUS
    <3>1. j \in 1..N /\ j # i + 1
      BY SMT, <1>1, <2>1
    <3> QED
      BY <1>1, <2>1, <3>1
  <2>5. Done(i + 1) = Done(i) \cup {v} /\ Done(i) \subseteq pages
    <3>1. 1..(i + 1) = (1..i) \cup {i + 1}
      BY SMT, <2>1
    <3>2. \A j \in 1..i : j \in 1..N
      BY SMT, <1>1, <2>1
    <3> QED
      BY SMT, <1>1, <3>1, <3>2
  <2> HIDE DEF Done, v
  <2>6. Left(i + 1) = Left(i) \ {frameOf[v]} /\ frameOf[v] \in Left(i)
    <3>1. \A w \in Done(i) : frameOf[w] # frameOf[v]
      BY <2>3, <2>4, <2>5
    <3>2. frameOf[v] \in R
      BY <2>3
    <3> QED
      BY SMT, <2>5, <3>1, <3>2
  <2> HIDE DEF Left
  <2> DEFINE fr == frameOf[v]
  <2>7. r = map_to(n, v, fr, "stack")
    <3>1. r = MapNext(n, v, frameOf, "stack")
      BY SMT, <1>2, <2>1 DEF v
    <3> QED
      BY <2>2, <3>1 DEF MapNext
  <2>8. Memory(n) /\ ~n.panic /\ Owned(n, Left(i)) /\ fr \in Left(i) /\ "stack" \in {"stack", "guard"}
    BY <2>2, <2>6
  <2> HIDE DEF n, r, fr
  <2>9. Memory(r) /\ Owned(r, Left(i) \ {fr})
    <3>1. MapOwns(fr, "stack", Left(i), r)
      BY <2>3, <2>7, <2>8, MapToOwn
    <3> QED
      BY <3>1 DEF MapOwns
  <2>10. r.panic = n.panic
    <3>1. MapParts(n, v, fr, "stack", r) /\ "stack" # "guard"
      BY <2>7, <2>8, MapToParts
    <3> QED
      BY <3>1 DEF MapParts
  <2> QED
    BY <2>6, <2>8, <2>9, <2>10 DEF r, fr
<1>6. T = Nat
  <2> HIDE DEF T
  <2> QED
    BY <1>4, <1>5, SetInduction DEF T
<1>7. So(N)
  <2>1. N \in T /\ N \in Nat
    <3> HIDE DEF T
    <3> QED
      BY <1>1, <1>6
  <2> HIDE DEF So, N
  <2> QED
    BY SMT, <2>1
<1> HIDE DEF Done, N
<1>8. Left(N) = R \ {frameOf[v] : v \in pages}
  BY <1>3
<1> HIDE DEF Left
<1> QED
  BY <1>2, <1>7, <1>8 DEF MapAllLeaves

(* MapAll for guard pages. *)
LEMMA MapAllGuards ==
  ASSUME NEW m, Memory(m), NEW pages \in SUBSET VPages, NEW frameOf, NEW R, Owned(m, R)
  PROVE  LET r == MapAll(m, pages, frameOf, "guard")
         IN  Owned(r, R) /\ MapAllFills(m, pages, frameOf, "guard", r)
<1> DEFINE N == Cardinality(pages)
<1>1. N \in Nat /\ \A i \in 1..N : Ranked(pages, i) \in pages
  BY Turns
<1>2. PICK f : /\ MapAll(m, pages, frameOf, "guard") = f[N]
               /\ f[0] = m
               /\ \A i \in 1..N : f[i] = MapNext(f[i - 1], Ranked(pages, i), frameOf, "guard")
  BY SMT, <1>1, MapAllPasses
<1> DEFINE Ok(n) == Memory(n) /\ Owned(n, R)
           T == {i \in Nat : i <= N => Ok(f[i])}
<1>3. 0 \in T
  BY <1>2
<1>4. ASSUME NEW i \in T PROVE i + 1 \in T
  <2> SUFFICES ASSUME i + 1 <= N PROVE Ok(f[i + 1])
    <3>1. i + 1 \in Nat
      BY SMT
    <3> HIDE DEF Ok, N
    <3> QED
      BY <3>1
  <2> DEFINE v == Ranked(pages, i + 1)
             n == f[i]
             r == f[i + 1]
             fr == frameOf[v]
  <2>1. i + 1 \in 1..N /\ i + 1 - 1 = i /\ i <= N /\ i \in Nat
    BY SMT, <1>1
  <2>2. Ok(n)
    BY <2>1
  <2>3. v \in pages /\ v \in VPages
    BY <1>1, <2>1
  <2>4. r = n \/ r = map_to(n, v, fr, "guard")
    <3>1. r = MapNext(n, v, frameOf, "guard")
      BY SMT, <1>2, <2>1
    <3> QED
      BY <3>1 DEF MapNext
  <2> HIDE DEF n, r, v, fr
  <2>5. ASSUME r = map_to(n, v, fr, "guard") PROVE Ok(r)
    <3>1. MapOwns(fr, "guard", R, r) /\ "guard" # "stack"
      BY <2>2, <2>3, <2>5, MapToOwn
    <3> QED
      BY <3>1 DEF MapOwns
  <2> QED
    BY <2>2, <2>4, <2>5 DEF r
<1>5. T = Nat
  <2> HIDE DEF T
  <2> QED
    BY <1>3, <1>4, SetInduction DEF T
<1>6. Ok(f[N])
  BY SMT, <1>1, <1>5
<1>7. Sound(m.bits) /\ Merged(m.bits) /\ "guard" \in {"stack", "guard"}
  BY DEF Owned, Own
<1> QED
  BY <1>2, <1>6, <1>7, MapAllFilled

(* Page tables for the heap or a device: each is a frame that was free, and   *)
(* none takes the place of an earlier one.                                    *)
LEMMA WithTablesOwn ==
  ASSUME NEW m, Memory(m), NEW gs, IsFiniteSet(gs), NEW R, Owned(m, R), gs \cap DOMAIN m.tables = {}
  PROVE  LET r == WithTables(m, gs).m
         IN  /\ Memory(r) /\ r.pte = m.pte /\ Owned(r, R) /\ Pages(r.bits) \subseteq Pages(m.bits)
             /\ DOMAIN r.tables \subseteq DOMAIN m.tables \cup gs
<1> DEFINE N == Cardinality(gs)
<1>1. N \in Nat
  BY FS_CardinalityType
<1>2. PICK f : /\ WithTables(m, gs) = f[N]
               /\ f[0] = [ok |-> TRUE, m |-> m]
               /\ \A i \in 1..N : f[i] = TablesNext(f[i - 1], gs)
  BY SMT, <1>1, WithTablesPasses
<1> DEFINE Ok(n) == Memory(n) /\ n.pte = m.pte /\ Owned(n, R) /\ Pages(n.bits) \subseteq Pages(m.bits)
           Few(n, i) == \E made \in SUBSET gs : /\ DOMAIN n.tables = DOMAIN m.tables \cup made
                                                /\ IsFiniteSet(made) /\ Cardinality(made) <= i
           So(i) == Ok(f[i].m) /\ Few(f[i].m, i)
           T == {i \in Nat : i <= N => So(i)}
<1>3. 0 \in T
  <2>1. f[0].m = m
    BY SMT, <1>2
  <2>2. Ok(m)
    OBVIOUS
  <2>3. Few(m, 0)
    <3>1. IsFiniteSet({}) /\ Cardinality({}) = 0 /\ {} \in SUBSET gs
      BY FS_EmptySet
    <3>2. Cardinality({}) <= 0
      BY SMT, <3>1
    <3>3. DOMAIN m.tables = DOMAIN m.tables \cup {}
      OBVIOUS
    <3> QED
      BY <3>1, <3>2, <3>3
  <2>4. So(0)
    BY <2>1, <2>2, <2>3
  <2> HIDE DEF So
  <2> QED
    BY <2>4
<1>4. ASSUME NEW i \in T PROVE i + 1 \in T
  <2> SUFFICES ASSUME i + 1 <= N PROVE So(i + 1)
    <3>1. i + 1 \in Nat
      BY SMT
    <3> HIDE DEF So, N
    <3> QED
      BY <3>1
  <2>1. i + 1 \in 1..N /\ i + 1 - 1 = i /\ i <= N /\ i \in Nat /\ i < N
    BY SMT, <1>1
  <2>2. f[i + 1] = TablesNext(f[i], gs) /\ So(i)
    BY SMT, <1>2, <2>1
  <2> DEFINE n   == f[i].m
             got == allocate_chunk_from_level(n.bits, 0)
             g   == CHOOSE h \in gs \ DOMAIN n.tables : TRUE
             fr  == got.index
             b   == got.bits
             u   == n.used \cup {fr}
             t   == [h \in DOMAIN n.tables \cup {g} |-> IF h = g THEN fr ELSE n.tables[h]]
             k   == WithTable(n, b, u, t)
  <2>3. f[i + 1] = [ok |-> FALSE, m |-> n] \/ (got.some /\ f[i + 1] = [ok |-> TRUE, m |-> k])
    BY <2>2 DEF TablesNext
  <2>4. PICK made \in SUBSET gs : /\ DOMAIN n.tables = DOMAIN m.tables \cup made
                                  /\ IsFiniteSet(made) /\ Cardinality(made) <= i
    BY <2>2
  <2>5. Cardinality(made) \in Nat
    BY <2>4, FS_CardinalityType
  <2>6. Ok(n)
    BY <2>2
  <2>7. g \in gs /\ g \notin DOMAIN n.tables /\ g \notin made
    <3>1. made # gs
      BY SMT, <1>1, <2>1, <2>4, <2>5
    <3>2. PICK h \in gs : h \notin made
      BY <3>1
    <3>3. h \in gs \ DOMAIN n.tables
      BY <2>4, <3>2
    <3>4. g \in gs \ DOMAIN n.tables
      BY <3>3
    <3> QED
      BY <2>4, <3>4
  <2> DEFINE more == made \cup {g}
  <2>8. more \in SUBSET gs /\ IsFiniteSet(more) /\ Cardinality(more) <= i + 1
    <3>1. IsFiniteSet(more) /\ Cardinality(more) = Cardinality(made) + 1
      BY <2>4, <2>7, FS_AddElement
    <3> QED
      BY SMT, <2>1, <2>4, <2>5, <2>7, <3>1
  <2>9. Extends(n.tables, g, fr, t)
    <3> DEFINE old == n.tables
    <3> HIDE DEF old, g, fr
    <3> QED
      BY DEF Extends, old
  <2> HIDE DEF n, got, g, t, more
  <2>10. Few(n, i + 1)
    <3>1. Cardinality(made) <= i + 1
      BY SMT, <2>1, <2>4, <2>5
    <3> QED
      BY <2>4, <3>1
  <2>11. CASE f[i + 1] = [ok |-> FALSE, m |-> n]
    <3>1. f[i + 1].m = n
      BY SMT, <2>11
    <3> QED
      BY <2>6, <2>10, <3>1
  <2>12. CASE got.some /\ f[i + 1] = [ok |-> TRUE, m |-> k]
    <3>1. f[i + 1].m = k
      <4> HIDE DEF k
      <4> QED
        BY SMT, <2>12
    <3>2. Memory(n) /\ n.pte = m.pte /\ Owned(n, R)
      BY <2>6
    <3> HIDE DEF b, u, fr
    <3>3. Memory(k) /\ k.pte = n.pte /\ k.bits = b /\ k.used = u /\ k.tables = t
      <4>1. TableMade(n, b, u, t, k)
        BY <3>2, TableIsMade
      <4> QED
        BY <4>1 DEF TableMade
    <3> HIDE DEF k
    <3>4. Sound(n.bits) /\ Merged(n.bits)
      BY <3>2 DEF Owned, Own
    <3>5. fr \in Pages(n.bits) /\ Sound(b) /\ Merged(b) /\ Pages(b) = Pages(n.bits) \ {fr}
      BY <2>12, <3>4, AllocatesPage DEF b, fr, got
    <3>6. Own(b, u, n.pte, t, R)
      <4> DEFINE b0 == n.bits
                 u0 == n.used
                 p0 == n.pte
                 t0 == n.tables
      <4>1. /\ Own(b0, u0, p0, t0, R) /\ u = u0 \cup {fr} /\ Extends(t0, g, fr, t)
            /\ fr \in Pages(b0) /\ Pages(b) = Pages(b0) \ {fr}
        BY <2>9, <3>2, <3>5 DEF Owned, u
      <4> HIDE DEF b0, u0, p0, t0
      <4>2. Own(b, u0 \cup {fr}, p0, t, R)
        BY <3>5, <4>1, OwnTable
      <4> QED
        BY <4>1, <4>2 DEF p0
    <3>7. Owned(k, R)
      BY <3>3, <3>6 DEF Owned
    <3>8. Pages(k.bits) \subseteq Pages(m.bits)
      BY <2>6, <3>3, <3>5
    <3>9. DOMAIN k.tables = DOMAIN m.tables \cup more
      BY <2>4, <2>9, <3>3 DEF Extends, more
    <3>10. Ok(k) /\ Few(k, i + 1)
      BY <2>6, <2>8, <3>2, <3>3, <3>7, <3>8, <3>9
    <3> QED
      BY <3>1, <3>10
  <2> QED
    BY <2>3, <2>11, <2>12
<1>5. T = Nat
  <2> HIDE DEF T
  <2> QED
    BY <1>3, <1>4, SetInduction DEF T
<1>6. So(N)
  BY SMT, <1>1, <1>5
<1>7. DOMAIN f[N].m.tables \subseteq DOMAIN m.tables \cup gs
  BY <1>6
<1> QED
  BY <1>2, <1>6, <1>7

(* The entry of v after page_region: as it was or that of a stack page.       *)
(* Unless m had a huge page there and no entry, it is set or no frame is left.*)
Paged(m, v, r) ==
  /\ r.pte[v] = m.pte[v] \/ r.pte[v].kind = "stack"
  /\ (Group(v) \in HugeGroups => m.pte[v] # Unused) =>
       r.pte[v] # Unused \/ Pages(r.bits) = {}

(* What page_region leaves in m when it maps the n pages from first, with H  *)
(* the frames of the heap.                                                    *)
RegionKeeps(m, first, n, pages, H) ==
  LET region == page_region(m, first, n)
      r      == region.m
      some   == pick_off_contiguous(m.bits, n, 1).some
  IN  /\ Memory(r) /\ ~r.panic /\ Owned(r, H) /\ Pages(r.bits) \subseteq Pages(m.bits)
      /\ \A w \in VPages \ pages : r.pte[w] = m.pte[w]
      /\ ~some => r = m
      /\ some => \A v \in pages : Paged(m, v, r)

(* page_region keeps the books, and leaves every page with an entry unless    *)
(* the allocator refuses the frames or none is left for a page table.         *)
LEMMA PageRegionOwn ==
  ASSUME NEW m, Memory(m), ~m.panic, NEW first \in Int, NEW n \in Nat \ {0}, n <= 2^BUDDY_LEVELS,
         NEW pages, pages = first..(first + n - 1), pages \subseteq VPages, NEW H, Owned(m, H)
  PROVE  RegionKeeps(m, first, n, pages, H)
<1> DEFINE got == pick_off_contiguous(m.bits, n, 1)
           page == got.page
           run == page..(page + n - 1)
           b   == got.bits
           u   == m.used \cup run
           m0  == WithFrames(m, b, u)
           frameOf == [v \in pages |-> page + (v - first)]
           all == MapAll(m0, pages, frameOf, "stack")
           r   == page_region(m, first, n).m
<1>1. page_region(m, first, n) = IF got.some THEN [ok |-> TRUE, m |-> all] ELSE [ok |-> FALSE, m |-> m]
  BY DEF page_region, WithFrames
<1>2. (got.some => r = all) /\ (~got.some => r = m)
  <2> HIDE DEF got, all
  <2> QED
    BY SMT, <1>1
<1>3. CASE ~got.some
  <2>1. r = m
    BY <1>2, <1>3
  <2> HIDE DEF r, got
  <2> QED
    BY <1>3, <2>1 DEF r, got, RegionKeeps
<1>4. CASE got.some
  <2>1. Sound(m.bits) /\ Merged(m.bits) /\ Own(m.bits, m.used, m.pte, m.tables, H)
    BY DEF Owned, Own
  <2>2. /\ page \in Int /\ run \subseteq Pages(m.bits) /\ Sound(b) /\ Merged(b)
        /\ Pages(b) = Pages(m.bits) \ run
    BY <1>4, <2>1, PicksOff DEF Pow
  <2>3. r = all
    BY <1>2, <1>4
  <2>4. /\ \A v \in pages : frameOf[v] \in run
        /\ \A v, w \in pages : frameOf[v] = frameOf[w] => v = w
        /\ {frameOf[v] : v \in pages} = run
    <3> HIDE DEF page
    <3>1. ASSUME NEW v \in pages PROVE frameOf[v] = page + (v - first) /\ v \in Int /\ frameOf[v] \in run
      BY SMT, <2>2
    <3>2. ASSUME NEW v \in pages, NEW w \in pages, frameOf[v] = frameOf[w] PROVE v = w
      BY SMT, <2>2, <3>1, <3>2
    <3>3. ASSUME NEW f \in run PROVE \E v \in pages : frameOf[v] = f
      <4> DEFINE v == first + (f - page)
      <4>1. f \in Int /\ page <= f /\ f <= page + n - 1 /\ page \in Int
        BY SMT, <2>2
      <4>2. v \in Int /\ first <= v /\ v <= first + n - 1 /\ f = page + (v - first)
        BY SMT, <4>1
      <4> HIDE DEF v, frameOf
      <4>3. v \in pages
        BY SMT, <4>2
      <4> QED
        BY <3>1, <4>2, <4>3
    <3> HIDE DEF frameOf, run
    <3> QED
      BY SMTT(30), <3>1, <3>2, <3>3
  <2> HIDE DEF r, got, frameOf, run, b, u
  <2>5. /\ Memory(m0) /\ m0.pte = m.pte /\ m0.panic = m.panic
        /\ m0.bits = b /\ m0.used = u /\ m0.tables = m.tables
    BY SMT, FramesUpdate
  <2> HIDE DEF m0
  <2>6. Own(b, u, m.pte, m.tables, H \cup run) /\ H \cap run = {}
    <3> DEFINE b0 == m.bits
               u0 == m.used
               p0 == m.pte
               t0 == m.tables
    <3>1. /\ Own(b0, u0, p0, t0, H) /\ u = u0 \cup run /\ run \subseteq Pages(b0)
          /\ Pages(b) = Pages(b0) \ run
      BY <2>1, <2>2 DEF u
    <3> HIDE DEF b0, u0, p0, t0
    <3>2. Own(b, u0 \cup run, p0, t0, H \cup run) /\ H \cap run = {}
      BY ZenonT(30), <2>2, <3>1, OwnFrames
    <3> QED
      BY <3>1, <3>2 DEF p0, t0
  <2>7. Owned(m0, H \cup run) /\ ~m0.panic
    BY <2>5, <2>6 DEF Owned
  <2> DEFINE R == H \cup run
  <2>8. (\A v \in pages : frameOf[v] \in R) /\ R \ {frameOf[v] : v \in pages} = H
    BY <2>4, <2>6
  <2> HIDE DEF R
  <2>9. Owned(m0, R) /\ pages \in SUBSET VPages /\ Sound(m0.bits) /\ Merged(m0.bits)
    BY <2>2, <2>5, <2>7 DEF R
  <2>10. ~all.panic /\ Owned(all, H)
    <3>1. /\ Memory(m0) /\ ~m0.panic /\ pages \in SUBSET VPages /\ Owned(m0, R)
          /\ \A v \in pages : frameOf[v] \in R
          /\ \A v, w \in pages : frameOf[v] = frameOf[w] => v = w
      BY <2>4, <2>5, <2>7, <2>8, <2>9
    <3>2. MapAllLeaves(m0, pages, frameOf, R)
      BY <3>1, MapAllOwn
    <3> HIDE DEF all
    <3> QED
      BY <2>8, <3>2 DEF MapAllLeaves, all
  <2>11. MapAllFills(m0, pages, frameOf, "stack", all)
    <3>1. "stack" \in {"stack", "guard"}
      OBVIOUS
    <3> QED
      BY <2>5, <2>9, <3>1, MapAllFilled
  <2> HIDE DEF all
  <2>12. Memory(all) /\ Pages(all.bits) \subseteq Pages(m.bits)
    BY <2>2, <2>5, <2>11 DEF MapAllFills
  <2>13. \A w \in VPages \ pages : all.pte[w] = m.pte[w]
    BY <2>5, <2>11 DEF MapAllFills
  <2>14. ASSUME NEW v \in pages PROVE Paged(m, v, all)
    <3>1. Filled(m0, v, frameOf[v], "stack", all)
      BY <2>11 DEF MapAllFills
    <3>2. Entry("stack", frameOf[v]).kind = "stack"
      BY DEF Entry
    <3> QED
      BY <2>5, <2>10, <3>1, <3>2 DEF Filled, Paged
  <2> QED
    BY <1>4, <2>3, <2>10, <2>12, <2>13, <2>14 DEF r, got, RegionKeeps
<1> QED
  BY <1>3, <1>4

-----------------------------------------------------------------------------
(* The frames of the heap *)

(* The heap's frames start at a huge frame: the chunk they are cut from is at *)
(* least as large.                                                            *)
LEMMA HeapAligned ==
  ASSUME NEW bits, Sound(bits), pick_off_contiguous(bits, HeapPages, 2^LEVEL_2MIB).some
  PROVE  \E k \in Int : pick_off_contiguous(bits, HeapPages, 2^LEVEL_2MIB).page = k * Pow(LEVEL_2MIB)
<1> DEFINE min == 2^LEVEL_2MIB
           n   == HeapPages
           t   == LevelFor(n)
           chunk == allocate_chunk_from_level(bits, t)
           g   == chunk.index
           got == pick_off_contiguous(bits, n, min)
           w   == Pow(LEVEL_2MIB)
<1>0. n \in Nat \ {0} /\ n <= Pow(BUDDY_LEVELS) /\ n % w = 0
  BY StackAssumption DEF Pow
<1>1. chunk.some /\ got.page = g * Pow(t)
  <2> DEFINE over == 2^t - n
             tail == {l \in 0..t : (over \div 2^l) % 2 = 1}
             piece(l) == (g + 1) * 2^(t - l) - over \div 2^l
             after == (chunk.bits \ {relative_to_absolute(g, t)}) \cup {relative_to_absolute(piece(l), l) : l \in tail}
  <2>0. got.some
    OBVIOUS
  <2>1. CASE LevelFor(min) > t \/ ~chunk.some
    <3>1. got = None
      BY <2>1 DEF pick_off_contiguous
    <3> HIDE DEF got
    <3> QED
      BY <2>0, <3>1 DEF None
  <2>2. CASE ~(LevelFor(min) > t \/ ~chunk.some)
    <3>1. got = [some |-> TRUE, page |-> g * 2^t, bits |-> after]
      BY <2>2 DEF pick_off_contiguous
    <3> HIDE DEF got, after, g, t
    <3> QED
      BY <2>2, <3>1 DEF Pow
  <2> QED
    BY <2>1, <2>2
<1>2. t \in 0..BUDDY_LEVELS /\ n <= Pow(t)
  BY <1>0, Holds
<1> HIDE DEF n, min, t, got
<1>3. g \in Int
  <2>1. PICK b \in bits : LevelOf(b) >= t
    BY <1>1, <1>2, Finds DEF Sound
  <2>2. LevelOf(b) \in Levels
    BY Relative DEF Sound, Valid
  <2>3. t \in Levels
    BY SMT, <1>2, <2>1, <2>2, LayoutAssumption DEF Levels, Top
  <2>4. Valid(g, t)
    BY <1>1, <2>3, Allocates
  <2> QED
    BY SMT, <2>4, ValidType
<1> HIDE DEF g, chunk
<1>4. /\ t \in Nat /\ LEVEL_2MIB \in Nat /\ t \in 0..MapBits /\ LEVEL_2MIB \in 0..MapBits /\ MapBits \in Nat
  BY SMT, <1>2, LayoutAssumption DEF Top
<1>5. w \in Nat \ {0}
  BY SMT, <1>4, Powers
<1>6. w <= n
  <2> HIDE DEF w
  <2>1. CASE n < w
    <3>1. n % w = n
      BY SMT, <1>0, <1>5, <2>1
    <3> QED
      BY <1>0, <3>1
  <2> QED
    BY SMT, <1>0, <1>5, <2>1
<1>7. LEVEL_2MIB <= t
  <2> SUFFICES ASSUME t < LEVEL_2MIB PROVE FALSE
    BY SMT, <1>4
  <2> DEFINE c == LEVEL_2MIB - t - 1
             x == Pow(t)
             y == Pow(c)
  <2>1. c \in Nat /\ c \in 0..MapBits /\ c + 1 \in Nat /\ t + (c + 1) = LEVEL_2MIB
    BY SMT, <1>4
  <2>2. w = x * Pow(c + 1)
    BY SMT, <1>4, <2>1, PowerOfSum
  <2>3. Pow(c + 1) = 2 * y /\ y \in Nat \ {0} /\ x \in Nat \ {0}
    BY SMT, <1>4, <2>1, Powers
  <2> HIDE DEF c, x, y, w
  <2>4. w = 2 * (x * y) /\ x * y \in Nat /\ x * y >= x
    BY SMT, <2>2, <2>3
  <2>5. n <= x
    BY <1>2 DEF x
  <2> DEFINE z == x * y
  <2> HIDE DEF z
  <2>6. w = 2 * z /\ z \in Nat /\ z >= x
    BY <2>4 DEF z
  <2> QED
    BY SMT, <1>0, <1>6, <2>3, <2>5, <2>6
<1> DEFINE c == t - LEVEL_2MIB
           y == Pow(c)
<1>8. c \in Nat /\ c \in 0..MapBits /\ LEVEL_2MIB + c = t
  BY SMT, <1>4, <1>7
<1>9. Pow(t) = w * y /\ y \in Nat
  <2>1. Pow(LEVEL_2MIB + c) = w * y
    BY SMT, <1>4, <1>8, PowerOfSum
  <2> QED
    BY <1>8, <2>1, Powers
<1> HIDE DEF c, y, w
<1>10. g * (w * y) = (g * y) * w /\ g * y \in Int
  BY SMT, <1>3, <1>5, <1>9
<1>11. got.page = (g * y) * w
  BY <1>1, <1>9, <1>10
<1>12. \E k \in Int : got.page = k * w
  BY <1>10, <1>11
<1> QED
  BY <1>12 DEF got, w, n, min

(* An aligned run is made of whole huge frames. *)
LEMMA WholeFrames ==
  ASSUME NEW w \in Nat \ {0}, NEW k \in Int, NEW n \in Nat \ {0}, n % w = 0,
         NEW f \in (k * w)..(k * w + n - 1)
  PROVE  LET start == f - (f % w)
         IN  start..(start + w - 1) \subseteq (k * w)..(k * w + n - 1)
<1> DEFINE h == n \div w
           q == f \div w
           a == k * w
           b == q * w
           e == (k + h) * w
<1>1. a \in Int /\ f \in Int /\ a <= f /\ f <= a + n - 1
  BY SMT
<1>2. q \in Int /\ b <= f /\ f < b + w /\ f % w = f - b
  BY <1>1, Quotient
<1>3. h \in Int /\ n = h * w
  BY SMT, Quotient
<1> HIDE DEF h, q
<1>4. a \in Int /\ b \in Int /\ e \in Int /\ e = a + n
  BY SMT, <1>2, <1>3
<1>5. ~(q < k)
  <2>1. q < k => b + w <= a
    BY <1>2, Apart
  <2> HIDE DEF a, b
  <2> QED
    BY SMT, <1>1, <1>2, <1>4, <2>1
<1>6. a <= b
  <2>1. k < q => a + w <= b
    BY <1>2, Apart
  <2>2. k = q => a = b
    OBVIOUS
  <2> HIDE DEF a, b
  <2> QED
    BY SMT, <1>2, <1>4, <1>5, <2>1, <2>2
<1>7. q < k + h
  <2>1. k + h < q => e + w <= b
    BY SMT, <1>2, <1>3, Apart
  <2>2. k + h = q => e = b
    OBVIOUS
  <2> HIDE DEF a, b, e
  <2> QED
    BY SMT, <1>1, <1>2, <1>3, <1>4, <2>1, <2>2
<1>8. b + w <= e
  BY SMT, <1>2, <1>3, <1>7, Apart
<1> HIDE DEF a, b, e
<1>9. f - (f % w) = b
  BY SMT, <1>1, <1>2, <1>4
<1>10. b..(b + w - 1) \subseteq a..(a + n - 1)
  BY SMT, <1>4, <1>6, <1>8
<1> QED
  BY <1>9, <1>10 DEF a

=============================================================================

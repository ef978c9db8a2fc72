--------------------------- MODULE BootTimerProofs ---------------------------
(***************************************************************************)
(* Safety of the boot's timers, for any table, any set of inputs, any      *)
(* rates of the two timers and any width of the count.                     *)
(***************************************************************************)
EXTENDS BootTimer, NaturalsInduction, WellFoundedInduction, TLAPS

RedirEntries == [mask: BOOLEAN, vector: Vectors \cup {"none"}, low: BOOLEAN, level: BOOLEAN]

(* The type invariant, with the table and the history variable. *)
Types ==
  /\ madt \in Tables /\ waited \in 0..CounterMax
  /\ irr \subseteq Vectors
  /\ irqs \in [Pins -> Pins] /\ ptr \in Nat /\ base \in Nat
  /\ redir \in [Pins -> RedirEntries]
  /\ pit \in 1..PitPeriod
  /\ lapic \in [count: 0..CounterMax, masked: BOOLEAN]
  /\ TIMER_COUNTER \in 0..CalibrationUs /\ TIMER_FLAGS \in {0, 1}
  /\ TICKS_PER_MS \in 0..CounterMax

Walks     == {"madt_dump", "madt_find", "overrides"}
PitSleeps == {"pit_check", "pit_hlt", "pit_halted", "calibrate"}
Unarmed   == Walks \cup Routed \cup {"sleep", "sleep_arm"}
Waits     == {"sleep_check", "sleep_hlt", "sleep_halted"}

(* Where kmain is, and that it has interrupts enabled there. *)
PcInv ==
  /\ pc \in Unarmed \cup Sleeping \cup Slept \cup {"panic"}
  /\ ifl = (pc \notin {"pit_program", "panic"})
  /\ hpetEnabled \in BOOLEAN /\ IS_SLEEPING \in BOOLEAN

(* An input that is not masked is the PIT's; no input has the timer's vector. *)
VectorInv ==
  \A p \in Pins : /\ redir[p].vector # IRQ_LAPIC_CLK
                  /\ ~redir[p].mask => redir[p].vector = IRQ_PIT

(* The records before the k-th, in this table. *)
Before(k) == 1..k - 1

(* A walk is at the start of a record k, and those before it have a length.   *)
AtRecord(k) ==
  /\ k \in 1..Len(madt) + 1 /\ ptr = Offset(k)
  /\ \A i \in Before(k) : madt[i].record_length > 0

(* Of the records in R, the overrides are registered; other sources keep      *)
(* their own number.                                                          *)
Registered(R) ==
  /\ \A i \in Overrides(madt) \cap R :
       /\ madt[i].irq_source \in Pins
       /\ irqs[madt[i].irq_source] = madt[i].gsi
       /\ madt[i].polarity # "none" => redir[madt[i].gsi].low = (madt[i].polarity = "low")
       /\ madt[i].trigger # "none" => redir[madt[i].gsi].level = (madt[i].trigger = "level")
  /\ \A p \in Pins : (\A i \in Overrides(madt) \cap R : madt[i].irq_source # p) => irqs[p] = p

WalkInv ==
  /\ pc \in Walks => \A p \in Pins : redir[p].mask /\ redir[p].vector = "none"
  /\ pc = "madt_find" => \E k \in Nat :
       AtRecord(k) /\ \A i \in Before(k) : madt[i].entry_type # IOAPIC
  /\ pc = "overrides" => \E k \in Nat : AtRecord(k) /\ Registered(Before(k))
  /\ pc \notin Walks \cup {"panic"} => Registered(1..Len(madt))
  /\ pc \notin {"madt_dump", "madt_find", "panic"} => base = 0

(* From enable_pit to disable_pit the PIT's input, and no other, has its      *)
(* vector, and it is not masked.                                              *)
RouteInv ==
  pc \in Routed =>
    /\ ~redir[irqs[GLOBAL_PIT]].mask
    /\ \A p \in Pins : redir[p].vector = IRQ_PIT <=> p = irqs[GLOBAL_PIT]

(* While PIT::sleep_us counts: n edges of the PIT have been counted, one more *)
(* may be waiting, and the timer has covered the time since the first.        *)
Edges(n) == n + (IF IRQ_PIT \in irr THEN 1 ELSE 0)
Covered(n) ==
  /\ TIMER_COUNTER <= n * PIT_INTERVAL
  /\ \/ Edges(n) = 0
     \/ lapic.count = 0
     \/ CounterMax - lapic.count > (Edges(n) - 1) * PitPeriod + (PitPeriod - pit)

CalibrationInv ==
  /\ pc \in PitSleeps => \E n \in Nat : Covered(n)
  /\ pc = "calibrate" => TIMER_COUNTER = CalibrationUs
  /\ pc \in Calibrated => TICKS_PER_MS > (Intervals - 1) * PitPeriod

(* The timer raises no interrupt before it is unmasked; then the flag is      *)
(* clear only when it has run down and its interrupt has been handled, and    *)
(* what has been waited makes up for what the count has lost.                 *)
SleepInv ==
  /\ pc \in Unarmed \cup {"sleep_unmask"} => lapic.masked /\ IRQ_LAPIC_CLK \notin irr
  /\ pc \in {"sleep_arm", "sleep_unmask"} => TIMER_FLAGS = 1
  /\ pc \in Waits /\ IRQ_LAPIC_CLK \in irr => lapic.count = 0
  /\ pc \in Waits /\ TIMER_FLAGS = 0 => lapic.count = 0 /\ IRQ_LAPIC_CLK \notin irr
  /\ pc \in Sleeping \cup Slept =>
       /\ SleepTicks <= CounterMax
       /\ waited = CounterMax \/ waited + lapic.count >= SleepTicks
  /\ SleepRunsItsCourse

(* The table's header counts its records, and maybe more.                     *)
LengthInv == length \in Nat /\ length >= Offset(Len(madt) + 1)

IInv ==
  /\ Types /\ LengthInv /\ PcInv /\ VectorInv /\ WalkInv /\ RouteInv /\ CalibrationInv /\ SleepInv

-----------------------------------------------------------------------------
(* Numbers. *)

(* Every nonempty set of naturals has a least element: what a search of the   *)
(* code for the first index with some property finds.                         *)
LEMMA Least ==
  ASSUME NEW S \in SUBSET Nat, S # {}
  PROVE  \E n \in S : \A m \in S : n <= m
<1> DEFINE R == OpToRel(<, Nat)
<1>1. IsWellFoundedOn(R, Nat)
  BY Zenon, NatLessThanWellFounded
<1>2. PICK n \in S : \A m \in S : <<m, n>> \notin R
  <2> HIDE DEF R
  <2> QED
    BY Zenon, <1>1, WFMin
<1>3. ASSUME NEW m \in S PROVE ~(m < n)
  <2>1. m \in Nat /\ n \in Nat
    OBVIOUS
  <2>2. m < n => <<m, n>> \in R
    BY <2>1 DEF OpToRel
  <2> QED
    BY Zenon, <1>2, <2>2
<1>4. \A m \in S : n <= m
  BY <1>3
<1> QED
  BY <1>4

(* Induction over the naturals, for a set of them: the passes of a loop. *)
LEMMA SetInduction ==
  ASSUME NEW T \in SUBSET Nat, 0 \in T, \A n \in T : n + 1 \in T
  PROVE  T = Nat
<1> SUFFICES ASSUME Nat \ T # {} PROVE FALSE
  BY Zenon
<1>1. PICK n \in Nat \ T : \A m \in Nat \ T : n <= m
  BY Zenon, Least
<1>2. n # 0 /\ n - 1 \in Nat /\ n - 1 + 1 = n
  BY <1>1
<1>3. n - 1 \in T
  BY <1>1, <1>2
<1> QED
  BY <1>1, <1>2, <1>3

(* Min of numbers, as the walk and the handlers of the timers use it. *)
LEMMA MinElement ==
  ASSUME NEW S \in SUBSET Nat, S # {}
  PROVE  Min(S) \in S /\ \A x \in S : Min(S) <= x
  BY Zenon, Least DEF Min

(* The handlers cap a counter with the smaller of two numbers. *)
LEMMA MinPair ==
  ASSUME NEW a \in Nat, NEW b \in Nat
  PROVE  Min({a, b}) = IF a <= b THEN a ELSE b
<1>1. {a, b} \in SUBSET Nat /\ {a, b} # {}
  BY Zenon
<1>2. Min({a, b}) \in {a, b} /\ \A x \in {a, b} : Min({a, b}) <= x
  BY Zenon, <1>1, MinElement
<1> QED
  BY <1>2

-----------------------------------------------------------------------------
(* Offsets in the table. *)

(* The lengths of the records before one add up as the walk adds them. *)
LEMMA LengthOfDef ==
  ASSUME NEW t
  PROVE  LengthOf(t) = [i \in Nat |-> IF i = 0 THEN 0 ELSE LengthOf(t)[i - 1] + t[i].record_length]
<1> DEFINE Body(g, i) == IF i = 0 THEN 0 ELSE g[i - 1] + t[i].record_length
           Upto(n, g) == g = [i \in 0..n |-> Body(g, i)]
           Sum(f)     == f = [i \in Nat |-> Body(f, i)]
           T          == {n \in Nat : \E g : Upto(n, g)}
<1>1. 0 \in T
  <2>1. Upto(0, [i \in 0..0 |-> 0])
    OBVIOUS
  <2> QED
    BY Zenon, <2>1
<1>2. ASSUME NEW n \in T PROVE n + 1 \in T
  <2>1. PICK g : Upto(n, g)
    BY Zenon
  <2> DEFINE h == [i \in 0..n + 1 |-> IF i <= n THEN g[i] ELSE g[n] + t[i].record_length]
  <2>2. Upto(n + 1, h)
    BY <2>1
  <2> HIDE DEF h, Upto
  <2> QED
    BY <2>2
<1>3. T = Nat
  <2> HIDE DEF T
  <2> QED
    BY Zenon, <1>1, <1>2, SetInduction DEF T
<1>4. ASSUME NEW n \in Nat, NEW m \in Nat, n <= m, NEW g, NEW h, Upto(n, g), Upto(m, h)
      PROVE  \A i \in 0..n : g[i] = h[i]
  <2> DEFINE U == {i \in Nat : i <= n => g[i] = h[i]}
  <2>1. 0 \in U
    BY <1>4
  <2>2. \A i \in U : i + 1 \in U
    BY <1>4
  <2>3. U = Nat
    <3> HIDE DEF U
    <3> QED
      BY Zenon, <2>1, <2>2, SetInduction DEF U
  <2> QED
    BY <2>3
<1>5. \E f : Sum(f)
  <2> DEFINE c(n) == CHOOSE g : Upto(n, g)
             f    == [n \in Nat |-> c(n)[n]]
  <2>1. \A n \in Nat : Upto(n, c(n))
    <3> HIDE DEF Upto
    <3> QED
      BY Zenon, <1>3
  <2>2. \A n, m \in Nat : n <= m => c(n)[n] = c(m)[n]
    <3> HIDE DEF Upto, c
    <3> QED
      BY <1>4, <2>1
  <2>3. ASSUME NEW n \in Nat PROVE f[n] = Body(f, n)
    <3>1. c(n)[n] = Body(c(n), n)
      <4>1. n \in 0..n
        OBVIOUS
      <4> HIDE DEF c
      <4> QED
        BY Zenon, <2>1, <4>1
    <3>2. n # 0 => f[n - 1] = c(n)[n - 1]
      <4>1. n # 0 => n - 1 \in Nat /\ n - 1 <= n
        OBVIOUS
      <4>2. n # 0 => f[n - 1] = c(n - 1)[n - 1]
        BY Zenon, <4>1
      <4> HIDE DEF c, f
      <4> QED
        BY Zenon, <4>1, <4>2, <2>2
    <3>3. f[n] = c(n)[n]
      BY Zenon
    <3> HIDE DEF c, f
    <3> QED
      BY Zenon, <3>1, <3>2, <3>3
  <2>4. Sum(f)
    <3>1. f = [n \in Nat |-> f[n]]
      OBVIOUS
    <3> HIDE DEF c, f, Body
    <3> QED
      BY Zenon, <2>3, <3>1
  <2> HIDE DEF Sum, f
  <2> QED
    BY Zenon, <2>4
<1>6. Sum(LengthOf(t))
  <2>1. LengthOf(t) = CHOOSE f : Sum(f)
    BY Zenon DEF LengthOf
  <2> HIDE DEF Sum
  <2> QED
    BY Zenon, <1>5, <2>1
<1> QED
  BY Zenon, <1>6

(* A record starts where the one before it ends. *)
LEMMA OffsetStep ==
  ASSUME madt \in Tables
  PROVE  /\ Len(madt) \in Nat
         /\ \A k \in 1..Len(madt) : madt[k].record_length \in Nat
         /\ Offset(1) = 0
         /\ \A k \in 1..Len(madt) : Offset(k + 1) = Offset(k) + madt[k].record_length
         /\ \A k \in 1..Len(madt) + 1 : Offset(k) \in Nat
<1>1. Len(madt) \in Nat /\ \A k \in 1..Len(madt) : madt[k].record_length \in Nat
  BY Zenon, TimerAssumption
<1> DEFINE f == LengthOf(madt)
<1>2. f = [i \in Nat |-> IF i = 0 THEN 0 ELSE f[i - 1] + madt[i].record_length]
  BY Zenon, LengthOfDef
<1>3. \A k : Offset(k) = f[k - 1]
  BY Zenon DEF Offset
<1> HIDE DEF f
<1>4. f[0] = 0 /\ \A k \in Nat : f[k + 1] = f[k] + madt[k + 1].record_length
  <2>1. \A i \in Nat : f[i] = IF i = 0 THEN 0 ELSE f[i - 1] + madt[i].record_length
    BY Zenon, <1>2
  <2>2. \A k \in Nat : k + 1 \in Nat /\ k + 1 # 0 /\ k + 1 - 1 = k
    OBVIOUS
  <2> QED
    BY <2>1, <2>2
<1>5. Offset(1) = 0
  <2>1. 1 - 1 = 0
    OBVIOUS
  <2> QED
    BY Zenon, <2>1, <1>3, <1>4
<1>6. ASSUME NEW k \in 1..Len(madt)
      PROVE  Offset(k + 1) = Offset(k) + madt[k].record_length
  <2>1. k - 1 \in Nat /\ k - 1 + 1 = k /\ k + 1 - 1 = k
    BY <1>1
  <2>2. f[k - 1 + 1] = f[k - 1] + madt[k - 1 + 1].record_length
    BY Zenon, <2>1, <1>4
  <2> QED
    BY <2>1, <2>2, <1>3
<1>7. \A k \in 1..Len(madt) + 1 : Offset(k) \in Nat
  <2> DEFINE T == {n \in Nat : n <= Len(madt) => f[n] \in Nat}
  <2>1. 0 \in T
    BY SMTT(30), <1>4
  <2>2. ASSUME NEW n \in T PROVE n + 1 \in T
    <3> SUFFICES ASSUME n + 1 <= Len(madt) PROVE f[n + 1] \in Nat
      OBVIOUS
    <3>1. n + 1 \in 1..Len(madt) /\ f[n] \in Nat /\ n \in Nat
      BY <1>1
    <3>2. madt[n + 1].record_length \in Nat
      BY Zenon, <3>1, <1>1
    <3>3. f[n + 1] = f[n] + madt[n + 1].record_length
      BY Zenon, <3>1, <1>4
    <3> QED
      BY <3>1, <3>2, <3>3
  <2>3. T = Nat
    <3> HIDE DEF T
    <3> QED
      BY Zenon, <2>1, <2>2, SetInduction DEF T
  <2>4. ASSUME NEW k \in 1..Len(madt) + 1 PROVE f[k - 1] \in Nat
    <3>1. k - 1 \in Nat /\ k - 1 <= Len(madt)
      BY <1>1
    <3> QED
      BY Zenon, <3>1, <2>3
  <2> QED
    BY Zenon, <2>4, <1>3
<1> QED
  BY Zenon, <1>1, <1>5, <1>6, <1>7

(* Records do not overlap, in the order of the table. *)
LEMMA OffsetMonotone ==
  ASSUME madt \in Tables, NEW i \in 1..Len(madt), NEW j \in 1..Len(madt) + 1, i < j
  PROVE  Offset(i) + madt[i].record_length <= Offset(j)
<1>1. /\ Len(madt) \in Nat /\ \A k \in 1..Len(madt) : madt[k].record_length \in Nat
      /\ \A k \in 1..Len(madt) : Offset(k + 1) = Offset(k) + madt[k].record_length
      /\ \A k \in 1..Len(madt) + 1 : Offset(k) \in Nat
  BY Zenon, OffsetStep
<1> DEFINE T == {n \in Nat : i + 1 + n <= Len(madt) + 1 => Offset(i + 1) <= Offset(i + 1 + n)}
<1>2. 0 \in T
  <2>1. i + 1 + 0 = i + 1 /\ i + 1 \in 1..Len(madt) + 1
    BY <1>1
  <2> QED
    BY <2>1, <1>1
<1>3. ASSUME NEW n \in T PROVE n + 1 \in T
  <2> SUFFICES ASSUME i + 1 + (n + 1) <= Len(madt) + 1
               PROVE  Offset(i + 1) <= Offset(i + 1 + (n + 1))
    OBVIOUS
  <2>1. /\ i + 1 + n \in 1..Len(madt) /\ i + 1 + n \in 1..Len(madt) + 1
        /\ i + 1 \in 1..Len(madt) + 1 /\ i + 1 + (n + 1) = i + 1 + n + 1
    BY <1>1
  <2>2. Offset(i + 1) <= Offset(i + 1 + n)
    BY <2>1, <1>1
  <2>3. Offset(i + 1 + n + 1) = Offset(i + 1 + n) + madt[i + 1 + n].record_length
    BY Zenon, <2>1, <1>1
  <2>4. /\ madt[i + 1 + n].record_length \in Nat
        /\ Offset(i + 1 + n) \in Nat /\ Offset(i + 1) \in Nat
    BY Zenon, <2>1, <1>1
  <2> QED
    BY SMTT(30), <2>1, <2>2, <2>3, <2>4
<1>4. T = Nat
  <2> HIDE DEF T
  <2> QED
    BY Zenon, <1>2, <1>3, SetInduction DEF T
<1>5. j - (i + 1) \in Nat /\ i + 1 + (j - (i + 1)) = j
  BY <1>1
<1>6. j - (i + 1) \in T
  BY Zenon, <1>4, <1>5
<1>7. Offset(i + 1) <= Offset(j)
  BY <1>5, <1>6, <1>1
<1> QED
  BY Zenon, <1>1, <1>7

(* The walk finds the record it is at, *)
LEMMA EntryAt ==
  ASSUME Types, NEW k \in 1..Len(madt), AtRecord(k)
  PROVE  Entry = madt[k]
<1>1. /\ madt \in Tables /\ Len(madt) \in Nat /\ k \in 1..Len(madt) + 1
      /\ \A i \in 1..Len(madt) + 1 : Offset(i) \in Nat
      /\ ptr = Offset(k) /\ \A i \in 1..k - 1 : madt[i].record_length > 0
  BY Zenon, OffsetStep DEF Types, AtRecord, Before
<1>3. k \in Records(ptr) /\ Records(ptr) \in SUBSET Nat
  BY <1>1 DEF Records
<1>4. ASSUME NEW i \in Records(ptr) PROVE ~(i < k)
  <2> SUFFICES ASSUME i < k PROVE FALSE
    BY Zenon
  <2>1. i \in 1..Len(madt) /\ Offset(i) = Offset(k) /\ i \in 1..k - 1
    BY <1>1 DEF Records
  <2>2. Offset(i) + madt[i].record_length <= Offset(k)
    BY Zenon, <2>1, <1>1, OffsetMonotone
  <2>3. madt[i].record_length > 0 /\ madt[i].record_length \in Nat /\ Offset(i) \in Nat
    BY Zenon, <2>1, <1>1, OffsetStep
  <2> QED
    BY <2>1, <2>2, <2>3
<1>5. Min(Records(ptr)) \in Records(ptr) /\ \A x \in Records(ptr) : Min(Records(ptr)) <= x
  BY Zenon, <1>3, MinElement
<1>6. Min(Records(ptr)) = k
  <2> DEFINE m == Min(Records(ptr))
  <2>1. m \in Nat /\ k \in Nat /\ m <= k /\ ~(m < k)
    <3>1. k \in Nat
      BY <1>1
    <3> QED
      BY Zenon, <3>1, <1>3, <1>4, <1>5
  <2> QED
    BY <2>1
<1> QED
  BY Zenon, <1>3, <1>6 DEF Entry

(* none after the last one, *)
LEMMA EntryAfter ==
  ASSUME Types, AtRecord(Len(madt) + 1)
  PROVE  Entry.entry_type = 255
<1>1. /\ madt \in Tables /\ Len(madt) \in Nat
      /\ \A i \in 1..Len(madt) : Offset(i) \in Nat /\ madt[i].record_length \in Nat
      /\ ptr = Offset(Len(madt) + 1) /\ Offset(Len(madt) + 1) \in Nat
      /\ \A i \in 1..Len(madt) : madt[i].record_length > 0
  <2>1. madt \in Tables /\ Len(madt) \in Nat
    BY Zenon, OffsetStep DEF Types
  <2>2. Len(madt) + 1 \in 1..Len(madt) + 1 /\ Len(madt) + 1 - 1 = Len(madt)
        /\ \A i \in 1..Len(madt) : i \in 1..Len(madt) + 1 /\ i \in Before(Len(madt) + 1)
    BY <2>1 DEF Before
  <2> QED
    BY Zenon, <2>1, <2>2, OffsetStep DEF AtRecord
<1>2. ASSUME NEW i \in 1..Len(madt) PROVE Offset(i) # ptr
  <2>1. i < Len(madt) + 1 /\ Len(madt) + 1 \in 1..Len(madt) + 1
    BY <1>1
  <2>2. Offset(i) + madt[i].record_length <= Offset(Len(madt) + 1)
    BY Zenon, <1>1, <2>1, OffsetMonotone
  <2> QED
    BY <1>1, <2>2
<1>3. Records(ptr) = {}
  BY Zenon, <1>2 DEF Records
<1> QED
  BY Zenon, <1>3 DEF Entry

(* moves to the one after it, *)
LEMMA WalkOn ==
  ASSUME Types, NEW k \in 1..Len(madt), AtRecord(k), entries_next, UNCHANGED madt,
         madt[k].record_length > 0
  PROVE  AtRecord(k + 1)'
<1>1. k \in 1..Len(madt) /\ Entry = madt[k]
  BY Zenon, EntryAt
<1>2. /\ madt \in Tables /\ Len(madt) \in Nat
      /\ Offset(k + 1) = Offset(k) + madt[k].record_length
  BY Zenon, <1>1, OffsetStep DEF Types
<1>3. ptr' = Offset(k + 1)
  BY Zenon, <1>1, <1>2 DEF AtRecord, entries_next
<1>4. Offset(k + 1)' = Offset(k + 1)
  BY Zenon DEF Offset
<1>5. k + 1 \in 1..Len(madt) + 1
  BY <1>1, <1>2
<1>6. ASSUME NEW i \in 1..k + 1 - 1 PROVE madt[i].record_length > 0
  <2>1. i = k \/ i \in 1..k - 1
    BY <1>1
  <2> QED
    BY Zenon, <2>1 DEF AtRecord, Before
<1> QED
  BY <1>3, <1>4, <1>5, <1>6 DEF AtRecord, Before

(* and passes no override when it ends. *)
LEMMA WalkEnd ==
  ASSUME Types, LengthInv, NEW k, AtRecord(k), ptr >= length
  PROVE  \A i \in 1..Len(madt) : i >= k => madt[i].record_length = 0
<1> SUFFICES ASSUME NEW i \in 1..Len(madt), i >= k PROVE madt[i].record_length = 0
  BY Zenon
<1>1. /\ madt \in Tables /\ Len(madt) \in Nat /\ k \in 1..Len(madt) + 1
      /\ madt[i].record_length \in Nat
      /\ \A j \in 1..Len(madt) + 1 : Offset(j) \in Nat
      /\ \A j \in 1..Len(madt) : madt[j].record_length \in Nat
  BY Zenon, OffsetStep DEF Types, AtRecord
<1>2. Offset(k) >= Offset(Len(madt) + 1)
  <2>1. Len(madt) + 1 \in 1..Len(madt) + 1 /\ Offset(k) \in Nat /\ ptr = Offset(k)
    BY <1>1 DEF AtRecord
  <2>2. Offset(Len(madt) + 1) \in Nat
    BY Zenon, <1>1, <2>1
  <2> QED
    BY <2>1, <2>2 DEF LengthInv
<1>3. i < Len(madt) + 1 /\ Len(madt) + 1 \in 1..Len(madt) + 1
  BY <1>1
<1>4. Offset(i) + madt[i].record_length <= Offset(Len(madt) + 1)
  BY Zenon, <1>1, <1>3, OffsetMonotone
<1>5. Offset(k) <= Offset(i)
  <2>1. CASE i = k
    BY <2>1, <1>1
  <2>2. CASE k < i
    <3>1. k \in 1..Len(madt) /\ i \in 1..Len(madt) + 1
      BY <2>2, <1>1
    <3>2. Offset(k) + madt[k].record_length <= Offset(i)
      BY Zenon, <3>1, <2>2, <1>1, OffsetMonotone
    <3>3. Offset(k) \in Nat /\ Offset(i) \in Nat /\ madt[k].record_length \in Nat
      BY Zenon, <3>1, <1>1
    <3> QED
      BY <3>2, <3>3
  <2> QED
    BY <2>1, <2>2, <1>1
<1>6. /\ Offset(i) \in Nat /\ Offset(k) \in Nat /\ Offset(Len(madt) + 1) \in Nat
      /\ madt[i].record_length \in Nat
  <2>1. i \in 1..Len(madt) + 1
    BY <1>1
  <2> QED
    BY Zenon, <1>1, <1>3, <2>1
<1> QED
  BY <1>2, <1>4, <1>5, <1>6

-----------------------------------------------------------------------------
(* What a record does to the routing. *)

(* Whatever the walk finds has the fields the code reads. *)
LEMMA EntryTyped ==
  ASSUME madt \in Tables
  PROVE  /\ Entry.record_length \in Nat
         /\ Entry.entry_type = IOAPIC => Entry.gsi_base \in Nat
         /\ Entry.entry_type = OVERRIDE =>
              /\ Entry.gsi \in Pins
              /\ Entry.polarity \in {"none", "low", "high", "reserved"}
              /\ Entry.trigger \in {"none", "level", "edge", "reserved"}
<1>1. CASE Records(ptr) = {}
  BY <1>1 DEF Entry, IOAPIC, OVERRIDE
<1>2. CASE Records(ptr) # {}
  <2> DEFINE m == Min(Records(ptr))
  <2>1. Records(ptr) \in SUBSET Nat
    BY OffsetStep DEF Records
  <2>2. m \in 1..Len(madt)
    BY Zenon, <1>2, <2>1, MinElement DEF Records
  <2>3. Entry = madt[m]
    BY Zenon, <1>2 DEF Entry
  <2> HIDE DEF m
  <2> QED
    BY Zenon, <2>2, <2>3, TimerAssumption
<1> QED
  BY Zenon, <1>1, <1>2

(* register_override changes one line of irqs and the two flags of one input. *)
LEMMA RegisterEffect ==
  ASSUME irqs \in [Pins -> Pins], redir \in [Pins -> RedirEntries], NEW ovr, ovr.gsi \in Pins,
         register_override(ovr), pc' # "panic"
  PROVE  /\ ovr.irq_source \in Pins /\ entries_next /\ UNCHANGED <<pc, ifl>>
         /\ irqs' \in [Pins -> Pins] /\ redir' \in [Pins -> RedirEntries]
         /\ \A p \in Pins : irqs'[p] = IF p = ovr.irq_source THEN ovr.gsi ELSE irqs[p]
         /\ \A p \in Pins :
              /\ redir'[p].mask = redir[p].mask /\ redir'[p].vector = redir[p].vector
              /\ redir'[p].low = IF p = ovr.gsi /\ ovr.polarity # "none"
                                 THEN ovr.polarity = "low" ELSE redir[p].low
              /\ redir'[p].level = IF p = ovr.gsi /\ ovr.trigger # "none"
                                   THEN ovr.trigger = "level" ELSE redir[p].level
<1>1. /\ ovr.irq_source \in Pins /\ entries_next /\ UNCHANGED <<pc, ifl>>
      /\ irqs' = [irqs EXCEPT ![ovr.irq_source] = ovr.gsi]
      /\ redir' = [redir EXCEPT
            ![ovr.gsi].low   = IF ovr.polarity = "none" THEN @ ELSE ovr.polarity = "low",
            ![ovr.gsi].level = IF ovr.trigger = "none" THEN @ ELSE ovr.trigger = "level"]
  BY Zenon DEF register_override, Panic
<1>2. irqs' \in [Pins -> Pins]
  BY Zenon, <1>1
<1>3. \A p \in Pins : irqs'[p] = IF p = ovr.irq_source THEN ovr.gsi ELSE irqs[p]
  BY Zenon, <1>1
<1>4. redir' \in [Pins -> RedirEntries]
  <2> DEFINE e == redir[ovr.gsi]
             low   == IF ovr.polarity = "none" THEN e.low ELSE ovr.polarity = "low"
             level == IF ovr.trigger = "none" THEN e.level ELSE ovr.trigger = "level"
  <2>1. e \in RedirEntries
    BY Zenon
  <2>2. low \in BOOLEAN /\ level \in BOOLEAN
    BY Zenon, <2>1 DEF RedirEntries
  <2>3. redir' = [redir EXCEPT ![ovr.gsi] = [e EXCEPT !.low = low, !.level = level]]
    BY Zenon, <1>1 DEF RedirEntries
  <2> HIDE DEF e, low, level
  <2>4. [e EXCEPT !.low = low, !.level = level] \in RedirEntries
    BY Zenon, <2>1, <2>2 DEF RedirEntries
  <2> QED
    BY Zenon, <2>3, <2>4
<1>5. \A p \in Pins :
        /\ redir'[p].mask = redir[p].mask /\ redir'[p].vector = redir[p].vector
        /\ redir'[p].low = IF p = ovr.gsi /\ ovr.polarity # "none"
                           THEN ovr.polarity = "low" ELSE redir[p].low
        /\ redir'[p].level = IF p = ovr.gsi /\ ovr.trigger # "none"
                             THEN ovr.trigger = "level" ELSE redir[p].level
  BY <1>1 DEF RedirEntries
<1> QED
  BY Zenon, <1>1, <1>2, <1>3, <1>4, <1>5

(* The line q is masked or unmasked and keeps or gets the vector v. *)
Redirects(q, m, v) ==
  \/ redir' = [redir EXCEPT ![q].mask = m, ![q].vector = v]
  \/ redir' = [redir EXCEPT ![q].mask = m] /\ v = redir[q].vector

(* What that does to the lines. *)
Redirected(q, m, v) ==
  \A p \in Pins :
    /\ redir'[p].mask = IF p = q THEN m ELSE redir[p].mask
    /\ redir'[p].vector = IF p = q THEN v ELSE redir[p].vector

(* Unmasking or masking a line, as enable_pit, disable_pit and init_hpet do,  *)
(* leaves its polarity and trigger alone.                                     *)
LEMMA RedirEffect ==
  ASSUME redir \in [Pins -> RedirEntries], NEW q \in Pins, NEW m \in BOOLEAN,
         NEW v \in Vectors, Redirects(q, m, v)
  PROVE  /\ redir' \in [Pins -> RedirEntries]
         /\ \A p \in Pins : redir'[p].low = redir[p].low /\ redir'[p].level = redir[p].level
         /\ Redirected(q, m, v)
  BY DEF RedirEntries, Redirects, Redirected

(* The lines the three functions change. *)
LEMMA Redirections ==
  /\ FALSE \in BOOLEAN /\ TRUE \in BOOLEAN /\ IRQ_PIT \in Vectors /\ IRQ_HPET \in Vectors
  /\ enable_pit => Redirects(irqs[GLOBAL_PIT], FALSE, IRQ_PIT)
  /\ disable_pit => Redirects(irqs[GLOBAL_PIT], FALSE, redir[irqs[GLOBAL_PIT]].vector)
<1>1. FALSE \in BOOLEAN /\ TRUE \in BOOLEAN /\ IRQ_PIT \in Vectors /\ IRQ_HPET \in Vectors
  BY Zenon DEF Vectors
<1>2. enable_pit => Redirects(irqs[GLOBAL_PIT], FALSE, IRQ_PIT)
  BY Zenon DEF enable_pit, Redirects
<1>3. disable_pit => Redirects(irqs[GLOBAL_PIT], FALSE, redir[irqs[GLOBAL_PIT]].vector)
  BY Zenon DEF disable_pit, Redirects
<1> QED
  BY Zenon, <1>1, <1>2, <1>3

(* init_hpet masks one, or stops. *)
LEMMA HpetRedirects ==
  ASSUME init_hpet, irqs \in [Pins -> Pins]
  PROVE  (pc' = "panic" /\ UNCHANGED redir) \/ \E q \in Pins : Redirects(q, TRUE, IRQ_HPET)
<1>1. PICK lines \in HpetIrqs :
        IF lines = {} THEN Panic /\ UNCHANGED redir
        ELSE redir' = [redir EXCEPT ![irqs[Min(lines)]].mask = TRUE,
                                    ![irqs[Min(lines)]].vector = IRQ_HPET]
  BY Zenon DEF init_hpet
<1>2. CASE lines = {}
  BY Zenon, <1>1, <1>2 DEF Panic
<1>3. CASE lines # {}
  <2>1. lines \in SUBSET Pins /\ lines \in SUBSET Nat
    BY Zenon, TimerAssumption
  <2>2. Min(lines) \in lines
    BY Zenon, <1>3, <2>1, MinElement
  <2>3. irqs[Min(lines)] \in Pins
    BY Zenon, <2>1, <2>2
  <2> QED
    BY Zenon, <1>1, <1>3, <2>3 DEF Redirects
<1> QED
  BY Zenon, <1>2, <1>3

-----------------------------------------------------------------------------
(* Each conjunct of the invariant is kept by every step. *)

(* An edge of the PIT raises the PIT's own interrupt: nothing else is         *)
(* unmasked at the IOAPIC.                                                    *)
LEMMA PitEdge ==
  ASSUME Types, VectorInv, PitSignals
  PROVE  redir[PitPin].vector = IRQ_PIT
  BY Zenon DEF PitSignals, VectorInv

(* Interrupts that the passing of time may request. *)
LEMMA TimeRequests ==
  ASSUME Types, VectorInv, TimePasses
  PROVE  /\ irr' \subseteq irr \cup {IRQ_LAPIC_CLK, IRQ_PIT}
         /\ IRQ_LAPIC_CLK \in irr' <=>
              IRQ_LAPIC_CLK \in irr \/ (lapic.count = 1 /\ ~lapic.masked)
         /\ IRQ_PIT \in irr' => IRQ_PIT \in irr \/ pit = 1
<1> DEFINE A == IF lapic.count = 1 /\ ~lapic.masked THEN {IRQ_LAPIC_CLK} ELSE {}
           B == IF pit = 1 /\ PitSignals THEN {redir[PitPin].vector} ELSE {}
<1>1. irr' = irr \cup A \cup B
  BY Zenon DEF TimePasses
<1>2. B \subseteq {IRQ_PIT} /\ (pit # 1 => B = {})
  BY Zenon, PitEdge
<1>3. IRQ_PIT # IRQ_LAPIC_CLK
  BY Zenon DEF IRQ_PIT, IRQ_LAPIC_CLK
<1> HIDE DEF B
<1> QED
  BY Zenon, <1>1, <1>2, <1>3

(* The count that sleep_local_us computes is a number. *)
LEMMA SleepTicksNat ==
  ASSUME Types
  PROVE  SleepTicks \in Nat
<1>1. TICKS_PER_MS \in Nat /\ UsPerMs \in Nat \ {0} /\ SleepUs \in Nat
  BY TimerAssumption DEF Types
<1>2. \A q \in Nat : q * SleepUs \in Nat
  BY <1>1
<1>3. TICKS_PER_MS \div UsPerMs \in Nat
  BY <1>1
<1> QED
  BY Zenon, <1>2, <1>3 DEF SleepTicks

(* The state of the boot keeps its types. *)
LEMMA TypesStep == IInv /\ [Next]_vars => Types'
<1> SUFFICES ASSUME IInv, [Next]_vars PROVE Types'
  BY Zenon
<1> DEFINE Lapics == [count: 0..CounterMax, masked: BOOLEAN]
<1>c. /\ CounterMax \in Nat \ {0} /\ PitPeriod \in Nat \ {0} /\ PIT_INTERVAL \in Nat \ {0}
      /\ CalibrationUs \in Nat \ {0} /\ GLOBAL_PIT \in Pins
  BY Zenon, TimerAssumption
<1>t. Types
  BY Zenon DEF IInv
<1>u. lapic \in Lapics /\ lapic.count \in 0..CounterMax /\ irqs[GLOBAL_PIT] \in Pins
  BY Zenon, <1>t, <1>c DEF Types
<1>v. \A n \in 0..CounterMax : [lapic EXCEPT !.count = n] \in Lapics
  BY Zenon, <1>u
<1>w. \A b \in BOOLEAN : [lapic EXCEPT !.masked = b] \in Lapics
  BY Zenon, <1>u
<1> HIDE DEF Lapics
<1> USE DEF Types, hardware, routing, statics, others
<1>1. CASE TimePasses
  <2>1. irr' \subseteq Vectors
    BY Zenon, <1>1, <1>t, TimeRequests DEF IInv, Vectors
  <2>2. pit' \in 1..PitPeriod
    BY <1>1, <1>t, <1>c DEF TimePasses
  <2>3. lapic' \in Lapics
    <3>1. (IF lapic.count = 0 THEN 0 ELSE lapic.count - 1) \in 0..CounterMax
      BY <1>u, <1>c
    <3> QED
      BY Zenon, <3>1, <1>1, <1>v DEF TimePasses
  <2>4. waited' \in 0..CounterMax
    <3>1. waited + 1 \in Nat /\ waited \in 0..CounterMax
      BY <1>t, <1>c
    <3>2. Min({waited + 1, CounterMax}) \in 0..CounterMax
      BY <3>1, <1>c, MinPair
    <3>3. waited' = IF pc \in Sleeping THEN Min({waited + 1, CounterMax}) ELSE waited
      BY Zenon, <1>1 DEF TimePasses
    <3> QED
      BY Zenon, <3>1, <3>2, <3>3
  <2> QED
    BY Zenon, <1>1, <1>t, <2>1, <2>2, <2>3, <2>4 DEF TimePasses, Lapics
<1>2. CASE pit_interrupt
  <2>1. TIMER_COUNTER' \in 0..CalibrationUs
    BY <1>2, <1>t, <1>c, MinPair DEF pit_interrupt
  <2> QED
    BY Zenon, <1>2, <1>t, <2>1 DEF pit_interrupt
<1>3. CASE lapic_clk_interrupt
  BY Zenon, <1>3, <1>t DEF lapic_clk_interrupt
<1>4. ASSUME entries_next \/ UNCHANGED ptr \/ ptr' = 0 PROVE ptr' \in Nat
  BY <1>4, <1>t, EntryTyped DEF entries_next
<1>5. CASE madt_dump
  BY Zenon, <1>5, <1>t, <1>4 DEF madt_dump, entries_skip
<1>6. CASE madt_find
  <2>1. irqs' \in [Pins -> Pins] /\ base' \in Nat
    BY Zenon, <1>6, <1>t, EntryTyped DEF madt_find
  <2> QED
    BY Zenon, <1>6, <1>t, <2>1, <1>4 DEF madt_find, entries_skip
<1>7. CASE madt_overrides
  <2>1. CASE Entry.entry_type = OVERRIDE /\ pc' # "panic"
    <3>1. /\ entries_next /\ irqs' \in [Pins -> Pins] /\ redir' \in [Pins -> RedirEntries]
      BY Zenon, <1>7, <1>t, <2>1, EntryTyped, RegisterEffect DEF madt_overrides
    <3> QED
      BY Zenon, <1>7, <1>t, <1>4, <3>1 DEF madt_overrides
  <2>2. CASE Entry.entry_type = OVERRIDE /\ pc' = "panic"
    BY Zenon, <1>7, <1>t, <1>4, <2>2 DEF madt_overrides, register_override, At
  <2>3. CASE Entry.entry_type # OVERRIDE
    BY Zenon, <1>7, <1>t, <1>4, <2>3 DEF madt_overrides, entries_skip
  <2> QED
    BY Zenon, <2>1, <2>2, <2>3
<1>8. CASE enable_pit
  <2>1. redir' \in [Pins -> RedirEntries]
    BY Zenon, <1>8, <1>t, <1>u, Redirections, RedirEffect
  <2> QED
    BY Zenon, <1>8, <1>t, <2>1 DEF enable_pit
<1>9. CASE disable_pit
  <2>1. redir[irqs[GLOBAL_PIT]].vector \in Vectors
    BY Zenon, <1>9, <1>u DEF disable_pit, At, IInv, RouteInv, Routed, Vectors
  <2>2. redir' \in [Pins -> RedirEntries]
    BY Zenon, <1>9, <1>t, <1>u, <2>1, Redirections, RedirEffect
  <2> QED
    BY Zenon, <1>9, <1>t, <2>2 DEF disable_pit
<1>10. CASE init_hpet
  <2>3. redir' \in [Pins -> RedirEntries]
    BY Zenon, <1>10, <1>t, HpetRedirects, Redirections, RedirEffect
  <2> QED
    BY Zenon, <1>10, <1>t, <2>3 DEF init_hpet
<1>11. CASE \/ pit_init_begin \/ pit_sleep_us \/ pit_sleep_check \/ pit_sleep_hlt
            \/ sleep_local_us_check \/ sleep_local_us_hlt \/ hpet_enable
  BY <1>11, <1>t, <1>c DEF pit_init_begin, pit_sleep_us, pit_sleep_check, pit_sleep_hlt,
     sleep_local_us_check, sleep_local_us_hlt, hpet_enable
<1>12. CASE pit_init_end
  BY <1>12, <1>t, <1>c DEF pit_init_end
<1>13. CASE setup_timer_start
  <2>1. lapic' \in Lapics
    BY <1>13, <1>c, <1>v DEF setup_timer_start
  <2> QED
    BY Zenon, <1>13, <1>t, <2>1 DEF setup_timer_start, Lapics
<1>14. CASE setup_timer_read
  <2>1. lapic' \in Lapics /\ TICKS_PER_MS' \in 0..CounterMax
    <3>1. CounterMax - lapic.count \in 0..CounterMax
      BY <1>c, <1>u
    <3> QED
      BY Zenon, <3>1, <1>14, <1>w DEF setup_timer_read
  <2> QED
    BY Zenon, <1>14, <1>t, <2>1 DEF setup_timer_read, Lapics
<1>15. CASE sleep_local_us_begin
  <2>1. lapic' \in Lapics
    BY Zenon, <1>15, <1>u, <1>w DEF sleep_local_us_begin
  <2> QED
    BY Zenon, <1>15, <1>t, <2>1 DEF sleep_local_us_begin, Lapics
<1>16. CASE sleep_local_us_count
  <2>1. SleepTicks \in Nat
    BY Zenon, <1>t, SleepTicksNat
  <2>2. lapic' \in Lapics /\ waited' \in 0..CounterMax
    <3>1. CASE TICKS_PER_MS = 0 \/ SleepTicks > CounterMax
      BY Zenon, <3>1, <1>16, <1>t, <1>u DEF sleep_local_us_count
    <3>2. CASE ~(TICKS_PER_MS = 0 \/ SleepTicks > CounterMax)
      <4>1. SleepTicks \in 0..CounterMax /\ 0 \in 0..CounterMax
        BY <3>2, <2>1, <1>c
      <4>2. lapic' = [lapic EXCEPT !.count = SleepTicks] /\ waited' = 0
        BY Zenon, <3>2, <1>16 DEF sleep_local_us_count
      <4> QED
        BY Zenon, <4>1, <4>2, <1>v
    <3> QED
      BY Zenon, <3>1, <3>2
  <2> QED
    BY Zenon, <1>16, <1>t, <2>2 DEF sleep_local_us_count, Lapics
<1>17. CASE sleep_local_us_unmask
  <2>1. lapic' \in Lapics
    BY Zenon, <1>17, <1>w DEF sleep_local_us_unmask
  <2> QED
    BY Zenon, <1>17, <1>t, <2>1 DEF sleep_local_us_unmask, Lapics
<1>18. CASE UNCHANGED vars
  BY Zenon, <1>18, <1>t DEF vars
<1> HIDE DEF Types
<1> QED
  BY Zenon, <1>1, <1>2, <1>3, <1>5, <1>6, <1>7, <1>8, <1>9, <1>10, <1>11, <1>12, <1>13, <1>14,
     <1>15, <1>16, <1>17, <1>18 DEF Next, Interrupt, kmain

(* kmain only reads the table. *)
LEMMA TableStep == [Next]_vars => UNCHANGED <<madt, length>>
<1> SUFFICES ASSUME [Next]_vars PROVE UNCHANGED <<madt, length>>
  BY Zenon
<1> USE DEF routing
<1>1. CASE TimePasses \/ Interrupt \/ UNCHANGED vars
  BY Zenon, <1>1 DEF TimePasses, Interrupt, pit_interrupt, lapic_clk_interrupt, vars
<1>2. CASE \/ madt_dump \/ madt_find \/ madt_overrides \/ enable_pit \/ pit_init_begin
           \/ pit_init_end \/ setup_timer_start
  BY Zenon, <1>2 DEF madt_dump, madt_find, madt_overrides, enable_pit, pit_init_begin,
     pit_init_end, setup_timer_start
<1>3. CASE pit_sleep_us \/ pit_sleep_check \/ pit_sleep_hlt \/ setup_timer_read \/ disable_pit
  BY Zenon, <1>3 DEF pit_sleep_us, pit_sleep_check, pit_sleep_hlt, setup_timer_read, disable_pit
<1>4. CASE \/ sleep_local_us_begin \/ sleep_local_us_count \/ sleep_local_us_unmask
           \/ sleep_local_us_check \/ sleep_local_us_hlt \/ init_hpet \/ hpet_enable
  BY Zenon, <1>4 DEF sleep_local_us_begin, sleep_local_us_count, sleep_local_us_unmask,
     sleep_local_us_check, sleep_local_us_hlt, init_hpet, hpet_enable
<1> QED
  BY Zenon, <1>1, <1>2, <1>3, <1>4 DEF Next, kmain

(* So its header still counts its records. *)
LEMMA LengthStep == IInv /\ [Next]_vars => LengthInv'
<1> SUFFICES ASSUME IInv, [Next]_vars PROVE LengthInv'
  BY Zenon
<1>1. UNCHANGED <<madt, length>>
  BY Zenon, TableStep
<1>2. Offset(Len(madt) + 1)' = Offset(Len(madt) + 1)
  BY Zenon, <1>1 DEF Offset
<1> QED
  BY Zenon, <1>1, <1>2 DEF IInv, LengthInv

(* Interrupts are enabled wherever kmain is but for pit_init and a panic. *)
LEMMA PcStep == IInv /\ [Next]_vars => PcInv'
<1> SUFFICES ASSUME IInv, [Next]_vars PROVE PcInv'
  BY Zenon
<1> USE DEF PcInv, Unarmed, Walks, Routed, Sleeping, Slept, At, Panic, hardware, routing,
            statics, others
<1>t. PcInv
  BY Zenon DEF IInv
<1>1. CASE TimePasses
  BY Zenon, <1>1, <1>t DEF TimePasses
<1>2. CASE pit_interrupt \/ lapic_clk_interrupt
  BY ZenonT(30), <1>2, <1>t DEF pit_interrupt, lapic_clk_interrupt, Woken
<1>3. CASE madt_dump \/ madt_find
  BY Zenon, <1>3, <1>t DEF madt_dump, madt_find, entries_skip
<1>4. CASE madt_overrides
  BY Zenon, <1>4, <1>t DEF madt_overrides, register_override, entries_skip
<1>5. CASE enable_pit \/ pit_init_begin \/ pit_init_end \/ setup_timer_start
  BY Zenon, <1>5, <1>t DEF enable_pit, pit_init_begin, pit_init_end, setup_timer_start
<1>6. CASE pit_sleep_us \/ pit_sleep_check \/ pit_sleep_hlt \/ setup_timer_read \/ disable_pit
  BY Zenon, <1>6, <1>t DEF pit_sleep_us, pit_sleep_check, pit_sleep_hlt, setup_timer_read, disable_pit
<1>7. CASE sleep_local_us_begin \/ sleep_local_us_count
  BY Zenon, <1>7, <1>t DEF sleep_local_us_begin, sleep_local_us_count
<1>8. CASE sleep_local_us_unmask \/ sleep_local_us_check \/ sleep_local_us_hlt
  BY Zenon, <1>8, <1>t DEF sleep_local_us_unmask, sleep_local_us_check, sleep_local_us_hlt
<1>9. CASE init_hpet \/ hpet_enable
  BY Zenon, <1>9, <1>t DEF init_hpet, hpet_enable
<1>10. CASE UNCHANGED vars
  BY Zenon, <1>10, <1>t DEF vars
<1> HIDE DEF PcInv
<1> QED
  BY Zenon, <1>1, <1>2, <1>3, <1>4, <1>5, <1>6, <1>7, <1>8, <1>9, <1>10 DEF Next, Interrupt, kmain

(* enable_pit is the only one that unmasks an input, the PIT's. *)
LEMMA VectorStep == IInv /\ [Next]_vars => VectorInv'
<1> SUFFICES ASSUME IInv, [Next]_vars PROVE VectorInv'
  BY Zenon
<1>t. /\ redir \in [Pins -> RedirEntries] /\ irqs \in [Pins -> Pins] /\ madt \in Tables
      /\ GLOBAL_PIT \in Pins /\ irqs[GLOBAL_PIT] \in Pins
  BY Zenon, TimerAssumption DEF IInv, Types
<1>v. VectorInv
  BY Zenon DEF IInv
<1>1. CASE UNCHANGED redir
  BY Zenon, <1>1, <1>v DEF VectorInv
<1>2. CASE enable_pit
  <2>1. Redirected(irqs[GLOBAL_PIT], FALSE, IRQ_PIT)
    BY Zenon, <1>2, <1>t, Redirections, RedirEffect
  <2> QED
    BY Zenon, <2>1, <1>v DEF Redirected, VectorInv, IRQ_PIT, IRQ_LAPIC_CLK
<1>3. CASE disable_pit
  <2>1. redir[irqs[GLOBAL_PIT]].vector = IRQ_PIT
    BY Zenon, <1>3, <1>t DEF disable_pit, At, IInv, RouteInv, Routed
  <2>2. Redirected(irqs[GLOBAL_PIT], FALSE, IRQ_PIT)
    BY Zenon, <1>3, <1>t, <2>1, Redirections, RedirEffect
  <2> QED
    BY Zenon, <2>2, <1>v DEF Redirected, VectorInv, IRQ_PIT, IRQ_LAPIC_CLK
<1>4. CASE init_hpet
  <2>1. ASSUME NEW q \in Pins, Redirects(q, TRUE, IRQ_HPET) PROVE VectorInv'
    <3>1. Redirected(q, TRUE, IRQ_HPET)
      BY Zenon, <2>1, <1>t, Redirections, RedirEffect
    <3> QED
      BY Zenon, <3>1, <1>v DEF Redirected, VectorInv, IRQ_HPET, IRQ_LAPIC_CLK
  <2> QED
    BY Zenon, <1>4, <1>t, <2>1, <1>1, HpetRedirects
<1>5. CASE madt_overrides
  <2>1. CASE Entry.entry_type = OVERRIDE /\ pc' # "panic"
    <3>1. \A p \in Pins : redir'[p].mask = redir[p].mask /\ redir'[p].vector = redir[p].vector
      BY Zenon, <1>5, <1>t, <2>1, EntryTyped, RegisterEffect DEF madt_overrides
    <3> QED
      BY Zenon, <3>1, <1>v DEF VectorInv
  <2>2. CASE ~(Entry.entry_type = OVERRIDE /\ pc' # "panic")
    <3>1. UNCHANGED redir
      BY Zenon, <1>5, <2>2 DEF madt_overrides, register_override, At
    <3> QED
      BY Zenon, <3>1, <1>1
  <2> QED
    BY Zenon, <2>1, <2>2
<1>6. CASE \/ TimePasses \/ Interrupt \/ madt_dump \/ madt_find \/ pit_init_begin \/ pit_init_end
           \/ setup_timer_start \/ pit_sleep_us \/ pit_sleep_check \/ pit_sleep_hlt
           \/ setup_timer_read \/ hpet_enable \/ UNCHANGED vars
  BY Zenon, <1>6, <1>1 DEF TimePasses, Interrupt, pit_interrupt, lapic_clk_interrupt, madt_dump,
     madt_find, pit_init_begin, pit_init_end, setup_timer_start, pit_sleep_us,
     pit_sleep_check, pit_sleep_hlt, setup_timer_read, hpet_enable, vars, routing
<1>7. CASE \/ sleep_local_us_begin \/ sleep_local_us_count \/ sleep_local_us_unmask
           \/ sleep_local_us_check \/ sleep_local_us_hlt
  BY Zenon, <1>7, <1>1 DEF sleep_local_us_begin, sleep_local_us_count, sleep_local_us_unmask,
     sleep_local_us_check, sleep_local_us_hlt, routing
<1> QED
  BY Zenon, <1>2, <1>3, <1>4, <1>5, <1>6, <1>7 DEF Next, kmain

(* sleep_local_us: the flag is clear only after the timer has run down, and   *)
(* every unit that the count loses is a unit of the wait.                     *)
LEMMA SleepStep == IInv /\ [Next]_vars => SleepInv'
<1> SUFFICES ASSUME IInv, [Next]_vars PROVE SleepInv'
  BY Zenon
<1>t. /\ Types /\ PcInv /\ VectorInv /\ SleepInv
      /\ CounterMax \in Nat \ {0} /\ lapic.count \in 0..CounterMax /\ waited \in 0..CounterMax
      /\ TIMER_FLAGS \in {0, 1}
      /\ SleepTicks \in Nat
  BY Zenon, TimerAssumption, SleepTicksNat DEF IInv, Types
<1> DEFINE lapicIn == IRQ_LAPIC_CLK \in irr
<1>p. IRQ_PIT # IRQ_LAPIC_CLK
  BY Zenon DEF IRQ_PIT, IRQ_LAPIC_CLK
<1>s. UNCHANGED TICKS_PER_MS => UNCHANGED SleepTicks
  BY Zenon DEF SleepTicks
<1> USE DEF SleepInv, SleepRunsItsCourse, Unarmed, Walks, Routed, Sleeping, Slept, Waits
<1>1. CASE TimePasses
  <2>1. /\ UNCHANGED <<pc, SleepTicks, TIMER_FLAGS, IS_SLEEPING>>
        /\ lapic'.masked = lapic.masked
        /\ lapic'.count = IF lapic.count = 0 THEN 0 ELSE lapic.count - 1
    BY Zenon, <1>1, <1>s, <1>t DEF TimePasses, statics, Types
  <2>2. lapicIn' <=> lapicIn \/ (lapic.count = 1 /\ ~lapic.masked)
    BY Zenon, <1>1, <1>t, TimeRequests
  <2>3. waited' = IF pc \in Sleeping
                  THEN IF waited + 1 <= CounterMax THEN waited + 1 ELSE CounterMax
                  ELSE waited
    <3>1. waited + 1 \in Nat
      BY <1>t
    <3>2. Min({waited + 1, CounterMax}) = IF waited + 1 <= CounterMax THEN waited + 1 ELSE CounterMax
      BY Zenon, <3>1, <1>t, MinPair
    <3> QED
      BY Zenon, <1>1, <3>2 DEF TimePasses
  <2>4. pc \in Unarmed \cup {"sleep_unmask"} => lapic'.masked /\ ~lapicIn'
    BY Zenon, <2>1, <2>2, <1>t
  <2>5. pc \in Waits /\ lapicIn' => lapic'.count = 0
    BY <2>1, <2>2, <1>t
  <2>6. pc \in Waits /\ TIMER_FLAGS = 0 => lapic'.count = 0 /\ ~lapicIn'
    BY <2>1, <2>2, <1>t
  <2>7. pc \in Sleeping \cup Slept =>
          waited' = CounterMax \/ waited' + lapic'.count >= SleepTicks
    <3>1. CASE pc \in Sleeping
      BY <3>1, <2>1, <2>3, <1>t
    <3>2. CASE pc \in Slept
      BY Zenon, <3>2, <2>1, <2>3, <1>t
    <3> QED
      BY Zenon, <3>1, <3>2
  <2>8. pc \in Slept => lapic'.count = 0 /\ ~lapicIn'
    BY <2>1, <2>2, <1>t
  <2> QED
    BY Zenon, <2>1, <2>4, <2>5, <2>6, <2>7, <2>8, <1>t
<1>2. CASE pit_interrupt
  <2>1. /\ UNCHANGED <<SleepTicks, TIMER_FLAGS, IS_SLEEPING, lapic, waited>>
        /\ lapicIn' <=> lapicIn
    BY Zenon, <1>2, <1>s, <1>p DEF pit_interrupt, others
  <2>2. CASE pc' = pc
    BY Zenon, <2>1, <2>2, <1>t
  <2>3. CASE pc = "sleep_halted" /\ pc' = "sleep_check"
    BY Zenon, <2>1, <2>3, <1>t
  <2>4. CASE pc = "pit_halted" /\ pc' = "pit_check"
    BY Zenon, <2>1, <2>4, <1>t
  <2> QED
    BY Zenon, <1>2, <2>2, <2>3, <2>4 DEF pit_interrupt, Woken
<1>3. CASE lapic_clk_interrupt
  <2>1. /\ UNCHANGED <<SleepTicks, IS_SLEEPING, lapic, waited>>
        /\ lapicIn /\ ~lapicIn' /\ TIMER_FLAGS' = 0
    BY Zenon, <1>3, <1>s DEF lapic_clk_interrupt, others
  <2>2. pc \in Waits /\ pc' \in Waits
    <3>1. pc # "panic"
      BY Zenon, <1>3, <1>t DEF lapic_clk_interrupt, Deliverable, PcInv
    <3> QED
      BY Zenon, <3>1, <1>3, <1>t, <2>1 DEF lapic_clk_interrupt, Woken, PcInv
  <2> QED
    BY Zenon, <2>1, <2>2, <1>t
<1>4. CASE /\ UNCHANGED <<lapic, irr, TIMER_FLAGS, IS_SLEEPING, waited, TICKS_PER_MS>>
           /\ \/ pc \in Unarmed \ {"sleep_arm"} /\ pc' \in Unarmed \ {"sleep_arm"}
              \/ pc \in Waits /\ pc' \in Waits
              \/ pc \in Slept /\ pc' \in Slept
              \/ pc' = "panic" \/ pc' = pc
  BY ZenonT(30), <1>4, <1>s, <1>t
<1>5. CASE madt_dump \/ madt_find \/ madt_overrides \/ enable_pit \/ pit_init_begin
  BY Zenon, <1>5, <1>4 DEF madt_dump, madt_find, madt_overrides, register_override, entries_skip,
     enable_pit, pit_init_begin, At, Panic, hardware, statics, others
<1>6. CASE pit_sleep_us \/ pit_sleep_check \/ pit_sleep_hlt \/ disable_pit
  BY Zenon, <1>6, <1>4 DEF pit_sleep_us, pit_sleep_check, pit_sleep_hlt, disable_pit, At, hardware,
     statics, others
<1>7. CASE pit_init_end
  BY Zenon, <1>7, <1>4 DEF pit_init_end, At, statics, others
<1>8. CASE init_hpet \/ hpet_enable \/ sleep_local_us_hlt
  BY Zenon, <1>8, <1>4 DEF init_hpet, hpet_enable, sleep_local_us_hlt, At, Panic, hardware, statics,
     others
<1>9. CASE setup_timer_start
  <2>1. /\ pc \in Unarmed /\ pc' = "pit_sleep" /\ UNCHANGED irr
        /\ lapic'.masked = lapic.masked
    BY Zenon, <1>9, <1>t DEF setup_timer_start, At, Types
  <2> QED
    BY Zenon, <2>1, <1>t
<1>10. CASE setup_timer_read
  <2>1. pc \in Unarmed /\ pc' = "disable_pit" /\ UNCHANGED irr /\ lapic'.masked
    BY Zenon, <1>10, <1>t DEF setup_timer_read, At, Types
  <2> QED
    BY Zenon, <2>1, <1>t
<1>11. CASE sleep_local_us_begin
  <2>1. pc \in Unarmed /\ UNCHANGED irr /\ lapic.masked
    BY Zenon, <1>11, <1>t DEF sleep_local_us_begin, At
  <2>2. lapic'.masked /\ (pc' = "panic" \/ (pc' = "sleep_arm" /\ TIMER_FLAGS' = 1))
    BY Zenon, <1>11, <1>t, <2>1 DEF sleep_local_us_begin, Types, Panic
  <2> QED
    BY Zenon, <2>1, <2>2, <1>t
<1>12. CASE sleep_local_us_count
  <2>1. /\ pc = "sleep_arm" /\ UNCHANGED <<irr, TIMER_FLAGS, SleepTicks>>
        /\ lapic'.masked = lapic.masked
        /\ \/ pc' = "panic"
           \/ /\ pc' = "sleep_unmask" /\ SleepTicks <= CounterMax
              /\ waited' = 0 /\ lapic'.count = SleepTicks
    BY <1>12, <1>s, <1>t DEF sleep_local_us_count, At, Types, Panic, statics
  <2> QED
    BY <2>1, <1>t
<1>13. CASE sleep_local_us_unmask
  <2>1. /\ pc = "sleep_unmask" /\ pc' = "sleep_check"
        /\ UNCHANGED <<irr, TIMER_FLAGS, SleepTicks, waited>> /\ lapic'.count = lapic.count
    BY Zenon, <1>13, <1>s, <1>t DEF sleep_local_us_unmask, At, Types, statics, others
  <2> QED
    BY <2>1, <1>t
<1>14. CASE sleep_local_us_check
  <2>1. /\ pc = "sleep_check" /\ UNCHANGED <<irr, TIMER_FLAGS, SleepTicks, waited, lapic>>
        /\ \/ pc' = "sleep_hlt"
           \/ pc' = "slept" /\ TIMER_FLAGS = 0 /\ ~IS_SLEEPING'
    BY Zenon, <1>14, <1>s, <1>t DEF sleep_local_us_check, At, hardware, others
  <2> QED
    BY Zenon, <2>1, <1>t
<1>15. CASE UNCHANGED vars
  BY Zenon, <1>15, <1>4 DEF vars, hardware, statics, others
<1> HIDE DEF SleepInv
<1> QED
  BY Zenon, <1>1, <1>2, <1>3, <1>5, <1>6, <1>7, <1>8, <1>9, <1>10, <1>11, <1>12, <1>13, <1>14, <1>15
     DEF Next, Interrupt, kmain

(* An override stays registered as long as irqs and the flags of the inputs   *)
(* stay.                                                                      *)
LEMMA RegisteredFrame ==
  ASSUME NEW R, Registered(R), UNCHANGED <<madt, irqs>>, madt \in Tables, R \subseteq 1..Len(madt),
         \A p \in Pins : redir'[p].low = redir[p].low /\ redir'[p].level = redir[p].level
  PROVE  Registered(R)'
<1>1. \A i \in Overrides(madt) : madt[i].gsi \in Pins
  BY Zenon, TimerAssumption DEF Overrides
<1> QED
  BY <1>1 DEF Registered, Overrides

(* A walk that looks at a record which is not registered goes on after it, or *)
(* stays at it when it has no length.                                         *)
LEMMA Skip ==
  ASSUME Types, NEW k \in 1..Len(madt), AtRecord(k), entries_next, UNCHANGED madt
  PROVE  \/ madt[k].record_length > 0 /\ AtRecord(k + 1)'
         \/ madt[k].record_length = 0 /\ AtRecord(k)'
<1>1. k \in 1..Len(madt) /\ Entry = madt[k] /\ madt[k].record_length \in Nat
  BY Zenon, EntryAt, OffsetStep DEF Types
<1>2. CASE madt[k].record_length = 0
  <2>1. ptr' = ptr
    BY <1>1, <1>2 DEF entries_next, Types
  <2> QED
    BY Zenon, <1>2, <2>1 DEF AtRecord, Offset
<1>3. CASE madt[k].record_length > 0
  BY Zenon, <1>3, WalkOn
<1> QED
  BY <1>1, <1>2, <1>3

(* Registering the k-th record, an override, in a table in which sources and  *)
(* inputs are not overridden twice.                                           *)
LEMMA RegisterOne ==
  ASSUME Types, NEW k \in 1..Len(madt), madt[k].entry_type = OVERRIDE, Registered(Before(k)),
         register_override(madt[k]), UNCHANGED madt, pc' # "panic"
  PROVE  Registered(Before(k + 1))'
<1> DEFINE ovr == madt[k]
<1>1. /\ madt \in Tables /\ Len(madt) \in Nat /\ k \in Overrides(madt)
      /\ \A i \in Overrides(madt) : i \in 1..Len(madt) /\ madt[i].gsi \in Pins
      /\ \A i \in Overrides(madt) \ {k} :
           madt[i].irq_source # ovr.irq_source /\ madt[i].gsi # ovr.gsi
  BY Zenon, TimerAssumption DEF Types, Overrides
<1>2. /\ ovr.irq_source \in Pins
      /\ \A p \in Pins : irqs'[p] = IF p = ovr.irq_source THEN ovr.gsi ELSE irqs[p]
      /\ \A p \in Pins :
           /\ redir'[p].low = IF p = ovr.gsi /\ ovr.polarity # "none"
                              THEN ovr.polarity = "low" ELSE redir[p].low
           /\ redir'[p].level = IF p = ovr.gsi /\ ovr.trigger # "none"
                                THEN ovr.trigger = "level" ELSE redir[p].level
  BY ZenonT(30), <1>1, RegisterEffect DEF Types
<1>3. Before(k + 1) = Before(k) \cup {k}
  BY <1>1 DEF Before
<1>4. k \notin Before(k)
  BY <1>1 DEF Before
<1> HIDE DEF ovr
<1>5. ASSUME NEW i \in Overrides(madt) \cap Before(k + 1)
      PROVE  /\ madt[i].irq_source \in Pins
             /\ irqs'[madt[i].irq_source] = madt[i].gsi
             /\ madt[i].polarity # "none" => redir'[madt[i].gsi].low = (madt[i].polarity = "low")
             /\ madt[i].trigger # "none" => redir'[madt[i].gsi].level = (madt[i].trigger = "level")
  <2>1. CASE i = k
    BY Zenon, <2>1, <1>1, <1>2 DEF ovr
  <2>2. CASE i # k
    <3>1. /\ madt[i].irq_source \in Pins /\ irqs[madt[i].irq_source] = madt[i].gsi
          /\ madt[i].polarity # "none" => redir[madt[i].gsi].low = (madt[i].polarity = "low")
          /\ madt[i].trigger # "none" => redir[madt[i].gsi].level = (madt[i].trigger = "level")
      BY Zenon, <2>2, <1>3 DEF Registered
    <3>2. madt[i].irq_source # ovr.irq_source /\ madt[i].gsi # ovr.gsi /\ madt[i].gsi \in Pins
      BY Zenon, <2>2, <1>1
    <3> QED
      BY Zenon, <3>1, <3>2, <1>2
  <2> QED
    BY Zenon, <2>1, <2>2
<1>6. ASSUME NEW p \in Pins, \A i \in Overrides(madt) \cap Before(k + 1) : madt[i].irq_source # p
      PROVE  irqs'[p] = p
  <2>1. p # ovr.irq_source
    BY Zenon, <1>6, <1>1, <1>3 DEF ovr
  <2>2. irqs[p] = p
    BY Zenon, <1>6, <1>3 DEF Registered
  <2> QED
    BY Zenon, <2>1, <2>2, <1>2
<1>7. Overrides(madt)' = Overrides(madt) /\ Before(k + 1)' = Before(k + 1)
  BY Zenon DEF Overrides, Before
<1> QED
  BY Zenon, <1>5, <1>6, <1>7 DEF Registered

(* The walks of kmain find the first IOAPIC and register every override. *)
LEMMA WalkStep == IInv /\ [Next]_vars => WalkInv'
<1> SUFFICES ASSUME IInv, [Next]_vars PROVE WalkInv'
  BY Zenon
<1>t. /\ Types /\ PcInv /\ WalkInv
      /\ madt \in Tables /\ Len(madt) \in Nat /\ redir \in [Pins -> RedirEntries]
      /\ GLOBAL_PIT \in Pins /\ irqs \in [Pins -> Pins] /\ irqs[GLOBAL_PIT] \in Pins
  BY Zenon, TimerAssumption DEF IInv, Types
<1> USE DEF Walks
<1>1. CASE pc' = "panic"
  BY Zenon, <1>1 DEF WalkInv
<1>2. CASE pc' = pc /\ UNCHANGED <<madt, ptr, base, irqs, redir>>
  <2>1. /\ \A k : AtRecord(k)' <=> AtRecord(k)
        /\ \A R : Registered(R)' <=> Registered(R)
    BY <1>2 DEF AtRecord, Registered, Offset, Before, Overrides
  <2> QED
    BY Zenon, <2>1, <1>2, <1>t DEF WalkInv, Before
<1>3. CASE /\ pc \notin Walks \cup {"panic"} /\ pc' \notin Walks
           /\ UNCHANGED <<madt, base, irqs>>
           /\ \A p \in Pins : redir'[p].low = redir[p].low /\ redir'[p].level = redir[p].level
  <2>1. Registered(1..Len(madt)) /\ base = 0
    BY Zenon, <1>3, <1>t DEF WalkInv
  <2>2. Registered(1..Len(madt))'
    BY Zenon, <2>1, <1>3, <1>t, RegisteredFrame
  <2> QED
    BY Zenon, <2>1, <2>2, <1>3 DEF WalkInv
<1>4. CASE TimePasses
  BY Zenon, <1>4, <1>2 DEF TimePasses, routing
<1>5. CASE Interrupt
  <2>1. /\ UNCHANGED routing
        /\ pc' = pc \/ (pc = "pit_halted" /\ pc' = "pit_check")
                    \/ (pc = "sleep_halted" /\ pc' = "sleep_check")
    BY Zenon, <1>5 DEF Interrupt, pit_interrupt, lapic_clk_interrupt, Woken
  <2> QED
    BY Zenon, <2>1, <1>2, <1>3 DEF routing
<1>6. ASSUME NEW k \in 1..Len(madt), AtRecord(k), entries_skip, UNCHANGED madt,
             pc' # "panic"
      PROVE  /\ pc' = pc
             /\ \/ madt[k].record_length > 0 /\ AtRecord(k + 1)'
                \/ madt[k].record_length = 0 /\ AtRecord(k)'
  BY Zenon, <1>6, <1>t, Skip DEF entries_skip, Panic
<1>s. ASSUME NEW k \in Nat, AtRecord(k), entries_skip, pc' # "panic"
      PROVE  k \in 1..Len(madt)
  <2>1. k # Len(madt) + 1
    <3> SUFFICES ASSUME k = Len(madt) + 1 PROVE FALSE
      BY Zenon
    <3>1. Entry.entry_type = 255
      BY Zenon, <1>s, <1>t, EntryAfter
    <3>2. 255 \notin EntryTypes
      BY DEF EntryTypes, IOAPIC, OVERRIDE
    <3> QED
      BY Zenon, <3>1, <3>2, <1>s DEF entries_skip, Panic
  <2> QED
    BY <2>1, <1>s, <1>t DEF AtRecord
<1>r. ASSUME NEW k \in Nat, AtRecord(k), Entry.entry_type \in {IOAPIC, OVERRIDE}
      PROVE  k \in 1..Len(madt)
  <2>1. k # Len(madt) + 1
    <3> SUFFICES ASSUME k = Len(madt) + 1 PROVE FALSE
      BY Zenon
    <3>1. Entry.entry_type = 255
      BY Zenon, <1>r, <1>t, EntryAfter
    <3> QED
      BY <3>1, <1>r DEF IOAPIC, OVERRIDE
  <2> QED
    BY <2>1, <1>r, <1>t DEF AtRecord
<1>7. CASE madt_dump
  <2>1. CASE ptr < length
    <3>1. pc' = "panic" \/ pc' = pc
      BY Zenon, <1>7, <2>1 DEF madt_dump, entries_skip, Panic
    <3>2. pc = "madt_dump" /\ UNCHANGED redir
      BY Zenon, <1>7 DEF madt_dump, At
    <3> QED
      BY Zenon, <3>1, <3>2, <1>1, <1>t DEF WalkInv
  <2>2. CASE ~(ptr < length)
    <3>1. pc = "madt_dump" /\ pc' = "madt_find" /\ ptr' = 0 /\ UNCHANGED <<madt, redir>>
      BY Zenon, <1>7, <2>2 DEF madt_dump, At
    <3>2. AtRecord(1)' /\ Before(1)' = {}
      BY <3>1, <1>t, OffsetStep DEF AtRecord, Before, Offset
    <3>3. \E k \in Nat : (AtRecord(k) /\ \A i \in Before(k) : madt[i].entry_type # IOAPIC)'
      <4>1. 1 \in Nat
        BY Zenon
      <4> QED
        BY Zenon, <3>2, <4>1
    <3> QED
      BY Zenon, <3>1, <3>3, <1>t DEF WalkInv
  <2> QED
    BY Zenon, <2>1, <2>2
<1>8. CASE madt_find
  <2> SUFFICES ASSUME pc' # "panic" PROVE WalkInv'
    BY Zenon, <1>1
  <2>1. /\ pc = "madt_find" /\ UNCHANGED <<madt, redir>> /\ ~(ptr >= length)
        /\ \A p \in Pins : redir[p].mask /\ redir[p].vector = "none"
    BY Zenon, <1>8, <1>t DEF madt_find, At, WalkInv, Panic
  <2>2. PICK k \in Nat : AtRecord(k) /\ \A i \in Before(k) : madt[i].entry_type # IOAPIC
    BY Zenon, <2>1, <1>t DEF WalkInv
  <2>3. k \in 1..Len(madt) /\ Entry = madt[k]
    <3>1. Entry.entry_type = IOAPIC \/ entries_skip
      BY Zenon, <1>8, <2>1 DEF madt_find
    <3>2. k \in 1..Len(madt)
      BY Zenon, <3>1, <2>2, <1>s, <1>r
    <3> QED
      BY Zenon, <3>2, <2>2, <1>t, EntryAt
  <2>4. CASE Entry.entry_type = IOAPIC
    <3>1. base' = 0
      <4>1. base' = madt[k].gsi_base
        BY Zenon, <1>8, <2>1, <2>3, <2>4 DEF madt_find, Panic
      <4> QED
        BY Zenon, <4>1, <2>2, <2>3, <2>4, <1>t, IOApicAssumption DEF Before
    <3>2. ptr' = 0 /\ pc' = "overrides" /\ irqs' = [i \in Pins |-> i]
      BY Zenon, <1>8, <2>1, <2>4 DEF madt_find, Panic
    <3>3. AtRecord(1)' /\ Before(1)' = {} /\ 1 \in Nat
      BY <2>1, <3>2, <1>t, OffsetStep DEF AtRecord, Before, Offset
    <3>4. Registered(Before(1))'
      BY Zenon, <3>2, <3>3 DEF Registered
    <3> QED
      BY Zenon, <2>1, <3>1, <3>2, <3>3, <3>4 DEF WalkInv
  <2>5. CASE Entry.entry_type # IOAPIC
    <3>1. entries_skip
      BY Zenon, <1>8, <2>1, <2>5 DEF madt_find, Panic
    <3>2. /\ pc' = pc
          /\ \/ madt[k].record_length > 0 /\ AtRecord(k + 1)'
             \/ madt[k].record_length = 0 /\ AtRecord(k)'
      BY Zenon, <3>1, <2>1, <2>2, <2>3, <1>6
    <3>3. \A i \in Before(k + 1) : madt[i].entry_type # IOAPIC
      <4>1. Before(k + 1) = Before(k) \cup {k}
        BY <2>3, <1>t DEF Before
      <4> QED
        BY Zenon, <4>1, <2>2, <2>3, <2>5
    <3>4. \E j \in Nat : (AtRecord(j) /\ \A i \in Before(j) : madt[i].entry_type # IOAPIC)'
      <4>1. k + 1 \in Nat
        OBVIOUS
      <4>2. \A j : Before(j)' = Before(j)
        BY Zenon DEF Before
      <4> QED
        BY Zenon, <4>1, <4>2, <2>1, <2>2, <3>2, <3>3
    <3> QED
      BY Zenon, <2>1, <3>2, <3>4 DEF WalkInv
  <2> QED
    BY Zenon, <2>4, <2>5
<1>9. CASE madt_overrides
  <2> SUFFICES ASSUME pc' # "panic" PROVE WalkInv'
    BY Zenon, <1>1
  <2>1. /\ pc = "overrides" /\ UNCHANGED <<madt, base>> /\ base = 0
        /\ \A p \in Pins : redir[p].mask /\ redir[p].vector = "none"
    BY Zenon, <1>9, <1>t DEF madt_overrides, At, WalkInv
  <2>2. PICK k \in Nat : AtRecord(k) /\ Registered(Before(k))
    BY Zenon, <2>1, <1>t DEF WalkInv
  <2>3. k \in 1..Len(madt) /\ Entry = madt[k]
    <3>1. Entry.entry_type = OVERRIDE \/ entries_skip
      BY Zenon, <1>9 DEF madt_overrides
    <3>2. k \in 1..Len(madt)
      BY Zenon, <3>1, <2>2, <1>s, <1>r
    <3> QED
      BY Zenon, <3>2, <2>2, <1>t, EntryAt
  <2>4. CASE Entry.entry_type = OVERRIDE
    <3>1. register_override(madt[k]) /\ madt[k].gsi \in Pins /\ madt[k].record_length > 0
      BY Zenon, <1>9, <2>3, <2>4, <1>t, TimerAssumption DEF madt_overrides
    <3>2. /\ entries_next /\ pc' = pc
          /\ \A p \in Pins : redir'[p].mask = redir[p].mask /\ redir'[p].vector = redir[p].vector
      BY Zenon, <3>1, <1>t, RegisterEffect
    <3>3. AtRecord(k + 1)'
      BY Zenon, <3>1, <3>2, <2>1, <2>2, <2>3, <1>t, WalkOn
    <3>4. Registered(Before(k + 1))'
      BY Zenon, <3>1, <2>1, <2>2, <2>3, <2>4, <1>t, RegisterOne
    <3>5. k + 1 \in Nat
      OBVIOUS
    <3> QED
      BY Zenon, <2>1, <3>2, <3>3, <3>4, <3>5 DEF WalkInv
  <2>5. CASE Entry.entry_type # OVERRIDE
    <3>1. entries_skip /\ UNCHANGED <<irqs, redir>>
      BY Zenon, <1>9, <2>5 DEF madt_overrides
    <3>2. /\ pc' = pc
          /\ \/ madt[k].record_length > 0 /\ AtRecord(k + 1)'
             \/ madt[k].record_length = 0 /\ AtRecord(k)'
      BY Zenon, <3>1, <2>1, <2>2, <2>3, <1>6
    <3>3. Overrides(madt) \cap Before(k + 1) = Overrides(madt) \cap Before(k)
      BY SMTT(30), <2>3, <2>5, <1>t DEF Before, Overrides
    <3>4. Registered(Before(k))' /\ Registered(Before(k + 1))'
      <4>1. Registered(Before(k + 1))
        BY Zenon, <2>2, <3>3 DEF Registered
      <4>2. /\ Before(k)' = Before(k) /\ Before(k + 1)' = Before(k + 1)
            /\ Overrides(madt)' = Overrides(madt)
        BY Zenon, <2>1 DEF Before, Overrides
      <4> QED
        BY SMTT(30), <4>1, <4>2, <2>1, <2>2, <3>1 DEF Registered
    <3>5. \E j \in Nat : (AtRecord(j) /\ Registered(Before(j)))'
      <4>1. k + 1 \in Nat
        OBVIOUS
      <4> QED
        BY Zenon, <4>1, <3>2, <3>4
    <3> QED
      BY Zenon, <2>1, <3>1, <3>2, <3>5 DEF WalkInv
  <2> QED
    BY Zenon, <2>4, <2>5
<1>10. CASE enable_pit
  <2>1. /\ pc = "overrides" /\ pc' = "pit_init" /\ UNCHANGED <<madt, base, irqs>>
        /\ ptr >= length /\ base = 0
    BY Zenon, <1>10, <1>t DEF enable_pit, At, WalkInv
  <2>2. PICK k \in Nat : AtRecord(k) /\ Registered(Before(k))
    BY Zenon, <2>1, <1>t DEF WalkInv
  <2>3. \A i \in 1..Len(madt) : i >= k => madt[i].record_length = 0
    BY Zenon, <2>1, <2>2, <1>t, WalkEnd DEF IInv
  <2>4. Overrides(madt) \cap Before(k) = Overrides(madt) \cap (1..Len(madt))
    <3>1. ASSUME NEW i \in Overrides(madt) PROVE i \in Before(k)
      <4>1. i \in 1..Len(madt) /\ madt[i].record_length > 0 /\ madt[i].record_length \in Nat
        BY Zenon, <1>t, TimerAssumption DEF Overrides
      <4>2. ~(i >= k)
        BY <4>1, <2>3
      <4> QED
        BY <4>1, <4>2, <1>t DEF Before
    <3>2. Overrides(madt) \subseteq 1..Len(madt)
      BY Zenon DEF Overrides
    <3> QED
      BY Zenon, <3>1, <3>2
  <2>5. Registered(1..Len(madt))
    BY Zenon, <2>2, <2>4 DEF Registered
  <2>6. \A p \in Pins : redir'[p].low = redir[p].low /\ redir'[p].level = redir[p].level
    BY Zenon, <1>10, <1>t, Redirections, RedirEffect
  <2>7. Registered(1..Len(madt))'
    BY Zenon, <2>1, <2>5, <2>6, <1>t, RegisteredFrame
  <2> QED
    BY Zenon, <2>1, <2>7 DEF WalkInv
<1>11. CASE disable_pit
  <2>1. redir[irqs[GLOBAL_PIT]].vector \in Vectors
    BY Zenon, <1>11, <1>t DEF disable_pit, At, IInv, RouteInv, Routed, Vectors
  <2>2. \A p \in Pins : redir'[p].low = redir[p].low /\ redir'[p].level = redir[p].level
    BY Zenon, <1>11, <2>1, <1>t, Redirections, RedirEffect
  <2> QED
    BY Zenon, <1>11, <2>2, <1>3 DEF disable_pit, At
<1>12. CASE init_hpet
  <2>2. \A p \in Pins : redir'[p].low = redir[p].low /\ redir'[p].level = redir[p].level
    BY Zenon, <1>12, <1>t, HpetRedirects, Redirections, RedirEffect
  <2> QED
    BY Zenon, <1>12, <2>2, <1>1, <1>3 DEF init_hpet, At, Panic
<1>13. CASE \/ pit_init_begin \/ pit_init_end \/ setup_timer_start \/ pit_sleep_us
            \/ pit_sleep_check \/ pit_sleep_hlt \/ setup_timer_read \/ hpet_enable
  BY Zenon, <1>13, <1>3 DEF pit_init_begin, pit_init_end, setup_timer_start, pit_sleep_us,
     pit_sleep_check, pit_sleep_hlt, setup_timer_read, hpet_enable, At, routing
<1>14. CASE \/ sleep_local_us_begin \/ sleep_local_us_count \/ sleep_local_us_unmask
            \/ sleep_local_us_check \/ sleep_local_us_hlt
  BY Zenon, <1>14, <1>1, <1>3 DEF sleep_local_us_begin, sleep_local_us_count, sleep_local_us_unmask,
     sleep_local_us_check, sleep_local_us_hlt, At, Panic, routing
<1>15. CASE UNCHANGED vars
  BY Zenon, <1>15, <1>2 DEF vars, routing
<1> QED
  BY Zenon, <1>4, <1>5, <1>7, <1>8, <1>9, <1>10, <1>11, <1>12, <1>13, <1>14, <1>15 DEF Next, kmain

(* enable_pit gives the PIT's input its vector and unmasks it, and nothing    *)
(* touches the table before disable_pit.                                      *)
LEMMA RouteStep == IInv /\ [Next]_vars => RouteInv'
<1> SUFFICES ASSUME IInv, [Next]_vars PROVE RouteInv'
  BY Zenon
<1>t. /\ redir \in [Pins -> RedirEntries] /\ irqs \in [Pins -> Pins]
      /\ GLOBAL_PIT \in Pins /\ irqs[GLOBAL_PIT] \in Pins
  BY Zenon, TimerAssumption DEF IInv, Types
<1>1. CASE pc' \notin Routed
  BY Zenon, <1>1 DEF RouteInv
<1>2. CASE pc \in Routed /\ UNCHANGED <<irqs, redir>>
  BY Zenon, <1>2 DEF IInv, RouteInv
<1>3. CASE enable_pit
  <2>1. UNCHANGED irqs /\ Redirected(irqs[GLOBAL_PIT], FALSE, IRQ_PIT)
    <3>1. UNCHANGED irqs
      BY Zenon, <1>3 DEF enable_pit
    <3> QED
      BY Zenon, <1>3, <1>t, <3>1, Redirections, RedirEffect
  <2>2. \A p \in Pins : redir[p].vector = "none"
    BY Zenon, <1>3 DEF enable_pit, At, IInv, WalkInv, Walks
  <2> QED
    BY Zenon, <2>1, <2>2, <1>t DEF Redirected, RouteInv, IRQ_PIT
<1> USE DEF Routed
<1>4. CASE TimePasses
  BY Zenon, <1>4, <1>1, <1>2 DEF TimePasses, routing
<1>5. CASE Interrupt
  BY Zenon, <1>5, <1>1, <1>2 DEF Interrupt, pit_interrupt, lapic_clk_interrupt, Woken, routing
<1>6. CASE madt_dump \/ madt_find \/ madt_overrides
  BY Zenon, <1>6, <1>1 DEF madt_dump, madt_find, madt_overrides, entries_skip, register_override, At, Panic
<1>7. CASE \/ pit_init_begin \/ pit_init_end \/ setup_timer_start \/ pit_sleep_us
           \/ pit_sleep_check \/ pit_sleep_hlt \/ setup_timer_read
  BY Zenon, <1>7, <1>2 DEF pit_init_begin, pit_init_end, setup_timer_start, pit_sleep_us,
     pit_sleep_check, pit_sleep_hlt, setup_timer_read, At, routing
<1>8. CASE disable_pit \/ init_hpet \/ hpet_enable
  BY Zenon, <1>8, <1>1 DEF disable_pit, init_hpet, hpet_enable, Panic
<1>9. CASE \/ sleep_local_us_begin \/ sleep_local_us_count \/ sleep_local_us_unmask
           \/ sleep_local_us_check \/ sleep_local_us_hlt
  BY Zenon, <1>9, <1>1 DEF sleep_local_us_begin, sleep_local_us_count, sleep_local_us_unmask,
     sleep_local_us_check, sleep_local_us_hlt, Panic
<1>10. CASE UNCHANGED vars
  BY Zenon, <1>10, <1>1, <1>2 DEF vars, routing
<1> QED
  BY Zenon, <1>3, <1>4, <1>5, <1>6, <1>7, <1>8, <1>9, <1>10 DEF Next, kmain

(* As many interrupts as make up CalibrationUs are no fewer than Intervals. *)
LEMMA EnoughEdges ==
  ASSUME NEW n \in Nat, CalibrationUs <= n * PIT_INTERVAL
  PROVE  Intervals \in Nat /\ Intervals <= n /\ n >= 1
<1>1. CalibrationUs \in Nat \ {0} /\ PIT_INTERVAL \in Nat \ {0}
  BY Zenon, TimerAssumption
<1> DEFINE a == CalibrationUs
           b == PIT_INTERVAL
           q == Intervals
<1>2. q \in Nat /\ q * b <= a + b - 1
  BY <1>1 DEF Intervals
<1>3. q <= n
  <2> SUFFICES ASSUME q >= n + 1 PROVE FALSE
    BY <1>2
  <2>1. q * b >= (n + 1) * b
    BY <1>1, <1>2
  <2>2. (n + 1) * b = n * b + b
    BY <1>1
  <2> HIDE DEF a, b, q
  <2>3. n * b \in Nat /\ q * b \in Nat
    BY <1>1, <1>2 DEF b
  <2> QED
    BY <1>1, <1>2, <2>1, <2>2, <2>3 DEF a, b
<1>4. n >= 1
  BY <1>1
<1> QED
  BY Zenon, <1>2, <1>3, <1>4

(* PIT::sleep_us counts edges that the timer has covered; what                *)
(* setup_timer_pit reads off is the time of all of them but the first.        *)
LEMMA CalibrationStep == IInv /\ [Next]_vars => CalibrationInv'
<1> SUFFICES ASSUME IInv, [Next]_vars PROVE CalibrationInv'
  BY Zenon
<1>t. /\ Types /\ PcInv /\ VectorInv /\ CalibrationInv /\ SleepInv
      /\ CounterMax \in Nat \ {0} /\ PitPeriod \in Nat \ {0} /\ PIT_INTERVAL \in Nat \ {0}
      /\ CalibrationUs \in Nat \ {0}
      /\ lapic.count \in 0..CounterMax /\ pit \in 1..PitPeriod /\ TIMER_COUNTER \in 0..CalibrationUs
  BY Zenon, TimerAssumption DEF IInv, Types
<1>p. IRQ_PIT # IRQ_LAPIC_CLK
  BY Zenon DEF IRQ_PIT, IRQ_LAPIC_CLK
<1>i. PitSleeps \cap Calibrated = {} /\ "calibrate" \in PitSleeps /\ "calibrate" \notin Calibrated
  BY Zenon DEF PitSleeps, Calibrated, Sleeping, Slept
<1>1. CASE pc' \notin PitSleeps \cup Calibrated
  BY Zenon, <1>1, <1>i DEF CalibrationInv
<1>2. CASE pc \in Calibrated /\ pc' \in Calibrated /\ UNCHANGED TICKS_PER_MS
  BY Zenon, <1>2, <1>i, <1>t DEF CalibrationInv
<1>3. CASE pc = "panic" \/ pc' = "panic"
  <2>1. pc' = "panic"
    BY Zenon, <1>3, <1>t DEF PcInv, Next, vars, TimePasses, Interrupt, pit_interrupt,
       lapic_clk_interrupt, Woken, Deliverable, kmain, madt_dump, madt_find, madt_overrides,
       enable_pit, pit_init_begin, pit_init_end, setup_timer_start, pit_sleep_us,
       pit_sleep_check, pit_sleep_hlt, setup_timer_read, disable_pit, sleep_local_us_begin,
       sleep_local_us_count, sleep_local_us_unmask, sleep_local_us_check, sleep_local_us_hlt,
       init_hpet, hpet_enable, At
  <2> QED
    BY Zenon, <2>1, <1>1 DEF PitSleeps, Calibrated, Sleeping, Slept
<1>4. CASE TimePasses /\ pc \in PitSleeps
  <2>1. /\ UNCHANGED <<pc, TIMER_COUNTER, TICKS_PER_MS>>
        /\ pit' = IF pit = 1 THEN PitPeriod ELSE pit - 1
        /\ lapic'.count = IF lapic.count = 0 THEN 0 ELSE lapic.count - 1
    BY Zenon, <1>4, <1>t DEF TimePasses, statics, Types
  <2>2. irr = {} /\ (IRQ_PIT \in irr' => pit = 1)
    <3>1. irr = {}
      BY Zenon, <1>4, <1>t DEF TimePasses, Deliverable, PcInv, PitSleeps
    <3> QED
      BY Zenon, <3>1, <1>4, <1>t, TimeRequests
  <2>3. PICK n \in Nat : Covered(n)
    BY Zenon, <1>4, <1>t DEF CalibrationInv
  <2>4. Covered(n)'
    <3>1. Edges(n) = n /\ (Edges(n)' = n \/ (Edges(n)' = n + 1 /\ pit = 1))
      BY <2>2 DEF Edges
    <3>2. ASSUME lapic.count # 0, lapic.count # 1, Edges(n)' # 0
          PROVE  CounterMax - lapic'.count > (Edges(n)' - 1) * PitPeriod + (PitPeriod - pit')
      <4>1. lapic'.count = lapic.count - 1
        BY Zenon, <3>2, <2>1
      <4>2. CASE pit # 1
        <5>1. Edges(n)' = n /\ n # 0 /\ pit' = pit - 1
          BY Zenon, <4>2, <3>1, <3>2, <2>1
        <5>2. CounterMax - lapic.count > (n - 1) * PitPeriod + (PitPeriod - pit)
          BY Zenon, <5>1, <3>1, <3>2, <2>3 DEF Covered
        <5>3. (n - 1) * PitPeriod \in Int
          BY <1>t
        <5> QED
          BY <4>1, <5>1, <5>2, <5>3, <1>t
      <4>3. CASE pit = 1 /\ n = 0
        <5>1. (Edges(n)' - 1) * PitPeriod + (PitPeriod - pit') = 0
          BY <4>3, <3>1, <3>2, <2>1, <1>t
        <5> QED
          BY <4>1, <5>1, <1>t
      <4>4. CASE pit = 1 /\ n # 0
        <5>1. CounterMax - lapic.count > (n - 1) * PitPeriod + (PitPeriod - 1)
          BY Zenon, <4>4, <3>1, <3>2, <2>3 DEF Covered
        <5>2. (n - 1) * PitPeriod + PitPeriod = n * PitPeriod /\ (n - 1) * PitPeriod \in Int
          BY <1>t
        <5>3. (Edges(n)' - 1) * PitPeriod <= n * PitPeriod
          <6>1. (n + 1) - 1 = n
            OBVIOUS
          <6> QED
            BY <6>1, <5>2, <3>1, <1>t
        <5>4. pit' = PitPeriod /\ (Edges(n)' - 1) * PitPeriod \in Int
          BY <4>4, <3>1, <2>1, <1>t
        <5> QED
          BY <4>1, <5>1, <5>2, <5>3, <5>4, <1>t
      <4> QED
        BY Zenon, <4>2, <4>3, <4>4
    <3>3. TIMER_COUNTER' <= n * PIT_INTERVAL
      BY Zenon, <2>1, <2>3 DEF Covered
    <3> QED
      BY <3>2, <3>3, <2>1, <1>t DEF Covered
  <2> QED
    BY Zenon, <2>1, <2>4, <1>4, <1>i, <1>t DEF CalibrationInv
<1>5. CASE TimePasses /\ pc \notin PitSleeps
  <2>1. UNCHANGED <<pc, TICKS_PER_MS>>
    BY Zenon, <1>5 DEF TimePasses, statics
  <2> QED
    BY Zenon, <2>1, <1>1, <1>2, <1>5
<1>6. CASE pit_interrupt /\ pc \in PitSleeps
  <2>1. /\ UNCHANGED <<lapic, pit, TICKS_PER_MS>> /\ IRQ_PIT \in irr /\ IRQ_PIT \notin irr'
        /\ TIMER_COUNTER' = Min({TIMER_COUNTER + PIT_INTERVAL, CalibrationUs})
        /\ pc' \in PitSleeps /\ (pc' = "calibrate" => pc = "calibrate")
    BY Zenon, <1>6 DEF pit_interrupt, Woken, PitSleeps
  <2>2. /\ TIMER_COUNTER' <= TIMER_COUNTER + PIT_INTERVAL
        /\ TIMER_COUNTER = CalibrationUs => TIMER_COUNTER' = CalibrationUs
    <3>1. TIMER_COUNTER + PIT_INTERVAL \in Nat
      BY <1>t
    <3>2. TIMER_COUNTER' = IF TIMER_COUNTER + PIT_INTERVAL <= CalibrationUs
                           THEN TIMER_COUNTER + PIT_INTERVAL ELSE CalibrationUs
      BY Zenon, <2>1, <3>1, <1>t, MinPair
    <3> QED
      BY <3>1, <3>2, <1>t
  <2>3. PICK n \in Nat : Covered(n)
    BY Zenon, <1>6, <1>t DEF CalibrationInv
  <2>4. n + 1 \in Nat /\ Edges(n + 1)' = Edges(n)
    BY <2>1 DEF Edges
  <2>5. TIMER_COUNTER' <= (n + 1) * PIT_INTERVAL
    <3>1. (n + 1) * PIT_INTERVAL = n * PIT_INTERVAL + PIT_INTERVAL /\ n * PIT_INTERVAL \in Nat
      BY <1>t
    <3>2. TIMER_COUNTER <= n * PIT_INTERVAL
      BY Zenon, <2>3 DEF Covered
    <3>3. TIMER_COUNTER' \in Int
      BY <2>1, <1>t, MinPair
    <3> QED
      BY <3>1, <3>2, <3>3, <2>2, <1>t
  <2>6. Covered(n + 1)'
    BY Zenon, <2>1, <2>3, <2>4, <2>5 DEF Covered
  <2> QED
    BY Zenon, <2>1, <2>2, <2>4, <2>6, <1>6, <1>i, <1>t DEF CalibrationInv
<1>7. CASE pit_interrupt /\ pc \notin PitSleeps
  <2>1. UNCHANGED TICKS_PER_MS /\ (pc' = pc \/ (pc = "sleep_halted" /\ pc' = "sleep_check"))
    BY Zenon, <1>7 DEF pit_interrupt, Woken, PitSleeps
  <2>2. "sleep_halted" \in Calibrated /\ "sleep_check" \in Calibrated
    BY Zenon DEF Calibrated, Sleeping
  <2> QED
    BY Zenon, <2>1, <2>2, <1>1, <1>2, <1>7
<1>8. CASE lapic_clk_interrupt
  <2>1. IRQ_LAPIC_CLK \in irr /\ UNCHANGED TICKS_PER_MS
    BY Zenon, <1>8 DEF lapic_clk_interrupt
  <2>2. pc \in Sleeping
    <3>1. pc # "panic"
      BY Zenon, <1>8, <1>t DEF lapic_clk_interrupt, Deliverable, PcInv
    <3> QED
      BY Zenon, <3>1, <2>1, <1>t DEF SleepInv, SleepRunsItsCourse, PcInv, Sleeping
  <2>3. pc' \in Sleeping
    BY Zenon, <2>2, <1>8 DEF lapic_clk_interrupt, Woken, Sleeping
  <2> QED
    BY Zenon, <2>1, <2>2, <2>3, <1>2 DEF Calibrated
<1>9. CASE pit_sleep_us
  <2>1. pc' = "pit_check" /\ TIMER_COUNTER' = 0 /\ UNCHANGED irr
    BY Zenon, <1>9 DEF pit_sleep_us, hardware
  <2>2. irr = {}
    BY Zenon, <1>9, <1>t DEF pit_sleep_us, At, Deliverable, PcInv
  <2>3. 0 \in Nat /\ Covered(0)'
    BY <2>1, <2>2, <1>t DEF Covered, Edges
  <2> QED
    BY Zenon, <2>1, <2>3 DEF CalibrationInv, Calibrated, Sleeping, Slept
<1>10. CASE pit_sleep_check \/ pit_sleep_hlt
  <2>1. /\ pc \in PitSleeps /\ pc' \in PitSleeps
        /\ pc' = "calibrate" => TIMER_COUNTER = CalibrationUs
        /\ UNCHANGED <<TIMER_COUNTER, irr, lapic, pit, TICKS_PER_MS>>
    BY <1>10, <1>t DEF pit_sleep_check, pit_sleep_hlt, At, PitSleeps, hardware, statics
  <2>2. \A n : Covered(n)' <=> Covered(n)
    BY Zenon, <2>1 DEF Covered, Edges
  <2> QED
    BY Zenon, <2>1, <2>2, <1>i, <1>t DEF CalibrationInv
<1>11. CASE setup_timer_read
  <2>1. /\ pc = "calibrate" /\ pc' = "disable_pit" /\ irr = {}
        /\ TICKS_PER_MS' = CounterMax - lapic.count
    BY Zenon, <1>11, <1>t DEF setup_timer_read, At, Deliverable, PcInv
  <2>2. PICK n \in Nat : Covered(n)
    BY Zenon, <2>1, <1>i, <1>t DEF CalibrationInv
  <2>3. TIMER_COUNTER = CalibrationUs /\ Edges(n) = n
    BY <2>1, <1>t DEF CalibrationInv, Edges
  <2>4. Intervals \in Nat /\ Intervals <= n /\ n >= 1
    BY Zenon, <2>2, <2>3, EnoughEdges DEF Covered
  <2>5. (Intervals - 1) * PitPeriod <= (n - 1) * PitPeriod
    BY <2>4, <1>t
  <2>6. (Intervals - 1) * PitPeriod \in Int /\ (n - 1) * PitPeriod \in Int
    BY <2>4, <1>t
  <2>7. TICKS_PER_MS' > (Intervals - 1) * PitPeriod
    <3>1. CASE lapic.count = 0
      BY <3>1, <2>1, <1>t, CounterAssumption
    <3>2. CASE lapic.count # 0
      <4>1. CounterMax - lapic.count > (n - 1) * PitPeriod + (PitPeriod - pit)
        BY <3>2, <2>2, <2>3, <2>4 DEF Covered
      <4> QED
        BY <4>1, <2>1, <2>5, <2>6, <1>t
    <3> QED
      BY Zenon, <3>1, <3>2
  <2> QED
    BY Zenon, <2>1, <2>7, <1>i DEF CalibrationInv, PitSleeps
<1>12. CASE \/ madt_dump \/ madt_find \/ madt_overrides \/ enable_pit
            \/ pit_init_begin \/ pit_init_end \/ setup_timer_start
  <2>1. pc' \in (Unarmed \cup {"panic"}) \ (PitSleeps \cup Calibrated)
    BY Zenon, <1>12 DEF madt_dump, madt_find, madt_overrides, register_override, entries_skip, Panic,
       enable_pit, pit_init_begin, pit_init_end, setup_timer_start, At, Unarmed, Walks, Routed,
       PitSleeps, Calibrated, Sleeping, Slept
  <2> QED
    BY Zenon, <2>1, <1>1
<1>13. CASE \/ disable_pit \/ sleep_local_us_begin \/ sleep_local_us_count
            \/ sleep_local_us_unmask \/ sleep_local_us_check \/ sleep_local_us_hlt
            \/ init_hpet \/ hpet_enable
  <2>1. UNCHANGED TICKS_PER_MS /\ pc \in Calibrated /\ pc' \in Calibrated \cup {"panic"}
    BY Zenon, <1>13 DEF disable_pit, sleep_local_us_begin, sleep_local_us_count, sleep_local_us_unmask,
       sleep_local_us_check, sleep_local_us_hlt, init_hpet, hpet_enable, At, Panic, statics,
       Calibrated, Sleeping, Slept
  <2> QED
    BY Zenon, <2>1, <1>2, <1>3
<1>14. CASE UNCHANGED vars
  <2>1. \A n : Covered(n)' <=> Covered(n)
    BY Zenon, <1>14 DEF vars, hardware, statics, Covered, Edges
  <2> QED
    BY Zenon, <1>14, <2>1, <1>t DEF vars, statics, CalibrationInv
<1> QED
  BY Zenon, <1>4, <1>5, <1>6, <1>7, <1>8, <1>9, <1>10, <1>11, <1>12, <1>13, <1>14
     DEF Next, Interrupt, kmain

-----------------------------------------------------------------------------
(* The invariant and the properties. *)

(* Before kmain's first walk nothing is routed, calibrated or asleep. *)
LEMMA InitInv == Init => IInv
<1> SUFFICES ASSUME Init PROVE IInv
  BY Zenon
<1>1. /\ pc = "madt_dump" /\ pc \in Walks /\ pc \in Unarmed /\ pc \notin Routed
      /\ pc \notin PitSleeps /\ pc \notin Calibrated /\ pc \notin Waits
      /\ pc \notin Sleeping /\ pc \notin Slept
  BY Zenon DEF Init, Walks, Unarmed, Routed, PitSleeps, Calibrated, Sleeping, Slept, Waits
<1>2. Types
  <2>1. Masked \in RedirEntries
    BY Zenon DEF Masked, RedirEntries
  <2>2. GLOBAL_PIT \in Pins /\ CounterMax \in Nat /\ CalibrationUs \in Nat
    BY Zenon, TimerAssumption
  <2>3. lapic \in [count: 0..CounterMax, masked: BOOLEAN]
    BY <2>2 DEF Init
  <2>4. redir \in [Pins -> RedirEntries]
    BY Zenon, <2>1 DEF Init
  <2> HIDE DEF RedirEntries
  <2> QED
    BY <2>2, <2>3, <2>4 DEF Init, Types, GLOBAL_PIT
<1>7. LengthInv
  <2>1. PICK extra \in Extras : length = Offset(Len(madt) + 1) + extra
    BY Zenon DEF Init
  <2>2. madt \in Tables /\ Len(madt) \in Nat
    BY Zenon, OffsetStep DEF Init
  <2>3. Len(madt) + 1 \in 1..Len(madt) + 1
    BY <2>2
  <2>4. Offset(Len(madt) + 1) \in Nat /\ extra \in Nat
    BY Zenon, <2>2, <2>3, OffsetStep, TimerAssumption
  <2> QED
    BY <2>1, <2>4 DEF LengthInv
<1>3. PcInv
  BY Zenon, <1>1 DEF Init, PcInv
<1>4. VectorInv
  BY Zenon DEF Init, VectorInv, Masked, IRQ_LAPIC_CLK
<1>5. WalkInv
  BY Zenon, <1>1 DEF Init, WalkInv, Masked
<1>6. SleepInv
  BY Zenon, <1>1 DEF Init, SleepInv, SleepRunsItsCourse
<1> QED
  BY Zenon, <1>1, <1>2, <1>3, <1>4, <1>5, <1>6, <1>7 DEF IInv, RouteInv, CalibrationInv

(* The invariant holds throughout the boot. *)
THEOREM BootInvariant == Spec => []IInv
<1>1. IInv /\ [Next]_vars => IInv'
  BY Zenon, TypesStep, LengthStep, PcStep, VectorStep, WalkStep, RouteStep, CalibrationStep, SleepStep DEF IInv
<1> QED
  BY InitInv, <1>1, PTL DEF Spec

(* Every variable keeps its type: in particular every index register_override *)
(* and init_hpet use is an input, and no count leaves the timer's width.      *)
THEOREM TypeCorrect == Spec => []TypeOK
<1>1. IInv => TypeOK
  BY Zenon DEF IInv, Types, LengthInv, PcInv, TypeOK, RedirEntries, Unarmed, Walks, Routed, Sleeping, Slept
<1> QED
  BY BootInvariant, <1>1, PTL

(* main.rs:164-168, hdint.rs: every override of the table is registered when  *)
(* the PIT is routed and stays so.                                            *)
THEOREM OverridesRegistered == Spec => []OverridesApplied
<1>1. IInv => OverridesApplied
  <2> SUFFICES ASSUME IInv, pc \in Routed \cup Calibrated PROVE OverridesApplied
    BY Zenon DEF OverridesApplied
  <2>1. pc \notin Walks \cup {"panic"}
    BY Zenon DEF Routed, Calibrated, Sleeping, Slept, Walks
  <2>2. Registered(1..Len(madt))
    BY Zenon, <2>1 DEF IInv, WalkInv
  <2>3. Overrides(madt) \cap (1..Len(madt)) = Overrides(madt)
    BY Zenon DEF Overrides
  <2> QED
    BY Zenon, <2>2, <2>3 DEF Registered, OverridesApplied
<1> QED
  BY BootInvariant, <1>1, PTL

(* The input irqs gives for the PIT is the one it is wired to. *)
LEMMA PitWired ==
  ASSUME IInv, pc \in Routed
  PROVE  irqs[GLOBAL_PIT] = PitPin /\ PitPin \in Pins
<1> DEFINE of == {i \in Overrides(madt) : madt[i].irq_source = GLOBAL_PIT}
<1>1. pc \notin Walks \cup {"panic"} /\ pc \notin {"madt_dump", "madt_find", "panic"}
  BY Zenon DEF Routed, Walks
<1>2. Registered(1..Len(madt)) /\ base = 0
  BY Zenon, <1>1 DEF IInv, WalkInv
<1>3. /\ GLOBAL_PIT \in Pins /\ Pins \subseteq Nat /\ irqs \in [Pins -> Pins]
      /\ madt \in Tables /\ Len(madt) \in Nat
  BY Zenon, TimerAssumption DEF IInv, Types
<1>4. Overrides(madt) \cap (1..Len(madt)) = Overrides(madt)
  BY Zenon DEF Overrides
<1>5. irqs[GLOBAL_PIT] = IF of = {} THEN GLOBAL_PIT ELSE madt[Min(of)].gsi
  <2>1. CASE of = {}
    BY Zenon, <2>1, <1>2, <1>3, <1>4 DEF Registered
  <2>2. CASE of # {}
    <3>1. of \in SUBSET Nat
      BY <1>3 DEF Overrides
    <3>2. Min(of) \in of
      BY Zenon, <2>2, <3>1, MinElement
    <3> QED
      BY Zenon, <2>2, <3>2, <1>2, <1>3, <1>4 DEF Registered
  <2> QED
    BY Zenon, <2>1, <2>2
<1>6. irqs[GLOBAL_PIT] \in Pins /\ irqs[GLOBAL_PIT] \in Nat
  BY Zenon, <1>3
<1>7. PitPin = irqs[GLOBAL_PIT] - 0
  BY Zenon, <1>5, <1>2 DEF PitPin
<1> HIDE DEF of
<1> QED
  BY <1>6, <1>7

(* hdint.rs: from enable_pit to disable_pit the PIT reaches its handler, and  *)
(* nothing else does, whatever the table lists and in whatever order.         *)
THEOREM PitReachesHandler == Spec => []PitRouted
<1>1. IInv => PitRouted
  BY Zenon, PitWired DEF IInv, RouteInv, PitRouted, PitSignals
<1> QED
  BY BootInvariant, <1>1, PTL

(* hdint.rs, setup_timer_pit: the calibration never comes out faster than the *)
(* PIT intervals it waited for, for any ratio of the two rates.               *)
THEOREM CalibrationSound == Spec => []CalibrationCoversIntervals
<1>1. IInv => CalibrationCoversIntervals
  BY Zenon DEF IInv, CalibrationInv, CalibrationCoversIntervals
<1> QED
  BY BootInvariant, <1>1, PTL

(* sleep_local_us returns only when its timer has run down and its interrupt  *)
(* has been handled, for any interleaving with the PIT's interrupts.          *)
THEOREM SleepComplete == Spec => []SleepRunsItsCourse
<1>1. IInv => SleepRunsItsCourse
  BY Zenon DEF IInv, SleepInv
<1> QED
  BY BootInvariant, <1>1, PTL

(* hdint.rs:166: sleep_local_us sleeps at least the counts asked for. *)
THEOREM SleepDuration == Spec => []SleepLongEnough
<1>1. IInv => SleepLongEnough
  <2> SUFFICES ASSUME IInv, pc \in Slept PROVE waited >= SleepTicks
    BY Zenon DEF SleepLongEnough
  <2>1. lapic.count = 0 /\ SleepTicks <= CounterMax
        /\ (waited = CounterMax \/ waited + lapic.count >= SleepTicks)
    BY Zenon DEF IInv, SleepInv, SleepRunsItsCourse
  <2>2. waited \in Nat /\ CounterMax \in Nat /\ SleepTicks \in Nat
    <3>1. waited \in 0..CounterMax
      BY Zenon DEF IInv, Types
    <3>2. SleepTicks \in Nat
      BY Zenon, SleepTicksNat DEF IInv
    <3> QED
      BY <3>1, <3>2, TimerAssumption
  <2> QED
    BY <2>1, <2>2
<1> QED
  BY BootInvariant, <1>1, PTL

==============================================================================

-------------------------- MODULE KernelStacksProofs --------------------------
(***************************************************************************)
(* Kernel stacks for any number and size of stacks and any memory map: the *)
(* addresses make_kernel_stack computes fit the guards of stack::init, no  *)
(* later mapping replaces a guard, every frame in use has one use, and the *)
(* pages of a stack are mapped unless memory has run out.                  *)
(***************************************************************************)
EXTENDS KernelPagingProofs

(* Most leaves are first-order; those that need arithmetic ask for SMT. *)
USE Zenon

-----------------------------------------------------------------------------
(* The inductive invariant *)

(* Every page has an entry, and the free indices and the stacks handed out    *)
(* are those of the layout.                                                   *)
LayoutInv ==
  /\ pte = [w \in VPages |-> pte[w]]
  /\ large \subseteq LargeIds /\ small \subseteq SmallIds
  /\ stacks \subseteq AllStacks

(* The memory the mapping functions start from. *)
LEMMA StateMemory ==
  ASSUME pte = [w \in VPages |-> pte[w]]
  PROVE  Memory(State) /\ State.pte = pte /\ State.panic = FALSE
<1>1. State = [bits |-> buddy_bytes, used |-> used, pte |-> pte, tables |-> tables,
               panic |-> FALSE]
  BY DEF State
<1>2. Memory(State)
  BY ZenonT(30), <1>1 DEF Memory
<1>3. State.pte = pte
  BY <1>1
<1>4. State.panic = FALSE
  BY <1>1
<1> QED
  BY <1>2, <1>3, <1>4

(* What kmain maps for the heap and the devices lies elsewhere. *)
LEMMA BootSteps ==
  ASSUME pte = [w \in VPages |-> pte[w]], heap_init \/ init_local \/ IOApic_new \/ HPET_new
  PROVE  /\ pte' = pte /\ UNCHANGED <<large, small, stacks>>
         /\ phase \in {"boot", "lapic", "ioapic", "hpet"}
         /\ phase' \in {"lapic", "ioapic", "hpet", "mapped", "panic"}
<1>1. Memory(State) /\ State.pte = pte
  BY StateMemory
<1>2. ASSUME NEW gs, gs \subseteq -9..-1 PROVE Cardinality(gs) \in Nat
  <2>1. IsFiniteSet(-9..-1)
    <3>1. -9 \in Int /\ -1 \in Int
      BY SMT
    <3> QED
      BY <3>1, FS_Interval
  <2>2. IsFiniteSet(gs)
    BY <1>2, <2>1, FS_Subset
  <2> QED
    BY <2>2, FS_CardinalityType
<1>3. /\ HeapTables \subseteq -9..-1
      /\ \A i \in 1..3 : DeviceTables(i) \subseteq -9..-1
  BY SMT DEF HeapTables, DeviceTables
<1>4. Devices[1] = "lapic" /\ Devices[2] = "ioapic" /\ Devices[3] = "hpet"
  BY DEF Devices
<1>5. CASE heap_init
  <2> DEFINE got    == pick_off_contiguous(buddy_bytes, HeapPages, 2^LEVEL_2MIB)
             frames == got.page..(got.page + HeapPages - 1)
             b      == got.bits
             u      == State.used \cup frames
             m      == WithFrames(State, b, u)
             table  == WithTables(m, HeapTables)
  <2>1. /\ phase = "boot" /\ UNCHANGED <<large, small, stacks>>
        /\ Effect(table.m) \/ UNCHANGED pte
        /\ phase' = Devices[1] \/ phase' = "panic"
    BY <1>5 DEF heap_init, heap_init_pages, WithFrames, Panic
  <2> HIDE DEF b, u
  <2>2. Memory(m) /\ m.pte = pte
    BY SMT, <1>1, FramesUpdate
  <2> HIDE DEF m
  <2>3. table.m.pte = pte
    BY <1>2, <1>3, <2>2, WithTablesKeeps
  <2> HIDE DEF table
  <2> QED
    BY <1>4, <2>1, <2>3 DEF Effect
<1>6. ASSUME NEW i \in 1..3, map_device(i)
      PROVE  /\ pte' = pte /\ UNCHANGED <<large, small, stacks>>
             /\ phase \in {"boot", "lapic", "ioapic", "hpet"}
             /\ phase' \in {"lapic", "ioapic", "hpet", "mapped", "panic"}
  <2> DEFINE table == WithTables(State, DeviceTables(i))
  <2>1. table.m.pte = pte
    BY <1>1, <1>2, <1>3, WithTablesKeeps
  <2>2. /\ phase = Devices[i] /\ UNCHANGED <<large, small, stacks>>
        /\ Effect(table.m)
        /\ \/ phase' = (IF i < 3 THEN Devices[i + 1] ELSE "mapped")
           \/ phase' = "panic"
    BY <1>6 DEF map_device, Panic
  <2> HIDE DEF table
  <2>3. pte' = pte
    BY <2>1, <2>2 DEF Effect
  <2>4. i = 1 \/ i = 2 \/ i = 3
    BY SMT
  <2> QED
    BY SMT, <1>4, <2>2, <2>3, <2>4
<1>7. CASE HPET_unusable
  BY <1>4, <1>7 DEF HPET_unusable, Panic
<1>8. CASE init_local
  <2>1. 1 \in 1..3
    BY SMT
  <2> QED
    BY <1>6, <1>8, <2>1 DEF init_local
<1>9. CASE IOApic_new
  <2>1. 2 \in 1..3
    BY SMT
  <2> QED
    BY <1>6, <1>9, <2>1 DEF IOApic_new
<1>10. CASE HPET_new
  <2>1. 3 \in 1..3
    BY SMT
  <2> QED
    BY <1>6, <1>7, <1>10, <2>1 DEF HPET_new
<1> QED
  BY <1>5, <1>8, <1>9, <1>10

(* The first free index, which trailing_zeros finds. *)
LEMMA FreeIndex ==
  ASSUME LayoutInv
  PROVE  /\ large # {} => Min(large) \in large /\ Min(large) \in LargeIds
         /\ small # {} => Min(small) \in small /\ Min(small) \in SmallIds
<1>1. ASSUME NEW S \in SUBSET Nat, S # {} PROVE Min(S) \in S
  <2>1. \E n \in S : \A k \in S : n <= k
    BY <1>1, Least
  <2> QED
    BY <2>1 DEF Min
<1>2. large \in SUBSET Nat /\ small \in SUBSET Nat
  BY SMT, StackAssumption DEF LayoutInv, LargeIds, SmallIds
<1> QED
  BY <1>1, <1>2 DEF LayoutInv

(* What the steps after stack::init do to the entries. *)
LEMMA LateSteps ==
  ASSUME pte = [w \in VPages |-> pte[w]], LayoutInv,
         make_scheduler_stack \/ map_large_stack \/ map_small_stack
  PROVE  /\ pte' = [w \in VPages |-> pte'[w]]
         /\ \A w \in VPages : pte[w] # Unused => pte'[w] = pte[w]
<1>1. Memory(State) /\ State.pte = pte
  BY StateMemory
<1>2. ASSUME NEW m, Kept(State, m), Effect(m)
      PROVE  /\ pte' = [w \in VPages |-> pte'[w]]
             /\ \A w \in VPages : pte[w] # Unused => pte'[w] = pte[w]
  <2>1. PICK b0, u0, p0, t0, x0 :
           /\ m = [bits |-> b0, used |-> u0, pte |-> p0, tables |-> t0, panic |-> x0]
           /\ p0 = [w \in VPages |-> p0[w]]
    BY <1>2 DEF Kept, Memory
  <2>2. m.pte = p0
    BY <2>1
  <2>3. pte' = p0
    BY <1>2, <2>2 DEF Effect
  <2>4. \A w \in VPages : pte[w] # Unused => p0[w] = pte[w]
    BY <1>1, <1>2, <2>2 DEF Kept
  <2> QED
    BY <2>1, <2>3, <2>4
<1>3. CASE UNCHANGED pte
  BY <1>3
<1>4. CASE make_scheduler_stack
  <2> DEFINE region == page_region(State, SchedBottom + 1, SCHEDULER_STACK_SIZE)
             guards == {SchedBottom, SchedBottom + SCHEDULER_STACK_SIZE + 1}
             r == MapAll(region.m, guards, NullFrame, "guard")
             m == IF region.ok THEN r ELSE region.m
  <2>1. Effect(m)
    BY <1>4 DEF make_scheduler_stack
  <2>2. Kept(State, region.m)
    <3>1. SchedBottom + 1 \in Int /\ SCHEDULER_STACK_SIZE \in Nat
      BY SMT, StackAssumption
    <3> QED
      BY <1>1, <3>1, PageRegionKeeps
  <2>3. Cardinality(guards) \in Nat
    <3>1. guards \subseteq 0..SchedBottom + SCHEDULER_STACK_SIZE + 1
      BY SMT, StackAssumption
    <3>2. IsFiniteSet(0..SchedBottom + SCHEDULER_STACK_SIZE + 1)
      <4>1. 0 \in Int /\ SchedBottom + SCHEDULER_STACK_SIZE + 1 \in Int
        BY SMT, StackAssumption
      <4> QED
        BY <4>1, FS_Interval
    <3> HIDE DEF guards
    <3>3. IsFiniteSet(guards)
      BY <3>1, <3>2, FS_Subset
    <3> QED
      BY <3>3, FS_CardinalityType
  <2> HIDE DEF region, guards
  <2>4. Kept(region.m, r)
    BY SMT, <2>2, <2>3, MapAllKeeps DEF Kept
  <2>5. Kept(State, r)
    BY <2>2, <2>4, KeptTrans
  <2>6. Kept(State, m)
    BY <2>2, <2>5
  <2> HIDE DEF m
  <2> QED
    BY <1>2, <2>1, <2>6
<1>5. CASE map_large_stack
  <2> DEFINE start == LargeEnd(Min(large)) - LARGE_KERNEL_STACK_PAGES
  <2>1. UNCHANGED pte \/ (large # {} /\ Effect(page_region(State, start, LARGE_KERNEL_STACK_PAGES).m))
    BY <1>5 DEF map_large_stack
  <2>2. large # {} => start \in Int
    BY SMT, FreeIndex, StackAssumption DEF LayoutInv, LargeEnd, LargeIds
  <2> HIDE DEF start
  <2>3. large # {} => Kept(State, page_region(State, start, LARGE_KERNEL_STACK_PAGES).m)
    BY <1>1, <2>2, PageRegionKeeps, StackAssumption
  <2> QED
    BY <1>2, <1>3, <2>1, <2>3
<1>6. CASE map_small_stack
  <2> DEFINE start == SmallEnd(Min(small)) - SMALL_KERNEL_STACK_PAGES
  <2>1. UNCHANGED pte \/ (small # {} /\ Effect(page_region(State, start, SMALL_KERNEL_STACK_PAGES).m))
    BY <1>6 DEF map_small_stack
  <2>2. small # {} => start \in Int
    BY SMT, FreeIndex, StackAssumption DEF LayoutInv, SmallEnd, SmallIds
  <2> HIDE DEF start
  <2>3. small # {} => Kept(State, page_region(State, start, SMALL_KERNEL_STACK_PAGES).m)
    BY <1>1, <2>2, PageRegionKeeps, StackAssumption
  <2> QED
    BY <1>2, <1>3, <2>1, <2>3
<1> QED
  BY <1>4, <1>5, <1>6

(* stack::init. *)
LEMMA InitStep ==
  ASSUME pte = [w \in VPages |-> pte[w]], init
  PROVE  /\ phase = "mapped" /\ phase' \in {"stacks", "panic"}
         /\ pte' = [w \in VPages |-> pte'[w]] /\ UNCHANGED stacks
         /\ large' \in {large, LargeIds} /\ small' \in {small, SmallIds}
<1> DEFINE m == MapAll(State, GuardPages, NullFrame, "guard")
<1>1. Memory(State) /\ State.pte = pte /\ State.panic = FALSE
  BY StateMemory
<1>2. GuardPages \in SUBSET Int /\ IsFiniteSet(GuardPages) /\ Cardinality(GuardPages) \in Nat
      /\ \A g \in GuardPages : g \in VPages
  <2>1. GuardPages \subseteq VPages /\ GuardPages \subseteq Nat
    BY Guards
  <2>2. IsFiniteSet(VPages)
    <3>1. 0 \in Int /\ SchedBottom + SCHEDULER_STACK_SIZE + 1 \in Int
      BY SMT, StackAssumption
    <3> QED
      BY <3>1, FS_Interval DEF VPages
  <2>3. IsFiniteSet(GuardPages)
    BY <2>1, <2>2, FS_Subset
  <2>4. Cardinality(GuardPages) \in Nat
    BY <2>3, FS_CardinalityType
  <2> QED
    BY SMT, <2>1, <2>3, <2>4
<1>3. /\ phase = "mapped" /\ UNCHANGED stacks /\ Effect(m)
      /\ phase' = "stacks" \/ phase' = "panic"
      /\ large' = large \/ large' = LargeIds
      /\ small' = small \/ small' = SmallIds
  BY DEF init, Panic, LargeIds, SmallIds
<1>4. Memory(m)
  BY <1>1, <1>2, MapAllKeeps DEF Kept
<1>5. pte' = m.pte
  BY <1>3 DEF Effect
<1>6. m.pte = [w \in VPages |-> m.pte[w]]
  <2> HIDE DEF m
  <2> QED
    BY SMT, <1>4 DEF Memory
<1> HIDE DEF m
<1> QED
  BY <1>3, <1>5, <1>6

(* make_kernel_stack hands out the stack of the index it took. *)
LEMMA StackSteps ==
  ASSUME LayoutInv, make_scheduler_stack \/ map_large_stack \/ map_small_stack
  PROVE  /\ large' \subseteq LargeIds /\ small' \subseteq SmallIds
         /\ stacks' \subseteq AllStacks
         /\ phase \in {"stacks", "ready"} /\ phase' \in {"ready", "panic"}
<1>1. CASE make_scheduler_stack
  <2>1. phase = "stacks" /\ (phase' = "ready" \/ phase' = "panic")
        /\ UNCHANGED <<large, small, stacks>>
    BY <1>1 DEF make_scheduler_stack, Panic
  <2> QED
    BY <2>1 DEF LayoutInv
<1>2. CASE map_large_stack
  <2> DEFINE i == Min(large)
  <2>1. /\ phase = "ready" /\ UNCHANGED small
        /\ \/ phase' = "panic" /\ UNCHANGED <<large, stacks>>
           \/ /\ large # {} /\ large' = large \ {i} /\ UNCHANGED phase
              /\ stacks' = stacks \cup {<<LargeEnd(i) - LARGE_KERNEL_STACK_PAGES, LargeEnd(i) - 1>>}
    BY <1>2 DEF map_large_stack, Panic
  <2>2. large # {} => i \in LargeIds
    BY FreeIndex
  <2> HIDE DEF i
  <2>3. large # {} => <<LargeEnd(i) - LARGE_KERNEL_STACK_PAGES, LargeEnd(i) - 1>> \in AllStacks
    BY <2>2, StackEnds DEF AllStacks
  <2> QED
    BY <2>1, <2>3 DEF LayoutInv
<1>3. CASE map_small_stack
  <2> DEFINE i == Min(small)
  <2>1. /\ phase = "ready" /\ UNCHANGED large
        /\ \/ phase' = "panic" /\ UNCHANGED <<small, stacks>>
           \/ /\ small # {} /\ small' = small \ {i} /\ UNCHANGED phase
              /\ stacks' = stacks \cup {<<SmallEnd(i) - SMALL_KERNEL_STACK_PAGES, SmallEnd(i) - 1>>}
    BY <1>3 DEF map_small_stack, Panic
  <2>2. small # {} => i \in SmallIds
    BY FreeIndex
  <2> HIDE DEF i
  <2>3. small # {} => <<SmallEnd(i) - SMALL_KERNEL_STACK_PAGES, SmallEnd(i) - 1>> \in AllStacks
    BY <2>2, StackEnds DEF AllStacks
  <2> QED
    BY <2>1, <2>3 DEF LayoutInv
<1> QED
  BY <1>1, <1>2, <1>3

(* Every step keeps the layout. *)
LEMMA LayoutStep ==
  ASSUME LayoutInv, [KNext]_kvars
  PROVE  LayoutInv'
<1>1. pte = [w \in VPages |-> pte[w]]
  BY DEF LayoutInv
<1>2. CASE heap_init \/ init_local \/ IOApic_new \/ HPET_new
  BY <1>1, <1>2, BootSteps DEF LayoutInv
<1>3. CASE init
  <2>1. /\ pte' = [w \in VPages |-> pte'[w]] /\ UNCHANGED stacks
        /\ large' \in {large, LargeIds} /\ small' \in {small, SmallIds}
    BY <1>1, <1>3, InitStep
  <2>2. large' \subseteq LargeIds /\ small' \subseteq SmallIds /\ stacks' \subseteq AllStacks
    BY <2>1 DEF LayoutInv
  <2> QED
    BY <2>1, <2>2 DEF LayoutInv, VPages, AllStacks, LargeIds, SmallIds
<1>4. CASE make_scheduler_stack \/ map_large_stack \/ map_small_stack
  BY <1>1, <1>4, LateSteps, StackSteps DEF LayoutInv
<1>5. CASE UNCHANGED kvars
  BY <1>5 DEF LayoutInv, kvars
<1> QED
  BY <1>2, <1>3, <1>4, <1>5 DEF KNext

-----------------------------------------------------------------------------
(* Who has which frame *)

(* The tables of the heap and the devices are made once, in kmain's order. *)
TableInv ==
  /\ phase = "boot" => heap = {} /\ DOMAIN tables = {}
  /\ phase = "lapic" => DOMAIN tables \subseteq -2..-1
  /\ phase = "ioapic" => DOMAIN tables \subseteq -5..-1
  /\ phase = "hpet" => DOMAIN tables \subseteq -8..-1

(* Every frame has one owner. *)
FrameInv == LayoutInv /\ TableInv /\ Own(buddy_bytes, used, pte, tables, heap)

(* The step only takes frames from the allocator. *)
OnlyTakes == Pages(buddy_bytes') \subseteq Pages(buddy_bytes)

(* The step leaves the entry of v alone or sets one of the kind, and leaves v *)
(* without an entry only if there is no frame for its page table.  (The       *)
(* bootloader's huge pages have entries.)                                     *)
Covers(v, kind) ==
  /\ pte'[v] = pte[v] \/ pte'[v].kind = kind
  /\ (Group(v) \in HugeGroups => pte[v] # Unused) =>
       pte'[v] # Unused \/ Pages(buddy_bytes') = {}

(* What the bootloader left. *)
LEMMA BootEntries ==
  /\ Unused.kind = "unused"
  /\ \A v : BootEntry(v) = Unused \/ BootEntry(v).kind = "direct"
  /\ \A v : Group(v) \in HugeGroups => BootEntry(v) # Unused
<1>1. Unused.kind = "unused"
  BY DEF Unused
<1>2. \A v : Entry("direct", v).kind = "direct"
  BY DEF Entry
<1> QED
  BY <1>1, <1>2 DEF BootEntry

(* A page the bootloader left as it was before the step is mapped after it. *)
LEMMA Covered ==
  ASSUME NEW v, pte[v] = BootEntry(v), NEW kind, Covers(v, kind)
  PROVE  pte'[v].kind \in {kind, "direct"} \/ Pages(buddy_bytes') = {}
<1>1. pte'[v] # Unused \/ Pages(buddy_bytes') = {}
  BY BootEntries DEF Covers
<1>2. pte'[v] = BootEntry(v) \/ pte'[v].kind = kind
  BY DEF Covers
<1> QED
  BY <1>1, <1>2, BootEntries

(* State as the mapping functions see it. *)
LEMMA StateOwned ==
  ASSUME FrameInv
  PROVE  /\ Memory(State) /\ State.pte = pte /\ ~State.panic /\ State.bits = buddy_bytes
         /\ State.used = used /\ State.tables = tables
         /\ Owned(State, heap)
<1>1. Memory(State) /\ State.pte = pte /\ State.panic = FALSE
  BY StateMemory DEF FrameInv, LayoutInv
<1>2. State.bits = buddy_bytes /\ State.used = used /\ State.tables = tables
  BY DEF State
<1>3. Owned(State, heap)
  BY <1>1, <1>2 DEF FrameInv, Owned
<1> QED
  BY <1>1, <1>2, <1>3

(* What a step that writes back m leaves. *)
LEMMA EffectOwned ==
  ASSUME NEW m, Effect(m), NEW H, Owned(m, H), Pages(m.bits) \subseteq Pages(buddy_bytes)
  PROVE  Own(buddy_bytes', used', pte', tables', H) /\ OnlyTakes
<1>1. buddy_bytes' = m.bits /\ used' = m.used /\ pte' = m.pte /\ tables' = m.tables
  BY DEF Effect
<1> QED
  BY <1>1 DEF Owned, OnlyTakes

(* Finite sets of spans. *)
LEMMA SpansFinite ==
  ASSUME NEW gs, gs \subseteq -9..-1
  PROVE  IsFiniteSet(gs)
<1>1. -9 \in Int /\ -1 \in Int
  BY SMT
<1>2. IsFiniteSet(-9..-1)
  BY <1>1, FS_Interval
<1> QED
  BY <1>2, FS_Subset

(* heap::init. *)
LEMMA HeapOwn ==
  ASSUME FrameInv, heap_init
  PROVE  Own(buddy_bytes', used', pte', tables', heap') /\ OnlyTakes /\ TableInv'
<1> DEFINE got    == pick_off_contiguous(buddy_bytes, HeapPages, 2^LEVEL_2MIB)
           frames == got.page..(got.page + HeapPages - 1)
           b      == got.bits
           u      == State.used \cup frames
           m      == WithFrames(State, b, u)
           table  == WithTables(m, HeapTables)
<1>1. Devices[1] = "lapic" /\ HeapTables = {-1, -2}
  BY DEF Devices, HeapTables
<1>2. /\ phase = "boot"
      /\ \/ got.some /\ Effect(table.m) /\ heap' = frames
         \/ UNCHANGED <<buddy_bytes, used, pte, tables, heap>>
      /\ phase' = Devices[1] \/ phase' = "panic"
      /\ phase' = Devices[1] => got.some
      /\ got.some => Effect(table.m)
  <2>1. /\ phase = "boot"
        /\ \/ got.some /\ Effect(table.m) /\ heap' = frames
           \/ ~got.some /\ UNCHANGED <<buddy_bytes, used, pte, tables, heap>>
        /\ (got.some /\ phase' = Devices[1]) \/ phase' = "panic"
    BY DEF heap_init, heap_init_pages, WithFrames, Panic
  <2> HIDE DEF got, frames, table
  <2> QED
    BY <1>1, <2>1
<1>3. heap = {} /\ DOMAIN tables = {} /\ LayoutInv
  BY <1>2 DEF FrameInv, TableInv
<1>4. CASE got.some /\ Effect(table.m) /\ heap' = frames
  <2>1. /\ Memory(State) /\ State.pte = pte /\ State.used = used /\ State.tables = tables
        /\ Own(buddy_bytes, used, pte, tables, {})
    BY <1>3, StateOwned DEF FrameInv
  <2>2. Sound(buddy_bytes) /\ Merged(buddy_bytes)
    BY <2>1 DEF Own
  <2>3. HeapPages \in Nat \ {0} /\ HeapPages <= Pow(BUDDY_LEVELS)
    BY StackAssumption DEF Pow
  <2>4. /\ frames \subseteq Pages(buddy_bytes) /\ Sound(b) /\ Merged(b)
        /\ Pages(b) = Pages(buddy_bytes) \ frames
    BY <1>4, <2>2, <2>3, PicksOff
  <2> HIDE DEF got, frames, b
  <2>5. Own(b, used \cup frames, pte, tables, {} \cup frames)
    BY <2>1, <2>4, OwnFrames
  <2>6. {} \cup frames = frames /\ u = used \cup frames
    BY <2>1
  <2> HIDE DEF u
  <2>7. Memory(m) /\ m.pte = pte /\ m.bits = b /\ m.used = u /\ m.tables = tables
    BY SMT, <2>1, FramesUpdate
  <2> HIDE DEF m
  <2>8. Owned(m, frames) /\ Pages(m.bits) \subseteq Pages(buddy_bytes)
    <3>1. Owned(m, frames)
      BY <2>5, <2>6, <2>7 DEF Owned
    <3> QED
      BY <2>4, <2>7, <3>1
  <2>9. IsFiniteSet(HeapTables) /\ HeapTables \cap DOMAIN m.tables = {}
    <3>1. HeapTables \subseteq -9..-1
      BY SMT, <1>1
    <3> QED
      BY <1>3, <2>7, <3>1, SpansFinite
  <2>10. /\ Owned(table.m, frames) /\ Pages(table.m.bits) \subseteq Pages(m.bits)
         /\ DOMAIN table.m.tables \subseteq DOMAIN m.tables \cup HeapTables
    BY <2>7, <2>8, <2>9, WithTablesOwn
  <2> DEFINE n == table.m
  <2> HIDE DEF table
  <2>11. Pages(n.bits) \subseteq Pages(buddy_bytes)
    BY <2>8, <2>10
  <2>12. Own(buddy_bytes', used', pte', tables', frames) /\ OnlyTakes
    <3> HIDE DEF n
    <3>1. Effect(n) /\ Owned(n, frames)
      BY <1>4, <2>10 DEF n
    <3> QED
      BY <2>11, <3>1, EffectOwned
  <2>13. DOMAIN tables' \subseteq -2..-1
    <3>1. tables' = n.tables
      BY <1>4 DEF Effect
    <3> QED
      BY SMT, <1>1, <1>3, <2>7, <2>10, <3>1
  <2>14. TableInv'
    BY <1>2, <1>1, <2>13 DEF TableInv
  <2> QED
    BY <1>4, <2>12, <2>14
<1>5. CASE UNCHANGED <<buddy_bytes, used, pte, tables, heap>>
  <2> HIDE DEF got, table
  <2>1. Own(buddy_bytes', used', pte', tables', heap') /\ OnlyTakes
    BY <1>5 DEF FrameInv, OnlyTakes
  <2>2. TableInv'
    BY <1>2, <1>1, <1>3, <1>5 DEF TableInv
  <2> QED
    BY <2>1, <2>2
<1> QED
  BY <1>2, <1>4, <1>5

(* Mapping the page of a device. *)
LEMMA MapDeviceOwn ==
  ASSUME FrameInv, NEW i \in 1..3, map_device(i)
  PROVE  Own(buddy_bytes', used', pte', tables', heap') /\ OnlyTakes /\ TableInv'
<1> DEFINE table == WithTables(State, DeviceTables(i))
           n == table.m
<1>1. /\ phase = Devices[i] /\ UNCHANGED heap /\ Effect(n)
      /\ \/ phase' = (IF i < 3 THEN Devices[i + 1] ELSE "mapped")
         \/ phase' = "panic"
  BY DEF map_device, Panic
<1>2. i = 1 \/ i = 2 \/ i = 3
  BY SMT
<1>3. /\ Devices[1] = "lapic" /\ Devices[2] = "ioapic" /\ Devices[3] = "hpet"
      /\ DeviceTables(1) = {-3, -4, -5} /\ DeviceTables(2) = {-6, -7, -8} /\ DeviceTables(3) = {-9}
  BY SMT DEF Devices, DeviceTables
<1>4. Memory(State) /\ State.bits = buddy_bytes /\ State.tables = tables /\ Owned(State, heap)
  BY StateOwned
<1>5. DeviceTables(i) \subseteq -9..-1 /\ DeviceTables(i) \cap DOMAIN tables = {}
      /\ DOMAIN tables \cup DeviceTables(i) \subseteq -9..-1
      /\ (i = 1 => DOMAIN tables \cup DeviceTables(i) \subseteq -5..-1)
      /\ (i = 2 => DOMAIN tables \cup DeviceTables(i) \subseteq -8..-1)
  <2>1. /\ i = 1 => DOMAIN tables \subseteq -2..-1
        /\ i = 2 => DOMAIN tables \subseteq -5..-1
        /\ i = 3 => DOMAIN tables \subseteq -8..-1
    BY <1>1, <1>3 DEF FrameInv, TableInv
  <2>2. CASE i = 1
    BY SMT, <1>3, <2>1, <2>2
  <2>3. CASE i = 2
    BY SMT, <1>3, <2>1, <2>3
  <2>4. CASE i = 3
    BY SMT, <1>3, <2>1, <2>4
  <2> QED
    BY <1>2, <2>2, <2>3, <2>4
<1>6. IsFiniteSet(DeviceTables(i))
  BY <1>5, SpansFinite
<1>7. /\ Owned(n, heap) /\ Pages(n.bits) \subseteq Pages(buddy_bytes)
      /\ DOMAIN n.tables \subseteq DOMAIN tables \cup DeviceTables(i)
  BY <1>4, <1>5, <1>6, WithTablesOwn
<1> HIDE DEF n
<1>8. Own(buddy_bytes', used', pte', tables', heap) /\ OnlyTakes
  BY <1>1, <1>7, EffectOwned
<1>9. DOMAIN tables' \subseteq DOMAIN tables \cup DeviceTables(i)
  BY <1>1, <1>7 DEF Effect
<1>10. TableInv'
  <2>1. CASE i = 1
    BY SMT, <1>1, <1>3, <1>5, <1>9, <2>1 DEF TableInv
  <2>2. CASE i = 2
    BY SMT, <1>1, <1>3, <1>5, <1>9, <2>2 DEF TableInv
  <2>3. CASE i = 3
    BY SMT, <1>1, <1>3, <1>5, <1>9, <2>3 DEF TableInv
  <2> QED
    BY <1>2, <2>1, <2>2, <2>3
<1> QED
  BY <1>1, <1>8, <1>10

(* init_local, IOApic::new and HPET::new. *)
LEMMA DeviceOwn ==
  ASSUME FrameInv, init_local \/ IOApic_new \/ HPET_new
  PROVE  Own(buddy_bytes', used', pte', tables', heap') /\ OnlyTakes /\ TableInv'
<1>1. 1 \in 1..3 /\ 2 \in 1..3 /\ 3 \in 1..3
  BY SMT
<1>2. CASE map_device(1) \/ map_device(2) \/ map_device(3)
  BY <1>1, <1>2, MapDeviceOwn
<1>3. CASE HPET_unusable
  <2>1. phase' = "panic" /\ UNCHANGED <<buddy_bytes, used, pte, tables, heap>>
    BY <1>3 DEF HPET_unusable, Panic
  <2>2. TableInv'
    BY <2>1 DEF TableInv
  <2> QED
    BY <2>1, <2>2 DEF FrameInv, OnlyTakes
<1> QED
  BY <1>2, <1>3 DEF init_local, IOApic_new, HPET_new

(* The pages of the scheduler's own stack. *)
SchedPages == (SchedBottom + 1)..(SchedBottom + SCHEDULER_STACK_SIZE)
SchedGuards == {SchedBottom, SchedBottom + SCHEDULER_STACK_SIZE + 1}

(* stack::init. *)
LEMMA InitOwn ==
  ASSUME FrameInv, init
  PROVE  /\ Own(buddy_bytes', used', pte', tables', heap') /\ OnlyTakes /\ TableInv'
         /\ \A w \in VPages \ GuardPages : pte'[w] = pte[w]
         /\ phase' = "stacks" => \A g \in GuardPages : Covers(g, "guard")
<1> DEFINE m == MapAll(State, GuardPages, NullFrame, "guard")
<1>1. /\ phase' \in {"stacks", "panic"} /\ UNCHANGED heap /\ Effect(m)
      /\ phase' = "stacks" => ~m.panic
  <2>1. /\ UNCHANGED heap /\ Effect(m)
        /\ (phase' = "stacks" /\ ~m.panic) \/ phase' = "panic"
    BY DEF init, Panic
  <2> HIDE DEF m
  <2> QED
    BY <2>1
<1>2. Memory(State) /\ State.pte = pte /\ State.bits = buddy_bytes /\ Owned(State, heap)
  BY StateOwned
<1>3. GuardPages \in SUBSET VPages
  BY Guards
<1>4. Owned(m, heap) /\ MapAllFills(State, GuardPages, NullFrame, "guard", m)
  BY <1>2, <1>3, MapAllGuards
<1> HIDE DEF m
<1>5. /\ Pages(m.bits) \subseteq Pages(buddy_bytes)
      /\ \A w \in VPages \ GuardPages : m.pte[w] = pte[w]
      /\ \A g \in GuardPages : Filled(State, g, NullFrame[g], "guard", m)
  BY <1>2, <1>4 DEF MapAllFills
<1>6. Own(buddy_bytes', used', pte', tables', heap) /\ OnlyTakes
  BY <1>1, <1>4, <1>5, EffectOwned
<1>7. pte' = m.pte /\ buddy_bytes' = m.bits
  BY <1>1 DEF Effect
<1>8. TableInv'
  BY <1>1 DEF TableInv
<1>9. ASSUME phase' = "stacks", NEW g \in GuardPages PROVE Covers(g, "guard")
  <2>1. Entry("guard", NullFrame[g]).kind = "guard"
    BY DEF Entry
  <2>2. /\ m.pte[g] = pte[g] \/ m.pte[g] = Entry("guard", NullFrame[g])
        /\ (Group(g) \in HugeGroups => pte[g] # Unused) =>
             m.pte[g] # Unused \/ Pages(m.bits) = {}
    BY <1>1, <1>2, <1>5, <1>9 DEF Filled
  <2> QED
    BY <1>7, <2>1, <2>2 DEF Covers
<1> QED
  BY <1>1, <1>5, <1>6, <1>7, <1>8, <1>9

(* make_scheduler_stack. *)
LEMMA SchedOwn ==
  ASSUME FrameInv, make_scheduler_stack
  PROVE  /\ Own(buddy_bytes', used', pte', tables', heap') /\ OnlyTakes /\ TableInv'
         /\ phase' = "ready" => Pages(buddy_bytes) # {}
         /\ \A w \in VPages \ (SchedPages \cup SchedGuards) : pte'[w] = pte[w]
<1> DEFINE region == page_region(State, SchedBottom + 1, SCHEDULER_STACK_SIZE)
           k == region.m
           r == MapAll(k, SchedGuards, NullFrame, "guard")
           m == IF region.ok THEN r ELSE k
<1>1. /\ phase' \in {"ready", "panic"} /\ UNCHANGED heap /\ Effect(m)
      /\ phase' = "ready" => region.ok
  <2>1. /\ (phase' = "ready" /\ region.ok) \/ phase' = "panic"
        /\ UNCHANGED heap /\ Effect(m)
    BY DEF make_scheduler_stack, Panic, SchedGuards
  <2> HIDE DEF m, region
  <2> QED
    BY <2>1
<1>2. Memory(State) /\ State.pte = pte /\ State.bits = buddy_bytes /\ Owned(State, heap) /\ ~State.panic
  BY StateOwned
<1>3. /\ SchedPages = (SchedBottom + 1)..((SchedBottom + 1) + SCHEDULER_STACK_SIZE - 1)
      /\ SchedPages \subseteq VPages /\ SchedGuards \in SUBSET VPages
      /\ SchedBottom + 1 \in Int /\ SCHEDULER_STACK_SIZE \in Nat \ {0}
      /\ SCHEDULER_STACK_SIZE <= 2^BUDDY_LEVELS
  BY SMT, StackAssumption DEF SchedPages, SchedGuards, VPages
<1>4. /\ Memory(k) /\ Owned(k, heap) /\ Pages(k.bits) \subseteq Pages(buddy_bytes)
      /\ \A w \in VPages \ SchedPages : k.pte[w] = pte[w]
  <2> DEFINE first == SchedBottom + 1
             n == SCHEDULER_STACK_SIZE
             pages == SchedPages
  <2>1. first \in Int /\ n \in Nat \ {0} /\ n <= 2^BUDDY_LEVELS /\ pages = first..(first + n - 1)
        /\ pages \subseteq VPages
    BY <1>3
  <2> HIDE DEF first, n, pages
  <2>2. LET x == page_region(State, first, n).m
        IN  /\ Memory(x) /\ Owned(x, heap) /\ Pages(x.bits) \subseteq Pages(buddy_bytes)
            /\ \A w \in VPages \ pages : x.pte[w] = pte[w]
    <3>1. RegionKeeps(State, first, n, pages, heap)
      BY <1>2, <2>1, PageRegionOwn
    <3> QED
      BY <1>2, <3>1 DEF RegionKeeps
  <2> QED
    BY <2>2 DEF first, n, pages
<1>a. ASSUME region.ok PROVE Pages(buddy_bytes) # {}
  <2> DEFINE n == SCHEDULER_STACK_SIZE
             got == pick_off_contiguous(buddy_bytes, n, 1)
             page == got.page
  <2>1. got.some
    BY <1>2, <1>a DEF page_region
  <2>2. Sound(buddy_bytes) /\ n \in Nat \ {0} /\ n <= Pow(BUDDY_LEVELS)
    BY <1>3 DEF FrameInv, Own, Pow
  <2> HIDE DEF n
  <2>3. page \in Int /\ page..(page + n - 1) \subseteq Pages(buddy_bytes)
    BY <2>1, <2>2, PicksOff
  <2> HIDE DEF page
  <2>4. page \in page..(page + n - 1)
    BY SMT, <2>2, <2>3
  <2> QED
    BY <2>3, <2>4
<1> HIDE DEF region, k
<1>5. /\ Owned(r, heap) /\ Pages(r.bits) \subseteq Pages(k.bits)
      /\ \A w \in VPages \ SchedGuards : r.pte[w] = k.pte[w]
  <2>1. Owned(r, heap) /\ MapAllFills(k, SchedGuards, NullFrame, "guard", r)
    BY <1>3, <1>4, MapAllGuards
  <2> HIDE DEF r
  <2> QED
    BY <2>1 DEF MapAllFills
<1> HIDE DEF r
<1>6. m = r \/ m = k
  OBVIOUS
<1> HIDE DEF m
<1>7. /\ Owned(m, heap) /\ Pages(m.bits) \subseteq Pages(k.bits)
      /\ \A w \in VPages \ SchedGuards : m.pte[w] = k.pte[w]
  BY <1>4, <1>5, <1>6
<1>8. Pages(m.bits) \subseteq Pages(buddy_bytes)
  BY <1>4, <1>7
<1>9. Own(buddy_bytes', used', pte', tables', heap) /\ OnlyTakes
  BY <1>1, <1>7, <1>8, EffectOwned
<1>10. pte' = m.pte
  BY <1>1 DEF Effect
<1>11. TableInv'
  BY <1>1 DEF TableInv
<1>12. \A w \in VPages \ (SchedPages \cup SchedGuards) : pte'[w] = pte[w]
  BY <1>4, <1>7, <1>10
<1> QED
  BY <1>1, <1>a, <1>9, <1>11, <1>12

(* Mapping one stack of the layout. *)
LEMMA StackOwn ==
  ASSUME FrameInv, NEW first \in Int, NEW n \in Nat \ {0}, n <= 2^BUDDY_LEVELS,
         NEW pages, pages = first..(first + n - 1), pages \subseteq VPages,
         Effect(page_region(State, first, n).m)
  PROVE  /\ Own(buddy_bytes', used', pte', tables', heap) /\ OnlyTakes
         /\ \A w \in VPages \ pages : pte'[w] = pte[w]
         /\ \/ \A v \in pages : Covers(v, "stack")
            \/ UNCHANGED buddy_bytes /\ ~pick_off_contiguous(buddy_bytes, n, 1).some
<1> DEFINE r == page_region(State, first, n).m
           some == pick_off_contiguous(buddy_bytes, n, 1).some
<1>1. Memory(State) /\ State.pte = pte /\ State.bits = buddy_bytes /\ Owned(State, heap) /\ ~State.panic
  BY StateOwned
<1>2. /\ Owned(r, heap) /\ Pages(r.bits) \subseteq Pages(buddy_bytes)
      /\ \A w \in VPages \ pages : r.pte[w] = pte[w]
      /\ ~some => r = State
      /\ some => \A v \in pages : Paged(State, v, r)
  <2>1. RegionKeeps(State, first, n, pages, heap)
    BY <1>1, PageRegionOwn
  <2> QED
    BY <1>1, <2>1 DEF RegionKeeps
<1>3. Effect(r)
  OBVIOUS
<1> HIDE DEF r, some
<1>4. Own(buddy_bytes', used', pte', tables', heap) /\ OnlyTakes
  BY <1>2, <1>3, EffectOwned
<1>5. pte' = r.pte /\ buddy_bytes' = r.bits
  BY <1>3 DEF Effect
<1>6. ASSUME some, NEW v \in pages PROVE Covers(v, "stack")
  <2>1. Paged(State, v, r)
    BY <1>2, <1>6
  <2> QED
    BY <1>1, <1>5, <2>1 DEF Paged, Covers
<1>7. ~some => UNCHANGED buddy_bytes
  BY <1>1, <1>2, <1>5
<1> QED
  BY <1>2, <1>4, <1>5, <1>6, <1>7 DEF some

(* map_large_stack and map_small_stack take a free index and map its stack,   *)
(* or panic.                                                                  *)
LEMMA StackTaken ==
  ASSUME LayoutInv, map_large_stack \/ map_small_stack
  PROVE  /\ phase = "ready" /\ UNCHANGED heap
         /\ \/ phase' = "panic" /\ UNCHANGED <<buddy_bytes, used, pte, tables, large, small, stacks>>
            \/ \E s \in AllStacks, n \in {LARGE_KERNEL_STACK_PAGES, SMALL_KERNEL_STACK_PAGES} :
                 /\ UNCHANGED phase /\ stacks' = stacks \cup {s}
                 /\ s[1] \in Nat /\ s[1]..s[2] = s[1]..(s[1] + n - 1) /\ s[2] - s[1] + 1 = n
                 /\ s[1]..s[2] \subseteq VPages /\ \A v \in s[1]..s[2] : v < SchedBottom
                 /\ Effect(page_region(State, s[1], n).m)
                 /\ large' \subseteq large /\ small' \subseteq small
                 /\ \/ \E i \in large : s = LargeStack(i) /\ i \notin large'
                    \/ \E i \in small : s = SmallStack(i) /\ i \notin small'
<1>1. CASE map_large_stack
  <2> DEFINE i == Min(large)
             s == <<LargeEnd(i) - LARGE_KERNEL_STACK_PAGES, LargeEnd(i) - 1>>
             first == LargeEnd(i) - LARGE_KERNEL_STACK_PAGES
  <2>1. /\ phase = "ready" /\ UNCHANGED <<small, heap>>
        /\ \/ phase' = "panic" /\ UNCHANGED <<buddy_bytes, used, pte, tables, large, stacks>>
           \/ /\ large # {} /\ large' = large \ {i} /\ UNCHANGED phase
              /\ stacks' = stacks \cup {s}
              /\ Effect(page_region(State, first, LARGE_KERNEL_STACK_PAGES).m)
    BY <1>1 DEF map_large_stack, Panic
  <2>2. CASE phase' = "panic" /\ UNCHANGED <<buddy_bytes, used, pte, tables, large, stacks>>
    BY <2>1, <2>2
  <2>3. CASE /\ large # {} /\ large' = large \ {i} /\ UNCHANGED phase
             /\ stacks' = stacks \cup {s}
             /\ Effect(page_region(State, first, LARGE_KERNEL_STACK_PAGES).m)
    <3>1. i \in large /\ i \in LargeIds
      BY <2>3, FreeIndex
    <3>2. s = LargeStack(i) /\ s[1] = first /\ s \in AllStacks
      BY <3>1, StackEnds DEF AllStacks
    <3> HIDE DEF i, s, first
    <3>3. /\ s[1] \in Nat /\ s[1] + LARGE_KERNEL_STACK_PAGES - 1 = s[2] /\ s[1]..s[2] \subseteq VPages
          /\ \A v \in s[1]..s[2] : v < SchedBottom
      BY <3>1, <3>2, StackSpans
    <3>4. s[1]..s[2] = s[1]..(s[1] + LARGE_KERNEL_STACK_PAGES - 1)
          /\ s[2] - s[1] + 1 = LARGE_KERNEL_STACK_PAGES
      <4>1. s[2] - s[1] + 1 = LARGE_KERNEL_STACK_PAGES
        BY SMT, <3>3, StackAssumption
      <4> QED
        BY <3>3, <4>1
    <3>5. i \notin large' /\ large' \subseteq large
      BY <2>3
    <3> QED
      BY <2>1, <2>3, <3>1, <3>2, <3>3, <3>4, <3>5
  <2> QED
    BY <2>1, <2>2, <2>3
<1>2. CASE map_small_stack
  <2> DEFINE i == Min(small)
             s == <<SmallEnd(i) - SMALL_KERNEL_STACK_PAGES, SmallEnd(i) - 1>>
             first == SmallEnd(i) - SMALL_KERNEL_STACK_PAGES
  <2>1. /\ phase = "ready" /\ UNCHANGED <<large, heap>>
        /\ \/ phase' = "panic" /\ UNCHANGED <<buddy_bytes, used, pte, tables, small, stacks>>
           \/ /\ small # {} /\ small' = small \ {i} /\ UNCHANGED phase
              /\ stacks' = stacks \cup {s}
              /\ Effect(page_region(State, first, SMALL_KERNEL_STACK_PAGES).m)
    BY <1>2 DEF map_small_stack, Panic
  <2>2. CASE phase' = "panic" /\ UNCHANGED <<buddy_bytes, used, pte, tables, small, stacks>>
    BY <2>1, <2>2
  <2>3. CASE /\ small # {} /\ small' = small \ {i} /\ UNCHANGED phase
             /\ stacks' = stacks \cup {s}
             /\ Effect(page_region(State, first, SMALL_KERNEL_STACK_PAGES).m)
    <3>1. i \in small /\ i \in SmallIds
      BY <2>3, FreeIndex
    <3>2. s = SmallStack(i) /\ s[1] = first /\ s \in AllStacks
      BY <3>1, StackEnds DEF AllStacks
    <3> HIDE DEF i, s, first
    <3>3. /\ s[1] \in Nat /\ s[1] + SMALL_KERNEL_STACK_PAGES - 1 = s[2] /\ s[1]..s[2] \subseteq VPages
          /\ \A v \in s[1]..s[2] : v < SchedBottom
      BY <3>1, <3>2, StackSpans
    <3>4. s[1]..s[2] = s[1]..(s[1] + SMALL_KERNEL_STACK_PAGES - 1)
          /\ s[2] - s[1] + 1 = SMALL_KERNEL_STACK_PAGES
      <4>1. s[2] - s[1] + 1 = SMALL_KERNEL_STACK_PAGES
        BY SMT, <3>3, StackAssumption
      <4> QED
        BY <3>3, <4>1
    <3>5. i \notin small' /\ small' \subseteq small
      BY <2>3
    <3> QED
      BY <2>1, <2>3, <3>1, <3>2, <3>3, <3>4, <3>5
  <2> QED
    BY <2>1, <2>2, <2>3
<1> QED
  BY <1>1, <1>2

(* Every step leaves every frame with one owner, and only takes frames. *)
LEMMA FrameStep ==
  ASSUME FrameInv, [KNext]_kvars
  PROVE  FrameInv' /\ OnlyTakes
<1>0. LayoutInv'
  BY LayoutStep DEF FrameInv
<1> SUFFICES Own(buddy_bytes', used', pte', tables', heap') /\ OnlyTakes /\ TableInv'
  BY <1>0 DEF FrameInv
<1>1. CASE heap_init
  BY <1>1, HeapOwn
<1>2. CASE init_local \/ IOApic_new \/ HPET_new
  BY <1>2, DeviceOwn
<1>3. CASE init
  BY <1>3, InitOwn
<1>4. CASE make_scheduler_stack
  BY <1>4, SchedOwn
<1>5. CASE map_large_stack \/ map_small_stack
  <2>1. /\ phase = "ready" /\ UNCHANGED heap
        /\ \/ phase' = "panic" /\ UNCHANGED <<buddy_bytes, used, pte, tables, large, small, stacks>>
           \/ \E s \in AllStacks, n \in {LARGE_KERNEL_STACK_PAGES, SMALL_KERNEL_STACK_PAGES} :
                /\ UNCHANGED phase /\ s[1] \in Nat /\ s[1]..s[2] = s[1]..(s[1] + n - 1)
                /\ s[1]..s[2] \subseteq VPages
                /\ Effect(page_region(State, s[1], n).m)
    BY <1>5, StackTaken DEF FrameInv
  <2>2. CASE phase' = "panic" /\ UNCHANGED <<buddy_bytes, used, pte, tables, large, small, stacks>>
    <3>1. TableInv'
      BY <2>2 DEF TableInv
    <3> QED
      BY <2>1, <2>2, <3>1 DEF FrameInv, OnlyTakes
  <2>3. ASSUME NEW s \in AllStacks, NEW n \in {LARGE_KERNEL_STACK_PAGES, SMALL_KERNEL_STACK_PAGES},
               UNCHANGED phase, s[1] \in Nat, s[1]..s[2] = s[1]..(s[1] + n - 1),
               s[1]..s[2] \subseteq VPages, Effect(page_region(State, s[1], n).m)
        PROVE  Own(buddy_bytes', used', pte', tables', heap') /\ OnlyTakes /\ TableInv'
    <3>1. n \in Nat \ {0} /\ n <= 2^BUDDY_LEVELS /\ s[1] \in Int
      BY SMT, <2>3, StackAssumption
    <3> DEFINE first == s[1]
               pages == s[1]..s[2]
    <3>2. /\ first \in Int /\ pages = first..(first + n - 1) /\ pages \subseteq VPages
          /\ Effect(page_region(State, first, n).m)
      BY <2>3, <3>1
    <3> HIDE DEF first, pages
    <3>3. Own(buddy_bytes', used', pte', tables', heap) /\ OnlyTakes
      BY <3>1, <3>2, StackOwn
    <3>4. TableInv'
      BY <2>1, <2>3 DEF TableInv
    <3> QED
      BY <2>1, <3>3, <3>4
  <2> QED
    BY <2>1, <2>2, <2>3
<1>6. CASE UNCHANGED kvars
  BY <1>6 DEF FrameInv, TableInv, OnlyTakes, kvars
<1> QED
  BY <1>1, <1>2, <1>3, <1>4, <1>5, <1>6 DEF KNext

(* What the bit maps say is free is free: no stack was made of a free index,  *)
(* and where no stack was made yet nothing but the direct map is mapped.      *)
SpaceInv ==
  /\ \A s \in AllStacks \ stacks : \A v \in s[1]..s[2] : pte[v] = BootEntry(v)
  /\ \A i \in large : LargeStack(i) \notin stacks
  /\ \A i \in small : SmallStack(i) \notin stacks
  /\ phase \in {"boot", "lapic", "ioapic", "hpet", "mapped"} => stacks = {}

(* A stack lies in the pages of the layout, below the scheduler's stack. *)
LEMMA StackPages ==
  ASSUME NEW s \in AllStacks
  PROVE  s[1] \in s[1]..s[2] /\ s[1]..s[2] \subseteq VPages /\ \A v \in s[1]..s[2] : v < SchedBottom
<1>1. (\E i \in LargeIds : s = LargeStack(i)) \/ \E i \in SmallIds : s = SmallStack(i)
  BY DEF AllStacks
<1> QED
  BY <1>1, StackSpans

(* Every step keeps the bit maps and the page tables in agreement. *)
LEMMA SpaceStep ==
  ASSUME FrameInv, SpaceInv, [KNext]_kvars
  PROVE  SpaceInv'
<1>0. LayoutInv /\ pte = [w \in VPages |-> pte[w]]
  BY DEF FrameInv, LayoutInv
<1>a. \A s \in AllStacks : /\ s[1]..s[2] \subseteq VPages \ GuardPages
                           /\ s[1]..s[2] \subseteq VPages \ (SchedPages \cup SchedGuards)
  <2>2. ASSUME NEW s \in AllStacks, NEW v \in s[1]..s[2]
        PROVE  v \in VPages /\ v \notin GuardPages /\ v \notin SchedPages \cup SchedGuards
    <3>1. v \in VPages /\ v < SchedBottom
      BY StackPages
    <3>2. v \in Nat
      BY SMT, <3>1 DEF VPages
    <3>3. v \notin GuardPages
      BY GuardsOutside
    <3> QED
      BY SMT, <3>1, <3>2, <3>3, StackAssumption DEF SchedPages, SchedGuards
  <2> QED
    BY <2>2
<1>1. CASE heap_init \/ init_local \/ IOApic_new \/ HPET_new
  <2>1. /\ pte' = pte /\ UNCHANGED <<large, small, stacks>>
        /\ phase \in {"boot", "lapic", "ioapic", "hpet"}
        /\ phase' \in {"lapic", "ioapic", "hpet", "mapped", "panic"}
    BY <1>0, <1>1, BootSteps
  <2> QED
    BY <2>1 DEF SpaceInv
<1>2. CASE init
  <2>1. phase = "mapped" /\ phase' \in {"stacks", "panic"} /\ UNCHANGED stacks
    BY <1>0, <1>2, InitStep
  <2>2. \A w \in VPages \ GuardPages : pte'[w] = pte[w]
    BY <1>2, InitOwn
  <2>3. stacks = {}
    BY <2>1 DEF SpaceInv
  <2>4. \A s \in AllStacks \ stacks : \A v \in s[1]..s[2] : pte'[v] = BootEntry(v)
    BY <1>a, <2>2 DEF SpaceInv
  <2> QED
    BY <2>1, <2>3, <2>4 DEF SpaceInv
<1>3. CASE make_scheduler_stack
  <2>1. (phase' = "ready" \/ phase' = "panic") /\ UNCHANGED <<large, small, stacks>>
    BY <1>3 DEF make_scheduler_stack, Panic
  <2>2. \A w \in VPages \ (SchedPages \cup SchedGuards) : pte'[w] = pte[w]
    BY <1>3, SchedOwn
  <2>3. \A s \in AllStacks \ stacks : \A v \in s[1]..s[2] : pte'[v] = BootEntry(v)
    BY <1>a, <2>2 DEF SpaceInv
  <2> QED
    BY <2>1, <2>3 DEF SpaceInv
<1>4. CASE map_large_stack \/ map_small_stack
  <2>1. /\ phase = "ready"
        /\ \/ phase' = "panic" /\ UNCHANGED <<buddy_bytes, used, pte, tables, large, small, stacks>>
           \/ \E s \in AllStacks, n \in {LARGE_KERNEL_STACK_PAGES, SMALL_KERNEL_STACK_PAGES} :
                /\ UNCHANGED phase /\ stacks' = stacks \cup {s}
                /\ s[1] \in Nat /\ s[1]..s[2] = s[1]..(s[1] + n - 1)
                /\ s[1]..s[2] \subseteq VPages /\ \A v \in s[1]..s[2] : v < SchedBottom
                /\ Effect(page_region(State, s[1], n).m)
                /\ large' \subseteq large /\ small' \subseteq small
                /\ \/ \E i \in large : s = LargeStack(i) /\ i \notin large'
                   \/ \E i \in small : s = SmallStack(i) /\ i \notin small'
    BY <1>0, <1>4, StackTaken
  <2>2. CASE phase' = "panic" /\ UNCHANGED <<buddy_bytes, used, pte, tables, large, small, stacks>>
    BY <2>2 DEF SpaceInv
  <2>3. ASSUME NEW s \in AllStacks, NEW n \in {LARGE_KERNEL_STACK_PAGES, SMALL_KERNEL_STACK_PAGES},
               UNCHANGED phase, stacks' = stacks \cup {s},
               s[1] \in Nat, s[1]..s[2] = s[1]..(s[1] + n - 1), s[1]..s[2] \subseteq VPages,
               Effect(page_region(State, s[1], n).m),
               large' \subseteq large, small' \subseteq small,
               \/ \E i \in large : s = LargeStack(i) /\ i \notin large'
               \/ \E i \in small : s = SmallStack(i) /\ i \notin small'
        PROVE  SpaceInv'
    <3>1. n \in Nat \ {0} /\ n <= 2^BUDDY_LEVELS /\ s[1] \in Int
      BY SMT, <2>3, StackAssumption
    <3>2. \A w \in VPages \ (s[1]..s[2]) : pte'[w] = pte[w]
      <4> DEFINE first == s[1]
                 pages == s[1]..s[2]
      <4>1. /\ first \in Int /\ pages = first..(first + n - 1) /\ pages \subseteq VPages
            /\ Effect(page_region(State, first, n).m)
        BY <2>3, <3>1
      <4> HIDE DEF first, pages
      <4>2. \A w \in VPages \ pages : pte'[w] = pte[w]
        BY <3>1, <4>1, StackOwn
      <4> QED
        BY <4>2 DEF pages
    <3>3. \A t \in AllStacks \ stacks' : \A v \in t[1]..t[2] : pte'[v] = BootEntry(v)
      <4> SUFFICES ASSUME NEW t \in AllStacks, t \notin stacks', NEW v \in t[1]..t[2]
                   PROVE  pte'[v] = BootEntry(v)
        OBVIOUS
      <4>1. t # s /\ t \notin stacks
        BY <2>3
      <4>2. v \notin s[1]..s[2] /\ v \in VPages
        BY <4>1, StacksDisjoint, StackPages
      <4> QED
        BY <3>2, <4>1, <4>2 DEF SpaceInv
    <3>4. large \subseteq LargeIds /\ small \subseteq SmallIds
      BY <1>0 DEF LayoutInv
    <3>5. \A i \in large' : LargeStack(i) # s
      BY <2>3, <3>4, StackIds
    <3>6. \A i \in small' : SmallStack(i) # s
      BY <2>3, <3>4, StackIds
    <3>7. (\A i \in large' : LargeStack(i) \notin stacks') /\ (\A i \in small' : SmallStack(i) \notin stacks')
      BY <2>3, <3>5, <3>6 DEF SpaceInv
    <3> QED
      BY <2>1, <2>3, <3>3, <3>7 DEF SpaceInv
  <2> QED
    BY <2>1, <2>2, <2>3
<1>5. CASE UNCHANGED kvars
  BY <1>5 DEF SpaceInv, kvars
<1> QED
  BY <1>1, <1>2, <1>3, <1>4, <1>5 DEF KNext

(* Every guard is one, or is a page of the direct map. *)
GuardsSet == \A g \in GuardPages : pte[g].kind \in {"guard", "direct"}

(* Until stack::init the guards are as the bootloader left them.  stack::init *)
(* sets them all unless no frame is left, and then scheduler::init panics:    *)
(* there are stacks only once they are all set.                               *)
GuardInv ==
  /\ phase \in {"boot", "lapic", "ioapic", "hpet", "mapped"} =>
       stacks = {} /\ \A g \in GuardPages : pte[g] = BootEntry(g)
  /\ phase = "stacks" => stacks = {} /\ (GuardsSet \/ Pages(buddy_bytes) = {})
  /\ phase = "ready" \/ stacks # {} => GuardsSet

(* Every step keeps the guards. *)
LEMMA GuardStep ==
  ASSUME FrameInv, GuardInv, [KNext]_kvars
  PROVE  GuardInv'
<1>1. LayoutInv /\ pte = [w \in VPages |-> pte[w]] /\ GuardPages \subseteq VPages
  BY Guards DEF FrameInv, LayoutInv
<1>2. CASE heap_init \/ init_local \/ IOApic_new \/ HPET_new
  <2>1. /\ pte' = pte /\ UNCHANGED stacks
        /\ phase \in {"boot", "lapic", "ioapic", "hpet"}
        /\ phase' \in {"lapic", "ioapic", "hpet", "mapped", "panic"}
    BY <1>1, <1>2, BootSteps
  <2>2. stacks = {} /\ \A g \in GuardPages : pte[g] = BootEntry(g)
    BY <2>1 DEF GuardInv
  <2> QED
    BY <2>1, <2>2 DEF GuardInv
<1>3. CASE init
  <2>1. phase = "mapped" /\ phase' \in {"stacks", "panic"} /\ UNCHANGED stacks
    BY <1>1, <1>3, InitStep
  <2>2. stacks = {} /\ \A g \in GuardPages : pte[g] = BootEntry(g)
    BY <2>1 DEF GuardInv
  <2>3. ASSUME phase' = "stacks", Pages(buddy_bytes') # {} PROVE GuardsSet'
    <3>1. \A g \in GuardPages : Covers(g, "guard")
      BY <1>3, <2>3, InitOwn
    <3>2. \A g \in GuardPages : pte'[g].kind \in {"guard", "direct"}
      BY <2>2, <2>3, <3>1, Covered
    <3> QED
      BY <3>2 DEF GuardsSet
  <2> QED
    BY <2>1, <2>2, <2>3 DEF GuardInv
<1>4. ASSUME make_scheduler_stack \/ map_large_stack \/ map_small_stack, GuardsSet PROVE GuardsSet'
  <2>1. \A w \in VPages : pte[w] # Unused => pte'[w] = pte[w]
    BY <1>1, <1>4, LateSteps
  <2>2. \A g \in GuardPages : pte'[g] = pte[g]
    BY <1>1, <1>4, <2>1, BootEntries DEF GuardsSet
  <2> QED
    BY <1>4, <2>2 DEF GuardsSet
<1>5. CASE make_scheduler_stack
  <2>1. phase = "stacks" /\ (phase' = "ready" \/ phase' = "panic") /\ UNCHANGED stacks
    BY <1>5 DEF make_scheduler_stack, Panic
  <2>2. phase' = "ready" => Pages(buddy_bytes) # {}
    BY <1>5, SchedOwn
  <2>3. stacks' = {} /\ (phase' = "ready" => GuardsSet)
    BY <2>1, <2>2 DEF GuardInv
  <2> QED
    BY <1>4, <1>5, <2>1, <2>3 DEF GuardInv
<1>6. CASE map_large_stack \/ map_small_stack
  <2>1. phase = "ready" /\ phase' \in {"ready", "panic"}
    BY <1>1, <1>6, StackTaken, StackSteps
  <2>2. GuardsSet'
    BY <1>4, <1>6, <2>1 DEF GuardInv
  <2> QED
    BY <2>1, <2>2 DEF GuardInv
<1>7. CASE UNCHANGED kvars
  BY <1>7 DEF GuardInv, GuardsSet, kvars
<1> QED
  BY <1>2, <1>3, <1>5, <1>6, <1>7 DEF KNext

-----------------------------------------------------------------------------
(* Stacks and the memory there is *)

(* Room for n frames in a bit array. *)
RoomIn(bits, n) ==
  \E p \in Usable : p % 2^LevelFor(n) = 0 /\ p..(p + 2^LevelFor(n) - 1) \subseteq Pages(bits)

LEMMA RoomOf ==
  ASSUME NEW n
  PROVE  (Room(n) <=> RoomIn(buddy_bytes, n)) /\ (Room(n)' <=> RoomIn(buddy_bytes', n))
<1>1. FreePages = Pages(buddy_bytes) /\ FreePages' = Pages(buddy_bytes')
  BY DEF FreePages, Pages
<1> QED
  BY <1>1 DEF Room, RoomIn

(* Without a free frame there is no room, and taking frames makes none. *)
LEMMA Drained ==
  ASSUME WithinHalf, NEW bits, Pages(bits) = {}, NEW n \in Nat \ {0}, n <= 2^BUDDY_LEVELS
  PROVE  ~RoomIn(bits, n)
<1> SUFFICES ASSUME NEW p \in Usable, p..(p + 2^LevelFor(n) - 1) \subseteq {}
             PROVE  FALSE
  BY DEF RoomIn
<1> DEFINE l == LevelFor(n)
           w == Pow(l)
<1>1. l \in 0..BUDDY_LEVELS
  BY PicksOffSome
<1> HIDE DEF l
<1>2. w \in Nat /\ w > 0
  BY SMT, <1>1, Powers, LayoutAssumption
<1>3. p \in Nat
  BY UsablePages
<1>4. p..(p + w - 1) \subseteq {}
  BY DEF l, Pow
<1> HIDE DEF w
<1>5. p \in p..(p + w - 1)
  BY SMT, <1>2, <1>3
<1> QED
  BY <1>4, <1>5

(* What a call of make_kernel_stack does: the pages of the new stack are      *)
(* covered, or the allocator has refused the frames.                          *)
LEMMA StackServed ==
  ASSUME FrameInv, SpaceInv, map_large_stack \/ map_small_stack
  PROVE  \/ UNCHANGED <<pte, stacks>>
         \/ \E s \in AllStacks, n \in {LARGE_KERNEL_STACK_PAGES, SMALL_KERNEL_STACK_PAGES} :
              /\ stacks' = stacks \cup {s} /\ s[2] - s[1] + 1 = n
              /\ \/ \A v \in s[1]..s[2] : pte'[v].kind \in {"stack", "direct"}
                 \/ Pages(buddy_bytes') = {}
                 \/ UNCHANGED buddy_bytes /\ ~pick_off_contiguous(buddy_bytes, n, 1).some
<1>1. \/ UNCHANGED <<buddy_bytes, used, pte, tables, stacks>>
      \/ \E s \in AllStacks, n \in {LARGE_KERNEL_STACK_PAGES, SMALL_KERNEL_STACK_PAGES} :
           /\ stacks' = stacks \cup {s}
           /\ s[1] \in Nat /\ s[1]..s[2] = s[1]..(s[1] + n - 1) /\ s[2] - s[1] + 1 = n
           /\ s[1]..s[2] \subseteq VPages
           /\ Effect(page_region(State, s[1], n).m)
           /\ \/ \E i \in large : s = LargeStack(i) /\ i \notin large'
              \/ \E i \in small : s = SmallStack(i) /\ i \notin small'
  BY StackTaken DEF FrameInv
<1>2. ASSUME NEW s \in AllStacks, NEW n \in {LARGE_KERNEL_STACK_PAGES, SMALL_KERNEL_STACK_PAGES},
             s[1] \in Nat, s[1]..s[2] = s[1]..(s[1] + n - 1), s[1]..s[2] \subseteq VPages,
             Effect(page_region(State, s[1], n).m),
             \/ \E i \in large : s = LargeStack(i) /\ i \notin large'
             \/ \E i \in small : s = SmallStack(i) /\ i \notin small'
      PROVE  \/ \A v \in s[1]..s[2] : pte'[v].kind \in {"stack", "direct"}
             \/ Pages(buddy_bytes') = {}
             \/ UNCHANGED buddy_bytes /\ ~pick_off_contiguous(buddy_bytes, n, 1).some
  <2>1. n \in Nat \ {0} /\ n <= 2^BUDDY_LEVELS /\ s[1] \in Int
    BY SMT, <1>2, StackAssumption
  <2>2. s \notin stacks
    BY <1>2 DEF SpaceInv
  <2> DEFINE first == s[1]
             pages == s[1]..s[2]
  <2>3. \A v \in pages : pte[v] = BootEntry(v)
    BY <2>2 DEF SpaceInv
  <2>4. /\ first \in Int /\ pages = first..(first + n - 1) /\ pages \subseteq VPages
        /\ Effect(page_region(State, first, n).m)
    BY <1>2, <2>1
  <2> HIDE DEF first, pages
  <2>5. \/ \A v \in pages : Covers(v, "stack")
        \/ UNCHANGED buddy_bytes /\ ~pick_off_contiguous(buddy_bytes, n, 1).some
    BY <2>1, <2>4, StackOwn
  <2>6. \/ \A v \in pages : pte'[v].kind \in {"stack", "direct"}
        \/ Pages(buddy_bytes') = {}
        \/ UNCHANGED buddy_bytes /\ ~pick_off_contiguous(buddy_bytes, n, 1).some
    BY <2>3, <2>5, Covered
  <2> QED
    BY <2>6 DEF pages
<1> QED
  BY <1>1, <1>2

(* Every step leaves the stacks handed out mapped as far as there is room. *)
LEMMA MappedStep ==
  ASSUME WithinHalf, FrameInv, SpaceInv, StackMapped, [KNext]_kvars
  PROVE  StackMapped'
<1>0. LayoutInv /\ pte = [w \in VPages |-> pte[w]] /\ stacks \subseteq AllStacks
  BY DEF FrameInv, LayoutInv
<1>1. ASSUME NEW n, Room(n)' PROVE Room(n)
  <2>1. Pages(buddy_bytes') \subseteq Pages(buddy_bytes)
    BY FrameStep DEF OnlyTakes
  <2>2. RoomIn(buddy_bytes', n)
    BY <1>1, RoomOf
  <2>3. RoomIn(buddy_bytes, n)
    BY <2>1, <2>2 DEF RoomIn
  <2> QED
    BY <2>3, RoomOf
<1>2. ASSUME \A w \in VPages : pte[w] # Unused => pte'[w] = pte[w],
             NEW s \in stacks, NEW v \in s[1]..s[2]
      PROVE  pte'[v].kind \in {"stack", "direct"} \/ ~Room(s[2] - s[1] + 1)'
  <2>1. pte[v].kind \in {"stack", "direct"} \/ ~Room(s[2] - s[1] + 1)
    BY DEF StackMapped
  <2>2. CASE ~Room(s[2] - s[1] + 1)
    BY <1>1, <2>2
  <2>3. CASE pte[v].kind \in {"stack", "direct"}
    <3>1. v \in VPages
      BY <1>0, StackPages
    <3>2. pte[v] # Unused
      BY <2>3, BootEntries
    <3>3. pte'[v] = pte[v]
      BY <1>2, <3>1, <3>2
    <3> QED
      BY <2>3, <3>3
  <2> QED
    BY <2>1, <2>2, <2>3
<1>3. CASE heap_init \/ init_local \/ IOApic_new \/ HPET_new
  <2>1. pte' = pte /\ UNCHANGED stacks
    BY <1>0, <1>3, BootSteps
  <2> QED
    BY <1>2, <2>1 DEF StackMapped
<1>4. CASE init
  <2>1. phase = "mapped" /\ UNCHANGED stacks
    BY <1>0, <1>4, InitStep
  <2>2. stacks = {}
    BY <2>1 DEF SpaceInv
  <2> QED
    BY <2>1, <2>2 DEF StackMapped
<1>5. CASE make_scheduler_stack
  <2>1. UNCHANGED stacks
    BY <1>5 DEF make_scheduler_stack
  <2>2. \A w \in VPages : pte[w] # Unused => pte'[w] = pte[w]
    BY <1>0, <1>5, LateSteps
  <2> QED
    BY <1>2, <2>1, <2>2 DEF StackMapped
<1>6. CASE map_large_stack \/ map_small_stack
  <2>1. \A w \in VPages : pte[w] # Unused => pte'[w] = pte[w]
    BY <1>0, <1>6, LateSteps
  <2>2. CASE UNCHANGED <<pte, stacks>>
    BY <1>2, <2>1, <2>2 DEF StackMapped
  <2>3. ASSUME NEW s \in AllStacks, NEW n \in {LARGE_KERNEL_STACK_PAGES, SMALL_KERNEL_STACK_PAGES},
               stacks' = stacks \cup {s}, s[2] - s[1] + 1 = n,
               \/ \A v \in s[1]..s[2] : pte'[v].kind \in {"stack", "direct"}
               \/ Pages(buddy_bytes') = {}
               \/ UNCHANGED buddy_bytes /\ ~pick_off_contiguous(buddy_bytes, n, 1).some
        PROVE  StackMapped'
    <3>1. n \in Nat \ {0} /\ n <= 2^BUDDY_LEVELS /\ n <= 2^Top
      BY StackAssumption
    <3>2. CASE \A v \in s[1]..s[2] : pte'[v].kind \in {"stack", "direct"}
      BY <1>2, <2>1, <2>3, <3>2 DEF StackMapped
    <3>3. ASSUME ~Room(n)' PROVE StackMapped'
      <4>1. ~Room(s[2] - s[1] + 1)'
        BY <2>3, <3>3
      <4> QED
        BY <1>2, <2>1, <2>3, <4>1 DEF StackMapped
    <3>4. CASE Pages(buddy_bytes') = {}
      <4> DEFINE c == buddy_bytes'
      <4>1. Pages(c) = {}
        BY <3>4
      <4> HIDE DEF c
      <4>2. ~RoomIn(c, n)
        BY <3>1, <4>1, Drained
      <4>3. ~Room(n)'
        BY <4>2, RoomOf DEF c
      <4> QED
        BY <3>3, <4>3
    <3>5. CASE UNCHANGED buddy_bytes /\ ~pick_off_contiguous(buddy_bytes, n, 1).some
      <4>1. Sound(buddy_bytes) /\ Merged(buddy_bytes)
        BY DEF FrameInv, Own
      <4>2. ~RoomIn(buddy_bytes, n)
        BY <3>1, <3>5, <4>1, Refused DEF RoomIn
      <4>3. ~Room(n)
        BY <4>2, RoomOf
      <4>4. ~Room(n)'
        BY <1>1, <4>3
      <4> QED
        BY <3>3, <4>4
    <3> QED
      BY <2>3, <3>2, <3>4, <3>5
  <2> QED
    BY <1>6, <2>2, <2>3, StackServed
<1>7. CASE UNCHANGED kvars
  <2>1. UNCHANGED <<pte, stacks>>
    BY <1>7 DEF kvars
  <2> QED
    BY <1>2, <2>1 DEF StackMapped
<1> QED
  BY <1>3, <1>4, <1>5, <1>6, <1>7 DEF KNext

(* Once heap::init is through, the heap is one aligned run of frames. *)
HeapInv ==
  phase \notin {"boot", "panic"} =>
    \E k \in Int : heap = (k * Pow(LEVEL_2MIB))..(k * Pow(LEVEL_2MIB) + HeapPages - 1)

(* Only heap::init gives the heap its frames. *)
LEMMA HeapStep ==
  ASSUME FrameInv, HeapInv, [KNext]_kvars
  PROVE  HeapInv'
<1>1. CASE heap_init
  <2> DEFINE got    == pick_off_contiguous(buddy_bytes, HeapPages, 2^LEVEL_2MIB)
             frames == got.page..(got.page + HeapPages - 1)
  <2>1. (got.some /\ heap' = frames) \/ phase' = "panic"
    BY <1>1 DEF heap_init, heap_init_pages, Panic
  <2>2. CASE got.some /\ heap' = frames
    <3>1. Sound(buddy_bytes)
      BY DEF FrameInv, Own
    <3>2. PICK k \in Int : got.page = k * Pow(LEVEL_2MIB)
      BY <2>2, <3>1, HeapAligned
    <3>3. heap' = (k * Pow(LEVEL_2MIB))..(k * Pow(LEVEL_2MIB) + HeapPages - 1)
      BY <2>2, <3>2
    <3> QED
      BY <3>3 DEF HeapInv
  <2>3. CASE phase' = "panic"
    BY <2>3 DEF HeapInv
  <2> QED
    BY <2>1, <2>2, <2>3
<1>2. ASSUME UNCHANGED heap, phase \notin {"boot", "panic"} PROVE HeapInv'
  BY <1>2 DEF HeapInv
<1>3. CASE init_local \/ IOApic_new \/ HPET_new
  <2>1. Devices[1] = "lapic" /\ Devices[2] = "ioapic" /\ Devices[3] = "hpet"
    BY DEF Devices
  <2>2. UNCHANGED heap /\ (phase = Devices[1] \/ phase = Devices[2] \/ phase = Devices[3])
    BY <1>3 DEF init_local, IOApic_new, HPET_new, HPET_unusable, map_device
  <2> QED
    BY <1>2, <2>1, <2>2
<1>4. CASE init \/ make_scheduler_stack \/ map_large_stack \/ map_small_stack
  <2>1. UNCHANGED heap /\ (phase = "mapped" \/ phase = "stacks" \/ phase = "ready")
    BY <1>4 DEF init, make_scheduler_stack, map_large_stack, map_small_stack
  <2> QED
    BY <1>2, <2>1
<1>5. CASE UNCHANGED kvars
  BY <1>5 DEF HeapInv, kvars
<1> QED
  BY <1>1, <1>3, <1>4, <1>5 DEF KNext

-----------------------------------------------------------------------------
(* Theorems *)

(* Whatever the memory map and the allocator do, the kernel has only handed   *)
(* out stacks of the layout of vmem.rs.                                       *)
THEOREM LayoutInvariance == KSpec => []LayoutInv
<1>1. KInit => LayoutInv
  BY StackAssumption DEF KInit, LayoutInv
<1>2. LayoutInv /\ [KNext]_kvars => LayoutInv'
  BY LayoutStep
<1> QED
  BY <1>1, <1>2, PTL DEF KSpec

(* The addresses make_kernel_stack computes from an index agree with the      *)
(* pages stack::init skips over: stacks never share a page, and a guard page  *)
(* lies on either side of each.                                               *)
THEOREM StacksStayApart == KSpec => []StacksApart
<1>1. LayoutInv => StacksApart
  <2> SUFFICES ASSUME LayoutInv, NEW s \in stacks
               PROVE  /\ {s[1] - 1, s[2] + 1} \subseteq GuardPages
                      /\ (s[1]..s[2]) \cap GuardPages = {}
                      /\ \A t \in stacks : s # t => (s[1]..s[2]) \cap (t[1]..t[2]) = {}
    BY DEF StacksApart
  <2>1. s \in AllStacks /\ \A t \in stacks : t \in AllStacks
    BY DEF LayoutInv
  <2>2. {s[1] - 1, s[2] + 1} \subseteq GuardPages
    BY <2>1, Neighbours
  <2> QED
    BY <2>1, <2>2, GuardsOutside, StacksDisjoint
<1> QED
  BY <1>1, LayoutInvariance, PTL

(* With the memory map in the part of the allocator that the code's bit array *)
(* covers, every frame the kernel uses has one owner: a mapped stack page, a  *)
(* page table or the heap, and never the allocator as well.                   *)
THEOREM FramesInvariance == WithinHalf => (KSpec => []FrameInv)
<1> SUFFICES ASSUME WithinHalf PROVE KSpec => []FrameInv
  OBVIOUS
<1>1. KInit => FrameInv
  <2> SUFFICES ASSUME KInit PROVE FrameInv
    OBVIOUS
  <2>1. /\ buddy_bytes = UNION {MarkEntry(e) : e \in Memmap} /\ used = {}
        /\ pte = [v \in VPages |-> BootEntry(v)]
        /\ tables = [g \in {} |-> 0] /\ phase = "boot" /\ heap = {}
    BY DEF KInit, Init
  <2>2. Sound(buddy_bytes) /\ Merged(buddy_bytes)
    BY <2>1, Starts
  <2>3. \A v \in VPages : pte[v].kind # "stack"
    <3>1. \A v \in VPages : pte[v] = BootEntry(v)
      BY <2>1
    <3> QED
      BY <3>1, BootEntries
  <2>4. DOMAIN tables = {}
    BY <2>1
  <2>5. Own(buddy_bytes, used, pte, tables, heap)
    <3>1. used = {} /\ heap = {}
      BY <2>1
    <3> QED
      BY <2>2, <2>3, <2>4, <3>1 DEF Own
  <2>6. TableInv
    BY <2>1, <2>4 DEF TableInv
  <2>7. LayoutInv
    BY StackAssumption DEF KInit, LayoutInv
  <2> QED
    BY <2>5, <2>6, <2>7 DEF FrameInv
<1>2. FrameInv /\ [KNext]_kvars => FrameInv'
  BY FrameStep
<1> QED
  BY <1>1, <1>2, PTL DEF KSpec

(* No two stack pages, page tables or heap pages ever share a frame, and none *)
(* of their frames is free in the allocator.                                  *)
THEOREM FramesStayExclusive == WithinHalf => (KSpec => []FramesExclusive)
<1>1. FrameInv => FramesExclusive
  <2> SUFFICES ASSUME Own(buddy_bytes, used, pte, tables, heap) PROVE FramesExclusive
    BY DEF FrameInv
  <2>1. \A f \in MappedFrames : \E w \in VPages : pte[w].kind = "stack" /\ pte[w].frame = f
    BY DEF MappedFrames
  <2>2. \A f \in TableFrames : \E g \in DOMAIN tables : tables[g] = f
    BY DEF TableFrames
  <2>3. (\A f \in MappedFrames : f \in used /\ f \notin heap) /\ (\A f \in TableFrames : f \in used /\ f \notin heap)
    BY SMT, <2>1, <2>2 DEF Own
  <2>4. heap \subseteq used /\ used \cap FreePages = {}
    BY DEF Own, Pages, FreePages
  <2>5. MappedFrames \cap TableFrames = {}
    <3> SUFFICES ASSUME NEW f \in MappedFrames, f \in TableFrames PROVE FALSE
      OBVIOUS
    <3>1. PICK w \in VPages : pte[w].kind = "stack" /\ pte[w].frame = f
      BY <2>1
    <3>2. PICK g \in DOMAIN tables : tables[g] = f
      BY <2>2
    <3> QED
      BY <3>1, <3>2 DEF Own
  <2>6. heap \cap (MappedFrames \cup TableFrames) = {}
        /\ (heap \cup MappedFrames \cup TableFrames) \cap FreePages = {}
    BY <2>3, <2>4
  <2> QED
    BY <2>5, <2>6 DEF FramesExclusive, Own
<1> QED
  BY <1>1, FramesInvariance, PTL

(* heap.rs:24 and mapall.rs:66: the frames of the heap are as many as its     *)
(* pages, and whole huge frames, whatever the memory map is like.             *)
THEOREM HeapIsBacked == WithinHalf => (KSpec => []HeapBacked)
<1> SUFFICES ASSUME WithinHalf PROVE KSpec => []HeapBacked
  OBVIOUS
<1>1. KInit => HeapInv
  BY DEF KInit, HeapInv
<1>2. FrameInv /\ HeapInv /\ [KNext]_kvars => HeapInv'
  BY HeapStep
<1>3. HeapInv => HeapBacked
  <2> DEFINE w == Pow(LEVEL_2MIB)
  <2> SUFFICES ASSUME HeapInv, phase \notin {"boot", "panic"}
               PROVE  /\ Cardinality(heap) = HeapPages
                      /\ \A f \in heap : LET start == f - (f % w)
                                         IN  start..(start + w - 1) \subseteq heap
    BY DEF HeapBacked, Pow
  <2>1. PICK k \in Int : heap = (k * w)..(k * w + HeapPages - 1)
    BY DEF HeapInv
  <2>2. w \in Nat \ {0}
    BY SMT, Powers, LayoutAssumption DEF Top
  <2> HIDE DEF w
  <2>3. HeapPages \in Nat \ {0} /\ HeapPages % w = 0
    BY StackAssumption DEF w, Pow
  <2>4. Cardinality(heap) = HeapPages
    <3> DEFINE a == k * w
               b == a + HeapPages - 1
    <3>1. a \in Int
      BY SMT, <2>2
    <3> HIDE DEF a
    <3>2. b \in Int /\ ~(a > b) /\ b - a + 1 = HeapPages
      BY SMT, <2>3, <3>1
    <3>3. Cardinality(a..b) = IF a > b THEN 0 ELSE b - a + 1
      <4> HIDE DEF b
      <4> QED
        BY <3>1, <3>2, FS_Interval
    <3>4. heap = a..b
      BY <2>1 DEF a
    <3> QED
      BY <3>2, <3>3, <3>4
  <2>5. ASSUME NEW f \in heap
        PROVE  LET start == f - (f % w) IN start..(start + w - 1) \subseteq heap
    BY <2>1, <2>2, <2>3, WholeFrames
  <2> QED
    BY <2>4, <2>5
<1> QED
  BY <1>1, <1>2, <1>3, FramesInvariance, PTL DEF KSpec

(* stack.rs:127-163 drops the results of mapping the guards.  Even so a guard *)
(* next to a stack is missing only where the direct map was in its way, and   *)
(* nothing is ever mapped in its place.                                       *)
THEOREM GuardsStay == WithinHalf => (KSpec => []GuardsUnlessDirect)
<1> SUFFICES ASSUME WithinHalf PROVE KSpec => []GuardsUnlessDirect
  OBVIOUS
<1>1. KInit => GuardInv
  <2> SUFFICES ASSUME KInit PROVE GuardInv
    OBVIOUS
  <2>1. phase = "boot" /\ stacks = {}
    BY DEF KInit
  <2>2. \A g \in GuardPages : pte[g] = BootEntry(g)
    BY Guards DEF KInit
  <2> QED
    BY <2>1, <2>2 DEF GuardInv
<1>2. FrameInv /\ GuardInv /\ [KNext]_kvars => GuardInv'
  BY GuardStep
<1>3. FrameInv /\ GuardInv => GuardsUnlessDirect
  <2> SUFFICES ASSUME FrameInv, GuardInv, NEW s \in stacks
               PROVE  \A g \in {s[1] - 1, s[2] + 1} : pte[g].kind \in {"guard", "direct"}
    BY DEF GuardsUnlessDirect
  <2>1. {s[1] - 1, s[2] + 1} \subseteq GuardPages
    BY Neighbours DEF FrameInv, LayoutInv
  <2>2. \A g \in GuardPages : pte[g].kind \in {"guard", "direct"}
    BY DEF GuardInv, GuardsSet
  <2> QED
    BY <2>1, <2>2
<1> QED
  BY <1>1, <1>2, <1>3, FramesInvariance, PTL DEF KSpec

(* kernel_large_stacks and kernel_small_stacks always agree with the page     *)
(* tables: a free index has no stack, and its pages are as the bootloader     *)
(* left them.                                                                 *)
THEOREM FreeIndicesAreFree == WithinHalf => (KSpec => []SpaceInv)
<1> SUFFICES ASSUME WithinHalf PROVE KSpec => []SpaceInv
  OBVIOUS
<1>1. KInit => SpaceInv
  <2> SUFFICES ASSUME KInit PROVE SpaceInv
    OBVIOUS
  <2>1. \A v \in VPages : pte[v] = BootEntry(v)
    BY DEF KInit
  <2>2. \A s \in AllStacks : \A v \in s[1]..s[2] : pte[v] = BootEntry(v)
    BY <2>1, StackPages
  <2>3. stacks = {}
    BY DEF KInit
  <2> QED
    BY <2>2, <2>3 DEF SpaceInv
<1>2. FrameInv /\ SpaceInv /\ [KNext]_kvars => SpaceInv'
  BY SpaceStep
<1> QED
  BY <1>1, <1>2, FramesInvariance, PTL DEF KSpec

(* Although the results of map_to and page_region are dropped, every page of  *)
(* every stack make_kernel_stack returned is mapped, to a frame of its own or *)
(* by the direct map, unless memory has run out for a stack of that size.     *)
THEOREM StacksAreMapped == WithinHalf => (KSpec => []StackMapped)
<1> SUFFICES ASSUME WithinHalf PROVE KSpec => []StackMapped
  OBVIOUS
<1>1. KInit => StackMapped
  BY DEF KInit, StackMapped
<1>2. FrameInv /\ SpaceInv /\ StackMapped /\ [KNext]_kvars => StackMapped'
  BY MappedStep
<1> QED
  BY <1>1, <1>2, FramesInvariance, FreeIndicesAreFree, PTL DEF KSpec

=============================================================================

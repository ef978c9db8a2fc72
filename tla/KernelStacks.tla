---------------------------- MODULE KernelStacks ----------------------------
(***************************************************************************)
(* The memory kmain hands out: the heap's pages, the pages of the devices, *)
(* and kernel stacks, which StackManager of src/src/stack.rs makes over    *)
(* page_region (src/src/paging/mapall.rs), the page tables and the frame   *)
(* allocator, in the layout of src/src/vmem.rs.  Virtual pages are         *)
(* numbered from HHDM_ADDR, so a page of the bootloader's direct map has   *)
(* the number of its physical page, and the kernel stack space, 1 MiB      *)
(* above HHDM_ADDR, lies in the direct map; the heap and the devices lie   *)
(* below, in spans with negative numbers.                                  *)
(***************************************************************************)
EXTENDS BuddyFrames

CONSTANTS
  N_LARGE_KERNEL_STACKS, LARGE_KERNEL_STACK_PAGES,  \* 16 and 5 in the code
  N_SMALL_KERNEL_STACKS, SMALL_KERNEL_STACK_PAGES,  \* 32 and 1
  KernelBottom,   \* KERNEL_STACK_SPACE_BOTTOM_OFFSET in pages (256)
  SchedBottom,    \* bottom guard of the scheduler's stack, above the direct map
  SCHEDULER_STACK_SIZE, \* 4
  HeapPages,      \* HEAP_SIZE in pages (4096)
  TableSpan,      \* pages one page table maps (512)
  HugeGroups,     \* spans of the bootloader's direct map that are a huge page
  Direct          \* pages of the direct map with an entry of their own (4 KiB)

(* The kernel stack space lies below the scheduler's stack (vmem.rs), the heap *)
(* has whole huge frames (heap.rs), no request exceeds LEVEL_OFFSETS and the   *)
(* largest chunk holds a stack.                                                *)
ASSUME StackAssumption ==
  /\ N_LARGE_KERNEL_STACKS \in Nat /\ LARGE_KERNEL_STACK_PAGES \in Nat \ {0}
  /\ N_SMALL_KERNEL_STACKS \in Nat /\ SMALL_KERNEL_STACK_PAGES \in Nat \ {0}
  /\ KernelBottom \in Nat /\ SchedBottom \in Nat /\ SCHEDULER_STACK_SIZE \in Nat \ {0}
  /\ KernelBottom + N_LARGE_KERNEL_STACKS * (1 + LARGE_KERNEL_STACK_PAGES)
       + N_SMALL_KERNEL_STACKS * (1 + SMALL_KERNEL_STACK_PAGES) < SchedBottom
  /\ HeapPages \in Nat \ {0} /\ HeapPages % 2^LEVEL_2MIB = 0
  /\ \A n \in {LARGE_KERNEL_STACK_PAGES, SMALL_KERNEL_STACK_PAGES, SCHEDULER_STACK_SIZE, HeapPages} :
       n <= 2^BUDDY_LEVELS
  /\ LARGE_KERNEL_STACK_PAGES <= 2^Top /\ SMALL_KERNEL_STACK_PAGES <= 2^Top

VARIABLES
  pte,      \* page table entry of every virtual page
  tables,   \* frame of the page table made for a span, by the mapper
  large, small,  \* one bits of kernel_large_stacks, kernel_small_stacks
  ifl,      \* RFLAGS.IF
  phase,    \* how far kmain is
  heap,     \* frames handed out for the heap
  stacks    \* <<first, last>> pages of the stacks make_kernel_stack returned

kvars == <<buddy_bytes, used, pte, tables, large, small, ifl, phase, heap, stacks>>

VPages == 0..SchedBottom + SCHEDULER_STACK_SIZE + 1
Unused == [kind |-> "unused", frame |-> 0]
Entry(kind, frame) == [kind |-> kind, frame |-> frame]
Group(v) == v \div TableSpan

(* What the bootloader left: its direct map, and the page tables of it. *)
Tabled == {Group(v) : v \in Direct}
BootEntry(v) == IF Group(v) \in HugeGroups \/ v \in Direct THEN Entry("direct", v) ELSE Unused

(* Page tables of all levels that do not exist yet where the heap and the     *)
(* devices are mapped: HPET_ADDR shares the upper ones with LAPIC_ADDR.       *)
HeapTables == {-1, -2}
Devices == <<"lapic", "ioapic", "hpet">>
DeviceTables(i) == CASE i = 1 -> {-3, -4, -5} [] i = 2 -> {-6, -7, -8} [] i = 3 -> {-9}

(* What the mapping functions change. *)
State == [bits |-> buddy_bytes, used |-> used, pte |-> pte, tables |-> tables,
          panic |-> FALSE]

(* Mapper::map_to of the x86_64 crate.  An error (huge parent, no frame for a *)
(* page table, page already mapped) leaves the entry alone: every caller in   *)
(* this module drops the result.  A page table made on behalf of an entry     *)
(* that is not PRESENT is not present itself, and the crate panics on it.     *)
map_to(m, v, frame, kind) ==
  LET g     == Group(v)
      fresh == g \notin Tabled \cup DOMAIN m.tables
      got   == allocate_chunk_from_level(m.bits, 0)
      n     == IF fresh
               THEN [m EXCEPT !.bits = got.bits, !.used = @ \cup {got.index},
                              !.tables = [h \in DOMAIN @ \cup {g} |->
                                            IF h = g THEN got.index ELSE @[h]]]
               ELSE m
  IN  IF g \in HugeGroups \/ (fresh /\ ~got.some) THEN m
      ELSE IF fresh /\ kind = "guard" THEN [n EXCEPT !.panic = TRUE]
      ELSE IF n.pte[v] # Unused THEN n
      ELSE [n EXCEPT !.pte[v] = Entry(kind, frame)]

(* Mapping a list of pages one after the other. *)
MapAll(m, pages, frameOf, kind) ==
  LET done[i \in 0..Cardinality(pages)] ==
        IF i = 0 THEN m
        ELSE LET v == CHOOSE p \in pages : Cardinality({q \in pages : q < p}) = i - 1
             IN  IF done[i - 1].panic THEN done[i - 1]
                 ELSE map_to(done[i - 1], v, frameOf[v], kind)
  IN  done[Cardinality(pages)]

(* Variant with a bug: the last frame is never mapped. *)
page_region_short(m, first, n) ==
  LET got == pick_off_contiguous(m.bits, n, 1)
      m0  == [m EXCEPT !.bits = got.bits, !.used = @ \cup got.page..(got.page + n - 1)]
      frameOf == [v \in first..(first + n - 1) |-> got.page + (v - first)]
  IN  IF got.some
      THEN [ok |-> TRUE, m |-> MapAll(m0, first..(first + n - 2), frameOf, "stack")]
      ELSE [ok |-> FALSE, m |-> m]

(* Variant with a bug: the frame does not advance with the page. *)
page_region_same_frame(m, first, n) ==
  LET got == pick_off_contiguous(m.bits, n, 1)
      m0  == [m EXCEPT !.bits = got.bits, !.used = @ \cup got.page..(got.page + n - 1)]
      frameOf == [v \in first..(first + n - 1) |-> got.page]
  IN  IF got.some
      THEN [ok |-> TRUE, m |-> MapAll(m0, first..(first + n - 1), frameOf, "stack")]
      ELSE [ok |-> FALSE, m |-> m]

(* page_region::<Size4KiB>: Err when the allocator has no chunk for all the   *)
(* pages, Ok otherwise whatever map_to answered.                              *)
page_region(m, first, n) ==
  LET got == pick_off_contiguous(m.bits, n, 1)
      m0  == [m EXCEPT !.bits = got.bits, !.used = @ \cup got.page..(got.page + n - 1)]
      frameOf == [v \in first..(first + n - 1) |-> got.page + (v - first)]
  IN  IF got.some
      THEN [ok |-> TRUE, m |-> MapAll(m0, first..(first + n - 1), frameOf, "stack")]
      ELSE [ok |-> FALSE, m |-> m]

(* The layout of vmem.rs: guard, stack, guard, stack, ..., guard. *)
LargeEnd(i) == KernelBottom + 1 + LARGE_KERNEL_STACK_PAGES
                 + (LARGE_KERNEL_STACK_PAGES + 1) * i

(* Variant with a bug: no room for the guard below the first small stack. *)
SmallEndUnguarded(i) ==
  KernelBottom + (1 + LARGE_KERNEL_STACK_PAGES) * N_LARGE_KERNEL_STACKS
    + SMALL_KERNEL_STACK_PAGES + (SMALL_KERNEL_STACK_PAGES + 1) * i

SmallEnd(i) == KernelBottom + (1 + LARGE_KERNEL_STACK_PAGES) * N_LARGE_KERNEL_STACKS
                 + 1 + SMALL_KERNEL_STACK_PAGES + (SMALL_KERNEL_STACK_PAGES + 1) * i

(* The pages init walks over with curpage. *)
GuardPages ==
  LET smallBase == KernelBottom + N_LARGE_KERNEL_STACKS * (1 + LARGE_KERNEL_STACK_PAGES)
  IN  {KernelBottom + i * (1 + LARGE_KERNEL_STACK_PAGES) : i \in 0..N_LARGE_KERNEL_STACKS - 1}
        \cup {smallBase + i * (1 + SMALL_KERNEL_STACK_PAGES) : i \in 0..N_SMALL_KERNEL_STACKS}

NullFrame == [v \in VPages |-> 0]

-----------------------------------------------------------------------------
Effect(m) ==
  /\ buddy_bytes' = m.bits /\ used' = m.used
  /\ pte' = m.pte /\ tables' = m.tables

KInit ==
  /\ Init
  /\ pte = [v \in VPages |-> BootEntry(v)]
  /\ tables = [g \in {} |-> 0]
  /\ large = {} /\ small = {}
  /\ ifl = TRUE /\ phase = "boot" /\ heap = {} /\ stacks = {}

Panic == phase' = "panic" /\ ifl' = FALSE

(* map_to making the page tables gs, until a frame is not to be had. *)
WithTables(m, gs) ==
  LET done[k \in 0..Cardinality(gs)] ==
        IF k = 0 THEN [ok |-> TRUE, m |-> m]
        ELSE LET n   == done[k - 1].m
                 got == allocate_chunk_from_level(n.bits, 0)
                 g   == CHOOSE h \in gs \ DOMAIN n.tables : TRUE
             IN  IF ~done[k - 1].ok \/ ~got.some THEN [ok |-> FALSE, m |-> n]
                 ELSE [ok |-> TRUE,
                       m |-> [n EXCEPT !.bits = got.bits, !.used = @ \cup {got.index},
                                       !.tables = [h \in DOMAIN @ \cup {g} |->
                                                     IF h = g THEN got.index ELSE @[h]]]]
  IN  done[Cardinality(gs)]

(* heap::init: page_region::<Size2MiB>.  Without memory it panics; without a  *)
(* frame for the table map_to's error is dropped and the allocator's first    *)
(* write faults.                                                              *)
heap_init_pages(n) ==
  LET got == pick_off_contiguous(buddy_bytes, n, 2^LEVEL_2MIB)
      frames == got.page..(got.page + n - 1)
      table == WithTables([State EXCEPT !.bits = got.bits, !.used = @ \cup frames], HeapTables)
  IN  /\ phase = "boot"
      /\ IF got.some
           THEN Effect(table.m) /\ heap' = frames
           ELSE UNCHANGED <<buddy_bytes, used, pte, tables, heap>>
      /\ IF got.some /\ table.ok THEN phase' = Devices[1] /\ UNCHANGED ifl ELSE Panic
      /\ UNCHANGED <<large, small, stacks>>

(* Variant with a bug: the last page of the heap is taken to be its end. *)
heap_init_short == heap_init_pages(HeapPages - 1)

heap_init == heap_init_pages(HeapPages)

(* init_local, IOApic::new and HPET::new each map one page of a device at an  *)
(* address of its own and panic when that fails.                              *)
map_device(i) ==
  LET table == WithTables(State, DeviceTables(i))
  IN  /\ phase = Devices[i]
      /\ Effect(table.m)
      /\ IF table.ok
           THEN /\ phase' = (IF i < 3 THEN Devices[i + 1] ELSE "mapped")
                /\ UNCHANGED ifl
           ELSE Panic
      /\ UNCHANGED <<large, small, heap, stacks>>

init_local == map_device(1)
IOApic_new == map_device(2)

(* HPET::new first asserts that the firmware's table puts the HPET in memory, *)
(* and unwraps its frame, which an unaligned address has none of.             *)
HPET_unusable ==
  /\ phase = Devices[3] /\ Panic
  /\ UNCHANGED <<buddy_bytes, used, pte, tables, large, small, heap, stacks>>

HPET_new == map_device(3) \/ HPET_unusable

(* Variant with a bug: the last guard is left out. *)
init_last_unguarded ==
  /\ phase = "mapped" /\ phase' = "stacks"
  /\ Effect(MapAll(State, GuardPages \ {Max(GuardPages)}, NullFrame, "guard"))
  /\ large' = 0..N_LARGE_KERNEL_STACKS - 1
  /\ small' = 0..N_SMALL_KERNEL_STACKS - 1
  /\ UNCHANGED <<ifl, heap, stacks>>

(* stack::init *)
init ==
  LET m == MapAll(State, GuardPages, NullFrame, "guard")
  IN  /\ phase = "mapped"
      /\ Effect(m)
      /\ IF m.panic
           THEN Panic /\ UNCHANGED <<large, small>>
           ELSE /\ phase' = "stacks"
                /\ large' = 0..N_LARGE_KERNEL_STACKS - 1
                /\ small' = 0..N_SMALL_KERNEL_STACKS - 1
                /\ UNCHANGED ifl
      /\ UNCHANGED <<heap, stacks>>

(* scheduler::init makes the scheduler's own stack: only here is the result   *)
(* of page_region looked at.                                                  *)
make_scheduler_stack ==
  LET region == page_region(State, SchedBottom + 1, SCHEDULER_STACK_SIZE)
      guards == {SchedBottom, SchedBottom + SCHEDULER_STACK_SIZE + 1}
      m == IF region.ok THEN MapAll(region.m, guards, NullFrame, "guard") ELSE region.m
  IN  /\ phase = "stacks"
      /\ Effect(m)
      /\ IF region.ok /\ ~m.panic
           THEN phase' = "ready" /\ UNCHANGED ifl
           ELSE Panic
      /\ UNCHANGED <<large, small, heap, stacks>>

(* map_large_stack: with interrupts masked take the first free index and map  *)
(* its pages.  Without a free index the early return leaves them masked, and  *)
(* spawn_task's expect panics.                                                *)
map_large_stack ==
  LET index == Min(large)
      end   == LargeEnd(index)
      start == end - LARGE_KERNEL_STACK_PAGES
  IN  /\ phase = "ready"
      /\ IF large = {}
           THEN Panic /\ UNCHANGED <<buddy_bytes, used, pte, tables, large, stacks>>
           ELSE /\ large' = large \ {index}
                /\ Effect(page_region(State, start, LARGE_KERNEL_STACK_PAGES).m)
                /\ ifl' = TRUE
                /\ stacks' = stacks \cup {<<start, end - 1>>}
                /\ UNCHANGED phase
      /\ UNCHANGED <<small, heap>>

map_small_stack ==
  LET index == Min(small)
      end   == SmallEnd(index)
      start == end - SMALL_KERNEL_STACK_PAGES
  IN  /\ phase = "ready"
      /\ IF small = {}
           THEN Panic /\ UNCHANGED <<buddy_bytes, used, pte, tables, small, stacks>>
           ELSE /\ small' = small \ {index}
                /\ Effect(page_region(State, start, SMALL_KERNEL_STACK_PAGES).m)
                /\ ifl' = TRUE
                /\ stacks' = stacks \cup {<<start, end - 1>>}
                /\ UNCHANGED phase
      /\ UNCHANGED <<large, heap>>

KNext ==
  \/ heap_init \/ init_local \/ IOApic_new \/ HPET_new
  \/ init \/ make_scheduler_stack \/ map_large_stack \/ map_small_stack

KSpec == KInit /\ [][KNext]_kvars

-----------------------------------------------------------------------------
(* Properties *)

(* The values the state may have. *)
KTypeOK ==
  /\ TypeOK
  /\ pte \in [VPages -> [kind: {"unused", "guard", "stack", "direct"}, frame: Nat]]
  /\ DOMAIN tables \subseteq {Group(v) : v \in VPages} \cup -9..-1
  /\ large \subseteq 0..N_LARGE_KERNEL_STACKS - 1
  /\ small \subseteq 0..N_SMALL_KERNEL_STACKS - 1
  /\ ifl \in BOOLEAN /\ heap \subseteq Nat
  /\ phase \in {"boot", "lapic", "ioapic", "hpet", "mapped", "stacks", "ready", "panic"}
  /\ \A s \in stacks : s[1]..s[2] \subseteq VPages /\ s[1] <= s[2]

(* Two stacks never share a page, and a guard page of stack::init lies on     *)
(* either side of each: the addresses make_kernel_stack computes from an      *)
(* index agree with the pages init skips over.                                *)
StacksApart ==
  \A s \in stacks :
    /\ {s[1] - 1, s[2] + 1} \subseteq GuardPages
    /\ (s[1]..s[2]) \cap GuardPages = {}
    /\ \A t \in stacks : s # t => (s[1]..s[2]) \cap (t[1]..t[2]) = {}

(* The allocator has an aligned run of frames that holds n of them. *)
Room(n) ==
  \E p \in Usable : p % 2^LevelFor(n) = 0 /\ p..(p + 2^LevelFor(n) - 1) \subseteq FreePages

(* stack.rs:66, 92 and mapall.rs:72 drop every error on the way to a stack.   *)
(* A page of a stack that make_kernel_stack returned is nevertheless mapped,  *)
(* to a frame of its own or where the bootloader had mapped it, unless memory *)
(* has run out for a stack of that size.                                      *)
StackMapped ==
  \A s \in stacks : \A v \in s[1]..s[2] :
    pte[v].kind \in {"stack", "direct"} \/ ~Room(s[2] - s[1] + 1)

(* mapall.rs:30 and spawn_task, which writes the first frame there: every     *)
(* page of a stack that make_kernel_stack returned is mapped to a frame that  *)
(* the allocator handed out for it.                                           *)
StackBacked ==
  \A s \in stacks : \A v \in s[1]..s[2] : pte[v].kind = "stack" /\ pte[v].frame \in used

(* heap.rs:24, mapall.rs:66: the heap has as many frames as it has pages, in  *)
(* aligned runs of the size of a huge page.                                   *)
HeapBacked ==
  phase \notin {"boot", "panic"} =>
    /\ Cardinality(heap) = HeapPages
    /\ \A f \in heap : LET start == f - (f % 2^LEVEL_2MIB)
                       IN  start..(start + 2^LEVEL_2MIB - 1) \subseteq heap

(* Frames are never shared: no two mapped stack pages, no page table and not  *)
(* the heap use the same one, and none of them is free in the allocator.      *)
(* (Pages of the direct map stand for no use: the kernel reaches every frame  *)
(* through it.)                                                               *)
MappedFrames == {pte[v].frame : v \in {w \in VPages : pte[w].kind = "stack"}}
TableFrames  == {tables[g] : g \in DOMAIN tables}
FramesExclusive ==
  /\ \A v, w \in VPages :
       pte[v].kind = "stack" /\ pte[w].kind = "stack" /\ pte[v].frame = pte[w].frame => v = w
  /\ \A g, h \in DOMAIN tables : tables[g] = tables[h] => g = h
  /\ MappedFrames \cap TableFrames = {}
  /\ heap \cap (MappedFrames \cup TableFrames) = {}
  /\ (heap \cup MappedFrames \cup TableFrames) \cap FreePages = {}

(* stack.rs:127-163: the result of mapping a guard is dropped as well, but a  *)
(* guard is missing only where the direct map was in its way: with no frame   *)
(* for a page table the boot does not get as far as making stacks.            *)
GuardsUnlessDirect ==
  \A s \in stacks : \A g \in {s[1] - 1, s[2] + 1} : pte[g].kind \in {"guard", "direct"}

(* vmem.rs:35 and stack.rs:28: a guard page is never present, so running off  *)
(* either end of a stack faults.                                              *)
GuardsHold ==
  \A s \in stacks : pte[s[1] - 1].kind = "guard" /\ pte[s[2] + 1].kind = "guard"

=============================================================================

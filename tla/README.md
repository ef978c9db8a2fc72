# A TLA+ model of the titanium kernel

titanium is a single-CPU x86-64 kernel in Rust. This directory models the parts
of it that keep state: the scheduler and its context switch, the physical frame
allocator, kernel stacks, the kernel heap, the timers during boot, and the host
functions given to uACPI. TLC checks the models on small instances; TLAPS proves
the safety properties of every one of these parts for all instances.

## The system and its parts

`kmain` (`main.rs`) boots on one thread with interrupts enabled: it builds the
frame allocator from the memory map, maps the heap, lets uACPI read the ACPI
tables, routes the PIT through the IOAPIC, calibrates the local APIC timer
against the PIT, sleeps once on the calibrated timer, starts the HPET, reserves
stacks, spawns tasks and jumps to the scheduler. From then on the scheduler pops
a task, arms a one-shot slice and resumes it; the timer interrupt or
`yield_task` brings the scheduler back, which requeues the task.

| Part | Source | Module | State |
|---|---|---|---|
| scheduler, context switch | `scheduler.rs` | `Scheduler`, `RoundRobin`, `SwitchFrames` (register contents) | modelled |
| local APIC timer | `hdint.rs` | `Scheduler` (slice), `BootTimer` (calibration, sleep), `KernelStacks` (mapping) | modelled |
| IOAPIC, PIT, HPET | `hdint.rs`, `hdint/pit.rs`, `hdint/hpet.rs` | `BootTimer`, `KernelStacks` (mapping), `UacpiHost` (clock) | PIT modelled, others partly |
| frame allocator | `paging.rs` | `BuddyFrames`, `FrameOwnership` | modelled |
| mapper, kernel stacks | `paging/mapall.rs`, `stack.rs`, `vmem.rs` | `KernelStacks` (extends `BuddyFrames`) | modelled |
| kernel heap | `heap.rs` | `HeapBlocks`, `KernelHeap`, `HeapWords`; its pages: `KernelStacks`; its lock: `Scheduler` | modelled |
| uACPI host | `uacpi.rs` | `UacpiHost`, `HeapWords` (alloc, free) | partly |
| ACPI tables | `acpi.rs`, `acpi/*.rs` | `BootTimer` (walks over the MADT) | partly |
| interrupt table | `idt.rs` | gate types in `Scheduler`, `BootTimer`; wrappers in `SwitchFrames` | partly |
| serial port | `serial.rs` | `Scheduler` | partly |
| boot sequence | `main.rs` | `BootTimer`, `KernelStacks`, `UacpiHost`, `Scheduler` | partly |

`PROJECT.json` has the full list, the source lines of every definition, and the
hazards of the code at the lines where they bite.

## How the models correspond to the code

**Scheduler.** There is one CPU, hence one program counter `pc`. What
interleaves with it is the timer. Code that runs with interrupts masked is one
action; code that runs with them enabled is cut wherever an interrupt would see
another `CURRENT_TASK_PTR` (`cur`), stack (`rsp`, `stack`) or `INTERRUPTED` flag
(`flagged`). Stacks hold frames of three kinds: callee-saved registers, the other
registers with RFLAGS, and the frame of `iretq`. Register contents are left to
`SwitchFrames`.
The local APIC is `timer`, `irr`, `isr`. The block structure of crossbeam's
`SegQueue` is kept as two slot numbers, because a push or pop at a block
boundary takes the heap lock. Tasks differ in what their code does: `Yielding`,
`Cooperative`, `Returning`, `Allocating`. Raw task ids stand for whole ids.

**BuddyFrames.** `buddy_bytes` is the set of one bits, indexed as in the code;
`used` records what callers hold. `page_region` asks for all frames at once:
with the code's `pick_off_contiguous` a request is served whole or not at all.
`NextHuge` adds callers that free 2 MiB frames; the kernel has none today.

**SwitchFrames.** The same switch, seen from the registers. Every register and
every word on a stack has a value `<<owner, what, n>>`, pushes and pops follow the
order of the assembly, and `resume_task` pops one register per step, so an
interrupt can fall between any two. `TaskComputes` gives all registers of a task
new values; `relies` records which of them the task may expect to find again
(all, or the callee-saved ones across `yield_task`). `resume_scheduler` is
compiled code: the build keeps its two arguments in two of `Places`, registers or
stack slots, while `int3`, whose wrapper saves nothing, and dropped ticks come in.
The PIT's handler is an action because `disable_pit` leaves the PIT on.

**KernelStacks.** The memory `kmain` hands out, in its order: `heap_init` (2 MiB
frames), `init_local`, `IOApic_new`, `HPET_new`, `init`, `make_scheduler_stack`,
then stacks. Virtual pages count from `HHDM_ADDR`; the heap and the devices lie
below, in spans with negative numbers of which only the page tables count. The
stack space, 1 MiB above `HHDM_ADDR`, lies inside the bootloader's direct map,
where page v is physical page v: `HugeGroups` are its huge pages, `Direct` its
4 KiB pages, and the page tables of the latter exist (`Tabled`). `map_to` is the
x86_64 crate's function (external): it refuses a page below a huge one or with an
entry already, allocates missing page tables from the same frames, and panics on a
table made for a guard, which is not present. In the stack space the last level of
page tables is modelled. Every error that `page_region`, `init` and `StackManager`
drop is dropped here too.

**HeapBlocks, KernelHeap, HeapWords.** Addresses are in units of the smallest
block; `HeapBlocks` has the block sizes and layouts. `KernelHeap` is the abstract
heap: per block size a sequence of free blocks. `HeapWords` is the code: heads
are pointers, links lie in the first word of a free block, where the owner of a
block writes what it likes (`Fill`), and `uacpi_kernel_alloc` keeps a size in the
first word that `uacpi_kernel_free` turns back into a layout. `Chain` follows the
links and is the refinement mapping. A failed allocation writes through a null
pointer or panics (`OutOfMemory`): the system halts. The linked-list allocator
(external) may return any free aligned range, or fail.

**BootTimer.** One step of time is one count of the local APIC timer, and is long
against interrupt latency. The MADT is a sequence of records with type and
length; the three walks of `kmain` (dump, search for the IOAPIC, overrides) move
`ptr` by `record_length` as `entries` does, so that a length of zero loops, and a
type it does not know panics. The length of the table is its own field, and may
exceed the records. The check of a sleep loop and its `hlt` are separate steps.

**UacpiHost.** uACPI is a client that nests its regions properly, unlocks with
the flags it was given and frees only what it does not hold. Objects are boxes:
after a free the heap may reuse and overwrite them. `stage` says how far `kmain`
is: a stall before the calibration meets the assertion of `sleep_local_us`, the
clock before `init_hpet` an unmapped page. A stall is `sleep_local_us` in steps:
`uacpi_kernel_stall` claims and arms the timer (one step, since the timer is idle
and masked until then and no interrupt could tell), then `sleep_unmask`,
`sleep_check` and `sleep_hlt` interleave with the counting of the timer, its
handler and the PIT. A count that runs out before the timer is unmasked is lost.

**Variants.** Definitions commented "Variant with a bug" are not part of any
specification. Each is a definition as a plausible slip would have written it,
and substituting it makes one property fail: this shows the property can fail.

## Runs

Passing:

| Run | Distinct states | Shows |
|---|---|---|
| `scheduler` | 3548 | three tasks, one yielding: frames match the flag, slices present, no spinning on a lock, every queued task runs again |
| `scheduler_slow` | 3.56 M | tasks neither lost nor doubled, pointers and saved stacks accurate, slices fresh, round robin refined: with slices that may end inside the switch, tasks that return and allocate, and spawning beyond the end of the id space |
| `buddy` | 8192 | bookkeeping, coalescing and completeness of the frame allocator; ownership refined |
| `stacks` | 181 | the heap has whole huge frames; stacks apart; a page of one unmapped only for want of memory; guards missing only where the direct map is; frames not shared |
| `heap` | 15450 | the lists threaded through the blocks implement those of `KernelHeap`; blocks disjoint, fitting, not leaked; every block goes back under the layout it was taken with |
| `registers` | 226740 | tasks keep their registers (r14 and r15 excepted) and find their stack balanced, `iretq` finds its frame, the scheduler keeps its arguments |
| `boot_timer` | 17310 | walks, overrides, routing, calibration, the sleep running its course and lasting long enough, and the boot getting past both sleeps |
| `uacpi` | 269044 | nested masking, spinlocks that can always be taken, port numbers, stalls that are accepted, run their course and return |

Type invariants (`TypeOK`, `KTypeOK`) are part of no run. They hold in these
instances, as TLC shows when one is added to a `.cfg`; those of `Scheduler`,
`BootTimer` and `UacpiHost` are proved.

Runs in which the code disagrees with its own documentation (the quoted lines
are under `findings` in `PROJECT.json`):

| Run | Violated | Because |
|---|---|---|
| `scheduler_masked` | `TaskInterruptible` | `release_task` saves the flags after `cli`, so a task that yielded goes on masked |
| `buddy_half` | `Conserved` | level 0 has bits for half of `MAX_PHYS_MAP` only |
| `registers_preempted` | `AllRegistersKept` | `scheduler_preempt` uses r14 and r15 for a comparison before it saves them |
| `stacks_guards` | `GuardsHold` | `init` drops the refusal of a guard page that the direct map already has |

Further disagreements have no run of their own here. TLC reports each when the
property is checked as described:

| Property | How | Because |
|---|---|---|
| `FlagMatchesFrame` | the constants of `MCScheduler.cfg` with `SliceOutlastsSwitch = FALSE`, `MaxDepth = 9` | a tick between `sti` and `btr` in `resume_task` uses up the one `INTERRUPTED` bit (`scheduler.rs:223`), and the older registers are never popped. Only if a slice ends inside the switch |
| `SchedulerNeverSpins` | `MCScheduler.cfg` with `Allocating <- FirstOnly` | a task preempted in the allocator holds the lock that a queue operation at a block boundary needs (`scheduler.rs:510`). Only for tasks that allocate |
| `EveryTaskRuns` | `MCScheduler.cfg` with `Yielding`, `Cooperative` empty and `Returning <- FirstOnly` | a task that returns panics the kernel; `scheduler.rs:91-92` says it ends "safely" |
| `PicksLargest` | `MCBuddyFrames.cfg` | the loop over levels always asks for `target_level` (`paging.rs:266`, `279`) |
| `Conserved` | `MCBuddyFrames.cfg` with `SpecHuge` | freeing a 2 MiB frame sets a bit of level 0 (`paging.rs:358`). No caller today |
| `StackBacked` | `MCKernelStacks.cfg` | the results of `map_to` and `page_region` are dropped (`mapall.rs:72`, `stack.rs:66`), where `mapall.rs:30` says "Ensure". A stack page that the direct map has keeps its entry there: the stack lies on the physical page of that number, which the allocator may hand out as well, and the frame taken for it is lost. With memory exhausted the page is not mapped at all |
| `PitDisabled` | `MCBootTimer.cfg` | `disable_pit` calls `set_mask(false)` (`hdint.rs:375`); `main.rs:174` says "don't need it after setting up the lapic's timer" |
| `ArgumentsSurvive` | `MCSwitchFrames.cfg` with `Places = {"r14", "rbx"}` or `{"rdi", "rbx"}` | a tick that `scheduler_preempt` drops overwrites r14 and r15; the wrapper of `int3` saves no caller-saved register. Only in a build that keeps the arguments there |
| `StallsEnd` | `MCUacpiHost.cfg` | a count of 0 (a stall of no microseconds) starts no timer, and a count that runs out before the timer is unmasked raises no interrupt: the stall never returns |
| `AnswersTimeout` | `MCUacpiHost.cfg` | a locked mutex or an empty event panics (`uacpi.rs:352`, `365`, `390`) |

Correcting `disable_pit` alone would expose another problem: the loop of
`sleep_local_us` checks and then halts, and today only the PIT wakes it if the
timer interrupt falls in between. The variants `disable_pit_masking` of `BootTimer`
and `pit_interrupt_off` of `UacpiHost` violate `SleepsReturn` and `StallsReturn`.
Two readings of the clock within one count are equal, where
`uacpi.rs:283` says "strictly monotonic". Also, `stack.rs:171` documents large
stacks of four pages; they have five.

## Bounds and assumptions on the instances

- Scheduler: three tasks are the fewest with two in the queue while one runs;
  blocks of two slots make every other queue operation cross a boundary (31 in
  the crate). `MaxDepth` stops the timer from expiring once nested switches have
  piled up that many frames.
- `SliceOutlastsSwitch`: the slice is meant to be one second. `FlagMatchesFrame`,
  `RunningIsSliced` and `EveryTaskRuns` assume that it does not end within the
  switch, and so do the theorems about the first two; `scheduler_slow` and the
  other theorems do not.
- BuddyFrames: 4 levels over 32 pages, 13 of them usable, with ragged ends and a
  chunk of the top level, all within the half that level 0 has bits for. Requests
  of up to 5 frames leave tails of every shape at this size.
- SwitchFrames: three tasks, two of which yield; the arguments in `rbx`, `r12` or
  a slot on the stack. Two values per register tell apart what a task computed
  last and before. `ArgumentsSurvive` is about the builds that keep the arguments
  neither in r14 or r15 nor in a caller-saved register (`OutOfReach`); it fails for
  the others (see above). A slice does not end inside the switch, as in
  `scheduler`.
- KernelStacks: a heap of two huge frames, 3 large and 8 small stacks, so both
  kinds run out. Parts of the stack space are a huge page of the direct map, have
  4 KiB entries of it, and are a hole with page tables, so that guards and stack
  pages meet each of these cases; there are frames for the boot and part of the
  stacks, so memory runs out too. The run may stop, so deadlock is not checked: a panic is a state without successor. The same holds
  for `heap` and `uacpi`; in `scheduler_slow` the scheduler may spin on the heap
  lock for good.
- HeapWords: 11 units, three block sizes, and layouts that are small, aligned
  beyond their size, odd, and too large for any block; three sizes for uACPI, one
  of them beyond the block sizes.
- BootTimer: three inputs; three usual tables and six odd ones (no IOAPIC, an
  unknown type, a source beyond the array, reserved flags, a record without length
  at the end or before an override), with and without bytes behind the last record;
  an HPET with and without a line; a timer period of three units.
  `SleepOutlastsArming`: the sleep of three seconds does not run out between two
  register writes; a sleep that did would never return. No calibration of this
  instance overflows the counter or makes the quotient of `sleep_local_us` zero:
  the first panics, with the second the sleep never returns. `SleepsReturn` is
  promised for the tables that `Supported` describes; over a record without length
  the walk goes on for ever, and over trailing bytes it panics.
- UacpiHost: three objects, nesting up to 3, an event counter up to 2 (the client
  does not signal beyond it), two ports. Stalls of 0, 1 and 2 microseconds on
  timers of 1 and 2 counts in a microsecond; with fewer than one the boot does not
  get past the sleep of `kmain`. `StallsReturn` is about stalls whose timer still
  counts when it is unmasked.

## Fairness

`Scheduler`: the CPU keeps executing the switch, an armed timer expires, a
deliverable interrupt is taken, critical sections end, `kmain` reaches the
scheduler (all weak). A yielding task is resumed masked and cannot be preempted,
so `EveryTaskRuns` needs such a task to come back to `yield_task`, as the loop of
`coop_task` does: strong fairness of `yield_task` for `Cooperative` tasks.
Nothing is assumed of other tasks.

`BootTimer`: time passes and interrupts are taken (weak); `kmain` is strongly
fair, since interrupts 500 microseconds apart interrupt but do not starve it.

`UacpiHost`: the boot thread goes on with a stall, time passes, the timer's
interrupt is delivered and the PIT ticks (all weak); nothing is assumed of the
client.

## Proofs

Every safety property that a passing run checks is also proved, for any values of
the constants that satisfy the named assumptions of the module. A theorem that
needs more than these says so as a hypothesis. `theorems` in `PROJECT.json` pairs
each theorem with its property.

| Module | Proves | Beyond the assumptions of the model |
|---|---|---|
| `SchedulerProofs` | types, `EachTaskOnce`, `CurrentAccurate`, `FreshSlice`, `SavedStackIsOwn`, `TaskIdsDistinct`, `ImplementsRoundRobin`; also that the serial lock is free while the scheduler runs | nothing |
| | `FlagMatchesFrame`, `RunningIsSliced` | `SliceOutlastsSwitch` |
| | `SchedulerNeverSpins` | no task allocates |
| `SwitchFramesProofs` | `RegistersKept`, `StackBalanced`, `ReturnsToTask`, `ArgumentsSurvive` | `OutOfReach` |
| `BuddyFramesProofs` | `Conserved`, `Coalesced`, `FindsFreeRun`, `ImplementsOwnership` | `WithinHalf` |
| `KernelStacksProofs` | `StacksApart` | nothing |
| | `FramesExclusive`, `HeapBacked`, `GuardsUnlessDirect`, `StackMapped`; also that the pages of a free index are as the bootloader left them | `WithinHalf` |
| `HeapWordsProofs` | `ImplementsHeap`, `BlocksDisjoint`, `BlocksFit`, `NoBlockLost`, `SizeIntact` | nothing |
| `BootTimerProofs` | types, `OverridesApplied`, `PitRouted`, `CalibrationCoversIntervals`, `SleepRunsItsCourse`, `SleepLongEnough` | nothing |
| `UacpiHostProofs` | types, `MaskedWhileNested`, `LockInfallible`, `PortsExact`, `StallRunsItsCourse`, `StallsAccepted` | nothing |

Where the hypotheses come from: `buddy_half` shows what happens without
`WithinHalf` (the memory map lies in the half that level 0 has bits for).
`OutOfReach` restricts the builds to those that keep the arguments of
`resume_scheduler` where neither the wrapper of `int3` nor `scheduler_preempt`
writes; the table of further disagreements has the builds that lose them, and a
lost pointer leads to a wrong frame. The theorems on stacks hold for every direct
map, with or without huge pages.

### The arguments

**Scheduler.** That a requeue does not double a task needs that `STALE_TASK_PTR`
names the task whose stack was handed over, which needs that whoever is
interrupted is current, which needs that the frame a dropped tick pops leads back
into the scheduler. `IInv` therefore adds: `CpuInv` (pc, stack pointer and current
task agree), `TickInv` (at most one tick, and only with the timer off), `FrameInv`
(frames on a task's stack lead back to its code or to `resume_task`), `SwitchInv`
(what the scheduler holds during a switch) and `IdInv`. The refinement rests on
`OwnerStep`: a step moves at most one task between queue and CPU. `SwitchedInv`
adds who may hold a lock, and, if no slice ends in the switch, what the frames and
the timer look like at each point of it. Assumed: the scheduler and the null
pointer are not tasks, the id space has room for a task, bounds are positive.

**SwitchFrames.** `IInv` describes the stack of every task word by word: that of a
queued task is a whole frame of the kind its flag says, holding the registers the
task relies on; `resume_scheduler` has been handed the pointer to such a frame and
its kind; that of the task being resumed has what `todo` has yet to pop, and what
was popped is in the registers. Assumed: finitely many tasks; hypothesis:
`OutOfReach`.

**BuddyFrames.** `BuddyInv`: each free page lies under exactly one set bit
(`Sound`), no two buddies are both set (`Merged`), and free and used pages
partition the usable ones. The lemmas say what the loops do to the set of free
pages: `allocate_chunk_from_level` takes one aligned chunk, `pick_off_contiguous`
gives back exactly the tail it does not need, `merge_up_from` adds only the chunk
it is given, marking an entry of the memory map adds exactly that. `FindsFreeRun`
follows since an aligned run of free pages in a merged map lies under one bit of
its level or above. Assumed: the usable entries of the map neither overlap nor
touch, and no request leaves the range of `LEVEL_OFFSETS`. `Doubling` is the law of
exponentiation that the provers lack; TLC evaluates it for each instance.

**KernelStacks.** `StacksApart` depends only on the layout of `vmem.rs`
(`LayoutInv`). The others follow the frames: `FrameInv` says that every frame in a
page table entry, in use as a page table or in the heap was handed out, and has one
of these uses. What each mapping function preserves of it is a lemma about that
function in `KernelPagingProofs`, from `map_to` to the loops of `MapAll` and
`page_region`; `KernelStacksProofs` has the steps of the kernel and the theorems.
`GuardsUnlessDirect`: `map_to` never replaces an entry, and leaves a guard out only
where the direct map is or if the allocator has no frame left for a page table; an
empty allocator stays empty, and `scheduler::init` then panics before any stack is
made (`GuardInv`). `StackMapped`: the pages of a free index are as the bootloader
left them (`SpaceInv`), so an unmapped page means that the allocator refused the
frames of the stack or, empty, a page table; by `RunIsFound` and `Drained` it has no
run for the stack then, and, since frames are never given back, has none later.
`HeapInv` says that the heap is one aligned run of frames. Assumed
(`StackAssumption`): the stack space ends below the
scheduler's stack, the heap is a whole number of huge frames, no request leaves the
range of `LEVEL_OFFSETS`, and the largest chunk holds a stack.

**HeapWords.** `IInv` states that the pointers in the free blocks link each list
in order (`LinkInv`), without cycles or shared blocks, that blocks, allocated or
free, are disjoint and make up what was taken from the linked-list allocator
(`Blocks`), and that in front of a block of uACPI lies its size (`LiveInv`). A push
or pop at the head then changes `Chain` as the abstract list changes, which is the
refinement; disjointness and coverage are those of the abstract lists. Assumed:
block sizes ascend, and are multiples of the alignments they serve.

**BootTimer.** `IInv` follows the walk (what lies before `ptr` is applied), the
redirection entries (while the PIT is enabled its input, and no other, carries
its vector) and the timer: how much it has counted is tied to the PIT interrupts
seen so far, later to `waited`.
`TimerAssumption` takes well-formed tables: override records have a length, and
no two have the same source or target. `IOApicAssumption`: the first IOAPIC has
the first input, since the code uses a GSI as the number of an input.
`CounterAssumption`: the count does not run out during the calibration.

**UacpiHost.** `IInv` relates what the client has open to the flag and to the
objects: interrupts are enabled just when nothing is open, and only the outermost
region has saved that they were; the spinlocks in `nest` are locked and no others
are; a mutex is locked just when the client has acquired it, and the counter of
an event is the number of signals the client may wait for. For stalls it follows
the timer: the flag is set, and the timer claimed, from the claim until the handler
has run; the handler runs only after the count is down, and once; a stall takes at
most a millisecond's count, so the product fits.

The proofs about loops and searches use least elements of a set of numbers and
induction for such a set (`Least`, `SetInduction`): the library states induction
for an operator, which the provers cannot instantiate.

### Only model-checked

`EveryTaskRuns`, `SleepsReturn` and `StallsReturn`: liveness under fairness is out
of the prover's reach.

## Not modelled

- Wakers and the queue (`scheduler/waker.rs`, `queue.rs`), `heap/ll.rs`, the RTC,
  `hdconf.rs`, `enable_timer` of the HPET: no code of the kernel uses them.
- Limine requests, GDT, FRED, framebuffer, font, utilities: static data or
  straight-line set-up that later code does not change, or pixels that nothing
  reads.
- Mapping, logging and the thread id of the uACPI host, and finding a table
  through uACPI: they change no state of the kernel.
- The encoding of interrupt descriptors and of register fields, and the two
  32-bit accesses behind one redirection entry, which no other code interleaves
  with.
- What the HPET counts.

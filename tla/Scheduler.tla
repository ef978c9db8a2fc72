------------------------------ MODULE Scheduler ------------------------------
(***************************************************************************)
(* The single-CPU kernel scheduler of src/src/scheduler.rs with the local  *)
(* APIC one-shot timer that preempts tasks (src/src/hdint.rs), and the two *)
(* spin locks a task and the scheduler share (serial port, kernel heap).   *)
(*                                                                         *)
(* The CPU is one thread of control, so the state has one program counter. *)
(* What interleaves with it is the timer: it may expire at any instruction *)
(* and its interrupt is taken at the first instruction boundary where the  *)
(* interrupt flag is set.  Code that runs with the flag clear is therefore *)
(* one action; code that runs with it set is cut wherever an interrupt in  *)
(* between would see a different CURRENT_TASK_PTR, stack or flag.          *)
(***************************************************************************)
EXTENDS Integers, Sequences, Functions

CONSTANTS
  Tasks,        \* the TaskInfo structures spawn_task may create
  Yielding,     \* tasks whose code calls yield_task
  Cooperative,  \* yielding tasks whose code always comes back to yield_task
  Returning,    \* tasks whose function returns (into end_task)
  Allocating,   \* tasks whose code uses the kernel heap
  Sched,        \* SCHEDULER_TASK, the scheduler's own TaskInfo
  None,         \* a null pointer; also "nobody holds this lock"
  FirstId,      \* initial NEXT_TASK_ID (0x100 in the code)
  IdSpace,      \* number of raw task ids (2^48 in the code)
  SliceOutlastsSwitch, \* the 1 s slice never ends inside the switch code
  BlockCap,     \* slots in one block of the task queue (31 in SegQueue)
  MaxDepth      \* bound: frames on one stack when nested switches pile up

ASSUME TaskAssumption ==
  /\ Sched \notin Tasks /\ None \notin Tasks /\ Sched # None
  /\ Yielding \subseteq Tasks /\ Cooperative \subseteq Yielding
  /\ Returning \subseteq Tasks /\ Allocating \subseteq Tasks

ASSUME IdAssumption ==
  /\ FirstId \in Nat \ {0} /\ IdSpace \in Nat /\ FirstId + 1 < IdSpace

ASSUME SwitchAssumption ==
  /\ SliceOutlastsSwitch \in BOOLEAN
  /\ MaxDepth \in Nat \ {0} /\ BlockCap \in Nat \ {0}

VARIABLES
  pc,       \* where the CPU is
  ifl,      \* RFLAGS.IF
  rsp,      \* whose stack the stack pointer is in
  stack,    \* frames on each stack, top first
  cur,      \* CURRENT_TASK_PTR
  stale,    \* STALE_TASK_PTR
  next,     \* the task run_scheduler popped (argument of resume_task)
  kind,     \* ResumedState handed to resume_scheduler (rsi)
  released, \* released_stack handed to resume_scheduler (rdi)
  sp,       \* TaskInfo.sp: the stack each saved pointer points into
  flagged,  \* tasks with TaskFlags::INTERRUPTED
  queue,    \* SCHEDULER_STATE.task_queue
  pushAt, popAt, \* slot of its block the next push / pop of the queue uses
  id,       \* raw part of TaskInfo.task_id, 0 while not spawned
  nextId,   \* NEXT_TASK_ID
  timer,    \* the local APIC's one-shot timer
  irr, isr, \* timer vector requested / in service in the local APIC
  holder,   \* who holds each spin lock
  reenable  \* local of serial::_print

cpu   == <<pc, ifl, rsp, stack>>
ptrs  == <<cur, stale, next, kind, released>>
infos == <<sp, flagged, queue, pushAt, popAt>>
ids   == <<id, nextId>>
lapic == <<timer, irr, isr>>
locks == <<holder, reenable>>
vars  == <<cpu, ptrs, infos, ids, lapic, locks>>

Procs == Tasks \cup {Sched}

SchedPCs  == {"run", "arm", "switch", "idle", "rs", "requeue", "jump_out"}
ResumePCs == {"pop_std", "btr", "pop_gp", "iret"}
SwitchInPCs == {"switch"} \cup ResumePCs
CodePCs   == {"task", "print", "alloc"}
PCs == SchedPCs \cup ResumePCs \cup CodePCs \cup {"boot", "preempt", "panic", "fault"}

-----------------------------------------------------------------------------
(* Stack frames: the callee-saved registers (StandardStackFrame), the other *)
(* registers and RFLAGS (InterruptedStackFrame without its standard part),  *)
(* and the frame an iretq consumes.                                         *)
Frames == [kind: {"std", "gp", "isf"}, rip: PCs, ifl: BOOLEAN]

Std       == [kind |-> "std", rip |-> "task", ifl |-> FALSE]
Gp(f)     == [kind |-> "gp", rip |-> "task", ifl |-> f]
Isf(p, f) == [kind |-> "isf", rip |-> p, ifl |-> f]

MAX_TASK_ID == IdSpace - 2
SchedId     == IdSpace - 1     \* raw part of TASKID_SCHEDULER

(* SegQueue (crossbeam) is a list of blocks on the kernel heap: the push into *)
(* the last slot of a block allocates the next one, the pop from the last     *)
(* slot frees the block.                                                      *)
NextSlot(i) == (i + 1) % BlockCap
UsesHeap(i) == NextSlot(i) = 0
(* Variant with a bug: the queue is a stack. *)
PushFront(t) == queue' = <<t>> \o queue /\ pushAt' = NextSlot(pushAt)
Push(t) == queue' = Append(queue, t) /\ pushAt' = NextSlot(pushAt)
Pop == queue' = Tail(queue) /\ popAt' = NextSlot(popAt)

(* The timer vector is delivered at the next instruction boundary. *)
Deliverable == irr /\ ifl /\ ~isr

Init ==
  /\ pc = "boot" /\ ifl = TRUE /\ rsp = Sched
  /\ stack = [p \in Procs |-> <<>>]
  /\ cur = None /\ stale = None /\ next = None
  /\ kind = "Yielded" /\ released = None
  /\ sp = [t \in Tasks |-> None]
  /\ flagged = {} /\ queue = <<>> /\ pushAt = 0 /\ popAt = 0
  /\ id = [p \in Procs |-> IF p = Sched THEN SchedId ELSE 0]
  /\ nextId = FirstId
  /\ timer = "off" /\ irr = FALSE /\ isr = FALSE
  /\ holder = [l \in {"serial", "heap"} |-> None]
  /\ reenable = FALSE

-----------------------------------------------------------------------------
(* kmain, before jump_to_scheduler. *)

(* Variant with a bug: the assertion admits one id too many. *)
spawn_task_off_by_one(t) ==
  /\ pc = "boot" /\ id[t] = 0 /\ nextId <= MAX_TASK_ID + 1
  /\ nextId' = nextId + 1
  /\ id' = [id EXCEPT ![t] = nextId]
  /\ stack' = [stack EXCEPT ![t] = <<Std, Isf("task", ifl)>>]
  /\ sp' = [sp EXCEPT ![t] = t]
  /\ Push(t)
  /\ UNCHANGED <<pc, ifl, rsp, ptrs, flagged, popAt, lapic, locks>>

(* With no kernel stack left spawn_task panics as well: KernelStacks has the   *)
(* stacks, of which there are more than tasks here.                            *)
spawn_task(t) ==
  /\ pc = "boot" /\ id[t] = 0
  /\ nextId' = nextId + 1
  /\ IF nextId <= MAX_TASK_ID
       THEN /\ id' = [id EXCEPT ![t] = nextId]
            /\ stack' = [stack EXCEPT ![t] = <<Std, Isf("task", ifl)>>]
            /\ sp' = [sp EXCEPT ![t] = t]
            /\ Push(t)
            /\ UNCHANGED <<pc, ifl>>
       ELSE /\ pc' = "panic" /\ ifl' = FALSE
            /\ UNCHANGED <<id, stack, sp, queue, pushAt>>
  /\ UNCHANGED <<rsp, ptrs, flagged, popAt, lapic, locks>>

(* jump_to_scheduler masks interrupts and takes the scheduler's stack;       *)
(* start_scheduler stops the timer, installs scheduler_preempt, sets both    *)
(* pointers to the scheduler and unmasks.                                    *)
start_scheduler ==
  /\ pc = "boot"
  /\ pc' = "run" /\ ifl' = TRUE /\ rsp' = Sched
  /\ timer' = "off"
  /\ cur' = Sched /\ stale' = Sched
  /\ UNCHANGED <<stack, next, kind, released, infos, ids, irr, isr, locks>>

-----------------------------------------------------------------------------
(* The timer and its interrupt. *)

(* The count reaches zero: the vector is requested.  With a slice that       *)
(* outlasts the switch this cannot happen before the task's own code runs.   *)
TimerExpires ==
  /\ timer = "armed"
  /\ \/ pc \notin SwitchInPCs
     \/ ~SliceOutlastsSwitch /\ Len(stack[rsp]) < MaxDepth
  /\ timer' = "off" /\ irr' = TRUE
  /\ UNCHANGED <<cpu, ptrs, infos, ids, isr, locks>>

(* The CPU takes the vector through a trap gate: IF stays set. *)
TimerInterrupt ==
  /\ Deliverable
  /\ irr' = FALSE /\ isr' = TRUE
  /\ stack' = [stack EXCEPT ![rsp] = <<Isf(pc, ifl)>> \o @]
  /\ pc' = "preempt"
  /\ UNCHANGED <<ifl, rsp, ptrs, infos, ids, timer, locks>>

(* scheduler_preempt, when the current task is not the scheduler: save every *)
(* register and leave for the scheduler's stack.                             *)
preempt_task ==
  /\ pc = "preempt" /\ id[cur] # SchedId
  /\ stack' = [stack EXCEPT ![rsp] = <<Std, Gp(ifl)>> \o @]
  /\ kind' = "Preempted" /\ released' = rsp
  /\ rsp' = Sched /\ pc' = "jump_out"
  /\ UNCHANGED <<ifl, cur, stale, next, infos, ids, lapic, locks>>

(* scheduler_preempt, label 2: the scheduler itself was interrupted; the     *)
(* tick is acknowledged and dropped.                                         *)
preempt_scheduler ==
  /\ pc = "preempt" /\ id[cur] = SchedId
  /\ pc' = Head(stack[rsp]).rip /\ ifl' = Head(stack[rsp]).ifl
  /\ stack' = [stack EXCEPT ![rsp] = Tail(@)]
  /\ isr' = FALSE
  /\ UNCHANGED <<rsp, ptrs, infos, ids, timer, irr, locks>>

(* Variant with a bug: the tick is never acknowledged. *)
jump_out_without_eoi ==
  /\ pc = "jump_out" /\ ~Deliverable
  /\ pc' = "rs" /\ ifl' = FALSE
  /\ cur' = Sched
  /\ UNCHANGED <<rsp, stack, stale, next, kind, released, infos, ids, lapic, locks>>

scheduler_jump_out ==
  /\ pc = "jump_out" /\ ~Deliverable
  /\ pc' = "rs" /\ ifl' = FALSE
  /\ cur' = Sched
  /\ isr' = FALSE
  /\ UNCHANGED <<rsp, stack, stale, next, kind, released, infos, ids, timer, irr,
                 locks>>

-----------------------------------------------------------------------------
(* The scheduler's own code. *)

(* resume_scheduler up to and including interrupts::enable(). *)
resume_scheduler_enter ==
  /\ pc = "rs"
  /\ timer' = "off"
  /\ ifl' = TRUE /\ pc' = "requeue"
  /\ UNCHANGED <<rsp, stack, ptrs, infos, ids, irr, isr, locks>>

(* Variant with a bug: a task that yielded is not requeued. *)
requeue_preempted_only ==
  /\ pc = "requeue" /\ ~Deliverable
  /\ flagged' = IF kind = "Preempted" THEN flagged \cup {stale} ELSE flagged
  /\ IF kind = "Preempted" THEN Push(stale) ELSE UNCHANGED <<queue, pushAt>>
  /\ sp' = [sp EXCEPT ![stale] = released]
  /\ pc' = "run"
  /\ UNCHANGED <<ifl, rsp, stack, ptrs, popAt, ids, lapic, locks>>

(* Variant with a bug: the stack is saved in the TaskInfo at the head. *)
requeue_wrong_info ==
  /\ pc = "requeue" /\ ~Deliverable
  /\ flagged' = IF kind = "Preempted" THEN flagged \cup {stale} ELSE flagged
  /\ Push(stale)
  /\ sp' = [sp EXCEPT ![Head(Append(queue, stale))] = released]
  /\ pc' = "run"
  /\ UNCHANGED <<ifl, rsp, stack, ptrs, popAt, ids, lapic, locks>>

(* The rest of resume_scheduler.  Its prints spin on the serial lock, its    *)
(* push on the heap lock when it starts a new block.                         *)
resume_scheduler_requeue ==
  /\ pc = "requeue" /\ ~Deliverable
  /\ holder["serial"] = None
  /\ UsesHeap(pushAt) => holder["heap"] = None
  /\ flagged' = IF kind = "Preempted" THEN flagged \cup {stale} ELSE flagged
  /\ Push(stale)
  /\ sp' = [sp EXCEPT ![stale] = released]
  /\ pc' = "run"
  /\ UNCHANGED <<ifl, rsp, stack, ptrs, popAt, ids, lapic, locks>>

run_scheduler_pop ==
  /\ pc = "run" /\ ~Deliverable
  /\ holder["serial"] = None
  /\ queue # <<>>
  /\ UsesHeap(popAt) => holder["heap"] = None
  /\ next' = Head(queue) /\ Pop
  /\ pc' = "arm"
  /\ UNCHANGED <<ifl, rsp, stack, cur, stale, kind, released, sp, flagged, pushAt, ids,
                 lapic, locks>>

run_scheduler_idle ==
  /\ pc = "run" /\ ~Deliverable
  /\ holder["serial"] = None
  /\ queue = <<>>
  /\ pc' = "idle"
  /\ UNCHANGED <<ifl, rsp, stack, ptrs, infos, ids, lapic, locks>>

(* Variant with a bug: no slice is armed. *)
trigger_forgotten ==
  /\ pc = "arm" /\ ~Deliverable
  /\ pc' = "switch"
  /\ UNCHANGED <<ifl, rsp, stack, ptrs, infos, ids, lapic, locks>>

(* trigger_local_us(1_000_000): the timer is masked while the count is         *)
(* written, and a count that runs out before it is unmasked is lost.  (Its     *)
(* assertion and the product that may overflow are in sleep_local_us too:      *)
(* kmain's sleep of three seconds would have panicked, see BootTimer.)         *)
trigger_local_us ==
  /\ pc = "arm" /\ ~Deliverable
  /\ timer' = "armed" \/ (~SliceOutlastsSwitch /\ timer' = "off")
  /\ pc' = "switch"
  /\ UNCHANGED <<ifl, rsp, stack, ptrs, infos, ids, irr, isr, locks>>

(* resume_task up to its sti: with interrupts masked, take the stack of the   *)
(* task and make it current.                                                  *)
resume_task ==
  /\ pc = "switch" /\ ~Deliverable
  /\ rsp' = sp[next] /\ cur' = next /\ stale' = next
  /\ ifl' = TRUE /\ pc' = "pop_std"
  /\ UNCHANGED <<stack, next, kind, released, infos, ids, lapic, locks>>

(* Taking a frame of kind k off the current stack.  When other words lie      *)
(* there the task is resumed with garbage; the fault handlers never return,   *)
(* and enter through trap gates or (invalid opcode) an interrupt gate.        *)
PopFrame(k, p, f) ==
  IF stack[rsp] # <<>> /\ Head(stack[rsp]).kind = k
    THEN pc' = p /\ ifl' = f /\ stack' = [stack EXCEPT ![rsp] = Tail(@)]
    ELSE pc' = "fault" /\ ifl' \in {ifl, FALSE} /\ UNCHANGED stack

resume_pop_standard ==
  /\ pc = "pop_std" /\ ~Deliverable
  /\ PopFrame("std", "btr", ifl)
  /\ UNCHANGED <<rsp, ptrs, infos, ids, lapic, locks>>

(* Variant with a bug: bt in place of btr. *)
resume_test_keeps_flag ==
  /\ pc = "btr" /\ ~Deliverable
  /\ pc' = IF cur \in flagged THEN "pop_gp" ELSE "iret"
  /\ UNCHANGED <<ifl, rsp, stack, ptrs, infos, ids, lapic, locks>>

(* btr tests and clears INTERRUPTED in the TaskInfo that rdi points to. *)
resume_test_interrupted ==
  /\ pc = "btr" /\ ~Deliverable
  /\ pc' = IF cur \in flagged THEN "pop_gp" ELSE "iret"
  /\ flagged' = flagged \ {cur}
  /\ UNCHANGED <<ifl, rsp, stack, ptrs, sp, queue, pushAt, popAt, ids, lapic, locks>>

(* The last of these pops is popfq. *)
resume_pop_gp ==
  /\ pc = "pop_gp" /\ ~Deliverable
  /\ PopFrame("gp", "iret", Head(stack[rsp]).ifl)
  /\ UNCHANGED <<rsp, ptrs, infos, ids, lapic, locks>>

resume_iretq ==
  /\ pc = "iret" /\ ~Deliverable
  /\ PopFrame("isf", Head(stack[rsp]).rip, Head(stack[rsp]).ifl)
  /\ UNCHANGED <<rsp, ptrs, infos, ids, lapic, locks>>

-----------------------------------------------------------------------------
(* What a task does between being resumed and giving up the CPU. *)

(* Variant with a bug: CURRENT_TASK_PTR is left on the task. *)
yield_keeps_current(t) ==
  /\ pc = "task" /\ rsp = t /\ ~Deliverable
  /\ stack' = [stack EXCEPT ![t] = <<Std, Isf("task", FALSE)>> \o @]
  /\ kind' = "Yielded" /\ released' = t
  /\ rsp' = Sched
  /\ ifl' = FALSE /\ pc' = "rs"
  /\ UNCHANGED <<cur, stale, next, infos, ids, lapic, locks>>

(* yield_task: release_task(Yielded) masks interrupts first, and then saves   *)
(* the flags; it leaves through the scheduler_jump_out that sends no EOI.     *)
yield_task(t) ==
  /\ pc = "task" /\ rsp = t /\ ~Deliverable
  /\ stack' = [stack EXCEPT ![t] = <<Std, Isf("task", FALSE)>> \o @]
  /\ kind' = "Yielded" /\ released' = t
  /\ rsp' = Sched /\ cur' = Sched
  /\ ifl' = FALSE /\ pc' = "rs"
  /\ UNCHANGED <<stale, next, infos, ids, lapic, locks>>

(* Variant with a bug: the serial lock is taken with interrupts enabled. *)
print_unmasked ==
  /\ pc = "task" /\ ~Deliverable
  /\ holder["serial"] = None
  /\ holder' = [holder EXCEPT !["serial"] = rsp]
  /\ pc' = "print"
  /\ UNCHANGED <<ifl, rsp, stack, ptrs, infos, ids, lapic, reenable>>

(* serial_println: mask, lock, write. *)
print_begin ==
  /\ pc = "task" /\ ~Deliverable
  /\ holder["serial"] = None
  /\ reenable' = ifl /\ ifl' = FALSE
  /\ holder' = [holder EXCEPT !["serial"] = rsp]
  /\ pc' = "print"
  /\ UNCHANGED <<rsp, stack, ptrs, infos, ids, lapic>>

(* Variant with a bug: interrupts stay masked after a print. *)
print_end_masked ==
  /\ pc = "print" /\ ~Deliverable
  /\ holder' = [holder EXCEPT !["serial"] = None]
  /\ pc' = "task"
  /\ UNCHANGED <<ifl, rsp, stack, ptrs, infos, ids, lapic, reenable>>

(* The guard is dropped; interrupts come back if they were enabled. *)
print_end ==
  /\ pc = "print" /\ ~Deliverable
  /\ ifl' = (ifl \/ reenable)
  /\ holder' = [holder EXCEPT !["serial"] = None]
  /\ pc' = "task"
  /\ UNCHANGED <<rsp, stack, ptrs, infos, ids, lapic, reenable>>

(* GlobalAlloc::alloc and dealloc hold the heap's spin lock with IF unchanged. *)
alloc_begin(t) ==
  /\ pc = "task" /\ rsp = t /\ ~Deliverable
  /\ holder["heap"] = None
  /\ holder' = [holder EXCEPT !["heap"] = t]
  /\ pc' = "alloc"
  /\ UNCHANGED <<ifl, rsp, stack, ptrs, infos, ids, lapic, reenable>>

alloc_end ==
  /\ pc = "alloc" /\ ~Deliverable
  /\ holder' = [holder EXCEPT !["heap"] = None]
  /\ pc' = "task"
  /\ UNCHANGED <<ifl, rsp, stack, ptrs, infos, ids, lapic, reenable>>

(* The function returns into end_task, and finish_stale_task panics. *)
end_task(t) ==
  /\ pc = "task" /\ rsp = t /\ ~Deliverable
  /\ cur' = Sched
  /\ ifl' = FALSE /\ pc' = "panic"
  /\ UNCHANGED <<rsp, stack, stale, next, kind, released, infos, ids, lapic, locks>>

(* The endless hlt loops of the panic and fault handlers and of run_scheduler. *)
hlt_loop ==
  /\ pc \in {"panic", "fault", "idle"}
  /\ UNCHANGED vars

-----------------------------------------------------------------------------
SwitchStep ==
  \/ preempt_task \/ preempt_scheduler \/ scheduler_jump_out
  \/ resume_scheduler_enter \/ resume_scheduler_requeue
  \/ run_scheduler_pop \/ run_scheduler_idle \/ trigger_local_us
  \/ resume_task \/ resume_pop_standard \/ resume_test_interrupted
  \/ resume_pop_gp \/ resume_iretq

Next ==
  \/ \E t \in Tasks : spawn_task(t)
  \/ start_scheduler
  \/ TimerExpires \/ TimerInterrupt
  \/ SwitchStep
  \/ \E t \in Yielding : yield_task(t)
  \/ print_begin \/ print_end
  \/ \E t \in Allocating : alloc_begin(t)
  \/ alloc_end
  \/ \E t \in Returning : end_task(t)
  \/ hlt_loop

Spec == Init /\ [][Next]_vars

(* The CPU keeps executing, an armed timer keeps counting, kmain reaches      *)
(* jump_to_scheduler, a critical section is left, and the loop of a           *)
(* cooperative task always comes round to its yield_task.                     *)
Fairness ==
  /\ WF_vars(start_scheduler)
  /\ WF_vars(TimerExpires) /\ WF_vars(TimerInterrupt)
  /\ WF_vars(SwitchStep)
  /\ WF_vars(print_end) /\ WF_vars(alloc_end)
  /\ \A t \in Cooperative : SF_vars(yield_task(t))

FairSpec == Spec /\ Fairness

-----------------------------------------------------------------------------
(* Properties *)

CpuType   == /\ pc \in PCs /\ ifl \in BOOLEAN /\ rsp \in Procs
             /\ stack \in [Procs -> Seq(Frames)]
PtrType   == /\ cur \in Procs \cup {None} /\ stale \in Procs \cup {None}
             /\ next \in Tasks \cup {None} /\ released \in Tasks \cup {None}
             /\ kind \in {"Yielded", "Preempted"}
InfoType  == /\ sp \in [Tasks -> Tasks \cup {None}]
             /\ flagged \subseteq Tasks /\ queue \in Seq(Tasks)
             /\ pushAt \in 0..BlockCap - 1 /\ popAt \in 0..BlockCap - 1
IdType    == id \in [Procs -> 0..SchedId] /\ nextId \in Nat
LapicType == timer \in {"off", "armed"} /\ irr \in BOOLEAN /\ isr \in BOOLEAN
LockType  == /\ holder \in [{"serial", "heap"} -> Tasks \cup {None}]
             /\ reenable \in BOOLEAN

TypeOK == CpuType /\ PtrType /\ InfoType /\ IdType /\ LapicType /\ LockType

Queued == Range(queue)

(* Where the interrupted code was while scheduler_preempt runs. *)
At == IF pc = "preempt" THEN Head(stack[rsp]).rip ELSE pc

(* The task that left the queue and has not been put back: it is being        *)
(* switched to, runs, or is being switched away from.                         *)
Owner ==
  IF At \in {"arm", "switch"} THEN next
  ELSE IF At \in ResumePCs \cup CodePCs \cup {"jump_out", "rs", "requeue", "fault"} THEN stale
  ELSE None

(* Every spawned task is in exactly one place: either it owns the CPU or it   *)
(* is in task_queue, once.  No preemption, yield or dropped tick loses a task *)
(* or queues it twice (resume_scheduler requeues STALE_TASK_PTR).             *)
EachTaskOnce ==
  /\ IsInjective(queue)
  /\ Owner \notin Queued
  /\ pc # "panic" => {t \in Tasks : id[t] # 0} = (Queued \cup {Owner}) \ {None}

(* scheduler.rs:249-252: CURRENT_TASK_PTR tells scheduler_preempt whose stack *)
(* it interrupted, at every point where the timer interrupt can be taken.     *)
CurrentAccurate == Deliverable \/ pc = "preempt" => cur = rsp

(* When a slice is armed no earlier tick is pending or in service: a tick     *)
(* left pending by a task that released the CPU with interrupts masked is     *)
(* dropped in the scheduler (sti in resume_scheduler) and never ends the      *)
(* slice of the next task.                                                    *)
FreshSlice == timer = "armed" => ~irr /\ ~isr

(* The saved stack pointer of every spawned task points into its own stack:   *)
(* STALE_TASK_PTR names the task whose stack resume_scheduler was handed.     *)
SavedStackIsOwn == \A t \in Tasks : id[t] # 0 => sp[t] = t

(* scheduler.rs:223 and 460-461: INTERRUPTED tells resume_task whether the    *)
(* general registers are on the stack of the task it resumes, and its iretq   *)
(* finds an interrupt frame.                                                  *)
FlagMatchesFrame ==
  /\ pc = "btr" => (cur \in flagged <=> Head(stack[rsp]).kind = "gp")
  /\ pc = "iret" => stack[rsp] # <<>> /\ Head(stack[rsp]).kind = "isf"
  /\ \A t \in Queued : Head(stack[t]).kind = "std"

(* While a task's code runs its slice is still counting or its tick is        *)
(* already requested, so run_scheduler never dispatches a task nothing will   *)
(* take the CPU back from.                                                    *)
RunningIsSliced == pc \in CodePCs => timer = "armed" \/ irr

(* No task is suspended while it holds a lock the scheduler is about to spin  *)
(* on: the serial lock of its prints (serial.rs:24-33), the heap lock of a    *)
(* queue operation at a block boundary.                                       *)
SchedulerNeverSpins ==
  /\ rsp = Sched => holder["serial"] = None
  /\ pc = "requeue" /\ UsesHeap(pushAt) => holder["heap"] = None
  /\ pc = "run" /\ UsesHeap(popAt) => holder["heap"] = None

(* spawn_task's assertion on MAX_TASK_ID keeps task ids distinct, also from   *)
(* TASKID_SCHEDULER, the id that scheduler_preempt compares with.             *)
TaskIdsDistinct == \A p, q \in Procs : id[p] = id[q] /\ id[p] # 0 => p = q

(* release_task masks interrupts for the transfer to the scheduler only       *)
(* (scheduler.rs:397): a task's code runs with interrupts enabled.            *)
TaskInterruptible == pc = "task" => ifl

(* Round robin: a task in the queue gets the CPU and reaches its own code.    *)
EveryTaskRuns == \A t \in Tasks : t \in Queued ~> (pc = "task" /\ rsp = t)

(* The detailed switch implements the round-robin queue.                      *)
RR == INSTANCE RoundRobin WITH ready <- queue, running <- Owner
ImplementsRoundRobin == RR!Spec

=============================================================================

---------------------------- MODULE SwitchFrames ----------------------------
(***************************************************************************)
(* What a context switch of src/src/scheduler.rs does to the registers.    *)
(* Scheduler has the interleavings that decide who runs next; here every   *)
(* register and every word of a saved frame has a value, and interrupts    *)
(* arrive between any two instructions that pop one.  A word is            *)
(* <<owner, what, n>>: n tells apart what a task computed at two times.    *)
(* A slice does not end within the switch (the assumption                  *)
(* SliceOutlastsSwitch of Scheduler).                                      *)
(***************************************************************************)
EXTENDS Integers, Sequences, FiniteSets

CONSTANTS
  Tasks, Yielding,  \* tasks, and those that call yield_task
  Sched,            \* the scheduler
  Places            \* where the build may keep an argument of resume_scheduler
                    \* while interrupts are enabled

CallerSaved == {"rax", "rcx", "rdx", "rsi", "rdi", "r8", "r9", "r10", "r11"}
CalleeSaved == {"rbx", "rbp", "r12", "r13", "r14", "r15"}
Registers   == CallerSaved \cup CalleeSaved \cup {"rflags"}
Slots       == {"slot0", "slot1"}  \* of resume_scheduler, on its stack

(* scheduler_preempt overwrites these before it looks at them. *)
Scratch == {"r14", "r15"}

ASSUME SwitchAssumption ==
  /\ IsFiniteSet(Tasks) /\ Yielding \subseteq Tasks /\ Sched \notin Tasks
  /\ Places \subseteq CallerSaved \cup CalleeSaved \cup Slots
  /\ \E p, q \in Places : p # q

(* A build that keeps the arguments neither where int3's handler, compiled    *)
(* code, may put something else nor where scheduler_preempt does.             *)
OutOfReach == Places \subseteq (CalleeSaved \ Scratch) \cup Slots

VARIABLES
  pc,     \* the code that runs
  cur,    \* whose code it is, and whose stack it uses
  stale,  \* STALE_TASK_PTR
  ifl,    \* RFLAGS.IF
  regs,   \* registers, and the locals of resume_scheduler
  mem,    \* the stacks, each up to its stack pointer
  sp,     \* TaskInfo::sp of each task
  flagged,\* tasks whose INTERRUPTED flag is set
  queue,  \* task_queue
  args,   \* where resume_scheduler keeps its arguments
  todo,   \* registers resume_task has yet to pop, and the test of the flag
  armed, tick, \* the slice counts; its interrupt is requested
  gen, relies, hit  \* history of a task: when it computed last, the registers
                    \* it may expect that of, whether it was preempted since

vars == <<pc, cur, stale, ifl, regs, mem, sp, flagged, queue, args, todo, armed, tick,
          gen, relies, hit>>

Word(owner, what, n) == <<owner, what, n>>
Junk         == Word(Sched, "any", 0)
EndTask      == Word(Sched, "end_task", 0)
SpOf(t, n)   == Word(t, "sp", n)
Kind(k)      == Word(Sched, k, 0)
IfWord(b)    == Word(Sched, "if", IF b THEN 1 ELSE 0)
Rip(p)       == Word(p, "rip", 0)
Own(t, r)    == Word(t, r, gen[t])

(* The frame iretq consumes: stack pointer, flags with IF, return address. *)
Isf(t, depth, flags, b) == <<SpOf(t, depth), flags, IfWord(b), Rip(t)>>

Push(stack, list, r) == stack \o [i \in 1..Len(list) |-> r[list[i]]]

(* Registers after popping a list off a stack, first its last word. *)
Pop(stack, list, r) ==
  [x \in DOMAIN r |->
     IF \E i \in 1..Len(list) : list[i] = x
     THEN stack[Len(stack) + 1 - CHOOSE i \in 1..Len(list) : list[i] = x]
     ELSE r[x]]

Without(stack, n) == SubSeq(stack, 1, Len(stack) - n)
Top(stack) == IF stack = <<>> THEN Junk ELSE stack[Len(stack)]

(* What iretq loads from the four words on top. *)
IretSp(stack)    == stack[Len(stack) - 3][3]
IretFlags(stack) == stack[Len(stack) - 2]
IretIf(stack)    == stack[Len(stack) - 1] = IfWord(TRUE)

(* The frames, in the order of the pushes and of the pops. *)
GpPushes  == <<"rflags", "rax", "rcx", "rdx", "rsi", "rdi", "r8", "r9", "r10", "r11">>
StdPushes == <<"rbx", "rbp", "r12", "r13", "r14", "r15">>
StdPops   == <<"r15", "r14", "r13", "r12", "rbp", "rbx">>

(* Variant with a bug: two pops swapped. *)
GpPopsSwapped == <<"r11", "r10", "r9", "r8", "rsi", "rdi", "rdx", "rcx", "rax", "rflags">>
GpPops == <<"r11", "r10", "r9", "r8", "rdi", "rsi", "rdx", "rcx", "rax", "rflags">>

InScheduler == {"int3", "requeue", "dispatch"}

(* An instruction of the program runs when no tick is taken first. *)
At(label) == pc = label /\ ~(tick /\ ifl)

history == <<gen, relies, hit>>

Init ==
  /\ pc = "dispatch" /\ cur = Sched /\ stale = Sched /\ ifl = TRUE
  /\ regs = [r \in Registers \cup Slots |-> Junk]
  \* spawn_task: where the task's function returns to, the frame that enters
  \* it, and zeros
  /\ mem = [p \in Tasks \cup {Sched} |->
              IF p = Sched THEN <<>>
              ELSE <<EndTask>> \o Isf(p, 1, Junk, TRUE) \o [i \in 1..6 |-> Junk]]
  /\ sp = [t \in Tasks |-> SpOf(t, 11)]
  /\ flagged = {}
  /\ queue \in {q \in [1..Cardinality(Tasks) -> Tasks] : \A i, j \in DOMAIN q : q[i] = q[j] => i = j}
  /\ args = [stack |-> "slot0", kind |-> "slot1"] /\ todo = <<>>
  /\ armed = FALSE /\ tick = FALSE
  /\ gen = [t \in Tasks |-> 0] /\ relies = [t \in Tasks |-> {}] /\ hit = [t \in Tasks |-> FALSE]

-----------------------------------------------------------------------------
(* The code of a task: anything it does to its registers, *)
TaskComputes ==
  /\ At("task")
  /\ gen' = [gen EXCEPT ![cur] = 1 - @]
  /\ regs' = [r \in DOMAIN regs |-> IF r \in Registers THEN Word(cur, r, gen'[cur]) ELSE regs[r]]
  /\ relies' = [relies EXCEPT ![cur] = Registers]
  /\ hit' = [hit EXCEPT ![cur] = FALSE]
  /\ UNCHANGED <<pc, cur, stale, ifl, mem, sp, flagged, queue, args, todo, armed, tick>>

(* Variant with a bug: the stack pointer is read after the first push. *)
yield_task_late_sp ==
  LET isf   == Isf(cur, Len(mem[cur]) + 1, regs["rflags"], FALSE)
      saved == Push(mem[cur] \o isf, StdPushes, regs)
  IN  /\ At("task") /\ cur \in Yielding
      /\ mem' = [mem EXCEPT ![cur] = saved]
      /\ regs' = [regs EXCEPT !["rdi"] = SpOf(cur, Len(saved)), !["rsi"] = Kind("yielded"),
                             !["rax"] = Junk, !["rflags"] = Junk]
      /\ relies' = [relies EXCEPT ![cur] = @ \cap CalleeSaved]
      /\ pc' = "enter" /\ cur' = Sched /\ ifl' = FALSE
      /\ UNCHANGED <<stale, sp, flagged, queue, args, todo, armed, tick, gen, hit>>

(* and yield_task: release_task masks interrupts, pushes the frame to return  *)
(* by, the callee-saved registers and goes to the scheduler.  It is declared  *)
(* to clobber the others.                                                     *)
yield_task ==
  LET isf   == Isf(cur, Len(mem[cur]), regs["rflags"], FALSE)
      saved == Push(mem[cur] \o isf, StdPushes, regs)
  IN  /\ At("task") /\ cur \in Yielding
      /\ mem' = [mem EXCEPT ![cur] = saved]
      /\ regs' = [regs EXCEPT !["rdi"] = SpOf(cur, Len(saved)), !["rsi"] = Kind("yielded"),
                             !["rax"] = Junk, !["rflags"] = Junk]
      /\ relies' = [relies EXCEPT ![cur] = @ \cap CalleeSaved]
      /\ pc' = "enter" /\ cur' = Sched /\ ifl' = FALSE
      /\ UNCHANGED <<stale, sp, flagged, queue, args, todo, armed, tick, gen, hit>>

-----------------------------------------------------------------------------
(* The interrupts. *)

SliceEnds ==
  /\ pc = "task" /\ armed
  /\ armed' = FALSE /\ tick' = TRUE
  /\ UNCHANGED <<pc, cur, stale, ifl, regs, mem, sp, flagged, queue, args, todo, history>>

(* scheduler_preempt, in a task: the compare has used r14 and r15 by the time *)
(* they are pushed.  Its gate leaves interrupts enabled, but of the two       *)
(* sources the timer is in service, and the PIT's handler puts back all that  *)
(* it uses, wherever it is taken.  scheduler_jump_out follows, masked.        *)
preempt_task ==
  LET isf   == Isf(cur, Len(mem[cur]), regs["rflags"], ifl)
      r     == [regs EXCEPT !["r14"] = Junk, !["r15"] = Junk]
      saved == Push(Push(mem[cur] \o isf, GpPushes, r), StdPushes, r)
  IN  /\ tick /\ ifl /\ pc = "task"
      /\ mem' = [mem EXCEPT ![cur] = saved]
      /\ regs' = [r EXCEPT !["rdi"] = SpOf(cur, Len(saved)), !["rsi"] = Kind("preempted"),
                          !["rax"] = Junk, !["rflags"] = Junk]
      /\ hit' = [hit EXCEPT ![cur] = TRUE]
      /\ pc' = "enter" /\ cur' = Sched /\ ifl' = FALSE /\ tick' = FALSE
      /\ UNCHANGED <<stale, sp, flagged, queue, args, todo, armed, gen, relies>>

(* Variant with a bug: compares with rbx in place of r14. *)
preempt_scheduler_rbx ==
  /\ tick /\ ifl /\ pc \in InScheduler
  /\ regs' = [regs EXCEPT !["rbx"] = Junk, !["r15"] = Junk, !["rax"] = Junk]
  /\ tick' = FALSE
  /\ UNCHANGED <<pc, cur, stale, ifl, mem, sp, flagged, queue, args, todo, armed, history>>

(* In the scheduler: the tick is dropped, and rax is lost as well.            *)
preempt_scheduler ==
  LET isf   == Isf(Sched, Len(mem[Sched]), regs["rflags"], ifl)
      stack == Push(mem[Sched] \o isf, <<"rflags", "rax", "rcx">>, regs)
      r     == Pop(stack, <<"rcx", "rax", "rflags">>,
                   [regs EXCEPT !["r14"] = Junk, !["r15"] = Junk])
      left  == Without(stack, 3)
  IN  /\ tick /\ ifl /\ pc \in InScheduler
      /\ regs' = [r EXCEPT !["rax"] = Junk, !["rflags"] = IretFlags(left)]
      /\ ifl' = IretIf(left)
      /\ mem' = [mem EXCEPT ![Sched] = SubSeq(left, 1, IretSp(left))]
      /\ tick' = FALSE
      /\ UNCHANGED <<pc, cur, stale, sp, flagged, queue, args, todo, armed, history>>

(* pit_interrupt, wherever interrupts are enabled: disable_pit leaves the PIT *)
(* on.                                                                        *)
pit_interrupt ==
  LET isf   == Isf(cur, Len(mem[cur]), regs["rflags"], ifl)
      stack == Push(mem[cur] \o isf, <<"rax", "rbx", "rflags">>, regs)
      r     == Pop(stack, <<"rflags", "rbx", "rax">>,
                   [regs EXCEPT !["rax"] = Junk, !["rbx"] = Junk, !["rflags"] = Junk])
      left  == Without(stack, 3)
  IN  /\ ifl /\ pc \in InScheduler \cup {"task", "restore"}
      /\ regs' = [r EXCEPT !["rflags"] = IretFlags(left)]
      /\ ifl' = IretIf(left)
      /\ mem' = [mem EXCEPT ![cur] = SubSeq(left, 1, IretSp(left))]
      /\ UNCHANGED <<pc, cur, stale, sp, flagged, queue, args, todo, armed, tick, history>>

-----------------------------------------------------------------------------
(* The scheduler. *)

(* resume_scheduler: compiled code, so only its arguments are of interest.    *)
resume_scheduler_enter ==
  /\ At("enter")
  /\ \E p, q \in Places :
       /\ p # q
       /\ args' = [stack |-> p, kind |-> q]
       /\ regs' = [r \in DOMAIN regs |-> IF r = p THEN regs["rdi"]
                                        ELSE IF r = q THEN regs["rsi"] ELSE Junk]
  /\ armed' = FALSE                         \* halt_timer
  /\ ifl' = TRUE /\ pc' = "int3"
  /\ UNCHANGED <<cur, stale, mem, sp, flagged, queue, todo, tick, history>>

(* int3: the wrapper of breakpoint_handler saves nothing, so what compiled    *)
(* code may clobber is gone.                                                  *)
breakpoint ==
  /\ At("int3")
  /\ regs' = [r \in DOMAIN regs |-> IF r \in CallerSaved THEN Junk ELSE regs[r]]
  /\ pc' = "requeue"
  /\ UNCHANGED <<cur, stale, ifl, mem, sp, flagged, queue, args, todo, armed, tick, history>>

resume_scheduler_requeue ==
  LET kind == regs[args.kind]
  IN  /\ At("requeue")
      /\ flagged' = IF kind = Kind("preempted") THEN flagged \cup {stale} ELSE flagged
      /\ queue' = IF kind \in {Kind("preempted"), Kind("yielded")}
                  THEN Append(queue, stale) ELSE queue
      /\ sp' = [sp EXCEPT ![stale] = regs[args.stack]]
      /\ regs' = [r \in DOMAIN regs |-> Junk]
      /\ pc' = "dispatch"
      /\ UNCHANGED <<cur, stale, ifl, mem, args, todo, armed, tick, history>>

(* run_scheduler pops a task and arms its slice; resume_task switches to its  *)
(* stack, of which it holds the TaskInfo in rdi.                              *)
run_scheduler ==
  LET t == Head(queue)
  IN  /\ At("dispatch") /\ queue # <<>>
      /\ queue' = Tail(queue)
      /\ armed' = TRUE
      /\ mem' = [mem EXCEPT ![t] = SubSeq(@, 1, sp[t][3])]
      /\ regs' = [r \in DOMAIN regs |-> IF r = "rdi" THEN Word(t, "info", 0) ELSE Junk]
      /\ cur' = t /\ stale' = t
      /\ todo' = StdPops \o <<"btr">>
      /\ pc' = "restore"
      /\ UNCHANGED <<ifl, sp, flagged, args, tick, history>>

(* resume_task: one pop at a time (the flags were pushed behind a trap gate,  *)
(* with IF set, so popfq leaves interrupts enabled), *)
resume_pop ==
  /\ At("restore") /\ todo # <<>> /\ Head(todo) # "btr"
  /\ regs' = [regs EXCEPT ![Head(todo)] = Top(mem[cur])]
  /\ mem' = [mem EXCEPT ![cur] = Without(@, 1)]
  /\ todo' = Tail(todo)
  /\ UNCHANGED <<pc, cur, stale, ifl, sp, flagged, queue, args, armed, tick, history>>

(* Variant with a bug: the flag is tested and not reset. *)
resume_test_keeps ==
  LET t == regs["rdi"][1]
  IN  /\ At("restore") /\ todo = <<"btr">>
      /\ todo' = IF t \in flagged THEN GpPops ELSE <<>>
      /\ regs' = [regs EXCEPT !["rflags"] = Junk]
      /\ UNCHANGED <<pc, cur, stale, ifl, mem, sp, flagged, queue, args, armed, tick, history>>

(* test and reset the flag of the TaskInfo that rdi points to, *)
resume_test_interrupted ==
  LET t == regs["rdi"][1]
  IN  /\ At("restore") /\ todo = <<"btr">>
      /\ todo' = IF t \in flagged THEN GpPops ELSE <<>>
      /\ flagged' = flagged \ {t}
      /\ regs' = [regs EXCEPT !["rflags"] = Junk]
      /\ UNCHANGED <<pc, cur, stale, ifl, mem, sp, queue, args, armed, tick, history>>

(* and iretq.  Without a frame on top of the stack it goes astray. *)
resume_iretq ==
  LET stack == mem[cur]
      found == Len(stack) >= 4 /\ Top(stack) = Rip(cur)
  IN  /\ At("restore") /\ todo = <<>>
      /\ pc' = IF found THEN "task" ELSE "astray"
      /\ IF found
           THEN /\ regs' = [regs EXCEPT !["rflags"] = IretFlags(stack)]
                /\ ifl' = IretIf(stack)
                /\ mem' = [mem EXCEPT ![cur] = SubSeq(@, 1, IretSp(stack))]
           ELSE UNCHANGED <<regs, ifl, mem>>
      /\ UNCHANGED <<cur, stale, sp, flagged, queue, args, todo, armed, tick, history>>

Next ==
  \/ TaskComputes \/ yield_task
  \/ SliceEnds \/ preempt_task \/ preempt_scheduler \/ pit_interrupt
  \/ resume_scheduler_enter \/ breakpoint \/ resume_scheduler_requeue
  \/ run_scheduler \/ resume_pop \/ resume_test_interrupted \/ resume_iretq

Spec == Init /\ [][Next]_vars

-----------------------------------------------------------------------------
(* Properties *)

(* The values the state may have. *)
TypeOK ==
  /\ pc \in InScheduler \cup {"task", "enter", "restore", "astray"}
  /\ cur \in Tasks \cup {Sched} /\ stale \in Tasks \cup {Sched}
  /\ ifl \in BOOLEAN /\ armed \in BOOLEAN /\ tick \in BOOLEAN
  /\ DOMAIN regs = Registers \cup Slots /\ DOMAIN mem = Tasks \cup {Sched}
  /\ DOMAIN sp = Tasks /\ flagged \subseteq Tasks
  /\ queue \in Seq(Tasks) /\ Len(queue) <= Cardinality(Tasks)
  /\ args \in [stack: Places \cup Slots, kind: Places \cup Slots]
  /\ gen \in [Tasks -> {0, 1}] /\ relies \in [Tasks -> SUBSET Registers]
  /\ hit \in [Tasks -> BOOLEAN]

(* scheduler.rs:266, 276: whenever a task's own code runs, the registers it   *)
(* may rely on hold what it last put there, through preemptions, yields and   *)
(* interrupts in any order, at any pop of resume_task.  The two registers     *)
(* that scheduler_preempt overwrites are excepted in a task it has preempted. *)
RegistersKept ==
  pc = "task" =>
    \A r \in relies[cur] \ (IF hit[cur] THEN Scratch ELSE {}) : regs[r] = Own(cur, r)

(* scheduler.rs:223: the 16 registers and the flags of a preempted task are   *)
(* on its stack, so that it goes on with all of them.                         *)
AllRegistersKept ==
  pc = "task" => \A r \in relies[cur] : regs[r] = Own(cur, r)

(* A task always finds its stack as it left it: the address of end_task on    *)
(* top, and nothing else, where its function would return.                    *)
StackBalanced == pc = "task" => mem[cur] = <<EndTask>>

(* iretq in resume_task always finds the frame of the task it resumes: the    *)
(* INTERRUPTED flag tells how many words lie above it.                        *)
ReturnsToTask == pc # "astray"

(* resume_scheduler still has the stack pointer it was handed, and a reason   *)
(* that agrees with the frame on that stack, when it uses them, although int3 *)
(* and a dropped tick come in between.                                        *)
ArgumentsSurvive ==
  pc \in {"int3", "requeue"} =>
    LET interrupted == Len(mem[stale]) > 5 + Len(StdPushes)
    IN  /\ regs[args.stack] = SpOf(stale, Len(mem[stale]))
        /\ regs[args.kind] = Kind(IF interrupted THEN "preempted" ELSE "yielded")

=============================================================================

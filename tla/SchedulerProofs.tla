--------------------------- MODULE SchedulerProofs ---------------------------
(***************************************************************************)
(* Safety of the context switch for any set of tasks, any number of raw    *)
(* ids and any timing of the slice (both values of SliceOutlastsSwitch);   *)
(* what resume_task pops, and that a running task has a tick to come, for  *)
(* a slice that outlasts the switch.                                       *)
(***************************************************************************)
EXTENDS Scheduler, SequenceTheorems, TLAPS

TaskPCs   == ResumePCs \cup CodePCs \cup {"fault"}
ReturnPCs == TaskPCs \ {"print"}
SchedRips == {"requeue", "run", "arm", "switch", "idle"}

(* Whoever is interrupted is the current task, and the frame the interrupt    *)
(* pushed leads back to code of that side.                                    *)
CpuInv ==
  /\ pc \in TaskPCs => rsp \in Tasks /\ cur = rsp /\ stale = rsp
  /\ pc \in SchedRips \cup {"rs"} => rsp = Sched /\ cur = Sched
  /\ pc \in SchedRips => ifl
  /\ pc = "jump_out" => rsp = Sched /\ isr
  /\ pc = "preempt" =>
       /\ isr /\ cur = rsp /\ stack[rsp] # <<>>
       /\ rsp = Sched => Head(stack[rsp]).rip \in SchedRips /\ Head(stack[rsp]).ifl
       /\ rsp # Sched => Head(stack[rsp]).rip \in TaskPCs /\ stale = rsp
  /\ pc \in {"rs", "panic", "print"} => ~ifl

(* One tick at a time. *)
TickInv ==
  /\ isr => pc \in {"preempt", "jump_out"}
  /\ irr \/ isr \/ pc = "boot" => timer = "off"
  /\ irr => ~isr
  /\ pc = "boot" => ~irr

(* Frames on a task's stack lead back to that task's code or to resume_task,  *)
(* never into the middle of a print, which runs with interrupts masked.       *)
TaskFrames == {f \in Frames : f.rip \in ReturnPCs}
FrameInv   == \A t \in Tasks : stack[t] \in Seq(TaskFrames)

(* What the scheduler holds in registers while it switches. *)
SwitchInv ==
  /\ At \in {"jump_out", "rs", "requeue"} => stale \in Tasks /\ released = stale
  /\ At \in {"arm", "switch"} => next \in Tasks

IdInv ==
  /\ id[Sched] = SchedId
  /\ \A t \in Tasks : id[t] < SchedId /\ id[t] < nextId
  /\ nextId >= FirstId

IInv ==
  /\ TypeOK /\ CpuInv /\ TickInv /\ FrameInv /\ SwitchInv /\ IdInv
  /\ TaskIdsDistinct /\ SavedStackIsOwn /\ EachTaskOnce

(* The serial lock is held by a print only, the heap lock by an allocation.   *)
LockInv ==
  /\ pc # "print" => holder["serial"] = None
  /\ Allocating = {} => holder["heap"] = None

(* A slice that outlasts the switch ends in the task's own code.              *)
SliceInv == SliceOutlastsSwitch =>
  /\ pc \in SwitchInPCs => timer = "armed"
  /\ pc \in CodePCs => timer = "armed" \/ irr
  /\ pc = "preempt" => Head(stack[rsp]).rip \notin SwitchInPCs

(* The frames of a task that gave up the CPU, top first, and what is left of  *)
(* them once resume_task has popped the callee-saved registers; how is the    *)
(* ResumedState it gave the CPU up with.                                      *)
ToCode(f) == f.kind = "isf" /\ f.rip \in CodePCs
SavedAs(s, how) ==
  IF how = "Preempted"
    THEN Len(s) = 3 /\ s[1].kind = "std" /\ s[2].kind = "gp" /\ ToCode(s[3])
    ELSE Len(s) = 2 /\ s[1].kind = "std" /\ ToCode(s[2])
ReturnsBy(s, how) ==
  IF how = "Preempted"
    THEN Len(s) = 2 /\ s[1].kind = "gp" /\ ToCode(s[2])
    ELSE Len(s) = 1 /\ ToCode(s[1])

(* INTERRUPTED, or the ResumedState until resume_scheduler has stored it,     *)
(* says which frames are on the stack of a task; no pop finds another frame.  *)
Flag(t) == IF t \in flagged THEN "Preempted" ELSE "Yielded"
QueuedStacks == \A t \in Queued : SavedAs(stack[t], Flag(t))
OwnerStack ==
  /\ pc # "fault"
  /\ pc = "boot" => flagged = {}
  /\ At \in {"arm", "switch"} => SavedAs(stack[next], Flag(next))
  /\ pc = "pop_std" => SavedAs(stack[rsp], Flag(rsp))
  /\ pc = "btr" => ReturnsBy(stack[rsp], Flag(rsp))
  /\ pc = "pop_gp" => rsp \notin flagged /\ ReturnsBy(stack[rsp], "Preempted")
  /\ pc = "iret" => rsp \notin flagged /\ ReturnsBy(stack[rsp], "Yielded")
  /\ pc \in CodePCs => rsp \notin flagged /\ stack[rsp] = <<>>
  /\ pc = "preempt" /\ rsp # Sched => rsp \notin flagged /\ ReturnsBy(stack[rsp], "Yielded")
  /\ At \in {"jump_out", "rs", "requeue"} => stale \notin flagged /\ SavedAs(stack[stale], kind)
StackInv == SliceOutlastsSwitch => QueuedStacks /\ OwnerStack

SwitchedInv == IInv /\ LockInv /\ SliceInv /\ StackInv

-----------------------------------------------------------------------------
(* Sequences: pushing frames, and the queue as a set. *)

(* One frame pushed on a stack, as the CPU does when it takes an interrupt. *)
LEMMA PushOne ==
  ASSUME NEW S, NEW a \in S, NEW s \in Seq(S)
  PROVE  /\ <<a>> \o s \in Seq(S)
         /\ <<a>> \o s # <<>>
         /\ Head(<<a>> \o s) = a
         /\ Len(<<a>> \o s) = Len(s) + 1
         /\ \A i \in 1..Len(s) + 1 : (<<a>> \o s)[i] = IF i = 1 THEN a ELSE s[i - 1]
  OBVIOUS

(* Two frames pushed, as scheduler_preempt and release_task do. *)
LEMMA PushTwo ==
  ASSUME NEW S, NEW a \in S, NEW b \in S, NEW s \in Seq(S)
  PROVE  /\ <<a, b>> \o s \in Seq(S)
         /\ Len(<<a, b>> \o s) = Len(s) + 2
         /\ \A i \in 1..Len(s) + 2 :
              (<<a, b>> \o s)[i] = IF i = 1 THEN a ELSE IF i = 2 THEN b ELSE s[i - 2]
  OBVIOUS

(* Pushing a task that is not in the queue adds it and keeps tasks distinct. *)
LEMMA AppendQueue ==
  ASSUME NEW S, NEW q \in Seq(S), NEW e \in S
  PROVE  /\ Append(q, e) \in Seq(S)
         /\ Range(Append(q, e)) = Range(q) \cup {e}
         /\ IsInjective(q) /\ e \notin Range(q) => IsInjective(Append(q, e))
<1> DEFINE r == Append(q, e)
<1>1. r \in Seq(S) /\ Len(r) = Len(q) + 1 /\ Len(q) \in Nat
  OBVIOUS
<1>2. \A i \in 1..Len(q) : r[i] = q[i]
  OBVIOUS
<1>3. r[Len(q) + 1] = e
  OBVIOUS
<1>4. DOMAIN r = 1..Len(q) + 1 /\ DOMAIN q = 1..Len(q)
  BY <1>1
<1> HIDE DEF r
<1>5. Range(r) = Range(q) \cup {e}
  BY <1>1, <1>2, <1>3, <1>4 DEF Range
<1>6. IsInjective(q) /\ e \notin Range(q) => IsInjective(r)
  BY <1>1, <1>2, <1>3, <1>4 DEF Range, IsInjective
<1> QED
  BY Zenon, <1>1, <1>5, <1>6 DEF r

(* Popping the first task removes it, and only it, from a queue of distinct   *)
(* tasks.                                                                     *)
LEMMA TailQueue ==
  ASSUME NEW S, NEW q \in Seq(S), q # <<>>, IsInjective(q)
  PROVE  /\ Head(q) \in S /\ Head(q) \in Range(q)
         /\ Tail(q) \in Seq(S)
         /\ Range(Tail(q)) = Range(q) \ {Head(q)}
         /\ IsInjective(Tail(q))
<1> DEFINE r == Tail(q)
<1>1. Len(q) \in Nat \ {0} /\ r \in Seq(S) /\ Len(r) = Len(q) - 1
  OBVIOUS
<1>2. \A i \in 1..Len(q) - 1 : r[i] = q[i + 1]
  OBVIOUS
<1>3. Head(q) = q[1] /\ Head(q) \in S
  BY <1>1
<1>4. DOMAIN r = 1..Len(q) - 1 /\ DOMAIN q = 1..Len(q)
  BY <1>1
<1> HIDE DEF r
<1>5. ASSUME NEW i \in 1..Len(q) - 1
      PROVE  r[i] \in Range(q) \ {Head(q)}
  <2>1. i + 1 \in DOMAIN q /\ 1 \in DOMAIN q /\ i + 1 # 1
    BY <1>1, <1>4
  <2>2. q[i + 1] # q[1]
    BY Zenon, <2>1 DEF IsInjective
  <2> QED
    BY Zenon, <2>1, <2>2, <1>2, <1>3 DEF Range
<1>6. ASSUME NEW x \in Range(q) \ {Head(q)}
      PROVE  x \in Range(r)
  <2>1. PICK i \in 1..Len(q) : x = q[i]
    BY Zenon, <1>4 DEF Range
  <2>2. i # 1
    BY Zenon, <2>1, <1>3
  <2>3. i - 1 \in DOMAIN r /\ r[i - 1] = x
    BY <2>1, <2>2, <1>1, <1>2, <1>4
  <2> QED
    BY Zenon, <2>3 DEF Range
<1>7. IsInjective(r)
  <2> SUFFICES ASSUME NEW i \in 1..Len(q) - 1, NEW j \in 1..Len(q) - 1, r[i] = r[j]
               PROVE  i = j
    BY Zenon, <1>4 DEF IsInjective
  <2>1. i + 1 \in DOMAIN q /\ j + 1 \in DOMAIN q /\ q[i + 1] = q[j + 1]
    BY <1>1, <1>2, <1>4
  <2>2. i + 1 = j + 1
    BY Zenon, <2>1 DEF IsInjective
  <2> QED
    BY <2>2, <1>1
<1>8. Head(q) \in Range(q)
  BY <1>1, <1>3, <1>4 DEF Range
<1> QED
  <2>1. Range(r) = Range(q) \ {Head(q)}
    BY Zenon, <1>4, <1>5, <1>6 DEF Range
  <2> QED
    BY Zenon, <2>1, <1>1, <1>3, <1>7, <1>8 DEF r

-----------------------------------------------------------------------------
(* Type correctness *)

(* A pop of resume_task either takes the frame it expects or faults. *)
LEMMA PopTyped ==
  ASSUME TypeOK, NEW k, NEW p, NEW f, PopFrame(k, p, f)
  PROVE  /\ stack' \in [Procs -> Seq(Frames)]
         /\ \/ /\ stack[rsp] # <<>> /\ Head(stack[rsp]) \in Frames
               /\ Head(stack[rsp]).kind = k
               /\ pc' = p /\ ifl' = f
               /\ stack' = [stack EXCEPT ![rsp] = Tail(stack[rsp])]
            \/ pc' = "fault" /\ ifl' \in BOOLEAN /\ stack' = stack
<1>1. /\ stack[rsp] \in Seq(Frames) /\ rsp \in Procs /\ stack \in [Procs -> Seq(Frames)]
      /\ ifl \in BOOLEAN
  BY Zenon DEF TypeOK, CpuType
<1>2. CASE stack[rsp] # <<>> /\ Head(stack[rsp]).kind = k
  <2>1. Tail(stack[rsp]) \in Seq(Frames) /\ Head(stack[rsp]) \in Frames
    BY <1>1, <1>2
  <2>2. stack' = [stack EXCEPT ![rsp] = Tail(stack[rsp])] /\ pc' = p /\ ifl' = f
    BY Zenon, <1>2 DEF PopFrame
  <2>3. stack' \in [Procs -> Seq(Frames)]
    BY Zenon, <1>1, <2>1, <2>2
  <2> QED
    BY Zenon, <1>2, <2>1, <2>2, <2>3
<1>3. CASE ~(stack[rsp] # <<>> /\ Head(stack[rsp]).kind = k)
  BY Zenon, <1>1, <1>3 DEF PopFrame
<1> QED
  BY Zenon, <1>2, <1>3

(* Constants: every location named below is one, every actor is a process. *)
LEMMA Locations ==
  /\ "boot" \in PCs /\ "preempt" \in PCs /\ "panic" \in PCs /\ "fault" \in PCs
  /\ "run" \in PCs /\ "arm" \in PCs /\ "switch" \in PCs /\ "idle" \in PCs /\ "rs" \in PCs
  /\ "requeue" \in PCs /\ "jump_out" \in PCs /\ "pop_std" \in PCs /\ "btr" \in PCs
  /\ "pop_gp" \in PCs /\ "iret" \in PCs /\ "task" \in PCs /\ "print" \in PCs
  /\ "alloc" \in PCs
  /\ TaskPCs \subseteq PCs /\ SchedRips \subseteq PCs
  BY Zenon DEF PCs, SchedPCs, ResumePCs, CodePCs, TaskPCs, SchedRips

(* The actors of the model. *)
LEMMA Actors ==
  /\ Tasks \subseteq Procs /\ Sched \in Procs /\ Sched \notin Tasks /\ None \notin Procs
  /\ Yielding \subseteq Tasks /\ Allocating \subseteq Tasks /\ Returning \subseteq Tasks
  /\ \A p \in Procs : p # Sched => p \in Tasks
  BY Zenon, TaskAssumption DEF Procs

(* Slots stay inside a block. *)
LEMMA SlotTyped == \A i \in Nat : NextSlot(i) \in 0..BlockCap - 1
  BY SwitchAssumption DEF NextSlot

(* The frames the code pushes. *)
LEMMA FramesTyped ==
  /\ Std \in Frames
  /\ \A f \in BOOLEAN : Gp(f) \in Frames
  /\ \A p \in PCs, f \in BOOLEAN : Isf(p, f) \in Frames
  /\ \A x \in Frames : x.rip \in PCs /\ x.ifl \in BOOLEAN
  BY Zenon, Locations DEF Isf, Gp, Std, Frames

(* What an action leaves alone keeps its type. *)
LEMMA TypeFrame ==
  ASSUME TypeOK
  PROVE  /\ UNCHANGED cpu => CpuType'
         /\ UNCHANGED ptrs => PtrType'
         /\ UNCHANGED infos => InfoType'
         /\ UNCHANGED ids => IdType'
         /\ UNCHANGED lapic => LapicType'
         /\ UNCHANGED locks => LockType'
<1>1. UNCHANGED cpu => CpuType'
  BY Zenon DEF cpu, CpuType, TypeOK
<1>2. UNCHANGED ptrs => PtrType'
  BY Zenon DEF ptrs, PtrType, TypeOK
<1>3. UNCHANGED infos => InfoType'
  BY Zenon DEF infos, InfoType, TypeOK
<1>4. UNCHANGED ids => IdType'
  BY Zenon DEF ids, IdType, TypeOK
<1>5. UNCHANGED lapic => LapicType'
  BY Zenon DEF lapic, LapicType, TypeOK
<1>6. UNCHANGED locks => LockType'
  BY Zenon DEF locks, LockType, TypeOK
<1> QED
  BY Zenon, <1>1, <1>2, <1>3, <1>4, <1>5, <1>6

(* Every action keeps the variables in their types; the dropped tick relies   *)
(* on CpuInv for the frame it pops, resume_task on the saved stack pointer.   *)
LEMMA TypeStep == IInv /\ [Next]_vars => TypeOK'
<1> SUFFICES ASSUME TypeOK, CpuInv, SwitchInv, IdInv, SavedStackIsOwn, EachTaskOnce,
                    [Next]_vars
             PROVE  TypeOK'
  BY Zenon DEF IInv
<1>t. CpuType /\ PtrType /\ InfoType /\ IdType /\ LapicType /\ LockType
  BY Zenon DEF TypeOK
<1>1. ASSUME NEW t \in Tasks, spawn_task(t) PROVE TypeOK'
  <2>1. NextSlot(pushAt) \in 0..BlockCap - 1
    BY <1>t, SlotTyped DEF InfoType
  <2>2. CASE nextId <= MAX_TASK_ID
    <3>1. nextId \in 0..SchedId /\ nextId + 1 \in Nat
      BY <1>t, <2>2, IdAssumption DEF MAX_TASK_ID, SchedId, IdType
    <3>2. <<Std, Isf("task", ifl)>> \in Seq(Frames)
      BY <1>t, FramesTyped, Locations DEF CpuType
    <3>3. CpuType'
      BY Zenon, <1>1, <1>t, <2>2, <3>2, Actors DEF spawn_task, CpuType
    <3>4. InfoType'
      <4>1. queue' \in Seq(Tasks) /\ pushAt' \in 0..BlockCap - 1
        BY SMTT(30), <1>1, <1>t, <2>1, <2>2, AppendQueue DEF spawn_task, InfoType, Push
      <4>2. sp' \in [Tasks -> Tasks \cup {None}]
        BY Zenon, <1>1, <1>t, <2>2 DEF spawn_task, InfoType
      <4> QED
        BY Zenon, <1>1, <1>t, <4>1, <4>2 DEF spawn_task, InfoType
    <3>5. IdType'
      BY Zenon, <1>1, <1>t, <2>2, <3>1, Actors DEF spawn_task, IdType
    <3> QED
      BY Zenon, <1>1, <3>3, <3>4, <3>5, TypeFrame DEF spawn_task, TypeOK
  <2>3. CASE ~(nextId <= MAX_TASK_ID)
    <3>1. CpuType'
      BY Zenon, <1>1, <1>t, <2>3, Locations DEF spawn_task, CpuType
    <3>2. InfoType'
      BY Zenon, <1>1, <1>t, <2>3 DEF spawn_task, InfoType
    <3>3. IdType'
      BY <1>1, <1>t, <2>3 DEF spawn_task, IdType
    <3> QED
      BY Zenon, <1>1, <3>1, <3>2, <3>3, TypeFrame DEF spawn_task, TypeOK
  <2> QED
    BY Zenon, <2>2, <2>3
<1>2. ASSUME start_scheduler PROVE TypeOK'
  <2>1. CpuType' /\ PtrType' /\ LapicType'
    BY Zenon, <1>2, <1>t, Locations, Actors DEF start_scheduler, CpuType, PtrType, LapicType
  <2> QED
    BY Zenon, <1>2, <2>1, TypeFrame DEF start_scheduler, TypeOK
<1>3. ASSUME TimerExpires PROVE TypeOK'
  <2>1. LapicType'
    BY Zenon, <1>3, <1>t DEF TimerExpires, LapicType
  <2> QED
    BY Zenon, <1>3, <2>1, TypeFrame DEF TimerExpires, TypeOK
<1>4. ASSUME TimerInterrupt PROVE TypeOK'
  <2>1. Isf(pc, ifl) \in Frames /\ stack[rsp] \in Seq(Frames)
    BY Zenon, <1>t, FramesTyped DEF CpuType
  <2>2. <<Isf(pc, ifl)>> \o stack[rsp] \in Seq(Frames)
    BY Zenon, <2>1, PushOne
  <2>3. CpuType'
    BY Zenon, <1>4, <1>t, <2>2, Locations DEF TimerInterrupt, CpuType
  <2>4. LapicType'
    BY Zenon, <1>4, <1>t DEF TimerInterrupt, LapicType
  <2> QED
    BY Zenon, <1>4, <2>3, <2>4, TypeFrame DEF TimerInterrupt, TypeOK
<1>5. ASSUME preempt_task PROVE TypeOK'
  <2>1. Std \in Frames /\ Gp(ifl) \in Frames /\ stack[rsp] \in Seq(Frames)
    BY Zenon, <1>t, FramesTyped DEF CpuType
  <2>2. <<Std, Gp(ifl)>> \o stack[rsp] \in Seq(Frames)
    BY Zenon, <2>1, PushTwo
  <2>3. stack' \in [Procs -> Seq(Frames)]
    BY Zenon, <1>5, <1>t, <2>2, Actors DEF preempt_task, CpuType
  <2>4. rsp \in Tasks
    BY Zenon, <1>5, <1>t, Actors DEF preempt_task, CpuType, CpuInv, IdInv
  <2>5. CpuType' /\ PtrType'
    BY Zenon, <1>5, <1>t, <2>3, <2>4, Locations, Actors DEF preempt_task, CpuType, PtrType
  <2> QED
    BY Zenon, <1>5, <2>5, TypeFrame DEF preempt_task, TypeOK
<1>6. ASSUME preempt_scheduler PROVE TypeOK'
  <2>1. stack[rsp] \in Seq(Frames) /\ stack[rsp] # <<>>
    BY Zenon, <1>6, <1>t DEF preempt_scheduler, CpuType, CpuInv
  <2>2. Head(stack[rsp]) \in Frames /\ Tail(stack[rsp]) \in Seq(Frames)
    BY <2>1
  <2>3. pc' \in PCs /\ ifl' \in BOOLEAN
    BY Zenon, <1>6, <2>2, FramesTyped DEF preempt_scheduler
  <2>4. CpuType' /\ LapicType'
    BY Zenon, <1>6, <1>t, <2>2, <2>3 DEF preempt_scheduler, CpuType, LapicType
  <2> QED
    BY Zenon, <1>6, <2>4, TypeFrame DEF preempt_scheduler, TypeOK
<1>7. ASSUME scheduler_jump_out PROVE TypeOK'
  <2>1. CpuType' /\ PtrType' /\ LapicType'
    BY Zenon,
       <1>7, <1>t, Locations, Actors DEF scheduler_jump_out, CpuType, PtrType, LapicType
  <2> QED
    BY Zenon, <1>7, <2>1, TypeFrame DEF scheduler_jump_out, TypeOK
<1>8. ASSUME resume_scheduler_enter PROVE TypeOK'
  <2>1. CpuType' /\ LapicType'
    BY Zenon, <1>8, <1>t, Locations DEF resume_scheduler_enter, CpuType, LapicType
  <2> QED
    BY Zenon, <1>8, <2>1, TypeFrame DEF resume_scheduler_enter, TypeOK
<1>9. ASSUME resume_scheduler_requeue PROVE TypeOK'
  <2>1. NextSlot(pushAt) \in 0..BlockCap - 1
    BY <1>t, SlotTyped DEF InfoType
  <2>2. stale \in Tasks /\ released = stale
    BY Zenon, <1>9 DEF resume_scheduler_requeue, SwitchInv, At
  <2>3. CpuType'
    BY Zenon, <1>9, <1>t, Locations DEF resume_scheduler_requeue, CpuType
  <2>4. InfoType'
    BY <1>9, <1>t, <2>1, <2>2 DEF resume_scheduler_requeue, InfoType, Push
  <2> QED
    BY Zenon, <1>9, <2>3, <2>4, TypeFrame DEF resume_scheduler_requeue, TypeOK
<1>10. ASSUME run_scheduler_pop PROVE TypeOK'
  <2>1. NextSlot(popAt) \in 0..BlockCap - 1
    BY <1>t, SlotTyped DEF InfoType
  <2>2. Head(queue) \in Tasks /\ Tail(queue) \in Seq(Tasks)
    BY <1>10, <1>t DEF run_scheduler_pop, InfoType
  <2>3. CpuType' /\ PtrType'
    BY Zenon, <1>10, <1>t, <2>2, Locations DEF run_scheduler_pop, CpuType, PtrType
  <2>4. InfoType'
    BY Zenon, <1>10, <1>t, <2>1, <2>2 DEF run_scheduler_pop, InfoType, Pop
  <2> QED
    BY Zenon, <1>10, <2>3, <2>4, TypeFrame DEF run_scheduler_pop, TypeOK
<1>11. ASSUME run_scheduler_idle PROVE TypeOK'
  <2>1. CpuType'
    BY Zenon, <1>11, <1>t, Locations DEF run_scheduler_idle, CpuType
  <2> QED
    BY Zenon, <1>11, <2>1, TypeFrame DEF run_scheduler_idle, TypeOK
<1>12. ASSUME trigger_local_us PROVE TypeOK'
  <2>1. CpuType' /\ LapicType'
    BY Zenon, <1>12, <1>t, Locations DEF trigger_local_us, CpuType, LapicType
  <2> QED
    BY Zenon, <1>12, <2>1, TypeFrame DEF trigger_local_us, TypeOK
<1>13. ASSUME resume_task PROVE TypeOK'
  <2>1. next \in Tasks /\ At = "switch" /\ pc # "panic"
    BY Zenon, <1>13 DEF resume_task, SwitchInv, At
  <2>2. Owner = next
    BY Zenon, <2>1 DEF Owner
  <2>3. sp[next] = next
    BY Zenon, <2>1, <2>2, Actors DEF SavedStackIsOwn, EachTaskOnce
  <2>4. CpuType' /\ PtrType'
    BY Zenon, <1>13, <1>t, <2>1, <2>3, Locations, Actors DEF resume_task, CpuType, PtrType
  <2> QED
    BY Zenon, <1>13, <2>4, TypeFrame DEF resume_task, TypeOK
<1>14. ASSUME resume_pop_standard PROVE TypeOK'
  <2>1. PopFrame("std", "btr", ifl)
    BY Zenon, <1>14 DEF resume_pop_standard
  <2>2. stack' \in [Procs -> Seq(Frames)]
    BY Zenon, <2>1, PopTyped
  <2>3. (pc' = "btr" /\ ifl' = ifl) \/ (pc' = "fault" /\ ifl' \in BOOLEAN)
    BY Zenon, <2>1, PopTyped
  <2>4. CpuType'
    BY Zenon, <1>14, <1>t, <2>2, <2>3, Locations DEF resume_pop_standard, CpuType
  <2> QED
    BY Zenon, <1>14, <2>4, TypeFrame DEF resume_pop_standard, TypeOK
<1>15. ASSUME resume_test_interrupted PROVE TypeOK'
  <2>1. CpuType' /\ InfoType'
    BY Zenon, <1>15, <1>t, Locations DEF resume_test_interrupted, CpuType, InfoType
  <2> QED
    BY Zenon, <1>15, <2>1, TypeFrame DEF resume_test_interrupted, TypeOK
<1>16. ASSUME resume_pop_gp PROVE TypeOK'
  <2>1. PopFrame("gp", "iret", Head(stack[rsp]).ifl)
    BY Zenon, <1>16 DEF resume_pop_gp
  <2>2. stack' \in [Procs -> Seq(Frames)]
    BY Zenon, <2>1, PopTyped
  <2>3. \/ Head(stack[rsp]) \in Frames /\ pc' = "iret" /\ ifl' = Head(stack[rsp]).ifl
        \/ pc' = "fault" /\ ifl' \in BOOLEAN
    BY Zenon, <2>1, PopTyped
  <2>4. pc' \in PCs /\ ifl' \in BOOLEAN
    BY Zenon, <2>3, Locations, FramesTyped
  <2>5. CpuType'
    BY Zenon, <1>16, <1>t, <2>2, <2>4 DEF resume_pop_gp, CpuType
  <2> QED
    BY Zenon, <1>16, <2>5, TypeFrame DEF resume_pop_gp, TypeOK
<1>17. ASSUME resume_iretq PROVE TypeOK'
  <2>1. PopFrame("isf", Head(stack[rsp]).rip, Head(stack[rsp]).ifl)
    BY Zenon, <1>17 DEF resume_iretq
  <2>2. stack' \in [Procs -> Seq(Frames)]
    BY Zenon, <2>1, PopTyped
  <2>3. \/ /\ Head(stack[rsp]) \in Frames
           /\ pc' = Head(stack[rsp]).rip /\ ifl' = Head(stack[rsp]).ifl
        \/ pc' = "fault" /\ ifl' \in BOOLEAN
    BY Zenon, <2>1, PopTyped
  <2>4. pc' \in PCs /\ ifl' \in BOOLEAN
    BY Zenon, <2>3, Locations, FramesTyped
  <2>5. CpuType'
    BY Zenon, <1>17, <1>t, <2>2, <2>4 DEF resume_iretq, CpuType
  <2> QED
    BY Zenon, <1>17, <2>5, TypeFrame DEF resume_iretq, TypeOK
<1>18. ASSUME NEW t \in Yielding, yield_task(t) PROVE TypeOK'
  <2>1. Std \in Frames /\ Isf("task", FALSE) \in Frames /\ stack[t] \in Seq(Frames)
    BY Zenon, <1>t, FramesTyped, Locations, Actors DEF CpuType
  <2>2. <<Std, Isf("task", FALSE)>> \o stack[t] \in Seq(Frames)
    BY Zenon, <2>1, PushTwo
  <2>3. stack' \in [Procs -> Seq(Frames)]
    BY Zenon, <1>18, <1>t, <2>2, Actors DEF yield_task, CpuType
  <2>4. CpuType' /\ PtrType'
    BY Zenon, <1>18, <1>t, <2>3, Locations, Actors DEF yield_task, CpuType, PtrType
  <2> QED
    BY Zenon, <1>18, <2>4, TypeFrame DEF yield_task, TypeOK
<1>19. ASSUME print_begin PROVE TypeOK'
  <2>1. rsp \in Tasks
    BY Zenon, <1>19 DEF print_begin, CpuInv, TaskPCs, CodePCs
  <2>2. CpuType' /\ LockType'
    BY Zenon, <1>19, <1>t, <2>1, Locations DEF print_begin, CpuType, LockType
  <2> QED
    BY Zenon, <1>19, <2>2, TypeFrame DEF print_begin, TypeOK
<1>20. ASSUME print_end PROVE TypeOK'
  <2>1. CpuType' /\ LockType'
    BY Zenon, <1>20, <1>t, Locations DEF print_end, CpuType, LockType
  <2> QED
    BY Zenon, <1>20, <2>1, TypeFrame DEF print_end, TypeOK
<1>21. ASSUME NEW t \in Allocating, alloc_begin(t) PROVE TypeOK'
  <2>1. CpuType' /\ LockType'
    BY Zenon, <1>21, <1>t, Locations, Actors DEF alloc_begin, CpuType, LockType
  <2> QED
    BY Zenon, <1>21, <2>1, TypeFrame DEF alloc_begin, TypeOK
<1>22. ASSUME alloc_end PROVE TypeOK'
  <2>1. CpuType' /\ LockType'
    BY Zenon, <1>22, <1>t, Locations DEF alloc_end, CpuType, LockType
  <2> QED
    BY Zenon, <1>22, <2>1, TypeFrame DEF alloc_end, TypeOK
<1>23. ASSUME NEW t \in Returning, end_task(t) PROVE TypeOK'
  <2>1. CpuType' /\ PtrType'
    BY Zenon, <1>23, <1>t, Locations, Actors DEF end_task, CpuType, PtrType
  <2> QED
    BY Zenon, <1>23, <2>1, TypeFrame DEF end_task, TypeOK
<1>24. ASSUME UNCHANGED vars PROVE TypeOK'
  BY Zenon, <1>24, TypeFrame DEF vars, TypeOK
<1> QED
  BY Zenon, <1>1, <1>2, <1>3, <1>4, <1>5, <1>6, <1>7, <1>8, <1>9, <1>10, <1>11, <1>12, <1>13,
     <1>14, <1>15, <1>16, <1>17, <1>18, <1>19, <1>20, <1>21, <1>22, <1>23, <1>24
  DEF Next, SwitchStep, hlt_loop

-----------------------------------------------------------------------------
(* The strengthening, one conjunct at a time *)

(* The frames pushed for a task lead back to it. *)
LEMMA TaskFramesTyped ==
  /\ Std \in TaskFrames
  /\ \A f \in BOOLEAN : Gp(f) \in TaskFrames
  /\ \A p \in ReturnPCs, f \in BOOLEAN : Isf(p, f) \in TaskFrames
  /\ "task" \in ReturnPCs
  BY Zenon, FramesTyped, Locations DEF TaskFrames, Std, Gp, Isf, ReturnPCs, TaskPCs, CodePCs

(* iretq returns to the interrupted code of the same task. *)
LEMMA IretTarget ==
  ASSUME TypeOK, CpuInv, FrameInv, resume_iretq
  PROVE  pc' \in ReturnPCs /\ pc' \in TaskPCs
<1>1. PopFrame("isf", Head(stack[rsp]).rip, Head(stack[rsp]).ifl) /\ pc = "iret"
  BY Zenon DEF resume_iretq
<1>2. rsp \in Tasks /\ stack[rsp] \in Seq(TaskFrames)
  BY Zenon, <1>1 DEF FrameInv, CpuInv, TaskPCs, ResumePCs
<1>3. (stack[rsp] # <<>> /\ pc' = Head(stack[rsp]).rip) \/ pc' = "fault"
  BY Zenon, <1>1, PopTyped
<1>4. stack[rsp] # <<>> => Head(stack[rsp]).rip \in ReturnPCs
  BY <1>2 DEF TaskFrames
<1> QED
  BY Zenon, <1>3, <1>4 DEF ReturnPCs, TaskPCs

(* The stack pointer and CURRENT_TASK_PTR change together wherever the timer  *)
(* interrupt can see them.                                                    *)
LEMMA CpuStep == IInv /\ [Next]_vars => CpuInv'
<1> SUFFICES ASSUME TypeOK, CpuInv, TickInv, FrameInv, SwitchInv, IdInv,
                    SavedStackIsOwn, EachTaskOnce, [Next]_vars
             PROVE  CpuInv'
  BY Zenon DEF IInv
<1> USE DEF CpuInv, TaskPCs, ResumePCs, CodePCs, SchedRips
<1>1. ASSUME NEW t \in Tasks, spawn_task(t) PROVE CpuInv'
  BY Zenon, <1>1 DEF spawn_task, ptrs
<1>2. ASSUME start_scheduler PROVE CpuInv'
  BY Zenon, <1>2 DEF start_scheduler
<1>3. ASSUME TimerExpires PROVE CpuInv'
  BY Zenon, <1>3 DEF TimerExpires, cpu, ptrs
<1>4. ASSUME TimerInterrupt PROVE CpuInv'
  <2>1. Isf(pc, ifl) \in Frames /\ stack[rsp] \in Seq(Frames) /\ stack \in [Procs -> Seq(Frames)]
        /\ rsp \in Procs
    BY Zenon, FramesTyped DEF TypeOK, CpuType
  <2>2. /\ stack' = [stack EXCEPT ![rsp] = <<Isf(pc, ifl)>> \o stack[rsp]]
        /\ pc' = "preempt" /\ rsp' = rsp /\ cur' = cur /\ stale' = stale /\ isr'
        /\ ~isr /\ ifl /\ irr
    BY Zenon, <1>4 DEF TimerInterrupt, ptrs, Deliverable
  <2>3. Head(stack'[rsp]) = Isf(pc, ifl) /\ stack'[rsp] # <<>>
    BY <2>1, <2>2, PushOne
  <2>4. Head(stack'[rsp]).rip = pc /\ Head(stack'[rsp]).ifl = ifl
    BY <2>3 DEF Isf
  <2>5. pc \in TaskPCs \/ pc \in SchedRips
    BY Zenon, <2>2 DEF TypeOK, CpuType, PCs, SchedPCs, TickInv
  <2> QED
    BY Zenon, <2>2, <2>3, <2>4, <2>5, Actors
<1>5. ASSUME preempt_task PROVE CpuInv'
  BY Zenon, <1>5 DEF preempt_task, lapic
<1>6. ASSUME preempt_scheduler PROVE CpuInv'
  <2>1. rsp = Sched /\ cur = Sched
    BY <1>6, Actors, IdAssumption DEF preempt_scheduler, IdInv, SchedId, TypeOK, CpuType
  <2>2. pc' \in SchedRips /\ rsp' = rsp /\ cur' = cur /\ ifl'
    BY Zenon, <1>6, <2>1 DEF preempt_scheduler, ptrs
  <2> QED
    BY Zenon, <2>1, <2>2
<1>7. ASSUME scheduler_jump_out PROVE CpuInv'
  BY Zenon, <1>7 DEF scheduler_jump_out
<1>8. ASSUME resume_scheduler_enter PROVE CpuInv'
  BY Zenon, <1>8 DEF resume_scheduler_enter, ptrs
<1>9. ASSUME resume_scheduler_requeue PROVE CpuInv'
  BY Zenon, <1>9 DEF resume_scheduler_requeue, ptrs
<1>10. ASSUME run_scheduler_pop PROVE CpuInv'
  BY Zenon, <1>10 DEF run_scheduler_pop
<1>11. ASSUME run_scheduler_idle PROVE CpuInv'
  BY Zenon, <1>11 DEF run_scheduler_idle, ptrs
<1>12. ASSUME trigger_local_us PROVE CpuInv'
  BY Zenon, <1>12 DEF trigger_local_us, ptrs
<1>13. ASSUME resume_task PROVE CpuInv'
  <2>1. next \in Tasks /\ At = "switch" /\ pc # "panic"
    BY Zenon, <1>13 DEF resume_task, SwitchInv, At
  <2>2. Owner = next
    BY Zenon, <2>1 DEF Owner
  <2>3. sp[next] = next
    BY Zenon, <2>1, <2>2, Actors DEF SavedStackIsOwn, EachTaskOnce
  <2> QED
    BY Zenon, <1>13, <2>1, <2>3 DEF resume_task
<1>14. ASSUME resume_pop_standard PROVE CpuInv'
  <2>1. PopFrame("std", "btr", ifl) /\ pc = "pop_std" /\ UNCHANGED <<rsp, ptrs>>
    BY Zenon, <1>14 DEF resume_pop_standard
  <2>2. pc' = "btr" \/ pc' = "fault"
    BY Zenon, <2>1, PopTyped
  <2> QED
    BY Zenon, <2>1, <2>2 DEF ptrs
<1>15. ASSUME resume_test_interrupted PROVE CpuInv'
  BY Zenon, <1>15 DEF resume_test_interrupted, ptrs
<1>16. ASSUME resume_pop_gp PROVE CpuInv'
  <2>1. /\ PopFrame("gp", "iret", Head(stack[rsp]).ifl)
        /\ pc = "pop_gp" /\ UNCHANGED <<rsp, ptrs>>
    BY Zenon, <1>16 DEF resume_pop_gp
  <2>2. pc' = "iret" \/ pc' = "fault"
    BY Zenon, <2>1, PopTyped
  <2> QED
    BY Zenon, <2>1, <2>2 DEF ptrs
<1>17. ASSUME resume_iretq PROVE CpuInv'
  <2>1. pc = "iret" /\ UNCHANGED <<rsp, ptrs>>
    BY Zenon, <1>17 DEF resume_iretq
  <2> QED
    BY Zenon, <1>17, <2>1, IretTarget DEF ptrs, ReturnPCs
<1>18. ASSUME NEW t \in Yielding, yield_task(t) PROVE CpuInv'
  BY Zenon, <1>18 DEF yield_task
<1>19. ASSUME print_begin PROVE CpuInv'
  BY Zenon, <1>19 DEF print_begin, ptrs
<1>20. ASSUME print_end PROVE CpuInv'
  BY Zenon, <1>20 DEF print_end, ptrs
<1>21. ASSUME NEW t \in Allocating, alloc_begin(t) PROVE CpuInv'
  BY Zenon, <1>21 DEF alloc_begin, ptrs
<1>22. ASSUME alloc_end PROVE CpuInv'
  BY Zenon, <1>22 DEF alloc_end, ptrs
<1>23. ASSUME NEW t \in Returning, end_task(t) PROVE CpuInv'
  BY Zenon, <1>23 DEF end_task
<1>24. ASSUME UNCHANGED vars PROVE CpuInv'
  BY Zenon, <1>24 DEF vars, cpu, ptrs, lapic
<1> QED
  BY Zenon,
     <1>1, <1>2, <1>3, <1>4, <1>5, <1>6, <1>7, <1>8, <1>9, <1>10, <1>11, <1>12, <1>13,
     <1>14, <1>15, <1>16, <1>17, <1>18, <1>19, <1>20, <1>21, <1>22, <1>23, <1>24
  DEF Next, SwitchStep, hlt_loop

(* At most one tick is requested or in service, and only with the timer off.  *)
LEMMA TickStep == IInv /\ [Next]_vars => TickInv'
<1> SUFFICES ASSUME TypeOK, CpuInv, TickInv, FrameInv, [Next]_vars
             PROVE  TickInv'
  BY Zenon DEF IInv
<1> USE DEF TickInv, lapic
<1>1. ASSUME NEW t \in Tasks, spawn_task(t) PROVE TickInv'
  BY Zenon, <1>1 DEF spawn_task
<1>2. ASSUME start_scheduler PROVE TickInv'
  BY Zenon, <1>2 DEF start_scheduler
<1>3. ASSUME TimerExpires PROVE TickInv'
  BY Zenon, <1>3 DEF TimerExpires, cpu
<1>4. ASSUME TimerInterrupt PROVE TickInv'
  BY Zenon, <1>4 DEF TimerInterrupt, Deliverable
<1>5. ASSUME preempt_task PROVE TickInv'
  BY Zenon, <1>5 DEF preempt_task
<1>6. ASSUME preempt_scheduler PROVE TickInv'
  <2>1. Head(stack[rsp]).rip # "boot" /\ isr
    BY Zenon, <1>6 DEF preempt_scheduler, CpuInv, SchedRips, TaskPCs, ResumePCs, CodePCs
  <2> QED
    BY Zenon, <1>6, <2>1 DEF preempt_scheduler
<1>7. ASSUME scheduler_jump_out PROVE TickInv'
  BY Zenon, <1>7 DEF scheduler_jump_out
<1>8. ASSUME resume_scheduler_enter PROVE TickInv'
  BY Zenon, <1>8 DEF resume_scheduler_enter
<1>9. ASSUME resume_scheduler_requeue PROVE TickInv'
  BY Zenon, <1>9 DEF resume_scheduler_requeue
<1>10. ASSUME run_scheduler_pop PROVE TickInv'
  BY Zenon, <1>10 DEF run_scheduler_pop
<1>11. ASSUME run_scheduler_idle PROVE TickInv'
  BY Zenon, <1>11 DEF run_scheduler_idle
<1>12. ASSUME trigger_local_us PROVE TickInv'
  <2>1. ifl
    BY Zenon, <1>12 DEF trigger_local_us, CpuInv, SchedRips
  <2> QED
    BY Zenon, <1>12, <2>1 DEF trigger_local_us, Deliverable
<1>13. ASSUME resume_task PROVE TickInv'
  BY Zenon, <1>13 DEF resume_task
<1>14. ASSUME resume_pop_standard PROVE TickInv'
  <2>1. PopFrame("std", "btr", ifl) /\ pc = "pop_std" /\ UNCHANGED lapic
    BY Zenon, <1>14 DEF resume_pop_standard
  <2>2. pc' \in {"btr", "fault"}
    BY Zenon, <2>1, PopTyped
  <2> QED
    BY Zenon, <2>1, <2>2
<1>15. ASSUME resume_test_interrupted PROVE TickInv'
  BY Zenon, <1>15 DEF resume_test_interrupted
<1>16. ASSUME resume_pop_gp PROVE TickInv'
  <2>1. PopFrame("gp", "iret", Head(stack[rsp]).ifl) /\ pc = "pop_gp" /\ UNCHANGED lapic
    BY Zenon, <1>16 DEF resume_pop_gp
  <2>2. pc' \in {"iret", "fault"}
    BY Zenon, <2>1, PopTyped
  <2> QED
    BY Zenon, <2>1, <2>2
<1>17. ASSUME resume_iretq PROVE TickInv'
  <2>1. pc = "iret" /\ UNCHANGED lapic
    BY Zenon, <1>17 DEF resume_iretq
  <2>2. pc' # "boot"
    BY Zenon, <1>17, IretTarget DEF TaskPCs, ResumePCs, CodePCs
  <2> QED
    BY Zenon, <2>1, <2>2
<1>18. ASSUME NEW t \in Yielding, yield_task(t) PROVE TickInv'
  BY Zenon, <1>18 DEF yield_task
<1>19. ASSUME print_begin PROVE TickInv'
  BY Zenon, <1>19 DEF print_begin
<1>20. ASSUME print_end PROVE TickInv'
  BY Zenon, <1>20 DEF print_end
<1>21. ASSUME NEW t \in Allocating, alloc_begin(t) PROVE TickInv'
  BY Zenon, <1>21 DEF alloc_begin
<1>22. ASSUME alloc_end PROVE TickInv'
  BY Zenon, <1>22 DEF alloc_end
<1>23. ASSUME NEW t \in Returning, end_task(t) PROVE TickInv'
  BY Zenon, <1>23 DEF end_task
<1>24. ASSUME UNCHANGED vars PROVE TickInv'
  BY Zenon, <1>24 DEF vars, cpu
<1> QED
  BY Zenon,
     <1>1, <1>2, <1>3, <1>4, <1>5, <1>6, <1>7, <1>8, <1>9, <1>10, <1>11, <1>12, <1>13,
     <1>14, <1>15, <1>16, <1>17, <1>18, <1>19, <1>20, <1>21, <1>22, <1>23, <1>24
  DEF Next, SwitchStep, hlt_loop

(* Frames are pushed on a task's stack only while that task's code, or the    *)
(* resume_task that returns to it, is running.                                *)
LEMMA FrameStep == IInv /\ [Next]_vars => FrameInv'
<1> SUFFICES ASSUME TypeOK, CpuInv, TickInv, FrameInv, IdInv, [Next]_vars,
                    NEW u \in Tasks
             PROVE  stack'[u] \in Seq(TaskFrames)
  BY Zenon DEF IInv, FrameInv
<1>0. /\ stack \in [Procs -> Seq(Frames)] /\ rsp \in Procs /\ u \in Procs
      /\ stack[u] \in Seq(TaskFrames) /\ ifl \in BOOLEAN /\ pc \in PCs
  BY Zenon, Actors DEF TypeOK, CpuType, FrameInv
<1>p. ASSUME NEW k, NEW p, NEW f, PopFrame(k, p, f) PROVE stack'[u] \in Seq(TaskFrames)
  <2>1. \/ stack' = stack
        \/ stack[rsp] # <<>> /\ stack' = [stack EXCEPT ![rsp] = Tail(stack[rsp])]
    BY Zenon, <1>p, PopTyped
  <2>2. stack[u] # <<>> => Tail(stack[u]) \in Seq(TaskFrames)
    BY <1>0
  <2>3. CASE u = rsp
    BY Zenon, <1>0, <2>1, <2>2, <2>3
  <2>4. CASE u # rsp
    BY Zenon, <1>0, <2>1, <2>4
  <2> QED
    BY Zenon, <2>3, <2>4
<1>1. ASSUME NEW t \in Tasks, spawn_task(t) PROVE stack'[u] \in Seq(TaskFrames)
  <2>1. <<Std, Isf("task", ifl)>> \in Seq(TaskFrames)
    BY <1>0, TaskFramesTyped
  <2> QED
    BY Zenon, <1>0, <1>1, <2>1 DEF spawn_task
<1>4. ASSUME TimerInterrupt PROVE stack'[u] \in Seq(TaskFrames)
  <2>1. stack' = [stack EXCEPT ![rsp] = <<Isf(pc, ifl)>> \o stack[rsp]]
    BY Zenon, <1>4 DEF TimerInterrupt
  <2>2. CASE u = rsp
    <3>1. pc \in ReturnPCs
      BY Zenon, <1>4, <1>0, <2>2, Actors
      DEF TimerInterrupt, Deliverable, CpuInv, TickInv, PCs, SchedPCs, ReturnPCs, TaskPCs,
        SchedRips
    <3>2. Isf(pc, ifl) \in TaskFrames
      BY Zenon, <1>0, <3>1, TaskFramesTyped
    <3>3. <<Isf(pc, ifl)>> \o stack[u] \in Seq(TaskFrames)
      BY Zenon, <1>0, <3>2, PushOne
    <3> QED
      BY Zenon, <1>0, <2>1, <2>2, <3>3
  <2>3. CASE u # rsp
    BY Zenon, <1>0, <2>1, <2>3
  <2> QED
    BY Zenon, <2>2, <2>3
<1>5. ASSUME preempt_task PROVE stack'[u] \in Seq(TaskFrames)
  <2>1. Std \in TaskFrames /\ Gp(ifl) \in TaskFrames
    BY Zenon, <1>0, TaskFramesTyped
  <2>2. <<Std, Gp(ifl)>> \o stack[u] \in Seq(TaskFrames)
    BY Zenon, <1>0, <2>1, PushTwo
  <2> QED
    BY Zenon, <1>0, <1>5, <2>2 DEF preempt_task
<1>6. ASSUME preempt_scheduler PROVE stack'[u] \in Seq(TaskFrames)
  <2>1. rsp = Sched
    BY SMTT(30),
       <1>0, <1>6, Actors, IdAssumption DEF preempt_scheduler, IdInv, SchedId, CpuInv
  <2> QED
    BY Zenon, <1>0, <1>6, <2>1, Actors DEF preempt_scheduler
<1>7. ASSUME \/ start_scheduler \/ scheduler_jump_out
             \/ resume_scheduler_enter \/ resume_scheduler_requeue
             \/ run_scheduler_pop \/ run_scheduler_idle \/ trigger_local_us
             \/ resume_task \/ resume_test_interrupted
             \/ print_begin \/ print_end \/ alloc_end
      PROVE  stack'[u] \in Seq(TaskFrames)
  BY Zenon, <1>0, <1>7
  DEF start_scheduler, scheduler_jump_out, resume_scheduler_enter,
      resume_scheduler_requeue, run_scheduler_pop, run_scheduler_idle, trigger_local_us,
      resume_task, resume_test_interrupted, print_begin, print_end, alloc_end
<1>8. ASSUME resume_pop_standard \/ resume_pop_gp \/ resume_iretq
      PROVE  stack'[u] \in Seq(TaskFrames)
  BY Zenon, <1>8, <1>p DEF resume_pop_standard, resume_pop_gp, resume_iretq
<1>9. ASSUME NEW t \in Yielding, yield_task(t) PROVE stack'[u] \in Seq(TaskFrames)
  <2>1. Std \in TaskFrames /\ Isf("task", FALSE) \in TaskFrames
    BY Zenon, TaskFramesTyped
  <2>2. <<Std, Isf("task", FALSE)>> \o stack[u] \in Seq(TaskFrames)
    BY Zenon, <1>0, <2>1, PushTwo
  <2> QED
    BY Zenon, <1>0, <1>9, <2>2, Actors DEF yield_task
<1>10. ASSUME NEW t \in Tasks, alloc_begin(t) \/ end_task(t)
       PROVE  stack'[u] \in Seq(TaskFrames)
  BY Zenon, <1>0, <1>10 DEF alloc_begin, end_task
<1>11. ASSUME TimerExpires \/ UNCHANGED vars PROVE stack'[u] \in Seq(TaskFrames)
  BY Zenon, <1>0, <1>11 DEF TimerExpires, vars, cpu
<1> QED
  BY Zenon, <1>1, <1>4, <1>5, <1>6, <1>7, <1>8, <1>9, <1>10, <1>11, Actors
  DEF Next, SwitchStep, hlt_loop

(* Taking the interrupt, and dropping a tick, leave the interrupted code       *)
(* where it was.                                                               *)
LEMMA AtKept ==
  ASSUME TypeOK, CpuInv, TickInv, IdInv, TimerInterrupt \/ preempt_scheduler
  PROVE  At' = At
<1>0. stack \in [Procs -> Seq(Frames)] /\ rsp \in Procs /\ stack[rsp] \in Seq(Frames)
  BY Zenon DEF TypeOK, CpuType
<1>1. CASE TimerInterrupt
  <2>1. /\ stack' = [stack EXCEPT ![rsp] = <<Isf(pc, ifl)>> \o stack[rsp]]
        /\ pc' = "preempt" /\ rsp' = rsp /\ pc # "preempt"
    BY Zenon, <1>1 DEF TimerInterrupt, Deliverable, CpuInv
  <2>2. Isf(pc, ifl) \in Frames
    BY Zenon, FramesTyped DEF TypeOK, CpuType
  <2>3. Head(stack'[rsp]) = Isf(pc, ifl)
    BY <1>0, <2>1, <2>2, PushOne
  <2> QED
    BY <2>1, <2>3 DEF At, Isf
<1>2. CASE preempt_scheduler
  <2>1. rsp = Sched
    BY SMTT(30),
       <1>0, <1>2, Actors, IdAssumption DEF preempt_scheduler, IdInv, SchedId, CpuInv
  <2>2. pc = "preempt" /\ pc' = Head(stack[rsp]).rip /\ pc' \in SchedRips
    BY Zenon, <1>2, <2>1 DEF preempt_scheduler, CpuInv
  <2> QED
    BY Zenon, <2>2 DEF At, SchedRips
<1> QED
  BY Zenon, <1>1, <1>2

(* STALE_TASK_PTR and released_stack name the task that gave up the CPU until *)
(* resume_scheduler has requeued it.                                          *)
LEMMA HandoverStep == IInv /\ [Next]_vars => SwitchInv'
<1> SUFFICES ASSUME TypeOK, CpuInv, TickInv, FrameInv, SwitchInv, IdInv, [Next]_vars
             PROVE  SwitchInv'
  BY Zenon DEF IInv
<1> USE DEF SwitchInv
<1>1. ASSUME TimerInterrupt \/ preempt_scheduler PROVE SwitchInv'
  <2>1. UNCHANGED ptrs
    BY Zenon, <1>1 DEF TimerInterrupt, preempt_scheduler
  <2> QED
    BY Zenon, <1>1, <2>1, AtKept DEF ptrs
<1>2. ASSUME NEW t \in Tasks, spawn_task(t) PROVE SwitchInv'
  BY Zenon, <1>2 DEF spawn_task, At
<1>3. ASSUME preempt_task PROVE SwitchInv'
  <2>1. pc = "preempt" /\ cur = rsp /\ rsp # Sched /\ rsp \in Tasks /\ stale = rsp
    BY Zenon, <1>3, Actors DEF preempt_task, CpuInv, IdInv, TypeOK, CpuType
  <2>2. pc' = "jump_out" /\ released' = rsp /\ stale' = stale
    BY Zenon, <1>3 DEF preempt_task
  <2> QED
    BY Zenon, <2>1, <2>2 DEF At
<1>4. ASSUME scheduler_jump_out \/ resume_scheduler_enter PROVE SwitchInv'
  <2>1. pc' \in {"rs", "requeue"} /\ stale' = stale /\ released' = released
        /\ pc \in {"jump_out", "rs"}
    BY Zenon, <1>4 DEF scheduler_jump_out, resume_scheduler_enter, ptrs
  <2> QED
    BY Zenon, <2>1 DEF At
<1>5. ASSUME run_scheduler_pop PROVE SwitchInv'
  <2>1. Head(queue) \in Tasks
    BY <1>5 DEF run_scheduler_pop, TypeOK, InfoType
  <2> QED
    BY Zenon, <1>5, <2>1 DEF run_scheduler_pop, At
<1>6. ASSUME trigger_local_us PROVE SwitchInv'
  BY Zenon, <1>6 DEF trigger_local_us, ptrs, At
<1>7. ASSUME NEW t \in Yielding, yield_task(t) PROVE SwitchInv'
  <2>1. rsp = t /\ stale = t /\ t \in Tasks
    BY Zenon, <1>7, Actors DEF yield_task, CpuInv, TaskPCs, CodePCs
  <2> QED
    BY Zenon, <1>7, <2>1 DEF yield_task, At
<1>8. ASSUME resume_pop_standard \/ resume_pop_gp PROVE SwitchInv'
  <2>1. pc' \in {"btr", "iret", "fault"}
    BY Zenon, <1>8, PopTyped DEF resume_pop_standard, resume_pop_gp
  <2> QED
    BY Zenon, <2>1 DEF At
<1>9. ASSUME resume_iretq PROVE SwitchInv'
  <2>1. pc' \in TaskPCs
    BY Zenon, <1>9, IretTarget
  <2> QED
    BY Zenon, <2>1 DEF At, TaskPCs, ResumePCs, CodePCs
<1>10. ASSUME \/ start_scheduler \/ resume_scheduler_requeue \/ run_scheduler_idle
              \/ resume_task \/ resume_test_interrupted \/ print_begin \/ print_end
              \/ alloc_end
       PROVE  SwitchInv'
  <2>1. pc' \in {"run", "idle", "pop_std", "pop_gp", "iret", "print", "task"}
    BY Zenon, <1>10
    DEF start_scheduler, resume_scheduler_requeue, run_scheduler_idle, resume_task,
        resume_test_interrupted, print_begin, print_end, alloc_end
  <2> QED
    BY Zenon, <2>1 DEF At
<1>11. ASSUME NEW t \in Tasks, alloc_begin(t) \/ end_task(t) PROVE SwitchInv'
  BY Zenon, <1>11 DEF alloc_begin, end_task, At
<1>12. ASSUME TimerExpires \/ UNCHANGED vars PROVE SwitchInv'
  BY Zenon, <1>12 DEF TimerExpires, vars, cpu, ptrs, At
<1> QED
  BY Zenon, <1>1, <1>2, <1>3, <1>4, <1>5, <1>6, <1>7, <1>8, <1>9, <1>10, <1>11, <1>12, Actors
  DEF Next, SwitchStep, hlt_loop

(* NEXT_TASK_ID is above every id handed out and ids stay below the           *)
(* scheduler's.                                                               *)
LEMMA IdStep == IInv /\ [Next]_vars => IdInv' /\ TaskIdsDistinct'
<1> SUFFICES ASSUME TypeOK, IdInv, TaskIdsDistinct, [Next]_vars
             PROVE  IdInv' /\ TaskIdsDistinct'
  BY Zenon DEF IInv
<1>0. id \in [Procs -> 0..SchedId] /\ nextId \in Nat /\ FirstId \in Nat \ {0} /\ SchedId \in Nat
      /\ MAX_TASK_ID = SchedId - 1
  BY IdAssumption DEF TypeOK, IdType, SchedId, MAX_TASK_ID
<1>1. ASSUME NEW t \in Tasks, spawn_task(t) PROVE IdInv' /\ TaskIdsDistinct'
  <2>1. CASE nextId <= MAX_TASK_ID
    <3>1. id' = [id EXCEPT ![t] = nextId] /\ nextId' = nextId + 1
      BY Zenon, <1>1, <2>1 DEF spawn_task
    <3>2. nextId < SchedId
      BY <1>0, <2>1
    <3>3. IdInv'
      BY <1>0, <3>1, <3>2, Actors DEF IdInv
    <3>4. TaskIdsDistinct'
      <4> SUFFICES ASSUME NEW p \in Procs, NEW q \in Procs, id'[p] = id'[q], id'[p] # 0
                   PROVE  p = q
        BY Zenon DEF TaskIdsDistinct
      <4>1. \A r \in Procs : r # t => id'[r] = id[r] /\ id[r] # nextId
        BY <1>0, <3>1, <3>2, Actors DEF IdInv, Procs
      <4>2. id'[t] = nextId
        BY Zenon, <1>0, <3>1, Actors
      <4> QED
        BY Zenon, <4>1, <4>2 DEF TaskIdsDistinct
    <3> QED
      BY Zenon, <3>3, <3>4
  <2>2. CASE ~(nextId <= MAX_TASK_ID)
    <3>1. id' = id /\ nextId' = nextId + 1
      BY Zenon, <1>1, <2>2 DEF spawn_task
    <3>2. IdInv'
      BY <1>0, <3>1, Actors DEF IdInv
    <3> QED
      BY Zenon, <3>1, <3>2 DEF TaskIdsDistinct
  <2> QED
    BY Zenon, <2>1, <2>2
<1>2. ASSUME UNCHANGED ids PROVE IdInv' /\ TaskIdsDistinct'
  BY Zenon, <1>2 DEF ids, IdInv, TaskIdsDistinct
<1>3. [Next]_vars => UNCHANGED ids \/ \E t \in Tasks : spawn_task(t)
  BY Zenon DEF Next, SwitchStep, hlt_loop, vars, start_scheduler, TimerExpires, TimerInterrupt,
    preempt_task, preempt_scheduler, scheduler_jump_out, resume_scheduler_enter,
    resume_scheduler_requeue, run_scheduler_pop, run_scheduler_idle, trigger_local_us,
    resume_task, resume_pop_standard, resume_test_interrupted, resume_pop_gp, resume_iretq,
    yield_task, print_begin, print_end, alloc_begin, alloc_end, end_task
<1> QED
  BY Zenon, <1>1, <1>2, <1>3

-----------------------------------------------------------------------------
(* Who owns the CPU *)

(* The four ways a step may change the owner of the CPU or the queue; every   *)
(* other step leaves both alone.                                              *)
Stays     == UNCHANGED <<queue, id>> /\ Owner' = Owner /\ (pc = "panic" => pc' = "panic")
Joins(t)  == /\ id[t] = 0 /\ nextId # 0 /\ id' = [id EXCEPT ![t] = nextId]
             /\ queue' = Append(queue, t)
             /\ Owner = None /\ Owner' = None /\ pc # "panic"
TakesOver == /\ queue # <<>> /\ queue' = Tail(queue) /\ UNCHANGED id
             /\ Owner = None /\ Owner' = Head(queue) /\ pc # "panic"
Leaves    == /\ Owner \in Tasks /\ Owner' = None /\ pc # "panic"
             /\ queue' = Append(queue, Owner) /\ UNCHANGED id
Ends      == /\ Owner \in Tasks /\ Owner' = None /\ pc' = "panic"
             /\ UNCHANGED <<queue, id>>

(* A step moves at most one task, between the queue and the CPU. *)
LEMMA OwnerStep ==
  ASSUME IInv, [Next]_vars
  PROVE  Stays \/ (\E t \in Tasks : Joins(t)) \/ TakesOver \/ Leaves \/ Ends
<1>0. TypeOK /\ CpuInv /\ TickInv /\ FrameInv /\ SwitchInv /\ IdInv
  BY Zenon DEF IInv
<1> USE DEF ResumePCs, CodePCs
<1>1. ASSUME TimerInterrupt \/ preempt_scheduler PROVE Stays
  <2>1. At' = At /\ UNCHANGED <<stale, next, queue, id>> /\ pc # "panic"
    BY Zenon, <1>0, <1>1, AtKept DEF TimerInterrupt, preempt_scheduler, ptrs, infos, ids,
      Deliverable, CpuInv
  <2> QED
    BY Zenon, <2>1 DEF Stays, Owner
<1>2. ASSUME NEW t \in Tasks, spawn_task(t)
      PROVE  Stays \/ \E u \in Tasks : Joins(u)
  <2>1. Owner = None /\ Owner' = None
    BY Zenon, <1>2 DEF spawn_task, Owner, At
  <2>2. CASE nextId <= MAX_TASK_ID
    <3>1. nextId # 0
      BY <1>0, IdAssumption DEF IdInv, TypeOK, IdType
    <3> QED
      BY Zenon, <1>2, <2>1, <2>2, <3>1 DEF spawn_task, Push, Joins
  <2>3. CASE ~(nextId <= MAX_TASK_ID)
    BY Zenon, <1>2, <2>1, <2>3 DEF spawn_task, Stays
  <2> QED
    BY Zenon, <2>2, <2>3
<1>3. ASSUME preempt_task PROVE Stays
  <2>1. pc = "preempt" /\ Head(stack[rsp]).rip \in TaskPCs
    BY Zenon, <1>0, <1>3, Actors DEF preempt_task, CpuInv, IdInv, TypeOK, CpuType
  <2>2. Owner = stale
    BY Zenon, <2>1 DEF Owner, At, TaskPCs
  <2> QED
    BY Zenon, <1>3, <2>2 DEF preempt_task, Stays, Owner, At, infos, ids
<1>4. ASSUME start_scheduler \/ scheduler_jump_out PROVE Stays
  BY Zenon, <1>4 DEF start_scheduler, scheduler_jump_out, Stays, Owner, At, infos, ids
<1>5. ASSUME resume_scheduler_enter PROVE Stays
  BY Zenon, <1>5 DEF resume_scheduler_enter, Stays, Owner, At, ptrs, infos, ids
<1>6. ASSUME resume_scheduler_requeue PROVE Leaves
  <2>1. Owner = stale /\ stale \in Tasks
    BY Zenon, <1>0, <1>6 DEF resume_scheduler_requeue, Owner, At, SwitchInv
  <2> QED
    BY Zenon, <1>6, <2>1 DEF resume_scheduler_requeue, Push, Leaves, Owner, At, ids
<1>7. ASSUME run_scheduler_pop PROVE TakesOver
  BY Zenon, <1>7 DEF run_scheduler_pop, Pop, TakesOver, Owner, At, ids
<1>8. ASSUME run_scheduler_idle PROVE Stays
  BY Zenon, <1>8 DEF run_scheduler_idle, Stays, Owner, At, ptrs, infos, ids
<1>9. ASSUME trigger_local_us PROVE Stays
  BY Zenon, <1>9 DEF trigger_local_us, Stays, Owner, At, ptrs, infos, ids
<1>10. ASSUME resume_task PROVE Stays
  BY Zenon, <1>10 DEF resume_task, Stays, Owner, At, infos, ids
<1>11. ASSUME resume_pop_standard \/ resume_pop_gp PROVE Stays
  <2>1. pc' \in {"btr", "iret", "fault"} /\ pc \in {"pop_std", "pop_gp"}
    BY Zenon, <1>0, <1>11, PopTyped DEF resume_pop_standard, resume_pop_gp
  <2>2. UNCHANGED <<stale, queue, id>>
    BY Zenon, <1>11 DEF resume_pop_standard, resume_pop_gp, ptrs, infos, ids
  <2> QED
    BY Zenon, <2>1, <2>2 DEF Stays, Owner, At
<1>12. ASSUME resume_test_interrupted PROVE Stays
  BY Zenon, <1>12 DEF resume_test_interrupted, Stays, Owner, At, ptrs, ids
<1>13. ASSUME resume_iretq PROVE Stays
  <2>1. pc' \in TaskPCs /\ pc = "iret"
    BY Zenon, <1>0, <1>13, IretTarget DEF resume_iretq
  <2>2. UNCHANGED <<stale, queue, id>>
    BY Zenon, <1>13 DEF resume_iretq, ptrs, infos, ids
  <2> QED
    BY Zenon, <2>1, <2>2 DEF Stays, Owner, At, TaskPCs
<1>14. ASSUME NEW t \in Yielding, yield_task(t) PROVE Stays
  BY Zenon, <1>14 DEF yield_task, Stays, Owner, At, infos, ids
<1>15. ASSUME print_begin \/ print_end \/ alloc_end PROVE Stays
  BY Zenon, <1>15 DEF print_begin, print_end, alloc_end, Stays, Owner, At, ptrs, infos, ids
<1>16. ASSUME NEW t \in Allocating, alloc_begin(t) PROVE Stays
  BY Zenon, <1>16 DEF alloc_begin, Stays, Owner, At, ptrs, infos, ids
<1>17. ASSUME NEW t \in Returning, end_task(t) PROVE Ends
  <2>1. Owner = stale /\ stale \in Tasks
    BY Zenon, <1>0, <1>17 DEF end_task, Owner, At, CpuInv, TaskPCs
  <2> QED
    BY Zenon, <1>17, <2>1 DEF end_task, Ends, Owner, At, infos, ids
<1>18. ASSUME TimerExpires \/ UNCHANGED vars PROVE Stays
  BY Zenon, <1>18 DEF TimerExpires, Stays, Owner, At, vars, cpu, ptrs, infos, ids
<1>19. ASSUME SwitchStep PROVE Stays \/ TakesOver \/ Leaves
  BY Zenon, <1>1, <1>3, <1>4, <1>5, <1>6, <1>7, <1>8, <1>9, <1>10, <1>11, <1>12, <1>13, <1>19
  DEF SwitchStep
<1> HIDE DEF ResumePCs, CodePCs
<1> QED
  BY Zenon, <1>1, <1>2, <1>4, <1>14, <1>15, <1>16, <1>17, <1>18, <1>19
  DEF Next, hlt_loop

(* A task is queued or owns the CPU, and never both. *)
LEMMA OnceStep == IInv /\ [Next]_vars => EachTaskOnce'
<1> SUFFICES ASSUME IInv, [Next]_vars PROVE EachTaskOnce'
  BY Zenon
<1>0. /\ queue \in Seq(Tasks) /\ id \in [Procs -> 0..SchedId] /\ EachTaskOnce
      /\ Queued \subseteq Tasks
  BY DEF IInv, TypeOK, InfoType, IdType, Queued, Range
<1>1. CASE Stays
  <2>1. Queued' = Queued /\ IsInjective(queue')
    BY Zenon, <1>0, <1>1 DEF Stays, EachTaskOnce, Queued
  <2> QED
    BY Zenon, <1>0, <1>1, <2>1 DEF Stays, EachTaskOnce
<1>2. ASSUME NEW t \in Tasks, Joins(t) PROVE EachTaskOnce'
  <2>1. t \notin Queued
    BY Zenon, <1>0, <1>2, Actors DEF Joins, EachTaskOnce
  <2>2. Queued' = Queued \cup {t} /\ IsInjective(queue')
    BY <1>0, <1>2, <2>1, AppendQueue DEF Joins, Queued, EachTaskOnce
  <2>3. {u \in Tasks : id'[u] # 0} = {u \in Tasks : id[u] # 0} \cup {t}
    BY Zenon, <1>0, <1>2, Actors DEF Joins
  <2>4. None \notin Queued'
    BY Zenon, <1>0, <2>2, Actors
  <2> QED
    BY <1>0, <1>2, <2>2, <2>3, <2>4 DEF Joins, EachTaskOnce
<1>3. CASE TakesOver
  <2>1. /\ Queued' = Queued \ {Owner'} /\ Owner' \in Queued
        /\ IsInjective(queue')
    BY Zenon, <1>0, <1>3, TailQueue DEF TakesOver, Queued, EachTaskOnce
  <2> QED
    BY <1>0, <1>3, <2>1, Actors DEF TakesOver, EachTaskOnce
<1>4. CASE Leaves
  <2>1. Queued' = Queued \cup {Owner} /\ IsInjective(queue')
    BY <1>0, <1>4, AppendQueue DEF Leaves, Queued, EachTaskOnce
  <2> QED
    BY Zenon, <1>0, <1>4, <2>1, Actors DEF Leaves, EachTaskOnce
<1>5. CASE Ends
  BY Zenon, <1>0, <1>5, Actors DEF Ends, EachTaskOnce, Queued
<1> QED
  BY Zenon, <1>1, <1>2, <1>3, <1>4, <1>5, OwnerStep

(* resume_scheduler stores the stack of the task it requeues. *)
LEMMA SavedStep == IInv /\ [Next]_vars => SavedStackIsOwn'
<1> SUFFICES ASSUME TypeOK, SwitchInv, SavedStackIsOwn, [Next]_vars PROVE SavedStackIsOwn'
  BY Zenon DEF IInv
<1>0. sp \in [Tasks -> Tasks \cup {None}] /\ id \in [Procs -> 0..SchedId]
  BY Zenon DEF TypeOK, InfoType, IdType
<1>1. ASSUME NEW t \in Tasks, spawn_task(t) PROVE SavedStackIsOwn'
  BY <1>0, <1>1, Actors DEF spawn_task, SavedStackIsOwn
<1>2. ASSUME resume_scheduler_requeue PROVE SavedStackIsOwn'
  <2>1. stale \in Tasks /\ released = stale
    BY Zenon, <1>2 DEF resume_scheduler_requeue, SwitchInv, At
  <2> QED
    BY Zenon, <1>0, <1>2, <2>1 DEF resume_scheduler_requeue, SavedStackIsOwn, ids
<1>3. ASSUME UNCHANGED <<sp, id>> PROVE SavedStackIsOwn'
  BY Zenon, <1>3 DEF SavedStackIsOwn
<1>4. \/ UNCHANGED <<sp, id>> \/ resume_scheduler_requeue
      \/ \E t \in Tasks : spawn_task(t)
  BY ZenonT(30) DEF Next, SwitchStep, hlt_loop, vars, infos, ids, start_scheduler, TimerExpires,
    TimerInterrupt, preempt_task, preempt_scheduler, scheduler_jump_out,
    resume_scheduler_enter, run_scheduler_pop, run_scheduler_idle, trigger_local_us,
    resume_task, resume_pop_standard, resume_test_interrupted, resume_pop_gp, resume_iretq,
    yield_task, print_begin, print_end, alloc_begin, alloc_end, end_task
<1> QED
  BY Zenon, <1>1, <1>2, <1>3, <1>4

-----------------------------------------------------------------------------
(* Locks, slices and stacks *)

(* A print gives the serial lock back before interrupts come on again, so no  *)
(* switch leaves it held; without allocating tasks nobody takes the heap lock.*)
LEMMA LockStep == IInv /\ LockInv /\ [Next]_vars => LockInv'
<1> SUFFICES ASSUME TypeOK, CpuInv, FrameInv, IdInv, LockInv, [Next]_vars PROVE LockInv'
  BY Zenon DEF IInv
<1>0. holder \in [{"serial", "heap"} -> Tasks \cup {None}]
  BY Zenon DEF TypeOK, LockType
<1> USE DEF LockInv
<1>1. ASSUME TimerInterrupt \/ preempt_scheduler PROVE LockInv'
  <2>1. pc # "print" /\ pc' # "print" /\ holder' = holder
    <3>1. CASE TimerInterrupt
      BY Zenon, <3>1 DEF TimerInterrupt, Deliverable, CpuInv, locks
    <3>2. CASE preempt_scheduler
      <4>1. rsp = Sched
        BY <3>2, Actors, IdAssumption DEF preempt_scheduler, IdInv, SchedId, CpuInv, TypeOK,
          CpuType
      <4> QED
        BY Zenon, <3>2, <4>1 DEF preempt_scheduler, CpuInv, SchedRips, locks
    <3> QED
      BY Zenon, <1>1, <3>1, <3>2
  <2> QED
    BY Zenon, <2>1
<1>2. ASSUME NEW t \in Tasks, spawn_task(t) PROVE LockInv'
  BY Zenon, <1>2 DEF spawn_task, locks
<1>3. ASSUME \/ start_scheduler \/ scheduler_jump_out \/ preempt_task
             \/ resume_scheduler_enter \/ resume_scheduler_requeue
             \/ run_scheduler_pop \/ run_scheduler_idle \/ trigger_local_us
             \/ resume_task \/ resume_test_interrupted
      PROVE  LockInv'
  BY Zenon, <1>3
  DEF start_scheduler, scheduler_jump_out, preempt_task, resume_scheduler_enter,
      resume_scheduler_requeue, run_scheduler_pop, run_scheduler_idle, trigger_local_us,
      resume_task, resume_test_interrupted, locks
<1>4. ASSUME resume_pop_standard \/ resume_pop_gp PROVE LockInv'
  <2>1. pc' \in {"btr", "iret", "fault"} /\ pc \in {"pop_std", "pop_gp"}
    BY Zenon, <1>4, PopTyped DEF resume_pop_standard, resume_pop_gp
  <2>2. holder' = holder
    BY Zenon, <1>4 DEF resume_pop_standard, resume_pop_gp, locks
  <2> QED
    BY Zenon, <2>1, <2>2
<1>5. ASSUME resume_iretq PROVE LockInv'
  <2>1. pc = "iret" /\ holder' = holder
    BY Zenon, <1>5 DEF resume_iretq, locks
  <2>2. pc' # "print"
    BY Zenon, <1>5, IretTarget DEF ReturnPCs
  <2> QED
    BY Zenon, <2>1, <2>2
<1>6. ASSUME NEW t \in Tasks, yield_task(t) \/ end_task(t) PROVE LockInv'
  BY Zenon, <1>6 DEF yield_task, end_task, locks
<1>7. ASSUME print_begin \/ print_end \/ alloc_end PROVE LockInv'
  BY Zenon, <1>0, <1>7 DEF print_begin, print_end, alloc_end
<1>8. ASSUME NEW t \in Allocating, alloc_begin(t) PROVE LockInv'
  BY Zenon, <1>0, <1>8 DEF alloc_begin
<1>9. ASSUME TimerExpires \/ UNCHANGED vars PROVE LockInv'
  BY Zenon, <1>9 DEF TimerExpires, vars, cpu, locks
<1> QED
  BY Zenon, <1>1, <1>2, <1>3, <1>4, <1>5, <1>6, <1>7, <1>8, <1>9, Actors
  DEF Next, SwitchStep, hlt_loop

(* The slice armed just before resume_task is still counting when the task's  *)
(* code starts, and ends only there.                                          *)
LEMMA SliceStep == IInv /\ SliceInv /\ [Next]_vars => SliceInv'
<1> SUFFICES ASSUME TypeOK, CpuInv, TickInv, FrameInv, IdInv, SliceInv, [Next]_vars,
                    SliceOutlastsSwitch
             PROVE  SliceInv'
  BY Zenon DEF IInv, SliceInv
<1> USE DEF SliceInv, SwitchInPCs, ResumePCs, CodePCs
<1>0. /\ stack \in [Procs -> Seq(Frames)] /\ rsp \in Procs /\ stack[rsp] \in Seq(Frames)
      /\ ifl \in BOOLEAN /\ pc \in PCs
  BY Zenon DEF TypeOK, CpuType
<1>1. ASSUME TimerInterrupt PROVE SliceInv'
  <2>1. /\ stack' = [stack EXCEPT ![rsp] = <<Isf(pc, ifl)>> \o stack[rsp]]
        /\ pc' = "preempt" /\ rsp' = rsp /\ irr
    BY Zenon, <1>1 DEF TimerInterrupt, Deliverable
  <2>2. Isf(pc, ifl) \in Frames
    BY Zenon, <1>0, FramesTyped
  <2>3. Head(stack'[rsp]).rip = pc
    BY <1>0, <2>1, <2>2, PushOne DEF Isf
  <2>4. pc \notin SwitchInPCs
    BY Zenon, <2>1 DEF TickInv
  <2> QED
    BY Zenon, <2>1, <2>3, <2>4
<1>2. ASSUME preempt_scheduler PROVE SliceInv'
  <2>1. rsp = Sched
    BY SMTT(30),
       <1>0, <1>2, Actors, IdAssumption DEF preempt_scheduler, IdInv, SchedId, CpuInv
  <2>2. pc' \in SchedRips /\ pc' \notin SwitchInPCs
    BY Zenon, <1>2, <2>1 DEF preempt_scheduler, CpuInv
  <2> QED
    BY Zenon, <2>2 DEF SchedRips
<1>3. ASSUME NEW t \in Tasks, spawn_task(t) PROVE SliceInv'
  BY Zenon, <1>3 DEF spawn_task, lapic
<1>4. ASSUME \/ start_scheduler \/ scheduler_jump_out \/ preempt_task
             \/ resume_scheduler_enter \/ resume_scheduler_requeue
             \/ run_scheduler_pop \/ run_scheduler_idle \/ trigger_local_us
             \/ resume_task \/ resume_test_interrupted
      PROVE  SliceInv'
  BY Zenon, <1>4
  DEF start_scheduler, scheduler_jump_out, preempt_task, resume_scheduler_enter,
      resume_scheduler_requeue, run_scheduler_pop, run_scheduler_idle, trigger_local_us,
      resume_task, resume_test_interrupted, lapic
<1>5. ASSUME resume_pop_standard \/ resume_pop_gp PROVE SliceInv'
  <2>1. pc' \in {"btr", "iret", "fault"} /\ pc \in {"pop_std", "pop_gp"}
    BY Zenon, <1>5, PopTyped DEF resume_pop_standard, resume_pop_gp
  <2>2. timer' = timer /\ irr' = irr
    BY Zenon, <1>5 DEF resume_pop_standard, resume_pop_gp, lapic
  <2> QED
    BY Zenon, <2>1, <2>2
<1>6. ASSUME resume_iretq PROVE SliceInv'
  <2>1. pc = "iret" /\ timer' = timer
    BY Zenon, <1>6 DEF resume_iretq, lapic
  <2>2. pc' # "preempt"
    BY Zenon, <1>6, IretTarget DEF TaskPCs
  <2> QED
    BY Zenon, <2>1, <2>2
<1>7. ASSUME NEW t \in Tasks, yield_task(t) \/ end_task(t) \/ alloc_begin(t)
      PROVE  SliceInv'
  BY Zenon, <1>7 DEF yield_task, end_task, alloc_begin, lapic
<1>8. ASSUME print_begin \/ print_end \/ alloc_end PROVE SliceInv'
  BY Zenon, <1>8 DEF print_begin, print_end, alloc_end, lapic
<1>9. ASSUME TimerExpires PROVE SliceInv'
  BY Zenon, <1>9 DEF TimerExpires, cpu
<1>10. ASSUME UNCHANGED vars PROVE SliceInv'
  BY Zenon, <1>10 DEF vars, cpu, lapic
<1> QED
  BY Zenon, <1>1, <1>2, <1>3, <1>4, <1>5, <1>6, <1>7, <1>8, <1>9, <1>10, Actors
  DEF Next, SwitchStep, hlt_loop

(* Giving up the CPU leaves the frames that the ResumedState names. *)
LEMMA SaveLayouts ==
  ASSUME NEW s \in Seq(Frames), NEW f \in BOOLEAN
  PROVE  /\ SavedAs(<<Std, Isf("task", f)>>, "Yielded")
         /\ s = <<>> => SavedAs(<<Std, Isf("task", f)>> \o s, "Yielded")
         /\ ReturnsBy(s, "Yielded") => SavedAs(<<Std, Gp(f)>> \o s, "Preempted")
         /\ s = <<>> => \A p \in CodePCs : ReturnsBy(<<Isf(p, f)>> \o s, "Yielded")
<1>0. "task" \in CodePCs /\ CodePCs \subseteq PCs
  BY Zenon DEF CodePCs, PCs
<1>1. Std.kind = "std" /\ Gp(f).kind = "gp" /\ \A p \in CodePCs : ToCode(Isf(p, f))
  BY Zenon DEF Std, Gp, Isf, ToCode
<1>2. Std \in Frames /\ Gp(f) \in Frames /\ \A p \in CodePCs : Isf(p, f) \in Frames
  BY Zenon, <1>0, FramesTyped
<1>3. SavedAs(<<Std, Isf("task", f)>>, "Yielded")
  BY Zenon, <1>0, <1>1 DEF SavedAs
<1>4. s = <<>> => SavedAs(<<Std, Isf("task", f)>> \o s, "Yielded")
  <2> SUFFICES ASSUME s = <<>> PROVE SavedAs(<<Std, Isf("task", f)>> \o s, "Yielded")
    BY Zenon
  <2>1. Isf("task", f) \in Frames /\ Len(s) = 0
    BY Zenon, <1>0, <1>2
  <2> DEFINE r == <<Std, Isf("task", f)>> \o s
  <2>2. Len(r) = 2 /\ r[1] = Std /\ r[2] = Isf("task", f)
    BY SMTT(30), <1>2, <2>1, PushTwo
  <2> HIDE DEF r
  <2>3. SavedAs(r, "Yielded")
    BY Zenon, <1>0, <1>1, <2>2 DEF SavedAs
  <2> QED
    BY Zenon, <2>3 DEF r
<1>5. ReturnsBy(s, "Yielded") => SavedAs(<<Std, Gp(f)>> \o s, "Preempted")
  <2> SUFFICES ASSUME ReturnsBy(s, "Yielded") PROVE SavedAs(<<Std, Gp(f)>> \o s, "Preempted")
    BY Zenon
  <2>1. Len(s) = 1 /\ ToCode(s[1])
    BY Zenon DEF ReturnsBy
  <2> DEFINE r == <<Std, Gp(f)>> \o s
  <2>2. Len(r) = 3 /\ r[1] = Std /\ r[2] = Gp(f) /\ r[3] = s[1]
    <3>1. /\ Len(r) = Len(s) + 2
          /\ \A i \in 1..Len(s) + 2 :
               r[i] = IF i = 1 THEN Std ELSE IF i = 2 THEN Gp(f) ELSE s[i - 2]
      BY <1>2, PushTwo
    <3> HIDE DEF r
    <3>2. \A i \in 1..3 : r[i] = IF i = 1 THEN Std ELSE IF i = 2 THEN Gp(f) ELSE s[i - 2]
      BY <2>1, <3>1
    <3> QED
      BY <2>1, <3>1, <3>2
  <2> HIDE DEF r
  <2>3. SavedAs(r, "Preempted")
    BY Zenon, <1>1, <2>1, <2>2 DEF SavedAs
  <2> QED
    BY Zenon, <2>3 DEF r
<1>6. ASSUME s = <<>>, NEW p \in CodePCs PROVE ReturnsBy(<<Isf(p, f)>> \o s, "Yielded")
  <2>1. Isf(p, f) \in Frames /\ Len(s) = 0
    BY Zenon, <1>2, <1>6
  <2> DEFINE r == <<Isf(p, f)>> \o s
  <2>2. Len(r) = 1 /\ r[1] = Isf(p, f)
    BY <2>1, PushOne
  <2> HIDE DEF r
  <2>3. ReturnsBy(r, "Yielded")
    BY Zenon, <1>1, <2>2 DEF ReturnsBy
  <2> QED
    BY Zenon, <2>3 DEF r
<1> QED
  BY Zenon, <1>3, <1>4, <1>5, <1>6

(* Each pop of resume_task finds the frame it is for, and the iretq leads     *)
(* into the task's own code.                                                  *)
LEMMA PopLayouts ==
  ASSUME NEW s \in Seq(Frames)
  PROVE  /\ \A how \in {"Yielded", "Preempted"} : SavedAs(s, how) =>
              s # <<>> /\ Head(s).kind = "std" /\ ReturnsBy(Tail(s), how)
         /\ ReturnsBy(s, "Preempted") =>
              s # <<>> /\ Head(s).kind = "gp" /\ ReturnsBy(Tail(s), "Yielded")
         /\ ReturnsBy(s, "Yielded") => s # <<>> /\ ToCode(Head(s)) /\ Tail(s) = <<>>
<1>0. Len(s) \in Nat /\ (Len(s) # 0 => s # <<>> /\ Head(s) = s[1])
  OBVIOUS
<1>1. s # <<>> => /\ Len(Tail(s)) = Len(s) - 1
                  /\ \A i \in 1..Len(s) - 1 : Tail(s)[i] = s[i + 1]
  OBVIOUS
<1>2. ASSUME NEW how \in {"Yielded", "Preempted"}, SavedAs(s, how)
      PROVE  s # <<>> /\ Head(s).kind = "std" /\ ReturnsBy(Tail(s), how)
  <2>1. s # <<>> /\ Head(s).kind = "std" /\ Len(Tail(s)) = Len(s) - 1
    BY <1>0, <1>1, <1>2 DEF SavedAs
  <2>2. Tail(s)[1] = s[2] /\ (Len(s) = 3 => Tail(s)[2] = s[3])
    BY <1>0, <1>1, <1>2, <2>1 DEF SavedAs
  <2> QED
    BY <1>2, <2>1, <2>2 DEF SavedAs, ReturnsBy
<1>3. ASSUME ReturnsBy(s, "Preempted")
      PROVE  s # <<>> /\ Head(s).kind = "gp" /\ ReturnsBy(Tail(s), "Yielded")
  <2>1. s # <<>> /\ Head(s).kind = "gp" /\ Len(Tail(s)) = 1 /\ Tail(s)[1] = s[2]
    <3>1. Len(s) = 2 /\ s[1].kind = "gp"
      BY Zenon, <1>3 DEF ReturnsBy
    <3>2. s # <<>> /\ Head(s).kind = "gp" /\ Len(Tail(s)) = 1
      BY <1>0, <1>1, <3>1
    <3>3. Tail(s)[1] = s[2]
      BY <1>1, <3>1, <3>2
    <3> QED
      BY Zenon, <3>2, <3>3
  <2> QED
    BY Zenon, <1>3, <2>1 DEF ReturnsBy
<1>4. ASSUME ReturnsBy(s, "Yielded") PROVE s # <<>> /\ ToCode(Head(s)) /\ Tail(s) = <<>>
  <2>1. s # <<>> /\ Len(s) = 1 /\ ToCode(Head(s)) /\ Len(Tail(s)) = 0
    BY <1>0, <1>1, <1>4 DEF ReturnsBy
  <2>2. Tail(s) \in Seq(Frames)
    BY <2>1
  <2> QED
    BY Zenon, <2>1, <2>2, EmptySeq
<1> QED
  BY Zenon, <1>2, <1>3, <1>4

(* No step touches the stack or the flag of a task in the queue. *)
LEMMA QueuedKept ==
  ASSUME IInv, [Next]_vars, NEW t \in Queued
  PROVE  stack'[t] = stack[t] /\ Flag(t)' = Flag(t)
<1>0. /\ TypeOK /\ CpuInv /\ TickInv /\ SwitchInv /\ IdInv /\ EachTaskOnce
      /\ stack \in [Procs -> Seq(Frames)] /\ t \in Tasks /\ t \in Procs /\ t # Sched
      /\ rsp \in Procs
  BY SMTT(30), Actors DEF IInv, TypeOK, CpuType, InfoType, Queued, Range
<1>1. pc \in TaskPCs \cup SchedRips \cup {"preempt"} => t # rsp
  <2>1. CASE pc \in TaskPCs
    <3>1. Owner = rsp
      BY Zenon, <1>0, <2>1 DEF Owner, At, TaskPCs, ResumePCs, CodePCs, CpuInv
    <3> QED
      BY Zenon, <1>0, <3>1 DEF EachTaskOnce
  <2>2. CASE pc = "preempt" /\ rsp # Sched
    <3>1. At \in TaskPCs /\ stale = rsp
      BY Zenon, <1>0, <2>2 DEF At, CpuInv
    <3>2. Owner = rsp
      BY Zenon, <3>1 DEF Owner, TaskPCs, ResumePCs, CodePCs
    <3> QED
      BY Zenon, <1>0, <3>2 DEF EachTaskOnce
  <2>3. CASE pc \in SchedRips
    BY Zenon, <1>0, <2>3 DEF CpuInv
  <2> QED
    BY Zenon, <1>0, <2>1, <2>2, <2>3
<1> USE DEF TaskPCs, ResumePCs, CodePCs, SchedRips
<1>2. ASSUME NEW k, NEW p, NEW f, PopFrame(k, p, f), pc \in ResumePCs
      PROVE  stack'[t] = stack[t]
  <2>1. stack' = stack \/ stack' = [stack EXCEPT ![rsp] = Tail(stack[rsp])]
    BY Zenon, <1>0, <1>2, PopTyped
  <2> QED
    BY Zenon, <1>0, <1>1, <1>2, <2>1
<1>3. ASSUME NEW u \in Tasks, spawn_task(u) PROVE stack'[t] = stack[t] /\ flagged' = flagged
  <2>1. t \in (Queued \cup {Owner}) \ {None} /\ pc # "panic"
    BY Zenon, <1>0, <1>3, Actors DEF spawn_task
  <2>2. id[t] # 0
    BY Zenon, <1>0, <2>1 DEF EachTaskOnce
  <2> QED
    BY Zenon, <1>0, <1>3, <2>2 DEF spawn_task
<1>4. ASSUME TimerInterrupt PROVE stack'[t] = stack[t] /\ flagged' = flagged
  <2>1. pc \in TaskPCs \cup SchedRips
    BY Zenon, 
       <1>0, <1>4 DEF TimerInterrupt, Deliverable, TypeOK, CpuType, PCs, SchedPCs, CpuInv,
      TickInv
  <2> QED
    BY Zenon, <1>0, <1>1, <1>4, <2>1 DEF TimerInterrupt, infos
<1>5. ASSUME preempt_task \/ preempt_scheduler PROVE stack'[t] = stack[t] /\ flagged' = flagged
  BY Zenon, <1>0, <1>1, <1>5 DEF preempt_task, preempt_scheduler, infos
<1>6. ASSUME \/ start_scheduler \/ scheduler_jump_out \/ resume_scheduler_enter
             \/ run_scheduler_pop \/ run_scheduler_idle \/ trigger_local_us
             \/ resume_task \/ print_begin \/ print_end \/ alloc_end
      PROVE  stack'[t] = stack[t] /\ flagged' = flagged
  BY ZenonT(30), <1>6
  DEF start_scheduler, scheduler_jump_out, resume_scheduler_enter, run_scheduler_pop,
      run_scheduler_idle, trigger_local_us, resume_task, print_begin, print_end, alloc_end,
      infos
<1>7. ASSUME resume_pop_standard \/ resume_pop_gp \/ resume_iretq
      PROVE  stack'[t] = stack[t] /\ flagged' = flagged
  BY Zenon, <1>2, <1>7 DEF resume_pop_standard, resume_pop_gp, resume_iretq, infos
<1>8. ASSUME resume_scheduler_requeue
      PROVE  stack'[t] = stack[t] /\ (t \in flagged' <=> t \in flagged)
  <2>1. Owner = stale
    BY Zenon, <1>8 DEF resume_scheduler_requeue, Owner, At
  <2>2. t # stale
    BY Zenon, <1>0, <2>1 DEF EachTaskOnce
  <2> QED
    BY Zenon, <1>8, <2>2 DEF resume_scheduler_requeue
<1>9. ASSUME resume_test_interrupted
      PROVE  stack'[t] = stack[t] /\ (t \in flagged' <=> t \in flagged)
  BY Zenon, <1>0, <1>1, <1>9 DEF resume_test_interrupted, CpuInv
<1>10. ASSUME NEW u \in Tasks, yield_task(u) PROVE stack'[t] = stack[t] /\ flagged' = flagged
  BY Zenon, <1>0, <1>1, <1>10 DEF yield_task, infos
<1>11. ASSUME NEW u \in Tasks, alloc_begin(u) \/ end_task(u)
       PROVE  stack'[t] = stack[t] /\ flagged' = flagged
  BY Zenon, <1>11 DEF alloc_begin, end_task, infos
<1>12. ASSUME TimerExpires \/ UNCHANGED vars PROVE stack'[t] = stack[t] /\ flagged' = flagged
  BY Zenon, <1>12 DEF TimerExpires, vars, cpu, infos
<1> HIDE DEF TaskPCs, ResumePCs, CodePCs, SchedRips
<1>13. stack'[t] = stack[t] /\ (t \in flagged' <=> t \in flagged)
  BY Zenon, <1>3, <1>4, <1>5, <1>6, <1>7, <1>8, <1>9, <1>10, <1>11, <1>12, Actors
  DEF Next, SwitchStep, hlt_loop
<1> QED
  BY Zenon, <1>13 DEF Flag

(* resume_scheduler records in INTERRUPTED the ResumedState the task gave the  *)
(* CPU up with, and spawn_task lays out a stack that yielded.                  *)
LEMMA QueuedStep ==
  ASSUME IInv, QueuedStacks, OwnerStack, [Next]_vars
  PROVE  QueuedStacks'
<1>0. /\ TypeOK /\ SwitchInv /\ EachTaskOnce /\ queue \in Seq(Tasks)
      /\ stack \in [Procs -> Seq(Frames)] /\ ifl \in BOOLEAN
      /\ kind \in {"Yielded", "Preempted"}
  BY Zenon DEF IInv, TypeOK, CpuType, InfoType, PtrType
<1>1. ASSUME NEW t \in Queued PROVE SavedAs(stack'[t], Flag(t)')
  BY Zenon, <1>1, QueuedKept DEF QueuedStacks
<1>2. ASSUME Queued' \subseteq Queued PROVE QueuedStacks'
  BY Zenon, <1>1, <1>2 DEF QueuedStacks
<1>3. ASSUME NEW u \in Tasks, spawn_task(u) PROVE QueuedStacks'
  <2>1. CASE nextId <= MAX_TASK_ID
    <3>1. Queued' = Queued \cup {u}
      <4>1. queue' = Append(queue, u)
        BY Zenon, <1>3, <2>1 DEF spawn_task, Push
      <4> QED
        BY <1>0, <4>1, AppendQueue DEF Queued
    <3>2. stack'[u] = <<Std, Isf("task", ifl)>> /\ u \notin flagged'
      BY Zenon, <1>0, <1>3, <2>1, Actors DEF spawn_task, OwnerStack
    <3>3. <<>> \in Seq(Frames)
      BY Zenon, EmptySeq
    <3>4. SavedAs(<<Std, Isf("task", ifl)>>, "Yielded")
      BY ZenonT(30), <1>0, <3>3, SaveLayouts
    <3>5. SavedAs(stack'[u], IF u \in flagged' THEN "Preempted" ELSE "Yielded")
      BY Zenon, <3>2, <3>4
    <3> QED
      BY Zenon, <1>1, <3>1, <3>5 DEF QueuedStacks, Flag
  <2>2. CASE ~(nextId <= MAX_TASK_ID)
    BY Zenon, <1>2, <1>3, <2>2 DEF spawn_task, Queued
  <2> QED
    BY Zenon, <2>1, <2>2
<1>4. ASSUME resume_scheduler_requeue PROVE QueuedStacks'
  <2>1. stale \in Tasks /\ stale \notin flagged /\ SavedAs(stack[stale], kind)
    BY Zenon, <1>0, <1>4 DEF resume_scheduler_requeue, At, SwitchInv, OwnerStack
  <2>2. Queued' = Queued \cup {stale}
    BY <1>0, <1>4, <2>1, AppendQueue DEF resume_scheduler_requeue, Push, Queued
  <2>3. stack' = stack /\ Flag(stale)' = kind /\ stale' = stale
    BY Zenon, <1>0, <1>4, <2>1 DEF resume_scheduler_requeue, Flag, ptrs
  <2>4. SavedAs(stack'[stale], IF stale \in flagged' THEN "Preempted" ELSE "Yielded")
    BY Zenon, <2>1, <2>3 DEF Flag
  <2> QED
    BY Zenon, <1>1, <2>2, <2>4 DEF QueuedStacks, Flag
<1>5. ASSUME run_scheduler_pop PROVE QueuedStacks'
  <2>1. Queued' \subseteq Queued
    BY ZenonT(30), <1>0, <1>5, TailQueue DEF run_scheduler_pop, Pop, Queued, EachTaskOnce
  <2> QED
    BY Zenon, <1>2, <2>1
<1>6. ASSUME queue' = queue PROVE QueuedStacks'
  BY Zenon, <1>2, <1>6 DEF Queued
<1>7. \/ queue' = queue \/ resume_scheduler_requeue \/ run_scheduler_pop
      \/ \E u \in Tasks : spawn_task(u)
  BY Zenon DEF Next, SwitchStep, hlt_loop, vars, infos, start_scheduler, TimerExpires,
    TimerInterrupt, preempt_task, preempt_scheduler, scheduler_jump_out,
    resume_scheduler_enter, run_scheduler_idle, trigger_local_us, resume_task,
    resume_pop_standard, resume_test_interrupted, resume_pop_gp, resume_iretq,
    yield_task, print_begin, print_end, alloc_begin, alloc_end, end_task
<1> QED
  BY Zenon, <1>3, <1>4, <1>5, <1>6, <1>7

(* A slice that outlasts the switch: the interrupt finds a task in its own    *)
(* code with nothing on its stack, and every pop finds the frame it is for.   *)
LEMMA OwnerStackStep ==
  ASSUME IInv, SliceInv, QueuedStacks, OwnerStack, SliceOutlastsSwitch, [Next]_vars
  PROVE  OwnerStack'
<1>0. /\ TypeOK /\ CpuInv /\ TickInv /\ SwitchInv /\ IdInv /\ EachTaskOnce
      /\ SavedStackIsOwn
      /\ stack \in [Procs -> Seq(Frames)] /\ rsp \in Procs /\ stack[rsp] \in Seq(Frames)
      /\ ifl \in BOOLEAN /\ pc \in PCs /\ queue \in Seq(Tasks)
  BY Zenon DEF IInv, TypeOK, CpuType, InfoType
<1>1. ASSUME NEW t \in Tasks, spawn_task(t) PROVE OwnerStack'
  BY Zenon, <1>1 DEF spawn_task, OwnerStack, At, CodePCs
<1>2. ASSUME start_scheduler PROVE OwnerStack'
  BY ZenonT(30), <1>2 DEF start_scheduler, OwnerStack, At, CodePCs
<1>3. ASSUME TimerExpires \/ UNCHANGED vars PROVE OwnerStack'
  BY ZenonT(30), <1>3 DEF TimerExpires, OwnerStack, At, Flag, vars, cpu, ptrs, infos
<1>4. ASSUME TimerInterrupt PROVE OwnerStack'
  <2>1. /\ stack' = [stack EXCEPT ![rsp] = <<Isf(pc, ifl)>> \o stack[rsp]]
        /\ pc' = "preempt" /\ rsp' = rsp /\ irr /\ ifl /\ ~isr /\ flagged' = flagged
        /\ next' = next /\ stale' = stale /\ kind' = kind
    BY Zenon, <1>4 DEF TimerInterrupt, Deliverable, ptrs, infos
  <2>2. At' = At
    BY Zenon, <1>0, <1>4, AtKept
  <2>3. CASE rsp = Sched
    <3>1. \A t \in Tasks : stack'[t] = stack[t]
      BY Zenon, <1>0, <2>1, <2>3, Actors
    <3>2. At \in {"arm", "switch"} => SavedAs(stack'[next], Flag(next)')
      BY ZenonT(30), <1>0, <2>1, <3>1 DEF OwnerStack, SwitchInv, Flag
    <3>3. At \in {"jump_out", "rs", "requeue"} =>
            stale \notin flagged /\ SavedAs(stack'[stale], kind)
      BY Zenon, <1>0, <3>1 DEF OwnerStack, SwitchInv
    <3> QED
      BY Zenon, <2>1, <2>2, <2>3, <3>2, <3>3 DEF OwnerStack, CodePCs, Flag
  <2>4. CASE rsp # Sched
    <3>1. pc \in CodePCs
      BY Zenon, <1>0, <2>1, <2>4
      DEF SliceInv, SwitchInPCs, TickInv, CpuInv, OwnerStack, PCs, SchedPCs, SchedRips
    <3>2. rsp \notin flagged /\ stack[rsp] = <<>>
      BY Zenon, <3>1 DEF OwnerStack
    <3>3. ReturnsBy(<<Isf(pc, ifl)>> \o stack[rsp], "Yielded")
      BY Zenon, <1>0, <3>1, <3>2, SaveLayouts
    <3>4. ReturnsBy(stack'[rsp], "Yielded")
      BY Zenon, <1>0, <2>1, <3>3
    <3>5. At \in CodePCs
      BY Zenon, <3>1 DEF At, CodePCs
    <3> QED
      BY Zenon, <2>1, <2>2, <3>2, <3>4, <3>5 DEF OwnerStack, CodePCs
  <2> QED
    BY Zenon, <2>3, <2>4
<1>5. ASSUME preempt_task PROVE OwnerStack'
  <2>1. rsp \in Tasks /\ rsp # Sched /\ stale = rsp /\ pc = "preempt"
    BY Zenon, <1>0, <1>5, Actors DEF preempt_task, CpuInv, IdInv
  <2>2. rsp \notin flagged /\ ReturnsBy(stack[rsp], "Yielded")
    BY Zenon, <2>1 DEF OwnerStack
  <2>3. SavedAs(<<Std, Gp(ifl)>> \o stack[rsp], "Preempted")
    BY Zenon, <1>0, <2>2, SaveLayouts
  <2>4. /\ stack' = [stack EXCEPT ![rsp] = <<Std, Gp(ifl)>> \o stack[rsp]]
        /\ kind' = "Preempted" /\ stale' = stale /\ flagged' = flagged /\ pc' = "jump_out"
    BY Zenon, <1>5 DEF preempt_task, infos
  <2>5. SavedAs(stack'[stale'], kind') /\ stale' \notin flagged'
    BY Zenon, <1>0, <2>1, <2>2, <2>3, <2>4
  <2> QED
    BY Zenon, <2>4, <2>5 DEF OwnerStack, At, CodePCs
<1>6. ASSUME preempt_scheduler PROVE OwnerStack'
  <2>1. rsp = Sched
    BY SMTT(30),
       <1>0, <1>6, Actors, IdAssumption DEF preempt_scheduler, IdInv, SchedId, CpuInv
  <2>2. pc' \in SchedRips
    BY Zenon, <1>6, <1>0, <2>1 DEF preempt_scheduler, CpuInv
  <2>3. /\ stack' = [stack EXCEPT ![rsp] = Tail(stack[rsp])] /\ flagged' = flagged
        /\ next' = next /\ stale' = stale /\ kind' = kind
    BY Zenon, <1>6 DEF preempt_scheduler, ptrs, infos
  <2>4. At' = At
    BY Zenon, <1>0, <1>6, AtKept
  <2>5. \A t \in Tasks : stack'[t] = stack[t]
    BY Zenon, <1>0, <2>1, <2>3, Actors
  <2>6. At \in {"arm", "switch"} => SavedAs(stack'[next], Flag(next)')
    BY Zenon, <1>0, <2>3, <2>5 DEF OwnerStack, SwitchInv, Flag
  <2>7. At \in {"jump_out", "rs", "requeue"} =>
          stale \notin flagged /\ SavedAs(stack'[stale], kind)
    BY Zenon, <1>0, <2>5 DEF OwnerStack, SwitchInv
  <2> QED
    BY Zenon, <2>2, <2>3, <2>4, <2>6, <2>7 DEF OwnerStack, SchedRips, CodePCs, Flag
<1>7. ASSUME scheduler_jump_out \/ resume_scheduler_enter PROVE OwnerStack'
  <2>1. /\ pc \in {"jump_out", "rs"} /\ pc' \in {"rs", "requeue"}
        /\ stack' = stack /\ flagged' = flagged /\ stale' = stale /\ kind' = kind
    BY Zenon, <1>7 DEF scheduler_jump_out, resume_scheduler_enter, ptrs, infos
  <2> QED
    BY Zenon, <2>1 DEF OwnerStack, At, CodePCs
<1>8. ASSUME resume_scheduler_requeue \/ run_scheduler_idle PROVE OwnerStack'
  <2>1. pc' \in {"run", "idle"}
    BY Zenon, <1>8 DEF resume_scheduler_requeue, run_scheduler_idle
  <2> QED
    BY Zenon, <2>1 DEF OwnerStack, At, CodePCs
<1>9. ASSUME run_scheduler_pop PROVE OwnerStack'
  <2>1. /\ pc' = "arm" /\ next' = Head(queue) /\ stack' = stack /\ flagged' = flagged
        /\ queue # <<>>
    BY Zenon, <1>9 DEF run_scheduler_pop
  <2>2. next' \in Queued
    BY Zenon, <1>0, <2>1, TailQueue DEF EachTaskOnce, Queued
  <2>3. SavedAs(stack'[next'], Flag(next'))
    BY Zenon, <2>1, <2>2 DEF QueuedStacks
  <2> QED
    BY Zenon, <2>1, <2>3 DEF OwnerStack, At, CodePCs, Flag
<1>10. ASSUME trigger_local_us PROVE OwnerStack'
  <2>1. /\ pc = "arm" /\ pc' = "switch" /\ stack' = stack /\ flagged' = flagged
        /\ next' = next
    BY Zenon, <1>10 DEF trigger_local_us, ptrs, infos
  <2> QED
    BY Zenon, <2>1 DEF OwnerStack, At, CodePCs, Flag
<1>11. ASSUME resume_task PROVE OwnerStack'
  <2>1. next \in Tasks /\ At = "switch" /\ pc # "panic"
    BY Zenon, <1>0, <1>11 DEF resume_task, SwitchInv, At
  <2>2. Owner = next
    BY Zenon, <2>1 DEF Owner
  <2>3. sp[next] = next
    BY Zenon, <1>0, <2>1, <2>2, Actors DEF SavedStackIsOwn, EachTaskOnce
  <2>4. rsp' = next /\ pc' = "pop_std" /\ stack' = stack /\ flagged' = flagged
    BY Zenon, <1>11, <2>3 DEF resume_task, infos
  <2>5. SavedAs(stack[next], Flag(next))
    BY ZenonT(30), <2>1 DEF OwnerStack
  <2> QED
    BY Zenon, <2>4, <2>5 DEF OwnerStack, At, CodePCs, Flag
<1>12. ASSUME resume_pop_standard PROVE OwnerStack'
  <2>1. /\ PopFrame("std", "btr", ifl) /\ pc = "pop_std" /\ rsp' = rsp /\ flagged' = flagged
    BY Zenon, <1>12 DEF resume_pop_standard, infos
  <2>2. Flag(rsp) \in {"Yielded", "Preempted"} /\ SavedAs(stack[rsp], Flag(rsp))
    BY Zenon, <2>1 DEF OwnerStack, Flag
  <2>3. /\ stack[rsp] # <<>> /\ Head(stack[rsp]).kind = "std"
        /\ ReturnsBy(Tail(stack[rsp]), Flag(rsp))
    BY Zenon, <1>0, <2>2, PopLayouts
  <2>4. pc' = "btr" /\ stack' = [stack EXCEPT ![rsp] = Tail(stack[rsp])]
    BY Zenon, <2>1, <2>3 DEF PopFrame
  <2>5. ReturnsBy(stack'[rsp'], Flag(rsp))
    BY Zenon, <1>0, <2>1, <2>3, <2>4
  <2> QED
    BY Zenon, <2>1, <2>4, <2>5 DEF OwnerStack, At, CodePCs, Flag
<1>13. ASSUME resume_test_interrupted PROVE OwnerStack'
  <2>1. /\ pc = "btr" /\ cur = rsp /\ rsp' = rsp /\ stack' = stack
        /\ flagged' = flagged \ {rsp} /\ pc' = IF rsp \in flagged THEN "pop_gp" ELSE "iret"
    BY Zenon, <1>0, <1>13 DEF resume_test_interrupted, CpuInv, TaskPCs, ResumePCs
  <2>2. ReturnsBy(stack[rsp], Flag(rsp))
    BY Zenon, <2>1 DEF OwnerStack
  <2>3. CASE rsp \in flagged
    BY ZenonT(30), <2>1, <2>2, <2>3 DEF OwnerStack, At, CodePCs, Flag
  <2>4. CASE rsp \notin flagged
    BY ZenonT(30), <2>1, <2>2, <2>4 DEF OwnerStack, At, CodePCs, Flag
  <2> QED
    BY Zenon, <2>3, <2>4
<1>14. ASSUME resume_pop_gp PROVE OwnerStack'
  <2>1. /\ PopFrame("gp", "iret", Head(stack[rsp]).ifl) /\ pc = "pop_gp" /\ rsp' = rsp
        /\ flagged' = flagged
    BY ZenonT(30), <1>14 DEF resume_pop_gp, infos
  <2>2. rsp \notin flagged /\ ReturnsBy(stack[rsp], "Preempted")
    BY Zenon, <2>1 DEF OwnerStack
  <2>3. /\ stack[rsp] # <<>> /\ Head(stack[rsp]).kind = "gp"
        /\ ReturnsBy(Tail(stack[rsp]), "Yielded")
    BY Zenon, <1>0, <2>2, PopLayouts
  <2>4. pc' = "iret" /\ stack' = [stack EXCEPT ![rsp] = Tail(stack[rsp])]
    BY Zenon, <2>1, <2>3 DEF PopFrame
  <2>5. ReturnsBy(stack'[rsp'], "Yielded")
    BY Zenon, <1>0, <2>1, <2>3, <2>4
  <2> QED
    BY Zenon, <2>1, <2>2, <2>4, <2>5 DEF OwnerStack, At, CodePCs
<1>15. ASSUME resume_iretq PROVE OwnerStack'
  <2>1. /\ PopFrame("isf", Head(stack[rsp]).rip, Head(stack[rsp]).ifl) /\ pc = "iret"
        /\ rsp' = rsp /\ flagged' = flagged
    BY Zenon, <1>15 DEF resume_iretq, infos
  <2>2. rsp \notin flagged /\ ReturnsBy(stack[rsp], "Yielded")
    BY Zenon, <2>1 DEF OwnerStack
  <2>3. stack[rsp] # <<>> /\ ToCode(Head(stack[rsp])) /\ Tail(stack[rsp]) = <<>>
    BY Zenon, <1>0, <2>2, PopLayouts
  <2>4. pc' \in CodePCs /\ stack' = [stack EXCEPT ![rsp] = Tail(stack[rsp])]
    BY Zenon, <2>1, <2>3 DEF PopFrame, ToCode
  <2>5. stack'[rsp'] = <<>>
    BY Zenon, <1>0, <2>1, <2>3, <2>4
  <2> QED
    BY Zenon, <2>1, <2>2, <2>4, <2>5 DEF OwnerStack, At, CodePCs
<1>16. ASSUME NEW t \in Tasks, yield_task(t) PROVE OwnerStack'
  <2>1. /\ pc = "task" /\ rsp = t /\ stale = rsp
        /\ stack' = [stack EXCEPT ![t] = <<Std, Isf("task", FALSE)>> \o stack[t]]
        /\ kind' = "Yielded" /\ stale' = stale /\ flagged' = flagged /\ pc' = "rs"
    BY Zenon, <1>0, <1>16 DEF yield_task, infos, CpuInv, TaskPCs, CodePCs
  <2>2. t \notin flagged /\ stack[t] = <<>>
    BY Zenon, <2>1 DEF OwnerStack, CodePCs
  <2>3. SavedAs(<<Std, Isf("task", FALSE)>> \o stack[t], "Yielded")
    BY Zenon, <1>0, <2>1, <2>2, SaveLayouts
  <2>4. SavedAs(stack'[stale'], kind') /\ stale' \notin flagged'
    BY Zenon, <1>0, <2>1, <2>2, <2>3
  <2> QED
    BY Zenon, <2>1, <2>4 DEF OwnerStack, At, CodePCs
<1>17. ASSUME print_begin \/ print_end \/ alloc_end \/ \E t \in Tasks : alloc_begin(t)
       PROVE  OwnerStack'
  <2>1. /\ pc \in CodePCs /\ pc' \in CodePCs /\ rsp' = rsp /\ stack' = stack
        /\ flagged' = flagged
    BY Zenon, <1>17 DEF print_begin, print_end, alloc_end, alloc_begin, infos, CodePCs
  <2> QED
    BY Zenon, <2>1 DEF OwnerStack, At, CodePCs
<1>18. ASSUME NEW t \in Tasks, end_task(t) PROVE OwnerStack'
  BY Zenon, <1>18 DEF end_task, OwnerStack, At, CodePCs
<1>19. ASSUME SwitchStep PROVE OwnerStack'
  BY Zenon, <1>5, <1>6, <1>7, <1>8, <1>9, <1>10, <1>11, <1>12, <1>13, <1>14, <1>15, <1>19
  DEF SwitchStep
<1> QED
  BY Zenon, 
     <1>1, <1>2, <1>3, <1>4, <1>16, <1>17, <1>18, <1>19, Actors DEF Next, hlt_loop

-----------------------------------------------------------------------------
(* Theorems *)

(* kmain starts with no task spawned, the timer off and both locks free. *)
LEMMA InitInv == Init => IInv
<1> SUFFICES ASSUME Init PROVE IInv
  BY Zenon
<1>1. TypeOK
  <2>1. CpuType
    BY Actors, Locations DEF Init, CpuType
  <2>2. PtrType /\ LapicType /\ LockType
    BY Zenon DEF Init, PtrType, LapicType, LockType
  <2>3. InfoType
    BY SwitchAssumption DEF Init, InfoType
  <2>4. IdType
    BY IdAssumption DEF Init, IdType, SchedId
  <2> QED
    BY Zenon, <2>1, <2>2, <2>3, <2>4 DEF TypeOK
<1>2. CpuInv /\ TickInv
  BY Zenon DEF Init, CpuInv, TickInv, TaskPCs, ResumePCs, CodePCs, SchedRips
<1>3. FrameInv /\ SwitchInv
  BY SMTT(30), Actors DEF Init, FrameInv, SwitchInv, At
<1>4. IdInv /\ TaskIdsDistinct /\ SavedStackIsOwn
  BY Actors, IdAssumption DEF Init, IdInv, TaskIdsDistinct, SavedStackIsOwn, SchedId
<1>5. EachTaskOnce
  <2>1. Owner = None
    BY Zenon DEF Init, Owner, At, ResumePCs, CodePCs
  <2>2. Queued = {} /\ IsInjective(queue)
    BY SMTT(30) DEF Init, Queued, Range, IsInjective
  <2>3. {t \in Tasks : id[t] # 0} = {}
    BY Zenon, Actors DEF Init
  <2> QED
    BY Zenon, <2>1, <2>2, <2>3 DEF EachTaskOnce
<1> QED
  BY Zenon, <1>1, <1>2, <1>3, <1>4, <1>5 DEF IInv

(* The strengthened invariant holds in every reachable state. *)
THEOREM Invariance == Spec => []IInv
<1>1. IInv /\ [Next]_vars => IInv'
  BY Zenon, TypeStep, CpuStep, TickStep, FrameStep, HandoverStep, IdStep, OnceStep, SavedStep
  DEF IInv
<1> QED
  BY <1>1, InitInv, PTL DEF Spec

(* Every variable keeps its type: no pop of a frame, no pointer taken from    *)
(* STALE_TASK_PTR or TaskInfo.sp leaves the values the code expects there.    *)
THEOREM TypeCorrect == Spec => []TypeOK
<1>1. IInv => TypeOK
  BY Zenon DEF IInv
<1> QED
  BY <1>1, Invariance, PTL

(* The scheduler loses no task and queues none twice, for any number of       *)
(* tasks and any timing of the tick, nested preemption included.              *)
THEOREM NoTaskLost == Spec => []EachTaskOnce
<1>1. IInv => EachTaskOnce
  BY Zenon DEF IInv
<1> QED
  BY <1>1, Invariance, PTL

(* scheduler_preempt always sees the interrupted task in CURRENT_TASK_PTR. *)
THEOREM CurrentIsAccurate == Spec => []CurrentAccurate
<1>1. IInv => CurrentAccurate
  <2> SUFFICES ASSUME TypeOK, CpuInv, TickInv, Deliverable \/ pc = "preempt"
               PROVE  cur = rsp
    BY Zenon DEF IInv, CurrentAccurate
  <2>1. CASE pc = "preempt"
    BY Zenon, <2>1 DEF CpuInv
  <2>2. CASE Deliverable
    <3>1. pc \in TaskPCs \cup SchedRips \cup {"preempt"}
      BY Zenon, <2>2 DEF Deliverable, TypeOK, CpuType, PCs, SchedPCs, TaskPCs, SchedRips, CpuInv,
        TickInv
    <3> QED
      BY Zenon, <3>1 DEF CpuInv
  <2> QED
    BY Zenon, <2>1, <2>2
<1> QED
  BY <1>1, Invariance, PTL

(* No tick of one task ends the slice of another. *)
THEOREM SlicesAreFresh == Spec => []FreshSlice
<1>1. IInv => FreshSlice
  BY Zenon DEF IInv, TickInv, FreshSlice
<1> QED
  BY <1>1, Invariance, PTL

(* Every saved stack pointer points into the stack of its own task. *)
THEOREM SavedStacksAreOwn == Spec => []SavedStackIsOwn
<1>1. IInv => SavedStackIsOwn
  BY Zenon DEF IInv
<1> QED
  BY <1>1, Invariance, PTL

(* No two tasks share a task id, and none has the scheduler's. *)
THEOREM IdsAreDistinct == Spec => []TaskIdsDistinct
<1>1. IInv => TaskIdsDistinct
  BY Zenon DEF IInv
<1> QED
  BY <1>1, Invariance, PTL

(* The context switch implements the round-robin queue: with task_queue as    *)
(* the ready queue and the task between its pop and its requeue as the        *)
(* running one, every step of the switch is a step of RoundRobin or changes   *)
(* neither.                                                                   *)
THEOREM RoundRobinImplemented == Spec => ImplementsRoundRobin
<1>1. Init => RR!Init
  BY Zenon DEF Init, RR!Init, Owner, At, ResumePCs, CodePCs
<1>2. IInv /\ [Next]_vars => [RR!Next]_RR!vars
  <2> SUFFICES ASSUME IInv, [Next]_vars PROVE [RR!Next]_RR!vars
    BY Zenon
  <2>0. EachTaskOnce /\ id \in [Procs -> 0..SchedId]
    BY Zenon DEF IInv, TypeOK, IdType
  <2>1. CASE Stays
    BY Zenon, <2>1 DEF Stays, RR!vars
  <2>2. ASSUME NEW t \in Tasks, Joins(t) PROVE RR!Next
    <3>1. t \notin Queued /\ t # Owner
      BY Zenon, <2>0, <2>2, Actors DEF Joins, EachTaskOnce
    <3> QED
      BY Zenon, 
         <2>2, <3>1 DEF Joins, RR!Next, RR!Admit, RR!Waiting, RR!Range, Queued, Range
  <2>3. CASE TakesOver
    BY Zenon, <2>3 DEF TakesOver, RR!Next, RR!Dispatch
  <2>4. CASE Leaves
    BY Zenon, <2>4, Actors DEF Leaves, RR!Next, RR!Requeue
  <2>5. CASE Ends
    BY Zenon, <2>5, Actors DEF Ends, RR!Next, RR!Retire
  <2> QED
    BY Zenon, <2>1, <2>2, <2>3, <2>4, <2>5, OwnerStep
<1> QED
  BY <1>1, <1>2, Invariance, PTL DEF Spec, ImplementsRoundRobin, RR!Spec

(* The extended invariant holds in every reachable state. *)
THEOREM SwitchInvariance == Spec => []SwitchedInv
<1>1. Init => SwitchedInv
  <2> SUFFICES ASSUME Init PROVE SwitchedInv
    BY Zenon
  <2>1. LockInv
    BY Zenon DEF Init, LockInv
  <2>2. SliceInv
    BY Zenon DEF Init, SliceInv, SwitchInPCs, ResumePCs, CodePCs
  <2>3. QueuedStacks
    BY SMTT(30) DEF Init, QueuedStacks, Queued, Range
  <2>4. OwnerStack
    BY Zenon DEF Init, OwnerStack, At, CodePCs
  <2> QED
    BY Zenon, <2>1, <2>2, <2>3, <2>4, InitInv DEF SwitchedInv, StackInv
<1>2. SwitchedInv /\ [Next]_vars => SwitchedInv'
  <2> SUFFICES ASSUME SwitchedInv, [Next]_vars PROVE SwitchedInv'
    BY Zenon
  <2>1. IInv /\ LockInv /\ SliceInv
    BY Zenon DEF SwitchedInv
  <2>2. IInv' /\ LockInv' /\ SliceInv'
    BY Zenon, <2>1, TypeStep, CpuStep, TickStep, FrameStep, HandoverStep, IdStep, OnceStep,
       SavedStep, LockStep, SliceStep
    DEF IInv
  <2>3. ASSUME SliceOutlastsSwitch PROVE QueuedStacks' /\ OwnerStack'
    <3>1. QueuedStacks /\ OwnerStack
      BY Zenon, <2>3 DEF SwitchedInv, StackInv
    <3> QED
      BY Zenon, <2>1, <2>3, <3>1, QueuedStep, OwnerStackStep
  <2> QED
    BY Zenon, <2>2, <2>3 DEF SwitchedInv, StackInv
<1> QED
  BY <1>1, <1>2, PTL DEF Spec

(* With a slice that outlasts the switch, resume_task always finds the frames *)
(* that INTERRUPTED announces, for any number of tasks.                       *)
THEOREM FlagsMatchFrames == SliceOutlastsSwitch => (Spec => []FlagMatchesFrame)
<1> SUFFICES ASSUME SliceOutlastsSwitch PROVE Spec => []FlagMatchesFrame
  BY Zenon
<1>1. SwitchedInv => FlagMatchesFrame
  <2> SUFFICES ASSUME SwitchedInv PROVE FlagMatchesFrame
    BY Zenon 
  <2>1. /\ QueuedStacks /\ OwnerStack /\ CpuInv /\ stack \in [Procs -> Seq(Frames)]
        /\ rsp \in Procs /\ stack[rsp] \in Seq(Frames) /\ Queued \subseteq Procs
    BY Actors DEF SwitchedInv, StackInv, IInv, TypeOK, CpuType, InfoType, Queued, Range
  <2>2. ASSUME pc = "btr" PROVE cur \in flagged <=> Head(stack[rsp]).kind = "gp"
    <3>1. ReturnsBy(stack[rsp], Flag(rsp)) /\ cur = rsp
      BY Zenon, <2>1, <2>2 DEF OwnerStack, CpuInv, TaskPCs, ResumePCs
    <3>2. CASE rsp \in flagged
      BY Zenon, <2>1, <3>1, <3>2, PopLayouts DEF Flag
    <3>3. CASE rsp \notin flagged
      <4>1. ReturnsBy(stack[rsp], "Yielded")
        BY Zenon, <3>1, <3>3 DEF Flag
      <4>2. Head(stack[rsp]).kind = "isf"
        BY Zenon, <2>1, <4>1, PopLayouts DEF ToCode
      <4> QED
        BY Zenon, <3>1, <3>3, <4>2
    <3> QED
      BY Zenon, <3>2, <3>3
  <2>3. ASSUME pc = "iret" PROVE stack[rsp] # <<>> /\ Head(stack[rsp]).kind = "isf"
    <3>1. ReturnsBy(stack[rsp], "Yielded")
      BY Zenon, <2>1, <2>3 DEF OwnerStack
    <3> QED
      BY Zenon, <2>1, <3>1, PopLayouts DEF ToCode
  <2>4. ASSUME NEW t \in Queued PROVE Head(stack[t]).kind = "std"
    <3>1. /\ stack[t] \in Seq(Frames) /\ SavedAs(stack[t], Flag(t))
          /\ Flag(t) \in {"Yielded", "Preempted"}
      BY Zenon, <2>1, <2>4 DEF QueuedStacks, Flag
    <3> QED
      BY Zenon, <3>1, PopLayouts
  <2> QED
    BY Zenon, <2>2, <2>3, <2>4 DEF FlagMatchesFrame
<1> QED
  BY <1>1, SwitchInvariance, PTL

(* With such a slice no task's code runs without a tick to come. *)
THEOREM RunningTasksAreSliced == SliceOutlastsSwitch => (Spec => []RunningIsSliced)
<1> SUFFICES ASSUME SliceOutlastsSwitch PROVE Spec => []RunningIsSliced
  BY Zenon
<1>1. SwitchedInv => RunningIsSliced
  BY Zenon DEF SwitchedInv, SliceInv, RunningIsSliced
<1> QED
  BY <1>1, SwitchInvariance, PTL

(* Whatever the tasks do, none is switched away from inside a print: the      *)
(* scheduler's own prints find the serial lock free.                          *)
THEOREM SerialLockIsFree == Spec => [](rsp = Sched => holder["serial"] = None)
<1>1. SwitchedInv => (rsp = Sched => holder["serial"] = None)
  BY Zenon, Actors DEF SwitchedInv, IInv, LockInv, CpuInv, TaskPCs, CodePCs
<1> QED
  BY <1>1, SwitchInvariance, PTL

(* When no task uses the kernel heap the scheduler spins on neither lock.  (A *)
(* task that does can be preempted with the heap lock held.)                  *)
THEOREM NoSpinning == Allocating = {} => (Spec => []SchedulerNeverSpins)
<1> SUFFICES ASSUME Allocating = {} PROVE Spec => []SchedulerNeverSpins
  BY Zenon 
<1>1. SwitchedInv => SchedulerNeverSpins
  BY Zenon, Actors DEF SwitchedInv, IInv, LockInv, CpuInv, TaskPCs, CodePCs, SchedulerNeverSpins
<1> QED
  BY <1>1, SwitchInvariance, PTL

=============================================================================

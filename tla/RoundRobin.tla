----------------------------- MODULE RoundRobin -----------------------------
(***************************************************************************)
(* What the scheduler promises: tasks take turns in first-come order, and  *)
(* a task that gives up the CPU, willingly or not, goes to the back.       *)
(* Scheduler implements this specification with task_queue as ready and    *)
(* the task between its pop and its requeue as running.                    *)
(***************************************************************************)
EXTENDS Integers, Sequences, Functions

CONSTANTS Tasks, None

VARIABLES ready, running

vars == <<ready, running>>

Waiting == Range(ready)

Init == ready = <<>> /\ running = None

(* spawn_task *)
Admit(t) ==
  /\ t \notin Waiting /\ t # running
  /\ ready' = Append(ready, t)
  /\ UNCHANGED running

(* run_scheduler *)
Dispatch ==
  /\ running = None /\ ready # <<>>
  /\ running' = Head(ready) /\ ready' = Tail(ready)

(* resume_scheduler *)
Requeue ==
  /\ running # None
  /\ ready' = Append(ready, running) /\ running' = None

(* end_task *)
Retire ==
  /\ running # None
  /\ running' = None
  /\ UNCHANGED ready

Next == (\E t \in Tasks : Admit(t)) \/ Dispatch \/ Requeue \/ Retire

Spec == Init /\ [][Next]_vars

=============================================================================

---------------------------- MODULE MCScheduler ----------------------------
(* Model-checking instances of Scheduler: tasks are model values. *)
EXTENDS Scheduler

CONSTANTS t1, t2, t3

AllThree == {t1, t2, t3}
FirstTwo == {t1, t2}
NoTask   == {}
FirstOnly == {t1}

=============================================================================

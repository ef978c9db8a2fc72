--------------------------- MODULE MCSwitchFrames ---------------------------
(* Model-checking instance of SwitchFrames: tasks are model values. *)
EXTENDS SwitchFrames

CONSTANTS t1, t2, t3

AllThree == {t1, t2, t3}
FirstTwo == {t1, t2}

=============================================================================

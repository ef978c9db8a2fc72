---------------------------- MODULE MCHeapWords -----------------------------
(* Model-checking instance of HeapWords. *)
EXTENDS HeapWords

Sizes == <<1, 2, 4>>

(* Small; aligned beyond its size; odd size; larger than every block size;    *)
(* the last three are also what uACPI's sizes come to.                          *)
SomeLayouts == {[size |-> 1, align |-> 4], [size |-> 2, align |-> 1],
                [size |-> 3, align |-> 1], [size |-> 5, align |-> 1]}

=============================================================================

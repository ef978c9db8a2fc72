--------------------------- MODULE MCKernelStacks ---------------------------
(* Model-checking instances of KernelStacks: memory and its direct map. *)
EXTENDS KernelStacks

(* The stack space is at pages 1..29, in the direct map of the lowest memory  *)
(* as in the code.  There are enough frames for the boot and a part of the    *)
(* stacks.                                                                    *)
Memory == {<<2, 9>>, <<30, 32>>, <<33, 64>>}

(* The direct map has huge pages at 16..23 and from 32 on, and 4 KiB entries  *)
(* at 0..9 and 30..31.  The pages between are a hole in the memory map: not   *)
(* mapped, but their page tables exist.                                       *)
HugeSpans == {2} \cup 4..11
SmallPages == 0..9 \cup 30..31

=============================================================================

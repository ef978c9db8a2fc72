--------------------------- MODULE FrameOwnership ---------------------------
(***************************************************************************)
(* What a physical frame allocator promises: every usable page is either   *)
(* free or in the hands of one caller, a request is served with pages      *)
(* that were free, contiguous, and as many as were granted, and only pages *)
(* that are handed out come back.                                          *)
(***************************************************************************)
EXTENDS Integers

CONSTANT Usable   \* the page numbers of usable memory

VARIABLES free, used

vars == <<free, used>>

Init == free = Usable /\ used = {}

Grant(first, last) ==
  /\ first..last # {} /\ first..last \subseteq free
  /\ free' = free \ first..last
  /\ used' = used \cup first..last

Reclaim(first, last) ==
  /\ first..last # {} /\ first..last \subseteq used
  /\ free' = free \cup first..last
  /\ used' = used \ first..last

Next == \E first, last \in Usable : Grant(first, last) \/ Reclaim(first, last)

Spec == Init /\ [][Next]_vars

=============================================================================

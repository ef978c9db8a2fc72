----------------------------- MODULE HeapBlocks -----------------------------
(***************************************************************************)
(* Block sizes and extents of the kernel heap of src/src/heap.rs, used by  *)
(* its abstract specification KernelHeap and by HeapWords.  Addresses and  *)
(* sizes are in units of the smallest block, 8 bytes: a size that is not a *)
(* multiple is rounded up, by list_index as by the linked-list allocator.  *)
(***************************************************************************)
EXTENDS Integers, Sequences, FiniteSetsExt

CONSTANTS
  HEAP_SIZE,    \* units of heap
  BLOCK_SIZES,  \* ascending sequence of powers of two
  MinHole,      \* the linked-list allocator hands out at least this much
  Layouts       \* layouts callers use, as [size, align]

Indices == 1..Len(BLOCK_SIZES)

(* An alignment is a power of two; BLOCK_SIZES ascends. *)
ASSUME HeapAssumption ==
  /\ HEAP_SIZE \in Nat /\ MinHole \in Nat \ {0}
  /\ BLOCK_SIZES \in Seq(Nat \ {0})
  /\ \A i, j \in Indices : i < j => BLOCK_SIZES[i] < BLOCK_SIZES[j]
  /\ \A l \in Layouts : l \in [size: Nat \ {0}, align: Nat \ {0}]
  /\ \A l \in Layouts : \A i \in Indices :
       BLOCK_SIZES[i] >= l.align => BLOCK_SIZES[i] % l.align = 0

Units(at, size) == at..(at + Max({size, MinHole}) - 1)

(* What init gives the linked-list allocator. *)
HeapUnits == 0..HEAP_SIZE - 1

(* Variant with a bug: the alignment is ignored. *)
list_index_by_size(layout) ==
  LET fits == {i \in Indices : BLOCK_SIZES[i] >= layout.size}
  IN  IF fits = {} THEN 0 ELSE Min(fits)

(* The first block size that holds the layout; 0 when none does. *)
list_index(layout) ==
  LET fits == {i \in Indices : BLOCK_SIZES[i] >= Max({layout.size, layout.align})}
  IN  IF fits = {} THEN 0 ELSE Min(fits)

(* What the linked-list allocator is asked for when a list is empty: a block  *)
(* of the block size, aligned to it; the layout itself when no block size     *)
(* holds it.                                                                  *)
block_size(layout) ==
  IF list_index(layout) = 0 THEN layout.size ELSE BLOCK_SIZES[list_index(layout)]
block_align(layout) ==
  IF list_index(layout) = 0 THEN layout.align ELSE BLOCK_SIZES[list_index(layout)]

(* The units of a block that has been handed out for a layout. *)
Extent(block) == Units(block.at, block_size(block.layout))

=============================================================================

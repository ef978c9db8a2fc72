----------------------------- MODULE HeapWords ------------------------------
(***************************************************************************)
(* The kernel heap of src/src/heap.rs down to its words.  A free list is a *)
(* head and the next pointers that dealloc writes into the blocks it gets  *)
(* back; uacpi_kernel_alloc of src/src/uacpi.rs keeps a size in front of   *)
(* the block it hands out, by which uacpi_kernel_free knows the layout.    *)
(* Callers write to all of what they were given at any time.  A word holds *)
(* a pointer, a size or data: [kind, n].                                   *)
(***************************************************************************)
EXTENDS HeapBlocks

CONSTANTS
  HostSizes,  \* what uACPI asks for
  Null        \* the null pointer

HostLayout(size) == [size |-> size + 1, align |-> 1]

ASSUME HostAssumption ==
  /\ HostSizes \subseteq Nat /\ Null \notin Nat
  /\ {HostLayout(n) : n \in HostSizes} \subseteq Layouts

VARIABLES
  list_heads,  \* the first block of each free list
  word,        \* the heap's memory
  taken,       \* units the linked-list allocator has handed out
  live,        \* blocks callers hold: [at, layout, mem, host], where mem is
               \* the address the caller knows and host tells that it is uACPI
  halted       \* null has been written through, or given to a Rust caller

vars == <<list_heads, word, taken, live, halted>>

Link(p) == [kind |-> "next", n |-> p]
Size(n)  == [kind |-> "size", n |-> n]
Data     == [kind |-> "data", n |-> 0]

(* A pointer read from memory. *)
Pointer(w) == IF w.kind = "next" THEN w.n ELSE Null

(* linked_list_allocator::Heap: some aligned range that is free.  Which one,  *)
(* and whether padding rules one out, is its own business; it may fail.       *)
allocate_first_fit(at, size, align) ==
  /\ at % align = 0
  /\ Units(at, size) \subseteq HeapUnits \ taken
  /\ taken' = taken \cup Units(at, size)

Init ==
  /\ list_heads = [i \in Indices |-> Null]
  /\ word = [u \in HeapUnits |-> Data]
  /\ taken = {} /\ live = {} /\ halted = FALSE

-----------------------------------------------------------------------------
(* GlobalAlloc.  *)

(* Variant with a bug: the head is left in place. *)
alloc_from_list_kept(layout, at) ==
  LET index == list_index(layout)
  IN  /\ index # 0 /\ at = list_heads[index] /\ at # Null
      /\ UNCHANGED <<list_heads, taken>>

(* alloc: the first block of the list; the list goes on where it points, *)
alloc_from_list(layout, at) ==
  LET index == list_index(layout)
  IN  /\ index # 0 /\ at = list_heads[index] /\ at # Null
      /\ list_heads' = [list_heads EXCEPT ![index] = Pointer(word[at])]
      /\ UNCHANGED taken

(* Variant with a bug: the list is not looked at. *)
alloc_new_always(layout, at) ==
  /\ allocate_first_fit(at, block_size(layout), block_align(layout))
  /\ UNCHANGED list_heads

(* else a new block, *)
alloc_new(layout, at) ==
  /\ list_index(layout) # 0 => list_heads[list_index(layout)] = Null
  /\ allocate_first_fit(at, block_size(layout), block_align(layout))
  /\ UNCHANGED list_heads

alloc(layout, at) == alloc_from_list(layout, at) \/ alloc_new(layout, at)

(* or null. *)
alloc_fails(layout) == list_index(layout) # 0 => list_heads[list_index(layout)] = Null

(* Memory once alloc has returned: the pointer has been taken out of a block  *)
(* that was on a list.                                                        *)
Memory(layout, at) ==
  IF list_index(layout) # 0 /\ at = list_heads[list_index(layout)]
  THEN [word EXCEPT ![at] = Link(Null)] ELSE word

(* Variant with a bug: the list ends at the block given back. *)
dealloc_unlinked(at, layout) ==
  LET index == list_index(layout)
  IN  IF index # 0
        THEN /\ word' = [word EXCEPT ![at] = Link(Null)]
             /\ list_heads' = [list_heads EXCEPT ![index] = at]
             /\ UNCHANGED taken
        ELSE /\ taken' = taken \ Units(at, layout.size)
             /\ word' = [u \in DOMAIN word |->
                           IF u \in Units(at, layout.size) THEN Data ELSE word[u]]
             /\ UNCHANGED list_heads

(* dealloc: the block becomes the first of its list and points to the one     *)
(* that was, or goes back to the linked-list allocator, which keeps its own   *)
(* data there.                                                                *)
dealloc(at, layout) ==
  LET index == list_index(layout)
  IN  IF index # 0
        THEN /\ word' = [word EXCEPT ![at] = Link(list_heads[index])]
             /\ list_heads' = [list_heads EXCEPT ![index] = at]
             /\ UNCHANGED taken
        ELSE /\ taken' = taken \ Units(at, layout.size)
             /\ word' = [u \in DOMAIN word |->
                           IF u \in Units(at, layout.size) THEN Data ELSE word[u]]
             /\ UNCHANGED list_heads

Hand(at, layout, mem, host) ==
  live' = live \cup {[at |-> at, layout |-> layout, mem |-> mem, host |-> host]}

-----------------------------------------------------------------------------
(* Callers: Rust code, *)
Obtain(layout) ==
  /\ ~halted
  /\ \E at \in HeapUnits :
       /\ alloc(layout, at)
       /\ word' = Memory(layout, at)
       /\ Hand(at, layout, at, FALSE)
  /\ UNCHANGED halted

GiveBack(block) ==
  /\ ~halted /\ ~block.host
  /\ dealloc(block.at, block.layout)
  /\ live' = live \ {block}
  /\ UNCHANGED halted

(* Variant with a bug: uACPI is given the address of the size. *)
uacpi_kernel_alloc_at_size(size) ==
  /\ ~halted
  /\ \E at \in HeapUnits :
       /\ alloc(HostLayout(size), at)
       /\ word' = [Memory(HostLayout(size), at) EXCEPT ![at] = Size(size)]
       /\ Hand(at, HostLayout(size), at, TRUE)
  /\ UNCHANGED halted

(* and uACPI: the size goes in front of what it is given. *)
uacpi_kernel_alloc(size) ==
  /\ ~halted
  /\ \E at \in HeapUnits :
       /\ alloc(HostLayout(size), at)
       /\ word' = [Memory(HostLayout(size), at) EXCEPT ![at] = Size(size)]
       /\ Hand(at, HostLayout(size), at + 1, TRUE)
  /\ UNCHANGED halted

(* uacpi_kernel_free: the layout is computed from the size found there. *)
uacpi_kernel_free(mem) ==
  LET at == mem - 1
  IN  /\ ~halted
      /\ dealloc(at, HostLayout(word[at].n))
      /\ live' = {b \in live : ~(b.host /\ b.mem = mem)}
      /\ UNCHANGED halted

(* Without memory a Rust caller panics; uacpi_kernel_alloc writes the size    *)
(* to address 0, which faults.                                                *)
OutOfMemory(layout) ==
  /\ ~halted
  /\ alloc_fails(layout)
  /\ halted' = TRUE
  /\ UNCHANGED <<list_heads, word, taken, live>>

(* A caller writes to everything it was given. *)
Fill(block) ==
  /\ ~halted
  /\ word' = [u \in DOMAIN word |->
                IF u \in block.mem..(block.at + block.layout.size - 1)
                THEN Data ELSE word[u]]
  /\ UNCHANGED <<list_heads, taken, live, halted>>

Next ==
  \/ \E l \in Layouts : Obtain(l) \/ OutOfMemory(l)
  \/ \E n \in HostSizes : uacpi_kernel_alloc(n)
  \/ \E b \in live : GiveBack(b) \/ Fill(b)
  \/ \E b \in live : b.host /\ uacpi_kernel_free(b.mem)

Spec == Init /\ [][Next]_vars

-----------------------------------------------------------------------------
(* Properties *)

(* What memory w holds from a pointer on, along at most n pointers. *)
From(w) ==
  LET from[n \in Nat] ==
        [p \in HeapUnits \cup {Null} |->
           IF n = 0 \/ p = Null THEN <<>> ELSE <<p>> \o from[n - 1][Pointer(w[p])]]
  IN  from

(* What a list holds: at most as many blocks as there are units. *)
Chain(head) == From(word)[HEAP_SIZE][head]

H == INSTANCE KernelHeap WITH
       list_heads <- [i \in Indices |-> Chain(list_heads[i])],
       live <- {[at |-> b.at, layout |-> b.layout] : b \in live}

(* heap.rs implements KernelHeap although its lists live in the very blocks   *)
(* that callers write to: whatever they write, each list has the blocks that  *)
(* were given back and not handed out again, last first, and uacpi_kernel_free*)
(* gives every block back with the layout it was asked for.                   *)
ImplementsHeap == H!Spec

(* No two blocks overlap, whether callers hold them or lists do, through any  *)
(* sequence of allocations and frees that moves blocks between layouts of one *)
(* block size.                                                                *)
BlocksDisjoint == H!BlocksDisjoint

(* A caller's block is aligned as asked and lies inside the heap with all the *)
(* bytes asked for, also when it was carved out for another layout.           *)
BlocksFit == H!BlocksFit

(* Nothing leaks: what the linked-list allocator handed out is held by a      *)
(* caller or on a list.                                                       *)
NoBlockLost == H!NoBlockLost

(* uacpi.rs:279: as long as uACPI holds a block the first word of it is its *)
(* size, whatever uACPI and other callers write.                          *)
SizeIntact ==
  \A b \in live : b.host => word[b.at] = Size(b.layout.size - 1)

=============================================================================

----------------------------- MODULE KernelHeap -----------------------------
(***************************************************************************)
(* What the kernel heap of src/src/heap.rs promises: free lists of fixed   *)
(* block sizes, as sequences, in front of a linked-list allocator, as a    *)
(* set of units.  HeapWords, where the lists are pointers kept in the free *)
(* blocks themselves, implements it.  Every operation runs under the       *)
(* allocator's lock and is one step; what happens when the lock's holder   *)
(* is preempted is in Scheduler.  Callers follow the contract of           *)
(* GlobalAlloc: a block is given back once, with the layout it was asked   *)
(* for.                                                                    *)
(***************************************************************************)
EXTENDS HeapBlocks

VARIABLES
  list_heads,  \* the free list of each block size
  taken,       \* units the linked-list allocator has handed out
  live         \* blocks callers hold: [at, layout]

vars == <<list_heads, taken, live>>

(* linked_list_allocator::Heap: some aligned range that is free.  Which one,  *)
(* and whether padding rules one out, is its own business; it may fail.       *)
allocate_first_fit(at, size, align) ==
  /\ at % align = 0
  /\ Units(at, size) \subseteq HeapUnits \ taken
  /\ taken' = taken \cup Units(at, size)

-----------------------------------------------------------------------------
Init ==
  /\ list_heads = [i \in Indices |-> <<>>]
  /\ taken = {} /\ live = {}

Hand(at, layout) == live' = live \cup {[at |-> at, layout |-> layout]}

(* alloc: from the list of its block size, *)
alloc_from_list(layout) ==
  LET index == list_index(layout)
  IN  /\ index # 0 /\ list_heads[index] # <<>>
      /\ Hand(Head(list_heads[index]), layout)
      /\ list_heads' = [list_heads EXCEPT ![index] = Tail(@)]
      /\ UNCHANGED taken

(* else a new block.  On failure nothing changes. *)
alloc_new(layout) ==
  /\ list_index(layout) # 0 => list_heads[list_index(layout)] = <<>>
  /\ \E at \in HeapUnits :
       /\ allocate_first_fit(at, block_size(layout), block_align(layout))
       /\ Hand(at, layout)
  /\ UNCHANGED list_heads

(* dealloc: the block heads the list of its size, or goes back to the         *)
(* linked-list allocator.                                                     *)
dealloc(block) ==
  LET index == list_index(block.layout)
  IN  /\ block \in live
      /\ live' = live \ {block}
      /\ IF index # 0
           THEN /\ list_heads' = [list_heads EXCEPT ![index] = <<block.at>> \o @]
                /\ UNCHANGED taken
           ELSE /\ taken' = taken \ Units(block.at, block.layout.size)
                /\ UNCHANGED list_heads

Next ==
  \/ \E l \in Layouts : alloc_from_list(l) \/ alloc_new(l)
  \/ \E block \in live : dealloc(block)

Spec == Init /\ [][Next]_vars

-----------------------------------------------------------------------------
(* Properties *)

Listed == UNION {{<<i, n>> : n \in 1..Len(list_heads[i])} : i \in Indices}
ListedExtent(e) == Units(list_heads[e[1]][e[2]], BLOCK_SIZES[e[1]])

(* No two blocks overlap, whether callers hold them or lists do, through any  *)
(* sequence of allocations and frees that moves blocks between layouts of one *)
(* block size.                                                                *)
BlocksDisjoint ==
  /\ \A b, c \in live : b # c => Extent(b) \cap Extent(c) = {}
  /\ \A b \in live, e \in Listed : Extent(b) \cap ListedExtent(e) = {}
  /\ \A e, f \in Listed : e # f => ListedExtent(e) \cap ListedExtent(f) = {}

(* A caller's block is aligned as asked and lies inside the heap with all the *)
(* bytes asked for, also when it was carved out for another layout.           *)
BlocksFit ==
  \A b \in live :
    /\ b.at % b.layout.align = 0
    /\ b.at..(b.at + b.layout.size - 1) \subseteq Extent(b)
    /\ Extent(b) \subseteq 0..HEAP_SIZE - 1

(* Nothing leaks: what the linked-list allocator handed out is held by a      *)
(* caller or on a list.                                                       *)
NoBlockLost ==
  taken = UNION ({Extent(b) : b \in live} \cup {ListedExtent(e) : e \in Listed})

=============================================================================

----------------------------- MODULE BuddyFrames -----------------------------
(***************************************************************************)
(* RuneFrameAllocator of src/src/paging.rs: a bitmap buddy allocator of    *)
(* physical pages.  The bit array is the set of its one bits; bit          *)
(* LEVEL_OFFSETS[l] + i stands for the free chunk of 2^l pages that starts *)
(* at page i * 2^l.  The loops of the code, which walk one level at a      *)
(* time, are written as the set of bits they change.                       *)
(***************************************************************************)
EXTENDS Integers, FiniteSetsExt

CONSTANTS
  MapBits,        \* MAX_PHYS_MAP has 2^MapBits pages (25 in the code)
  BUDDY_LEVELS,   \* levels of the buddy tree (16 in the code)
  LEVEL_2MIB,     \* level of a huge frame (9 in the code)
  Memmap,         \* usable entries of the memory map, as <<first page, end>>
  MaxRequest      \* bound: frames asked of pick_off_contiguous at once

MAX_BUDDY_BITS == 2^MapBits
Top == BUDDY_LEVELS - 1

(* The memory map is page-aligned and its usable entries neither overlap nor  *)
(* touch; offsets of all levels are even (i & !1 in merge_up_from).           *)
ASSUME LayoutAssumption ==
  /\ BUDDY_LEVELS \in Nat \ {0, 1} /\ LEVEL_2MIB \in 1..Top
  /\ MapBits \in Nat /\ MapBits > BUDDY_LEVELS
  /\ \A r \in Memmap : r[1] \in Nat /\ r[2] \in Nat /\ r[1] < r[2]
  /\ \A r, s \in Memmap : r # s => r[2] < s[1] \/ s[2] < r[1]
  /\ MaxRequest \in Nat /\ MaxRequest <= 2^BUDDY_LEVELS  \* LEVEL_OFFSETS is indexed with it

(* The law of exponentiation that the proofs need and the provers lack. *)
ASSUME Doubling == \A l \in 0..MapBits : 2^(l + 1) = 2 * 2^l

Usable == UNION {r[1]..(r[2] - 1) : r \in Memmap}

VARIABLES
  buddy_bytes, \* the one bits of the array
  used         \* pages handed out and not given back (the callers' state)

vars == <<buddy_bytes, used>>

LEVEL_OFFSETS[level \in 0..BUDDY_LEVELS] ==
  IF level = 0 THEN 0 ELSE LEVEL_OFFSETS[level - 1] + (MAX_BUDDY_BITS \div 2^level)

TOTAL_BUDDY_BITS == LEVEL_OFFSETS[BUDDY_LEVELS]

relative_to_absolute(i, level) == i + LEVEL_OFFSETS[level]

(* absolute_to_relative, as its two results. *)
LevelOf(abs) == Min({l \in 0..Top : abs < LEVEL_OFFSETS[l + 1]})
IndexOf(abs) == abs - LEVEL_OFFSETS[LevelOf(abs)]

(* The pages of a chunk. *)
Chunk(i, level) == (i * 2^level)..((i + 1) * 2^level - 1)
PagesOf(abs)    == Chunk(IndexOf(abs), LevelOf(abs))

FreePages == UNION {PagesOf(b) : b \in buddy_bytes}

(* next_power_of_two().lowest_one(): the level whose chunks hold n pages. *)
LevelFor(n) == Min({l \in 0..BUDDY_LEVELS : n <= 2^l})

-----------------------------------------------------------------------------
(* The operations, as functions of the bit array. *)

(* new, for one entry: going up, lo and hi are the chunks of the entry at     *)
(* each level; the odd ones at either end stay at that level, the top level   *)
(* takes what is left.                                                        *)
MarkEntry(entry) ==
  LET lo(l) == (entry[1] + 2^l - 1) \div 2^l
      hi(l) == entry[2] \div 2^l
      ends(l) == {i \in {lo(l)} : i % 2 = 1} \cup {i - 1 : i \in {j \in {hi(l)} : j % 2 = 1}}
  IN  (UNION {{relative_to_absolute(i, l) : i \in ends(l)} : l \in {k \in 0..Top - 1 : lo(k) < hi(k)}})
        \cup {relative_to_absolute(i, Top) : i \in lo(Top)..hi(Top) - 1}

None == [some |-> FALSE]

(* Variant with a bug: only the level asked for is searched. *)
allocate_without_split(bits, min_level) ==
  LET found == {b \in bits : LevelOf(b) = min_level}
  IN  IF found = {} THEN None
      ELSE [some |-> TRUE, index |-> IndexOf(Min(found)), bits |-> bits \ {Min(found)}]

(* first_one at or above the level, then a split on every level on the way    *)
(* down, keeping the left half.  None when no bit is set there.               *)
allocate_chunk_from_level(bits, min_level) ==
  LET found == {b \in bits : b >= LEVEL_OFFSETS[min_level]}
      abs   == Min(found)
      level == LevelOf(abs)
      left(l) == IndexOf(abs) * 2^(level - l)
  IN  IF found = {} THEN None
      ELSE [some |-> TRUE,
            index |-> left(min_level),
            bits |-> (bits \ {relative_to_absolute(left(l), l) : l \in min_level..level})
                       \cup {relative_to_absolute(left(l) + 1, l) : l \in min_level..level - 1}]

(* Variant with a bug: the freed chunk stays where it is. *)
merge_never_climbs(bits, index, level) == bits

(* The freed chunk climbs while the chunk it has become and its buddy are     *)
(* both usable.                                                               *)
merge_up_from(bits, index, level) ==
  LET at(l)     == index \div 2^(l - level)
      pair(l)   == {relative_to_absolute(at(l) - (at(l) % 2) + d, l) : d \in {0, 1}}
      merges(l) == pair(l) \subseteq bits \cup {relative_to_absolute(at(k), k) : k \in level + 1..l}
      top       == Max({l \in level..Top : \A k \in level..l - 1 : merges(k)})
      own       == {relative_to_absolute(at(top), top) : k \in level + 1..top}
  IN  (bits \ UNION {pair(l) : l \in level..top - 1}) \cup own

(* Variant with a bug: the tail is counted from the start of the chunk. *)
pick_off_tail_from_start(bits, n, min_frames) ==
  LET target_level == LevelFor(n)
      got  == allocate_chunk_from_level(bits, target_level)
      over == 2^target_level - n
      tail == {l \in 0..target_level : (over \div 2^l) % 2 = 1}
      piece(l) == got.index * 2^(target_level - l) + over \div 2^l
  IN  IF LevelFor(min_frames) > target_level \/ ~got.some THEN None
      ELSE [some |-> TRUE,
            page |-> got.index * 2^target_level,
            bits |-> (got.bits \ {relative_to_absolute(got.index, target_level)})
                       \cup {relative_to_absolute(piece(l), l) : l \in tail}]

(* One chunk that holds n frames, and the tail beyond the n-th given back in  *)
(* aligned pieces.  Every pass of the loop over levels asks for target_level. *)
pick_off_contiguous(bits, n, min_frames) ==
  LET target_level == LevelFor(n)
      got  == allocate_chunk_from_level(bits, target_level)
      over == 2^target_level - n
      tail == {l \in 0..target_level : (over \div 2^l) % 2 = 1}
      piece(l) == (got.index + 1) * 2^(target_level - l) - over \div 2^l
  IN  IF LevelFor(min_frames) > target_level \/ ~got.some THEN None
      ELSE [some |-> TRUE,
            page |-> got.index * 2^target_level,
            bits |-> (got.bits \ {relative_to_absolute(got.index, target_level)})
                       \cup {relative_to_absolute(piece(l), l) : l \in tail}]

deallocate_4k(bits, page) == merge_up_from(bits \cup {page}, page, 0)

(* The bit set is the relative index: it lies in level 0. *)
deallocate_2m(bits, page) ==
  LET index == page \div 2^LEVEL_2MIB
  IN  merge_up_from(bits \cup {index}, index, LEVEL_2MIB)

-----------------------------------------------------------------------------
Init ==
  /\ buddy_bytes = UNION {MarkEntry(e) : e \in Memmap}
  /\ used = {}

(* allocate_frame for a page of the given level, 0 or LEVEL_2MIB. *)
allocate_frame(level) ==
  LET got == allocate_chunk_from_level(buddy_bytes, level)
  IN  /\ got.some
      /\ buddy_bytes' = got.bits
      /\ used' = used \cup Chunk(got.index, level)

(* Variant with a bug: n frames taken one by one. *)
pick_off_one_by_one(n, min_frames) ==
  LET got[k \in 0..n] ==
        IF k = 0 THEN [some |-> TRUE, pages |-> {}, bits |-> buddy_bytes]
        ELSE LET one == allocate_chunk_from_level(got[k - 1].bits, 0)
             IN  IF ~got[k - 1].some \/ ~one.some THEN [got[k - 1] EXCEPT !.some = FALSE]
                 ELSE [some |-> TRUE, pages |-> got[k - 1].pages \cup {one.index}, bits |-> one.bits]
  IN  /\ got[n].some
      /\ buddy_bytes' = got[n].bits
      /\ used' = used \cup got[n].pages

(* n frames for page_region, in units of min_frames. *)
pick_off(n, min_frames) ==
  LET got == pick_off_contiguous(buddy_bytes, n, min_frames)
  IN  /\ got.some
      /\ buddy_bytes' = got.bits
      /\ used' = used \cup got.page..(got.page + n - 1)

deallocate_frame(page) ==
  /\ page \in used
  /\ buddy_bytes' = deallocate_4k(buddy_bytes, page)
  /\ used' = used \ {page}

deallocate_huge_frame(index) ==
  /\ Chunk(index, LEVEL_2MIB) \subseteq used
  /\ buddy_bytes' = deallocate_2m(buddy_bytes, index * 2^LEVEL_2MIB)
  /\ used' = used \ Chunk(index, LEVEL_2MIB)

Next ==
  \/ allocate_frame(0) \/ allocate_frame(LEVEL_2MIB)
  \/ \E n \in 1..MaxRequest : pick_off(n, 1)
  \/ \E n \in {k * 2^LEVEL_2MIB : k \in 1..MaxRequest} :
       n <= MaxRequest /\ pick_off(n, 2^LEVEL_2MIB)
  \/ \E page \in Usable : deallocate_frame(page)

Spec == Init /\ [][Next]_vars

(* With callers that give huge frames back. *)
NextHuge == Next \/ \E i \in {p \div 2^LEVEL_2MIB : p \in Usable} : deallocate_huge_frame(i)
SpecHuge == Init /\ [][NextHuge]_vars

-----------------------------------------------------------------------------
(* Properties *)

(* The values the state may have. *)
TypeOK == buddy_bytes \subseteq 0..TOTAL_BUDDY_BITS - 1 /\ used \subseteq Usable

(* A page is free in one chunk or handed out, never both, never lost: splits, *)
(* tails of pick_off_contiguous and merges keep the books.                    *)
Conserved ==
  /\ FreePages \cap used = {}
  /\ FreePages \cup used = Usable
  /\ \A b, c \in buddy_bytes : b # c => PagesOf(b) \cap PagesOf(c) = {}

(* merge_up_from leaves no pair of free buddies below the top level.          *)
Coalesced ==
  \A b \in buddy_bytes :
    LevelOf(b) < Top =>
      relative_to_absolute(IndexOf(b) + 1 - 2 * (IndexOf(b) % 2), LevelOf(b)) \notin buddy_bytes

(* allocate_chunk_from_level fails only if no aligned run of a chunk's size   *)
(* is free.  (pick_off_contiguous asks for the next power of two in one       *)
(* piece, so it may still refuse n pages that are free.)                      *)
FindsFreeRun ==
  \A level \in 0..Top :
    (\E p \in Usable : p % 2^level = 0 /\ p..(p + 2^level - 1) \subseteq FreePages)
      => allocate_chunk_from_level(buddy_bytes, level).some

(* paging.rs:266: pick_off_contiguous finds some number of contiguous frames  *)
(* between min_frames and n_frames whenever there is one.                     *)
PicksLargest ==
  \A n \in 1..MaxRequest :
    FreePages # {} => pick_off_contiguous(buddy_bytes, n, 1).some

(* The bitmap implements ownership of pages.                                  *)
Owner == INSTANCE FrameOwnership WITH free <- FreePages
ImplementsOwnership == Owner!Spec

=============================================================================

----------------------------- MODULE HeapShape ------------------------------
(***************************************************************************)
(* What a well-formed heap looks like: how tags partition it into blocks   *)
(* and how links thread the free ones.  m is a memory, B the set of block  *)
(* starts in it and E the epilogue.                                        *)
(***************************************************************************)
EXTENDS MMInline

HeapType ==
  [mem : [Addr -> Int], flist_first : Addr \cup {NULL}, epilogue : Addr,
   brk : mem_start_brk .. mem_max_addr, fault : {"none", "assert"},
   blocks : SUBSET Addr]

FreeBlocks(m, B) == {b \in B : ~ block_allocated(m, b)}

(* From prologue to epilogue every block starts where another one ends.     *)
Tiled(m, B, E) ==
  /\ prologue \in B /\ E \in B /\ prologue < E
  /\ B \subseteq prologue .. E
  /\ block_size(m, prologue) = TAGS_SIZE /\ block_size(m, E) = TAGS_SIZE
  /\ \A b \in B \ {prologue, E} : block_size(m, b) >= MINBLOCKSIZE
  /\ \A b \in B : block_size(m, b) % ALIGNMENT = 0
  /\ \A b \in B \ {E} : block_next(m, b) \in B
  /\ \A c \in B \ {prologue} : \E b \in B : block_next(m, b) = c
  /\ \A b, c \in B : b < c => block_next(m, b) <= c

TagsAgree(m, B, E) ==
  /\ \A b \in B : m[block_end_tag(m, b)] = m[b]
  /\ block_allocated(m, prologue) /\ block_allocated(m, E)

(* m threads the blocks of F into one ring that contains first: links are   *)
(* inverse to each other, and no proper part of F is closed under flink.    *)
Ring(m, first, F) ==
  /\ IF F = {} THEN first = NULL ELSE first \in F
  /\ \A b \in F : /\ block_flink(m, b) \in F
                  /\ block_blink(m, b) \in F
                  /\ block_blink(m, block_flink(m, b)) = b
                  /\ block_flink(m, block_blink(m, b)) = b
  /\ \A S \in SUBSET F :
       S # {} /\ (\A b \in S : block_flink(m, b) \in S) => S = F
=============================================================================

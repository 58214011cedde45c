---------------------------- MODULE MMFreeList ------------------------------
(***************************************************************************)
(* MM's ring of free blocks, read from flist_first on, implements          *)
(* FreeListSpec, and what mm_malloc takes from it is the first fit.        *)
(***************************************************************************)
EXTENDS MM, SequencesExt

(* The free blocks in the order in which mm_malloc's loop meets them: as     *)
(* many as there are.                                                        *)
list ==
  LET m     == heap.mem
      many  == Cardinality(FreeBlocks(m, heap.blocks))
      at[k \in 1 .. many] ==
        IF k = 1 THEN heap.flist_first ELSE block_flink(m, at[k - 1])
  IN  [k \in 1 .. many |-> at[k]]

LIFO == INSTANCE FreeListSpec WITH Blocks <- Addr

(* insert_free_block and pull_free_block, however mm_malloc, mm_realloc and  *)
(* coalescing combine them, keep the order of all other free blocks and let  *)
(* a block in at the head only ("flist_first should always be set equal to   *)
(* the new block", mminline.h 334-335).                                      *)
ListIsLIFO == LIFO!Spec

(* "search through the free list to get the first free block with sufficient *)
(* size" (mm.c 137-138): every block before the one that is used is too      *)
(* small.                                                                    *)
FirstFit ==
  call.pc = "place" =>
    \A k \in DOMAIN list :
      (\A j \in 1 .. k : list[j] # call.curr) =>
        block_size(heap.mem, list[k]) < call.need
=============================================================================

----------------------------- MODULE HeapPrint ------------------------------
(***************************************************************************)
(* The REPL's print command on MM's heap: it walks from block to block and *)
(* complains of what it finds wrong.  It shares no state with mm.c but the *)
(* memory, and takes its end from the break instead of from epilogue.      *)
(***************************************************************************)
EXTENDS MM, FiniteSets

block_end_size(m, b) == tag_size(m[block_end_tag(m, b)])

(* Mutant: mem_heap_hi is the last byte, not the one behind it. *)
print_end_early(brk) == mem_heap_hi(brk) - TAGS_SIZE

print_end(brk) == mem_heap_hi(brk) - TAGS_SIZE + 1

(* What is printed about block b; pointer arithmetic counts in words. *)
complaints(m, b, end) ==
  {c \in {"differing size tags", "too small", "not in the heap"} :
     \/ c = "differing size tags" /\ block_size(m, b) # block_end_size(m, b)
     \/ c = "too small" /\ block_size(m, b) < MINBLOCKSIZE
     \/ c = "not in the heap"
        /\ block_next(m, b) > end + MINBLOCKSIZE * WORD_SIZE}

(* Where the loop is after k rounds, unless it has left the memory. *)
walk(m, end) ==
  LET at[k \in 0 .. Cardinality(Addr)] ==
        LET b == IF k = 0 THEN prologue ELSE at[k - 1]
        IN  IF b \in Addr \ {end} THEN block_next(m, b) ELSE b
  IN  at

mm_print_heap_repl(h) ==
  LET end     == print_end(h.brk)
      at      == walk(h.mem, end)
      printed == {at[k] : k \in DOMAIN at} \ {end}
  IN  [ends    |-> at[Cardinality(Addr)] = end,
       printed |-> printed,
       reports |-> UNION {complaints(h.mem, b, end) : b \in printed \cap Addr}]

(* Between any two calls print comes to the epilogue, having shown every     *)
(* block once and complained of none: the heap's end that memlib.c reports   *)
(* is the one mm.c keeps.                                                    *)
PrintShowsHeap ==
  Ready =>
    mm_print_heap_repl(heap) =
      [ends    |-> TRUE,
       printed |-> heap.blocks \ {prologue, heap.epilogue},
       reports |-> {}]
=============================================================================

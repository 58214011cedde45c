---------------------------- MODULE FreeListSpec ----------------------------
(***************************************************************************)
(* The free list as mm_malloc's search sees it, with no word about links:  *)
(* a sequence of blocks that is used last in, first out.                   *)
(***************************************************************************)
EXTENDS SequencesExt

CONSTANT Blocks

VARIABLE list

Smaller(a, b) == IF a < b THEN a ELSE b

Init == list = <<>>

(* Blocks leave the list from anywhere, the others stay in order, and others *)
(* join at the head: what is left of a block that was split, and a block     *)
(* that was freed, or both when mm_realloc moves a block.                    *)
Update ==
  LET old == list
      new == list'
  IN  /\ new # old
      /\ IsInjective(new) /\ Range(new) \subseteq Blocks
      /\ \E n \in 0 .. Smaller(2, Len(new)) :
           LET rest == SubSeq(new, n + 1, Len(new))
           IN  rest = SelectSeq(old, LAMBDA b : Contains(rest, b))

Restart == list' = <<>>

Next == Update \/ Restart

Spec == Init /\ [][Next]_list
=============================================================================

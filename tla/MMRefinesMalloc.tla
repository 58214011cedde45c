-------------------------- MODULE MMRefinesMalloc ---------------------------
(***************************************************************************)
(* MM implements MallocSpec.  How much of a block's contents is intact is  *)
(* read off the memory itself, not off the bookkeeping in live.            *)
(***************************************************************************)
EXTENDS MM, FiniteSetsExt

(* The words of what i holds that are not i's pattern. *)
Lost(i) ==
  {a \in Addr : /\ live[i].ptr <= a /\ a < live[i].ptr + live[i].size
                /\ heap.mem[a] # i}

Intact(i) == IF Lost(i) = {} THEN live[i].size ELSE Min(Lost(i)) - live[i].ptr

given == [i \in Ids |-> [ptr |-> live[i].ptr, size |-> live[i].size,
                         kept |-> Intact(i)]]

Abstract == INSTANCE MallocSpec WITH
  Lo <- mem_start_brk, Hi <- mem_max_addr, Align <- ALIGNMENT

(* Every run of the allocator is one the malloc contract allows: aligned,   *)
(* disjoint payloads inside the heap, none disturbed by a call on another,  *)
(* contents carried along by mm_realloc, failure without effect.            *)
ImplementsMalloc == Abstract!Spec
=============================================================================

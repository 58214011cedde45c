------------------------------- MODULE Ranges -------------------------------
(***************************************************************************)
(* The range list of mdriver.c: one [lo, hi] record per payload the driver *)
(* believes to be allocated, newest first.  Both front ends keep one: the  *)
(* trace evaluator (Driver) and the interactive one (Repl).                *)
(***************************************************************************)
EXTENDS Memlib, SequencesExt

(* Mutant: one byte too long. *)
range_past_end(lo, size) == [lo |-> lo, hi |-> lo + size]

range(lo, size) == [lo |-> lo, hi |-> lo + size - 1]

clear_ranges == <<>>

(* Mutant: only the first byte of the new payload is compared. *)
collides_first_byte(new, p) == new.lo >= p.lo /\ new.lo <= p.hi

(* Does either end of the new payload lie inside the payload p? *)
collides(new, p) ==
  \/ new.lo >= p.lo /\ new.lo <= p.hi
  \/ new.hi >= p.lo /\ new.hi <= p.hi

in_heap(a, brk) == mem_heap_lo <= a /\ a <= mem_heap_hi(brk)

(* Does add_range find nothing wrong with size bytes at lo? *)
range_is_fine(ranges, brk, lo, size) ==
  LET new == range(lo, size)
  IN  /\ lo % ALIGNMENT = 0
      /\ in_heap(new.lo, brk) /\ in_heap(new.hi, brk)
      /\ \A k \in DOMAIN ranges : ~ collides(new, ranges[k])

(* Mutant: add_range does not look at the sign of the size. *)
range_asserts_nonzero(size) == size # 0

range_asserts(size) == size > 0

add_range(ranges, lo, size) == <<range(lo, size)>> \o ranges

(* No two records overlap, but for a newer one that reaches out on both     *)
(* sides of an older one: what comparing the new payload's ends rules out.  *)
Apart(ranges) ==
  \A new, old \in DOMAIN ranges :
    new < old =>
      \/ ranges[new].hi < ranges[old].lo \/ ranges[old].hi < ranges[new].lo
      \/ ranges[new].lo < ranges[old].lo /\ ranges[old].hi < ranges[new].hi

(* Mutant: the newest record is dropped, whatever its address. *)
remove_range_newest(ranges, lo) ==
  IF ranges = <<>> THEN ranges ELSE Tail(ranges)

(* The newest record that starts at lo, if there is one, is dropped. *)
remove_range(ranges, lo) ==
  RemoveFirstMatch(ranges, LAMBDA r : r.lo = lo)
=============================================================================

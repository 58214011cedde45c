----------------------------- MODULE MallocSpec -----------------------------
(***************************************************************************)
(* What the comments of mm.c promise a client of mm_malloc, mm_free and    *)
(* mm_realloc, with no word about blocks, tags or lists: the client holds  *)
(* aligned, disjoint pieces of the memory from Lo to Hi, and what it wrote *)
(* into one stays there until it frees it, also when mm_realloc moves it.  *)
(* Any call may fail, which changes nothing.                               *)
(***************************************************************************)
EXTENDS Integers

CONSTANTS Ids, Sizes, Lo, Hi, Align

(* given[i]: where the piece held under i is, how long it is, and how many *)
(* of its first bytes still hold what the client wrote there.              *)
VARIABLE given

None == [ptr |-> 0, size |-> 0, kept |-> 0]

Held == {i \in Ids : given[i] # None}

Disjoint(p, n, q, k) == p + n <= q \/ q + k <= p

(* n bytes at p may be given to i. *)
Fits(i, p, n) ==
  /\ p % Align = 0
  /\ Lo <= p /\ p + n <= Hi
  /\ \A j \in Held \ {i} : Disjoint(p, n, given[j].ptr, given[j].size)

(* i is given n bytes anywhere they fit, with at least the first k of them  *)
(* as the client wrote them; nobody else is disturbed.                      *)
Give(i, n, k) ==
  LET new == given'[i]
  IN  /\ given' = [given EXCEPT ![i] = new]
      /\ Fits(i, new.ptr, n)
      /\ new.size = n
      /\ new.kept \in k .. n

Init == given = [i \in Ids |-> None]

(* mm_malloc: new memory holds anything. *)
Malloc(i, n) ==
  /\ i \notin Held /\ n # 0
  /\ Give(i, n, 0)

(* mm_realloc: as much of the contents as fits is kept. *)
Realloc(i, n) ==
  /\ i \in Held /\ n # 0
  /\ Give(i, n, IF given[i].kept < n THEN given[i].kept ELSE n)

(* mm_free, and mm_realloc to size 0. *)
Free(i) ==
  /\ i \in Held
  /\ given' = [given EXCEPT ![i] = None]

(* The client writes all of its piece. *)
Write(i) ==
  /\ i \in Held
  /\ given' = [given EXCEPT ![i].kept = given[i].size]

(* A new trace starts with an empty heap. *)
Restart == given' = [i \in Ids |-> None]

Next ==
  \/ \E i \in Ids :
       \/ Free(i)
       \/ Write(i)
       \/ \E n \in Sizes : Malloc(i, n) \/ Realloc(i, n)
  \/ Restart

Spec == Init /\ [][Next]_given
=============================================================================

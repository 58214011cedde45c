----------------------------- MODULE ReplProofs -----------------------------
(***************************************************************************)
(* What the malloc REPL (mdriver.c, -r) keeps, for any block numbers, any  *)
(* sizes, any allocator that keeps the malloc contract and commands in any *)
(* order.  Some of it holds whatever the user types; the rest until the    *)
(* user does something of UserHabits.                                      *)
(***************************************************************************)
EXTENDS Repl, RangesLemmas

(* Whatever the user does: types, and records that add_range admitted.     *)
Kept ==
  /\ ReplTypeOK
  /\ ranges \in Seq(Record) /\ Apart(ranges)
  /\ status # "wild"

Extents(g) == {range(piece.ptr, piece.size) : piece \in g}

(* The indices in use and the pieces handed out are the same thing: a piece *)
(* stands for the index whose pattern it holds, and the pieces are apart.  *)
Owned(b, g) ==
  /\ \A x \in Indices : b[x].is_valid =>
       [ptr |-> b[x].ptr, size |-> b[x].size, fill |-> x] \in g
  /\ \A q \in g :
       /\ q.size > 0 /\ b[q.fill].is_valid
       /\ b[q.fill].ptr = q.ptr /\ b[q.fill].size = q.size
  /\ \A q, r \in g : q # r => DisjointFrom(q.ptr, q.size, r)

Careful(b, g, rs) == Owned(b, g) /\ Lists(rs, Extents(g))

(* The inductive invariant. *)
IInv ==
  /\ Kept
  /\ careless \/ /\ status # "undefined" /\ errors \subseteq {"failed"}
                 /\ Running => Careful(blocks, given, ranges)

Block == [is_valid : BOOLEAN, ptr : Nat, size : Sizes \cup {0}]

Taken(x, p, n) == [ptr |-> p, size |-> n, fill |-> x]

-----------------------------------------------------------------------------
(* What a command of a careful user does                                   *)

(* malloc_cmd, and the second half of remalloc_cmd: add_range has nothing   *)
(* against a payload a correct allocator hands out.                        *)
LEMMA GrantFine ==
  ASSUME NEW b, NEW g, NEW rs, g \subseteq Pieces, Careful(b, g, rs),
         NEW p \in Nat, NEW n \in Nat, n > 0, Fits(p, n, g)
  PROVE  range_is_fine(rs, mem_max_addr, p, n)
<1>1. /\ p % ALIGNMENT = 0 /\ mem_start_brk <= p /\ p + n <= mem_max_addr
      /\ \A piece \in g : DisjointFrom(p, n, piece)
  BY DEF Fits
<1>2. mem_start_brk \in Nat /\ mem_max_addr \in Nat
  BY MemoryAssumption DEF mem_max_addr
<1> DEFINE new == range(p, n)
<1>3. new.lo = p /\ new.hi = p + n - 1
  BY DEF range
<1>4. in_heap(new.lo, mem_max_addr) /\ in_heap(new.hi, mem_max_addr)
  <2> HIDE DEF new
  <2> QED
    BY <1>1, <1>2, <1>3 DEF in_heap, mem_heap_lo, mem_heap_hi
<1>5. ASSUME NEW k \in DOMAIN rs PROVE ~ collides(new, rs[k])
  <2>1. k \in 1 .. Len(rs)
    BY <1>5, LenProperties DEF Careful, Lists
  <2>2. PICK q \in g : rs[k] = range(q.ptr, q.size)
    BY <2>1 DEF Careful, Lists, Extents
  <2>3. q.ptr \in Nat /\ q.size \in Nat /\ q.size > 0
    BY <2>2 DEF Pieces, Careful, Owned
  <2>4. rs[k].lo = q.ptr /\ rs[k].hi = q.ptr + q.size - 1
    BY <2>2 DEF range
  <2>5. p + n <= q.ptr \/ q.ptr + q.size <= p
    BY <1>1, <2>2 DEF DisjointFrom
  <2> HIDE DEF new
  <2> QED
    BY <1>3, <2>3, <2>4, <2>5 DEF collides
<1> QED
  BY <1>1, <1>4, <1>5 DEF range_is_fine

(* malloc_cmd: the index comes into use for the new payload.               *)
LEMMA GrantCareful ==
  ASSUME NEW b \in [Indices -> Block], NEW g, NEW rs, g \subseteq Pieces,
         Careful(b, g, rs), NEW x \in Indices, ~ b[x].is_valid,
         NEW p \in Nat, NEW n \in Nat, n > 0, Fits(p, n, g),
         NEW c, c = [b EXCEPT ![x] = [is_valid |-> TRUE, ptr |-> p, size |-> n]]
  PROVE  Careful(c, g \cup {Taken(x, p, n)}, add_range(rs, p, n))
<1> DEFINE t == Taken(x, p, n)
<1>1. t.ptr = p /\ t.size = n /\ t.fill = x
  BY DEF Taken
<1>2. \A q \in g : q.ptr \in Nat /\ q.size \in Nat /\ q.fill \in Indices
  BY DEF Pieces
<1>3. /\ c[x].is_valid /\ c[x].ptr = p /\ c[x].size = n
      /\ \A y \in Indices : y # x => c[y] = b[y]
  OBVIOUS
<1>4. \A q \in g : q.fill # x
  BY DEF Careful, Owned
<1>5. ASSUME NEW y \in Indices, c[y].is_valid
      PROVE  [ptr |-> c[y].ptr, size |-> c[y].size, fill |-> y] \in g \cup {t}
  <2>1. CASE y = x
    BY <1>3, <2>1 DEF Taken
  <2>2. CASE y # x
    BY <1>3, <1>5, <2>2 DEF Careful, Owned
  <2> QED
    BY <2>1, <2>2
<1>6. ASSUME NEW q \in g \cup {t}
      PROVE  /\ q.size > 0 /\ c[q.fill].is_valid
             /\ c[q.fill].ptr = q.ptr /\ c[q.fill].size = q.size
  <2>1. CASE q \in g
    <3>1. c[q.fill] = b[q.fill]
      BY <1>2, <1>3, <1>4, <2>1
    <3> QED
      BY <2>1, <3>1 DEF Careful, Owned
  <2>2. CASE q = t
    BY <1>1, <1>3, <2>2
  <2> QED
    BY <1>6, <2>1, <2>2
<1>7. \A q \in g : DisjointFrom(p, n, q) /\ DisjointFrom(q.ptr, q.size, t)
  <2> SUFFICES ASSUME NEW q \in g
               PROVE  DisjointFrom(p, n, q) /\ DisjointFrom(q.ptr, q.size, t)
    OBVIOUS
  <2>1. DisjointFrom(p, n, q)
    BY DEF Fits
  <2> HIDE DEF t
  <2> QED
    BY <1>1, <2>1 DEF DisjointFrom
<1>8. Owned(c, g \cup {t})
  <2>1. \A q, r \in g \cup {t} : q # r => DisjointFrom(q.ptr, q.size, r)
    <3> SUFFICES ASSUME NEW q \in g \cup {t}, NEW r \in g \cup {t}, q # r
                 PROVE  DisjointFrom(q.ptr, q.size, r)
      OBVIOUS
    <3>1. CASE q \in g /\ r \in g
      BY <3>1 DEF Careful, Owned
    <3>2. CASE q \in g /\ r = t
      BY <1>7, <3>2
    <3>3. CASE q = t /\ r \in g
      BY <1>1, <1>7, <3>3
    <3> QED
      BY <3>1, <3>2, <3>3
  <2> HIDE DEF t
  <2> QED
    BY <1>5, <1>6, <2>1 DEF Owned
<1>9. range(p, n) \notin Extents(g)
  <2> SUFFICES ASSUME NEW q \in g, range(p, n) = range(q.ptr, q.size)
               PROVE  FALSE
    BY DEF Extents
  <2>1. p = q.ptr
    BY DEF range
  <2>2. q.size > 0
    BY DEF Careful, Owned
  <2>3. p + n <= q.ptr \/ q.ptr + q.size <= p
    BY <1>7 DEF DisjointFrom
  <2> QED
    BY <1>2, <2>1, <2>2, <2>3
<1>10. Extents(g \cup {t}) = Extents(g) \cup {range(p, n)}
  <2> HIDE DEF t
  <2> QED
    BY <1>1 DEF Extents
<1>11. Lists(add_range(rs, p, n), Extents(g) \cup {range(p, n)})
  BY <1>9, ListsAdd DEF Careful
<1> QED
  BY <1>8, <1>10, <1>11 DEF Careful

(* free_cmd, and the first half of remalloc_cmd: the payload of an index    *)
(* in use is the one at its pointer, and the newest record that starts      *)
(* there is its record.                                                     *)
LEMMA ReturnCareful ==
  ASSUME NEW b \in [Indices -> Block], NEW g, NEW rs, g \subseteq Pieces,
         Careful(b, g, rs), NEW x \in Indices, b[x].is_valid,
         NEW c, c = [b EXCEPT ![x].is_valid = FALSE]
  PROVE  LET t == Taken(x, b[x].ptr, b[x].size)
         IN  /\ t \in g /\ b[x].size > 0
             /\ {q \in g : q.ptr = b[x].ptr} = {t}
             /\ Careful(c, g \ {t}, remove_range(rs, b[x].ptr))
<1> DEFINE t == Taken(x, b[x].ptr, b[x].size)
<1>1. t.ptr = b[x].ptr /\ t.size = b[x].size /\ t.fill = x
  BY DEF Taken
<1>2. \A q \in g : q.ptr \in Nat /\ q.size \in Nat /\ q.fill \in Indices
  BY DEF Pieces
<1>3. t \in g
  BY DEF Careful, Owned, Taken
<1>4. \A q \in g : q.size > 0
  BY DEF Careful, Owned
<1>5. \A q \in g : q.ptr = t.ptr => q = t
  <2> SUFFICES ASSUME NEW q \in g, q.ptr = t.ptr, q # t PROVE FALSE
    OBVIOUS
  <2>1. q.ptr + q.size <= t.ptr \/ t.ptr + t.size <= q.ptr
    BY <1>3 DEF Careful, Owned, DisjointFrom
  <2>2. /\ q.ptr \in Nat /\ q.size \in Nat /\ q.size > 0
        /\ t.ptr \in Nat /\ t.size \in Nat /\ t.size > 0
    BY <1>2, <1>3, <1>4
  <2> HIDE DEF t
  <2> QED
    BY <2>1, <2>2
<1>6. /\ ~ c[x].is_valid
      /\ \A y \in Indices : y # x => c[y] = b[y]
  BY DEF Block
<1>7. \A q \in g : q.fill = x => q = t
  BY <1>1, <1>5 DEF Careful, Owned
<1>8. Owned(c, g \ {t})
  <2>1. ASSUME NEW y \in Indices, c[y].is_valid
        PROVE  [ptr |-> c[y].ptr, size |-> c[y].size, fill |-> y] \in g \ {t}
    <3>1. y # x /\ c[y] = b[y]
      BY <1>6, <2>1
    <3>2. [ptr |-> c[y].ptr, size |-> c[y].size, fill |-> y] \in g
      BY <2>1, <3>1 DEF Careful, Owned
    <3> QED
      BY <3>1, <3>2 DEF Taken
  <2>2. ASSUME NEW q \in g \ {t}
        PROVE  /\ q.size > 0 /\ c[q.fill].is_valid
               /\ c[q.fill].ptr = q.ptr /\ c[q.fill].size = q.size
    <3>1. c[q.fill] = b[q.fill]
      BY <1>2, <1>6, <1>7
    <3> QED
      BY <3>1 DEF Careful, Owned
  <2>3. \A q, r \in g \ {t} : q # r => DisjointFrom(q.ptr, q.size, r)
    BY DEF Careful, Owned
  <2> HIDE DEF t
  <2> QED
    BY <2>1, <2>2, <2>3 DEF Owned
<1> DEFINE e == range(t.ptr, t.size)
<1>9. e \in Extents(g) /\ e.lo = t.ptr
  BY <1>3 DEF Extents, range
<1>10. \A f \in Extents(g) : f.lo = e.lo => f = e
  BY <1>5, <1>9 DEF Extents, range
<1>11. Extents(g \ {t}) = Extents(g) \ {e}
  <2>1. \A q \in g : range(q.ptr, q.size) = e => q = t
    BY <1>5 DEF range
  <2> HIDE DEF t
  <2> QED
    BY <2>1 DEF Extents
<1>12. Lists(remove_range(rs, e.lo), Extents(g) \ {e})
  <2> HIDE DEF e
  <2> QED
    BY <1>9, <1>10, ListsRemove DEF Careful
<1>13. Careful(c, g \ {t}, remove_range(rs, b[x].ptr))
  BY <1>1, <1>8, <1>9, <1>11, <1>12 DEF Careful
<1>14. {q \in g : q.ptr = b[x].ptr} = {t}
  BY <1>1, <1>3, <1>5
<1>15. b[x].size > 0
  BY <1>1, <1>3, <1>4
<1> QED
  BY <1>3, <1>13, <1>14, <1>15

-----------------------------------------------------------------------------
(* What every command does                                                 *)

RangesOK(rs) ==
  /\ rs \in Seq(Record) /\ Apart(rs)
  /\ \A k \in DOMAIN rs : rs[k].hi - rs[k].lo + 1 \in Sizes

(* What the user may type as a size. *)
Requested == Sizes \cup {- n : n \in Sizes}

(* A size that passes add_range's assert is one of the user's, unsigned;    *)
(* what mm_malloc grants for the others is not negative either.            *)
LEMMA RequestedSizes ==
  ASSUME NEW size \in Requested
  PROVE  /\ size \in Int /\ Granted(size) \in Nat
         /\ range_asserts(size) =>
              size \in Sizes /\ size \in Nat /\ size > 0 /\ Granted(size) = size
<1>1. CASE size \in Sizes
  BY <1>1, ReplAssumption DEF Granted, range_asserts
<1>2. CASE size \in {- n : n \in Sizes}
  <2>1. PICK n \in Sizes : size = - n
    BY <1>2
  <2>2. n \in Nat
    BY ReplAssumption
  <2>3. size \in Int /\ size <= 0
    BY <2>1, <2>2
  <2> QED
    BY <2>3 DEF Granted, range_asserts, MINBLOCKSIZE, TAGS_SIZE, WORD_SIZE
<1> QED
  BY <1>1, <1>2 DEF Requested

(* An entry of repl_state->blocks: an address and a length.                *)
LEMMA BlockNat ==
  ASSUME NEW v \in Block
  PROVE  v.ptr \in Nat /\ v.size \in Nat
<1>1. v.ptr \in Nat /\ v.size \in Sizes \cup {0}
  BY DEF Block
<1>2. \A n \in Sizes \cup {0} : n \in Nat
  BY ReplAssumption
<1> QED
  BY <1>1, <1>2, Zenon

(* clear_ranges: nothing is recorded.                                      *)
LEMMA ClearOK == RangesOK(clear_ranges)
BY DEF RangesOK, clear_ranges, Apart

(* add_range: the record is as long as the user asked, and apart from the   *)
(* others.                                                                  *)
LEMMA AddOK ==
  ASSUME NEW rs, RangesOK(rs), NEW p \in Nat, NEW size \in Sizes,
         range_asserts(size), range_is_fine(rs, mem_max_addr, p, size)
  PROVE  RangesOK(add_range(rs, p, size))
<1> DEFINE r == add_range(rs, p, size)
<1>1. rs \in Seq(Record) /\ Apart(rs) /\ size \in Int
  BY ReplAssumption DEF RangesOK
<1>2. /\ r \in Seq(Record) /\ DOMAIN r = 1 .. Len(rs) + 1
      /\ r[1] = range(p, size)
      /\ \A k \in 2 .. Len(rs) + 1 : r[k] = rs[k - 1]
  BY <1>1, AddRange
<1>3. Apart(r)
  BY <1>1, AddApart
<1>4. DOMAIN rs = 1 .. Len(rs) /\ Len(rs) \in Nat
  BY <1>1, LenProperties
<1> HIDE DEF r
<1>5. ASSUME NEW k \in DOMAIN r PROVE r[k].hi - r[k].lo + 1 \in Sizes
  <2>1. CASE k = 1
    <3>1. r[k].hi - r[k].lo + 1 = size
      BY <1>1, <1>2, <2>1 DEF range
    <3> QED
      BY <3>1
  <2>2. CASE k # 1
    <3>1. k \in 2 .. Len(rs) + 1 /\ k - 1 \in DOMAIN rs
      BY <1>2, <1>4, <1>5, <2>2
    <3> QED
      BY <1>2, <3>1 DEF RangesOK
  <2> QED
    BY <2>1, <2>2
<1> QED
  BY <1>2, <1>3, <1>5 DEF RangesOK, r

(* remove_range only drops a record.                                       *)
LEMMA RemoveOK ==
  ASSUME NEW rs, RangesOK(rs), NEW p
  PROVE  RangesOK(remove_range(rs, p))
<1>1. /\ remove_range(rs, p) \in Seq(Record) /\ Apart(remove_range(rs, p))
      /\ \A k \in DOMAIN remove_range(rs, p) :
           \E j \in DOMAIN rs : remove_range(rs, p)[k] = rs[j]
  BY RemoveApart DEF RangesOK
<1> QED
  BY <1>1 DEF RangesOK

(* Kept, with the records' part named.                                     *)
LEMMA KeptParts ==
  Kept <=> /\ RangesOK(ranges)
           /\ blocks \in [Indices -> Block] /\ given \subseteq Pieces
           /\ errors \subseteq {"failed", "range", "data"}
           /\ status \in {"running", "quit", "abort", "undefined"}
           /\ careless \in BOOLEAN
BY DEF Kept, RangesOK, ReplTypeOK, Block

(* The same after a command.                                               *)
LEMMA KeptPartsNext ==
  Kept' <=> /\ RangesOK(ranges')
            /\ blocks' \in [Indices -> Block] /\ given' \subseteq Pieces
            /\ errors' \subseteq {"failed", "range", "data"}
            /\ status' \in {"running", "quit", "abort", "undefined"}
            /\ careless' \in BOOLEAN
BY DEF Kept, RangesOK, ReplTypeOK, Block

(* IInv of the next state, to be shown of each command: what holds          *)
(* whatever the user does, and what holds if it was no careless command.    *)
Preserved ==
  /\ Kept'
  /\ ~ careless' => /\ status' # "undefined" /\ errors' \subseteq {"failed"}
                    /\ status' = "running" =>
                         Careful(blocks', given', ranges')

(* That is the invariant after any command of the REPL.                    *)
LEMMA PreservedSuffices == Preserved => IInv'
BY DEF Preserved, IInv, Running

(* malloc_cmd or remalloc_cmd refused for want of memory.                  *)
LEMMA OutOfMemoryPreserves ==
  ASSUME IInv, OutOfMemory, careless' \in BOOLEAN, careless => careless'
  PROVE  Preserved
<1>1. Kept'
  BY KeptParts, KeptPartsNext DEF IInv, OutOfMemory, Reports
<1> QED
  BY <1>1 DEF IInv, OutOfMemory, Reports, Preserved, Running

(* malloc_cmd: of a careful user, every size but a negative one ends with   *)
(* the index in use.                                                        *)
LEMMA MallocPreserves ==
  ASSUME IInv, NEW x \in Indices, NEW size \in Requested, malloc_cmd(x, size)
  PROVE  Preserved
<1>1. /\ Running /\ ~ blocks[x].is_valid /\ size # 0 /\ careless' = careless
  BY DEF malloc_cmd, Shows, InUse, IInv, Kept, ReplTypeOK
<1>2. /\ RangesOK(ranges) /\ blocks \in [Indices -> Block]
      /\ given \subseteq Pieces /\ careless \in BOOLEAN
      /\ errors \subseteq {"failed", "range", "data"}
      /\ status \in {"running", "quit", "abort", "undefined"}
  BY KeptParts DEF IInv
<1>3. CASE OutOfMemory
  BY <1>1, <1>2, <1>3, OutOfMemoryPreserves
<1>4. ASSUME NEW p \in Pointers, Fits(p, Granted(size), given),
             given' = given \cup {Taken(x, p, Granted(size))},
             \/ /\ ~ range_asserts(size)
                /\ Aborts /\ UNCHANGED ranges
             \/ /\ range_asserts(size)
                /\ range_is_fine(ranges, mem_max_addr, p, size)
                /\ ranges' = add_range(ranges, p, size)
                /\ blocks' = [blocks EXCEPT ![x] =
                     [is_valid |-> TRUE, ptr |-> p, size |-> size]]
                /\ Fills(size)
             \/ /\ range_asserts(size)
                /\ ~ range_is_fine(ranges, mem_max_addr, p, size)
                /\ Reports("range") /\ UNCHANGED <<ranges, status>>
      PROVE  Preserved
  <2>1. p \in Nat
    BY ReplAssumption
  <2>2. given' \subseteq Pieces
    BY <1>2, <1>4, <2>1, RequestedSizes DEF Taken, Pieces
  <2>3. CASE ~ range_asserts(size)
    <3>1. /\ status' = "abort" /\ UNCHANGED <<blocks, errors, ranges>>
      BY <1>4, <2>3 DEF Aborts
    <3>2. Kept'
      BY <1>1, <1>2, <2>2, <3>1, KeptPartsNext
    <3> QED
      BY <1>1, <3>1, <3>2 DEF IInv, Preserved
  <2>4. CASE range_asserts(size)
    <3>1. size \in Sizes /\ size \in Nat /\ size > 0 /\ Granted(size) = size
      BY <2>4, RequestedSizes
    <3>2. CASE range_is_fine(ranges, mem_max_addr, p, size)
      <4>1. /\ ranges' = add_range(ranges, p, size)
            /\ blocks' = [blocks EXCEPT ![x] =
                 [is_valid |-> TRUE, ptr |-> p, size |-> size]]
            /\ status' = "running" /\ errors' = errors
        BY <1>4, <2>4, <3>1, <3>2 DEF Fills
      <4>2. RangesOK(ranges')
        BY <1>2, <2>1, <2>4, <3>1, <3>2, <4>1, AddOK
      <4>3. blocks' \in [Indices -> Block]
        BY <1>2, <2>1, <3>1, <4>1 DEF Block
      <4>4. Kept'
        BY <1>1, <1>2, <2>2, <4>1, <4>2, <4>3, KeptPartsNext
      <4>5. ~ careless => Careful(blocks', given', ranges')
        <5> SUFFICES ASSUME ~ careless PROVE Careful(blocks', given', ranges')
          OBVIOUS
        <5>1. Careful(blocks, given, ranges)
          BY <1>1 DEF IInv
        <5> QED
          BY <1>1, <1>2, <1>4, <2>1, <3>1, <4>1, <5>1, GrantCareful
      <4> QED
        BY <1>1, <4>1, <4>4, <4>5 DEF IInv, Preserved
    <3>3. CASE ~ range_is_fine(ranges, mem_max_addr, p, size)
      <4>1. /\ errors' = errors \cup {"range"}
            /\ UNCHANGED <<blocks, ranges, status>>
        BY <1>4, <2>4, <3>3 DEF Reports
      <4>2. careless
        BY <1>1, <1>2, <1>4, <2>1, <3>1, <3>3, GrantFine DEF IInv
      <4>3. Kept'
        BY <1>1, <1>2, <2>2, <4>1, KeptPartsNext
      <4> QED
        BY <1>1, <4>2, <4>3 DEF Preserved
    <3> QED
      BY <3>2, <3>3
  <2> QED
    BY <2>3, <2>4
<1> QED
  BY <1>3, <1>4 DEF malloc_cmd, Taken

(* free_cmd: of a careful user, there is a payload at the pointer.         *)
LEMMA FreePreserves ==
  ASSUME IInv, NEW x \in Indices, free_cmd(x)
  PROVE  Preserved
<1> DEFINE p == blocks[x].ptr
<1>1. Running /\ blocks[x].is_valid /\ careless' = careless
  BY DEF free_cmd, Shows, InUse, IInv, Kept, ReplTypeOK
<1>2. /\ RangesOK(ranges) /\ blocks \in [Indices -> Block]
      /\ given \subseteq Pieces /\ careless \in BOOLEAN
      /\ errors \subseteq {"failed", "range", "data"}
      /\ status \in {"running", "quit", "abort", "undefined"}
  BY KeptParts DEF IInv
<1> DEFINE c == [blocks EXCEPT ![x].is_valid = FALSE]
           t == Taken(x, p, blocks[x].size)
<1>3. ~ careless => /\ At(p) = {t}
                    /\ Careful(c, given \ {t}, remove_range(ranges, p))
  <2> SUFFICES ASSUME ~ careless
               PROVE  /\ At(p) = {t}
                      /\ Careful(c, given \ {t}, remove_range(ranges, p))
    OBVIOUS
  <2>1. Careful(blocks, given, ranges)
    BY <1>1 DEF IInv
  <2> QED
    BY <1>1, <1>2, <2>1, ReturnCareful DEF At
<1>4. CASE At(p) = {} /\ Misuses
  <2>1. careless /\ careless'
    BY <1>1, <1>2, <1>3, <1>4
  <2>2. Kept'
    BY <1>1, <1>2, <1>4, KeptPartsNext DEF Misuses
  <2> QED
    BY <2>1, <2>2 DEF Preserved
<1>5. CASE /\ At(p) # {}
           /\ given' = given \ At(p)
           /\ ranges' = remove_range(ranges, p)
           /\ blocks' = c
           /\ UNCHANGED <<errors, status>>
  <2>1. RangesOK(ranges')
    BY <1>2, <1>5, RemoveOK
  <2>2. blocks' \in [Indices -> Block]
    BY <1>2, <1>5 DEF Block
  <2>3. Kept'
    BY <1>1, <1>2, <1>5, <2>1, <2>2, KeptPartsNext
  <2> QED
    BY <1>1, <1>3, <1>5, <2>3 DEF IInv, Preserved, Running
<1> QED
  BY <1>4, <1>5 DEF free_cmd

(* remalloc_cmd past mm_realloc: of a careful user's payload, as much is    *)
(* intact as the REPL compares, and add_range has nothing against where it  *)
(* has moved.                                                              *)
LEMMA ReallocatesPreserves ==
  ASSUME IInv, NEW x \in Indices, NEW size \in Requested, Running,
         careless' = (careless \/ ~ blocks[x].is_valid),
         NEW p \in Pointers, NEW old, old = At(blocks[x].ptr),
         NEW intact \in {Smaller(Granted(size), q.size) : q \in old}
                            \cup {Granted(size)},
         Reallocates(x, size, old, p, intact)
  PROVE  Preserved
<1> DEFINE rs == remove_range(ranges, blocks[x].ptr)
           fine == range_is_fine(rs, mem_max_addr, p, size)
           lost == LosesData(x, size, old, intact)
           kept == {piece.fill : piece \in old}
           fill == IF fine /\ ~ lost THEN {x}
                   ELSE IF kept = {} THEN Indices ELSE kept
<1>1. /\ RangesOK(ranges) /\ blocks \in [Indices -> Block]
      /\ given \subseteq Pieces /\ careless \in BOOLEAN
      /\ errors \subseteq {"failed", "range", "data"}
      /\ status \in {"running", "quit", "abort", "undefined"}
  BY KeptParts DEF IInv
<1>2. p \in Nat /\ blocks[x].ptr \in Nat /\ blocks[x].size \in Nat
  <2>1. blocks[x] \in Block
    BY <1>1
  <2>2. blocks[x].ptr \in Nat /\ blocks[x].size \in Nat
    BY <2>1, BlockNat
  <2>3. p \in Nat
    BY ReplAssumption
  <2> QED
    BY <2>2, <2>3
<1>3. careless' \in BOOLEAN
  BY <1>1 DEF Block
<1>4. Fits(p, Granted(size), given \ old)
  BY DEF Reallocates
<1>5. PICK f \in fill :
        given' = (given \ old) \cup {Taken(f, p, Granted(size))}
  BY DEF Reallocates, Taken
<1>6. given' \subseteq Pieces
  <2>1. kept \subseteq Indices
    BY <1>1 DEF At, Pieces
  <2>2. f \in Indices
    BY <1>5, <2>1
  <2> HIDE DEF fill, kept
  <2> QED
    BY <1>1, <1>2, <1>5, <2>2, RequestedSizes DEF Taken, Pieces
<1>7. RangesOK(rs)
  BY <1>1, RemoveOK
<1>8. \/ /\ ~ range_asserts(size) /\ Aborts /\ ranges' = rs
      \/ /\ range_asserts(size) /\ fine /\ ~ lost
         /\ Moves(x, p, size) /\ Fills(size) /\ ranges' = add_range(rs, p, size)
      \/ /\ range_asserts(size) /\ fine /\ lost
         /\ Reports("data") /\ UNCHANGED status
         /\ ranges' = add_range(rs, p, size)
      \/ /\ range_asserts(size) /\ ~ fine
         /\ Reports("range") /\ UNCHANGED status /\ ranges' = rs
  BY DEF Reallocates
<1>9. ~ careless' /\ range_asserts(size) =>
        /\ fine /\ ~ lost
        /\ Careful([blocks EXCEPT ![x].ptr = p, ![x].size = size],
                   (given \ old) \cup {Taken(x, p, Granted(size))},
                   add_range(rs, p, size))
  <2> SUFFICES ASSUME ~ careless', range_asserts(size)
               PROVE  /\ fine /\ ~ lost
                      /\ Careful([blocks EXCEPT ![x].ptr = p, ![x].size = size],
                                 (given \ old) \cup {Taken(x, p, Granted(size))},
                                 add_range(rs, p, size))
    OBVIOUS
  <2> DEFINE t == Taken(x, blocks[x].ptr, blocks[x].size)
             b == [blocks EXCEPT ![x].is_valid = FALSE]
             d == [b EXCEPT ![x] = [is_valid |-> TRUE, ptr |-> p, size |-> size]]
  <2>1. ~ careless /\ blocks[x].is_valid
    OBVIOUS
  <2>2. Careful(blocks, given, ranges)
    BY <2>1 DEF IInv
  <2>3. size \in Sizes /\ size \in Nat /\ size > 0 /\ Granted(size) = size
    BY RequestedSizes
  <2>4. t \in given /\ old = {t} /\ Careful(b, given \ old, rs)
    BY <1>1, <2>1, <2>2, ReturnCareful DEF At
  <2>5. b \in [Indices -> Block] /\ ~ b[x].is_valid
    BY <1>1 DEF Block
  <2>6. given \ old \subseteq Pieces
    BY <1>1
  <2>7. fine
    BY <1>2, <1>4, <2>3, <2>4, <2>6, GrantFine
  <2>8. Careful(d, (given \ old) \cup {Taken(x, p, size)}, add_range(rs, p, size))
    <3> HIDE DEF b, rs
    <3> QED
      BY <1>2, <1>4, <2>3, <2>4, <2>5, <2>6, GrantCareful
  <2>9. d = [blocks EXCEPT ![x].ptr = p, ![x].size = size]
    <3>1. blocks[x] \in Block /\ blocks[x].is_valid = TRUE
      BY <1>1, <2>1 DEF Block
    <3> DEFINE v == [[blocks[x] EXCEPT !.ptr = p] EXCEPT !.size = size]
               w == [is_valid |-> TRUE, ptr |-> p, size |-> size]
    <3>2. v = w
      <4>1. DOMAIN blocks[x] = {"is_valid", "ptr", "size"}
        BY <3>1 DEF Block
      <4>2. /\ DOMAIN v = {"is_valid", "ptr", "size"}
            /\ v = [fld \in DOMAIN v |-> v[fld]]
        BY <4>1
      <4>3. v["is_valid"] = blocks[x].is_valid /\ v["ptr"] = p /\ v["size"] = size
        BY <4>1
      <4>4. /\ DOMAIN w = {"is_valid", "ptr", "size"}
            /\ w["is_valid"] = TRUE /\ w["ptr"] = p /\ w["size"] = size
            /\ w = [fld \in DOMAIN w |-> w[fld]]
        OBVIOUS
      <4> HIDE DEF v, w
      <4>5. v["is_valid"] = TRUE
        BY <3>1, <4>3, Zenon
      <4>6. \A fld \in {"is_valid", "ptr", "size"} : v[fld] = w[fld]
        BY <4>3, <4>4, <4>5
      <4> QED
        BY <4>2, <4>4, <4>6
    <3>3. d = [blocks EXCEPT ![x] = [is_valid |-> TRUE, ptr |-> p, size |-> size]]
      BY <1>1
    <3> QED
      BY <1>1, <3>2, <3>3
  <2>10. ~ lost
    <3>1. t.fill = x /\ t.size = blocks[x].size /\ t \in old
      BY <2>4 DEF Taken
    <3>2. intact = Smaller(size, blocks[x].size) \/ intact = size
      BY <2>3, <2>4, <3>1
    <3>3. Smaller(size, blocks[x].size) <= intact
      BY <1>2, <2>3, <3>2 DEF Smaller
    <3> QED
      BY <3>1, <3>3 DEF LosesData
  <2> QED
    BY <2>3, <2>7, <2>8, <2>9, <2>10
<1> HIDE DEF fine, lost, rs, kept
<1>10. CASE ~ range_asserts(size) /\ Aborts /\ ranges' = rs
  <2>1. status' = "abort" /\ UNCHANGED <<blocks, errors>>
    BY <1>10 DEF Aborts
  <2>2. Kept'
    BY <1>1, <1>3, <1>6, <1>7, <1>10, <2>1, KeptPartsNext
  <2> QED
    BY <1>1, <2>1, <2>2 DEF IInv, Preserved
<1>11. CASE /\ range_asserts(size) /\ fine /\ ~ lost
            /\ Moves(x, p, size) /\ Fills(size)
            /\ ranges' = add_range(rs, p, size)
  <2>1. size \in Sizes /\ size \in Nat /\ size > 0
    BY <1>11, RequestedSizes
  <2>2. /\ status' = "running" /\ errors' = errors
        /\ blocks' = [blocks EXCEPT ![x].ptr = p, ![x].size = size]
    BY <1>11, <2>1 DEF Fills, Moves
  <2>3. blocks' \in [Indices -> Block]
    BY <1>1, <1>2, <2>1, <2>2 DEF Block
  <2>4. RangesOK(ranges')
    BY <1>2, <1>7, <1>11, <2>1, AddOK DEF fine
  <2>5. Kept'
    BY <1>1, <1>3, <1>6, <2>2, <2>3, <2>4, KeptPartsNext
  <2>6. given' = (given \ old) \cup {Taken(x, p, Granted(size))}
    BY <1>5, <1>11
  <2>7. ~ careless' => Careful(blocks', given', ranges')
    BY <1>9, <1>11, <2>2, <2>6
  <2> QED
    BY <2>2, <2>5, <2>7 DEF IInv, Preserved
<1>12. CASE /\ range_asserts(size) /\ fine /\ lost
            /\ Reports("data") /\ UNCHANGED status
            /\ ranges' = add_range(rs, p, size)
  <2>1. careless'
    BY <1>3, <1>9, <1>12
  <2>2. size \in Sizes
    BY <1>12, RequestedSizes
  <2>3. RangesOK(ranges')
    BY <1>2, <1>7, <1>12, <2>2, AddOK DEF fine
  <2>4. Kept'
    BY <1>1, <1>3, <1>6, <1>12, <2>3, KeptPartsNext DEF Reports
  <2> QED
    BY <2>1, <2>4 DEF Preserved
<1>13. CASE /\ range_asserts(size) /\ ~ fine
            /\ Reports("range") /\ UNCHANGED status /\ ranges' = rs
  <2>1. careless'
    BY <1>3, <1>9, <1>13
  <2>2. Kept'
    BY <1>1, <1>3, <1>6, <1>7, <1>13, KeptPartsNext DEF Reports
  <2> QED
    BY <2>1, <2>2 DEF Preserved
<1> QED
  BY <1>8, <1>10, <1>11, <1>12, <1>13

(* remalloc_cmd: of an index not in use, or to size 0, it is the careless   *)
(* user's; otherwise there is a payload to move.                           *)
LEMMA RemallocPreserves ==
  ASSUME IInv, NEW x \in Indices, NEW size \in Requested, remalloc_cmd(x, size)
  PROVE  Preserved
<1> DEFINE oldp == blocks[x].ptr
           old == At(oldp)
           kept == {Smaller(Granted(size), piece.size) : piece \in old}
<1>1. /\ RangesOK(ranges) /\ blocks \in [Indices -> Block]
      /\ given \subseteq Pieces /\ careless \in BOOLEAN
      /\ errors \subseteq {"failed", "range", "data"}
      /\ status \in {"running", "quit", "abort", "undefined"}
  BY KeptParts DEF IInv
<1>2. Running
  BY DEF remalloc_cmd
<1>3. careless' = (careless \/ ~ blocks[x].is_valid \/ size = 0)
  <2> DEFINE A == {h \in {"unused"} : ~ InUse(x)}
             B == {h \in {"zero"} : size = 0}
  <2>1. careless' = (careless \/ A \cup B # {})
    BY DEF remalloc_cmd, Shows
  <2>2. A \cup B # {} <=> (~ InUse(x) \/ size = 0)
    OBVIOUS
  <2> HIDE DEF A, B
  <2>3. blocks[x].is_valid \in BOOLEAN
    BY <1>1 DEF Block
  <2> QED
    BY <2>1, <2>2, <2>3, <1>1 DEF InUse
<1>4. careless' \in BOOLEAN
  BY <1>1, <1>3 DEF Block
<1>5. ~ careless /\ blocks[x].is_valid => old # {}
  <2> SUFFICES ASSUME ~ careless, blocks[x].is_valid PROVE old # {}
    OBVIOUS
  <2>1. Careful(blocks, given, ranges)
    BY <1>2 DEF IInv
  <2> DEFINE c == [blocks EXCEPT ![x].is_valid = FALSE]
  <2>2. {q \in given : q.ptr = oldp} = {Taken(x, oldp, blocks[x].size)}
    BY <1>1, <2>1, ReturnCareful
  <2> QED
    BY <2>2 DEF At
<1>6. CASE oldp # NULL /\ old = {} /\ Misuses
  <2>1. careless'
    BY <1>1, <1>3, <1>4, <1>5, <1>6
  <2>2. Kept'
    BY <1>1, <1>4, <1>6, KeptPartsNext DEF Misuses
  <2> QED
    BY <2>1, <2>2 DEF Preserved
<1>7. CASE /\ size = 0 /\ given' = given \ old
           /\ UNCHANGED <<blocks, ranges, errors, status>>
  <2>1. careless'
    BY <1>3, <1>4, <1>7
  <2>2. Kept'
    BY <1>1, <1>4, <1>7, KeptPartsNext
  <2> QED
    BY <2>1, <2>2 DEF Preserved
<1>8. CASE OutOfMemory
  BY <1>1, <1>3, <1>4, <1>8, OutOfMemoryPreserves
<1>9. ASSUME size # 0, NEW p \in Pointers, NEW intact \in kept \cup {Granted(size)},
             Reallocates(x, size, old, p, intact)
      PROVE  Preserved
  <2>1. careless' = (careless \/ ~ blocks[x].is_valid)
    BY <1>3, <1>9
  <2> HIDE DEF oldp
  <2> QED
    BY <1>2, <1>9, <2>1, ReallocatesPreserves DEF oldp
<1> QED
  BY <1>6, <1>7, <1>8, <1>9 DEF remalloc_cmd

(* reset_cmd: with no index in use, there is no payload to forget.         *)
LEMMA ResetPreserves ==
  ASSUME IInv, reset_cmd
  PROVE  Preserved
<1>1. /\ RangesOK(ranges) /\ blocks \in [Indices -> Block]
      /\ given \subseteq Pieces /\ careless \in BOOLEAN
      /\ errors \subseteq {"failed", "range", "data"}
      /\ status \in {"running", "quit", "abort", "undefined"}
  BY KeptParts DEF IInv
<1> DEFINE used == \E x \in Indices : InUse(x)
           H == {h \in {"reset"} : used}
<1>2. /\ careless' = (careless \/ H # {}) /\ status = "running"
      /\ ranges' = clear_ranges /\ given' = {}
      /\ UNCHANGED <<blocks, errors, status>>
  BY DEF reset_cmd, Shows, Running
<1>3. careless' = (careless \/ used)
  <2>1. H # {} <=> used
    OBVIOUS
  <2> HIDE DEF H, used
  <2> QED
    BY <1>1, <1>2, <2>1
<1>4. careless' \in BOOLEAN
  BY <1>1, <1>3
<1>5. Kept'
  BY <1>1, <1>2, <1>4, ClearOK, KeptPartsNext
<1>6. ~ used => Careful(blocks, {}, clear_ranges)
  <2>1. Extents({}) = {}
    BY DEF Extents
  <2> QED
    BY <2>1, ListsNone DEF Careful, Owned, InUse
<1> QED
  BY <1>1, <1>2, <1>3, <1>5, <1>6 DEF IInv, Preserved

(* quit_cmd: nothing is looked at afterwards.                              *)
LEMMA QuitPreserves ==
  ASSUME IInv, quit_cmd
  PROVE  Preserved
<1>1. Kept'
  BY ClearOK, KeptParts, KeptPartsNext DEF IInv, quit_cmd
<1> QED
  BY <1>1 DEF IInv, quit_cmd, Preserved

(* Every command keeps the invariant.                                      *)
LEMMA CommandSound == IInv /\ [Next]_vars => IInv'
<1> SUFFICES ASSUME IInv, [Next]_vars PROVE IInv'
  OBVIOUS
<1>1. CASE UNCHANGED vars
  <2>1. Kept'
    BY <1>1, KeptParts, KeptPartsNext DEF IInv, vars
  <2> QED
    BY <1>1, <2>1 DEF IInv, vars, Running
<1>2. CASE Next
  <2>1. ASSUME NEW x \in Indices, free_cmd(x) PROVE IInv'
    BY <2>1, FreePreserves, PreservedSuffices
  <2>2. ASSUME NEW x \in Indices, NEW size \in Requested,
               malloc_cmd(x, size) \/ remalloc_cmd(x, size)
        PROVE  IInv'
    BY <2>2, MallocPreserves, RemallocPreserves, PreservedSuffices
  <2>3. CASE reset_cmd \/ quit_cmd
    BY <2>3, ResetPreserves, QuitPreserves, PreservedSuffices
  <2> QED
    BY <1>2, <2>1, <2>2, <2>3 DEF Next, Requested
<1> QED
  BY <1>1, <1>2

(* The invariant holds of every reachable state.                           *)
LEMMA ReplInvariance == Spec => []IInv
<1>1. Init => IInv
  <2> SUFFICES ASSUME Init PROVE IInv
    OBVIOUS
  <2>1. blocks \in [Indices -> Block]
    BY DEF Init, Block, NULL
  <2>2. Kept
    BY <2>1, ClearOK, KeptParts DEF Init
  <2>3. Extents({}) = {}
    BY DEF Extents
  <2>4. Careful(blocks, {}, clear_ranges)
    BY <2>3, ListsNone DEF Init, Careful, Owned
  <2> QED
    BY <2>2, <2>4 DEF Init, IInv
<1> QED
  BY <1>1, CommandSound, PTL DEF Spec

-----------------------------------------------------------------------------
(* The theorems                                                            *)

(* Whatever is typed, in any order: the REPL's records have their types,   *)
(* and every record of the range list is as long as a size of the user's.  *)
THEOREM ReplTyped == Spec => []ReplTypeOK
<1>1. IInv => ReplTypeOK
  BY DEF IInv, Kept
<1> QED
  BY <1>1, ReplInvariance, PTL

(* Whatever is typed as a size, negative numbers too, the assert in         *)
(* add_range ends the REPL before a memset would run past its payload.     *)
THEOREM ReplNeverWild == Spec => []ReplNoWildFill
<1>1. IInv => ReplNoWildFill
  BY DEF IInv, Kept, ReplNoWildFill
<1> QED
  BY <1>1, ReplInvariance, PTL

(* Whatever the user does, the records that reset and reallocations leave   *)
(* behind included, add_range lets no payload with an end inside an older  *)
(* record into the list.                                                   *)
THEOREM ReplAlwaysApart == Spec => []ReplRangesApart
<1>1. IInv => ReplRangesApart
  BY DEF IInv, Kept, ReplRangesApart
<1> QED
  BY <1>1, ReplInvariance, PTL

(* For a careful user every index in use stands for a payload of its own    *)
(* that holds its pattern, and mm_free and mm_realloc are passed nothing   *)
(* else, in whatever order malloc_cmd, remalloc_cmd and free_cmd come.     *)
THEOREM CarefulUserSafe == Spec => []CarefulUseHolds
<1>1. IInv => CarefulUseHolds
  BY DEF IInv, CarefulUseHolds, InUseHolds, Careful, Owned, InUse
<1> QED
  BY <1>1, ReplInvariance, PTL

(* For a careful user an allocator that keeps the malloc contract is        *)
(* reported for nothing but having no memory left: add_range and the        *)
(* comparison of the payload after mm_realloc raise no false alarm.         *)
THEOREM NeverBlamedByRepl == Spec => []ReplNeverBlames
<1>1. IInv => ReplNeverBlames
  BY DEF IInv, ReplNeverBlames
<1> QED
  BY <1>1, ReplInvariance, PTL

(* For a careful user add_range and remove_range keep one record for each   *)
(* allocated payload, with its extent, and no other.                        *)
THEOREM ReplListExact == Spec => []ReplRangesExact
<1>1. IInv => ReplRangesExact
  <2> SUFFICES ASSUME IInv, ~ careless, Running
               PROVE  /\ Len(ranges) = Cardinality(given)
                      /\ \A piece \in given : \E k \in DOMAIN ranges :
                           ranges[k] = range(piece.ptr, piece.size)
    BY DEF ReplRangesExact
  <2>1. Owned(blocks, given) /\ Lists(ranges, Extents(given))
    BY DEF IInv, Careful
  <2>2. \A q \in given : q.ptr \in Nat /\ q.size \in Nat
    BY DEF IInv, Kept, ReplTypeOK, Pieces
  <2> DEFINE f == [q \in given |-> range(q.ptr, q.size)]
  <2>3. f \in Bijection(given, Extents(given))
    <3>1. f \in [given -> Extents(given)]
      BY DEF Extents
    <3>2. \A q, r \in given : f[q] = f[r] => q = r
      <4> SUFFICES ASSUME NEW q \in given, NEW r \in given, f[q] = f[r], q # r
                   PROVE  FALSE
        OBVIOUS
      <4>1. q.ptr = r.ptr
        BY DEF range
      <4>2. q.ptr + q.size <= r.ptr \/ r.ptr + r.size <= q.ptr
        BY <2>1 DEF Owned, DisjointFrom
      <4>3. q.size > 0 /\ r.size > 0
        BY <2>1 DEF Owned
      <4> QED
        BY <2>2, <4>1, <4>2, <4>3
    <3>3. \A e \in Extents(given) : \E q \in given : f[q] = e
      BY DEF Extents
    <3> QED
      BY <3>1, <3>2, <3>3 DEF Bijection, Injection, Surjection, IsInjective
  <2>4. Len(ranges) = Cardinality(given)
    BY <2>1, <2>3, ListsCount
  <2>5. DOMAIN ranges = 1 .. Len(ranges)
    BY <2>1, LenProperties DEF Lists
  <2>6. \A piece \in given : \E k \in 1 .. Len(ranges) :
          ranges[k] = range(piece.ptr, piece.size)
    BY <2>1 DEF Lists, Extents
  <2> QED
    BY <2>4, <2>5, <2>6
<1> QED
  BY <1>1, ReplInvariance, PTL

(* print shows every payload of a careful user under the index it was       *)
(* allocated for: no other index in use has its pointer, however many       *)
(* freed ones still do (find_repl_block_from_block).                       *)
THEOREM AlwaysPrintsOwner == Spec => []PrintsOwner
<1>1. IInv => PrintsOwner
  <2> SUFFICES ASSUME IInv, ~ careless, Running, NEW q \in given
               PROVE  find_repl_block_from_block(q.ptr) = q.fill
    BY DEF PrintsOwner
  <2> DEFINE at == {x \in Indices : blocks[x].ptr = q.ptr}
             used == {x \in at : InUse(x)}
  <2>1. Owned(blocks, given)
    BY DEF IInv, Careful
  <2>2. \A r \in given : r.ptr \in Nat /\ r.size \in Nat /\ r.fill \in Indices
    BY DEF IInv, Kept, ReplTypeOK, Pieces
  <2>3. q.fill \in used
    BY <2>1, <2>2 DEF Owned, InUse
  <2>4. ASSUME NEW x \in used PROVE x = q.fill
    <3> DEFINE r == Taken(x, blocks[x].ptr, blocks[x].size)
    <3>1. r \in given /\ r.ptr = q.ptr /\ r.fill = x
      BY <2>1, <2>4 DEF Owned, InUse, Taken
    <3> HIDE DEF r
    <3>2. r # q => q.ptr + q.size <= r.ptr \/ r.ptr + r.size <= q.ptr
      BY <2>1, <3>1 DEF Owned, DisjointFrom
    <3>3. q.size > 0 /\ r.size > 0
      BY <2>1, <3>1 DEF Owned
    <3> QED
      BY <2>2, <3>1, <3>2, <3>3
  <2>5. used = {q.fill}
    BY <2>3, <2>4
  <2>6. Min({q.fill}) = q.fill
    <3>1. q.fill \in Int
      BY <2>2, ReplAssumption
    <3> QED
      BY <3>1 DEF Min
  <2> HIDE DEF used
  <2>7. find_repl_block_from_block(q.ptr) = Min(used)
    BY <2>5 DEF find_repl_block_from_block, used
  <2> QED
    BY <2>5, <2>6, <2>7
<1> QED
  BY <1>1, ReplInvariance, PTL
=============================================================================

--------------------------------- MODULE MM ---------------------------------
(***************************************************************************)
(* mm.c: mm_init, mm_malloc, mm_free, mm_realloc and coalescing, run by    *)
(* one single-threaded client that follows the malloc contract.            *)
(*                                                                         *)
(* A call is one step, except the first-fit search of mm_malloc, which     *)
(* takes one step per free block it looks at.  Everything mm_malloc leads  *)
(* to in its caller (mm_realloc's memmove and mm_free of the old block)    *)
(* happens in the step in which it returns.                                *)
(*                                                                         *)
(* The client is mdriver.c's: it fills every block it is given with a      *)
(* pattern of its own (mdriver.c 597 and 629), only frees or reallocates   *)
(* pointers it holds, and between two traces it resets the break and calls *)
(* mm_init again on memory that still holds the old trace's bytes.         *)
(***************************************************************************)
EXTENDS HeapShape

CONSTANTS
  Ids,          \* the client's block ids, integers
  Sizes,        \* the payload sizes the client asks for, in bytes
  Junk,         \* what fresh memory may be filled with
  MaxResets,    \* how many times the client may start a new trace
  ReallocsNull  \* does the client call mm_realloc(NULL, n)?

ASSUME ClientAssumption ==
  /\ Ids \subseteq Int
  /\ Sizes \subseteq 0 .. INT_MAX
  /\ Junk \subseteq Int
  /\ MaxResets \in Nat
  /\ ReallocsNull \in BOOLEAN

VARIABLES
  heap,   \* the allocator's state: see MMInline
  call,   \* the mm_malloc in progress, and what is to be done with its result
  live,   \* what the client holds under each id
  resets  \* traces finished so far

vars == <<heap, call, live, resets>>

(* Mutant: rounds down. *)
align_down(size) == (size \div WORD_SIZE) * WORD_SIZE

(* align rounds up to a multiple of the word size. *)
align(size) == ((size + WORD_SIZE - 1) \div WORD_SIZE) * WORD_SIZE

-----------------------------------------------------------------------------
(* The parts of mm.c that run to completion, as functions of the heap.      *)

(* Mutant: a block merged into the one before it forgets the one behind it. *)
coalescing_one_side(h, block) ==
  LET prev == block_prev(h.mem, block)
      next == block_next(h.mem, block)
      h1   == pull_free_block(h, block)
      side == IF block_allocated(h.mem, prev) THEN next ELSE prev
      into == IF block_allocated(h.mem, prev) THEN block ELSE prev
      h2   == block_set_size_and_allocated(pull_free_block(h1, side), into,
                block_size(h1.mem, side) + block_size(h1.mem, block), 0)
  IN  insert_free_block(IF block_allocated(h.mem, side) THEN h1 ELSE h2, into)

(* pull_free_block(b) for each neighbour, then one tag over the union. *)
coalescing(h, block) ==
  LET next == block_next(h.mem, block)
      prev == block_prev(h.mem, block)
      h1   == pull_free_block(h, block)
      p1   == pull_free_block(h1, prev)
      h2   == IF block_allocated(h1.mem, prev) THEN h1
              ELSE block_set_size_and_allocated(p1, prev,
                     block_size(p1.mem, prev) + block_size(p1.mem, block), 0)
      into == IF block_allocated(h2.mem, prev) THEN block ELSE prev
      p2   == pull_free_block(h2, next)
      h3   == IF block_allocated(h2.mem, next) THEN h2
              ELSE block_set_size_and_allocated(p2, into,
                     block_size(p2.mem, next) + block_size(p2.mem, into), 0)
  IN  insert_free_block(h3, into)

mm_free(h, ptr) ==
  LET block == payload_to_block(ptr)
      freed == block_set_allocated(h, block, 0)
  IN  IF ptr = NULL THEN h
      ELSE IF ~ block_allocated(h.mem, block) THEN h
      ELSE coalescing(insert_free_block(freed, block), block)

(* Mutant: the epilogue is not tagged; whatever memory held is its size. *)
mm_init_no_epilogue(m) ==
  LET prologue_end == mem_sbrk(mem_start_brk, TAGS_SIZE)
  IN  block_set_size_and_allocated(
        [mem         |-> m,
         flist_first |-> NULL,
         epilogue    |-> prologue_end,
         brk         |-> mem_sbrk(prologue_end, TAGS_SIZE),
         fault       |-> "none",
         blocks      |-> {prologue_end}], prologue, TAGS_SIZE, 1)

(* The heap mm_init builds in memory m, whose break has been reset.  Both   *)
(* mem_sbrk calls succeed: MemoryAssumption.                                *)
mm_init(m) ==
  LET prologue_end == mem_sbrk(mem_start_brk, TAGS_SIZE)
      empty == [mem         |-> m,
                flist_first |-> NULL,
                epilogue    |-> prologue_end,
                brk         |-> mem_sbrk(prologue_end, TAGS_SIZE),
                fault       |-> "none",
                blocks      |-> {}]
  IN  block_set_size_and_allocated(
        block_set_size_and_allocated(empty, prologue, TAGS_SIZE, 1),
        prologue_end, TAGS_SIZE, 1)

(* Mutant: the block is tagged before it is taken off the free list. *)
place_tag_first(h, curr, b_size) ==
  pull_free_block(block_set_allocated(h, curr, 1), curr)

(* Mutant: a remainder too small for the links becomes a block. *)
place_splits_all(h, curr, b_size) ==
  LET h1        == pull_free_block(h, curr)
      free_size == block_size(h1.mem, curr) - b_size
      h2        == block_set_size_and_allocated(h1, curr, b_size, 1)
      rest      == block_next(h2.mem, curr)
      h3        == block_set_size_and_allocated(h2, rest, free_size, 0)
  IN  IF free_size >= TAGS_SIZE
        THEN insert_free_block(h3, rest)
        ELSE block_set_allocated(h1, curr, 1)

(* mm_malloc has found curr large enough: use it, splitting off what is left *)
(* if that can be a block of its own.                                        *)
place(h, curr, b_size) ==
  LET h1        == pull_free_block(h, curr)
      free_size == block_size(h1.mem, curr) - b_size
      h2        == block_set_size_and_allocated(h1, curr, b_size, 1)
      rest      == block_next(h2.mem, curr)
      h3        == block_set_size_and_allocated(h2, rest, free_size, 0)
  IN  IF free_size >= MINBLOCKSIZE
        THEN insert_free_block(h3, rest)
        ELSE block_set_allocated(h1, curr, 1)

(* mm_malloc has got b_size more bytes: the old epilogue becomes the new     *)
(* block and a new epilogue is written behind it.                            *)
extend(h, b_size) ==
  LET grown == [h EXCEPT !.brk = mem_sbrk(@, b_size)]
      h1    == block_set_size_and_allocated(grown, h.epilogue, b_size, 1)
      last  == block_next(h1.mem, h.epilogue)
  IN  block_set_size_and_allocated([h1 EXCEPT !.epilogue = last],
                                   last, TAGS_SIZE, 1)

(* memmove of n bytes, n a multiple of the word size; the areas may overlap. *)
memmove(h, dst, src, n) ==
  [h EXCEPT !.mem = [a \in Addr |-> IF dst <= a /\ a < dst + n
                                    THEN h.mem[src + (a - dst)]
                                    ELSE h.mem[a]]]

(* memset of n bytes; the last word may be only partly the client's. *)
memset(h, dst, val, n) ==
  [h EXCEPT !.mem = [a \in Addr |-> IF dst <= a /\ a < dst + n
                                    THEN val ELSE h.mem[a]]]

-----------------------------------------------------------------------------

Nothing == [ptr |-> NULL, size |-> 0, kept |-> 0]

Idle == [pc |-> "idle", op |-> "none", id |-> 0, size |-> 0,
         need |-> 0, curr |-> NULL, old |-> 0]

Init ==
  /\ \E j \in Junk : heap = mm_init([a \in Addr |-> j])
  /\ call = Idle
  /\ live = [i \in Ids |-> Nothing]
  /\ resets = 0

(* A failed assertion stops the program wherever it is. *)
At(pc) == call.pc = pc /\ heap.fault = "none"

Ready == At("idle")

(* The client now holds ptr under id i, and is about to write its pattern. *)
Receives(i, ptr, size, kept) ==
  /\ live' = [live EXCEPT ![i] = [ptr |-> ptr, size |-> size, kept |-> kept]]
  /\ call' = [Idle EXCEPT !.pc = "fill", !.id = i]

-----------------------------------------------------------------------------
(* mm_malloc                                                                *)

(* Mutant: the search starts behind the head. *)
mm_malloc_from_second(op, i, size, asked, old) ==
  LET b_size == align(asked) + TAGS_SIZE
      none   == heap.flist_first = NULL
  IN  call' = [pc   |-> IF none THEN "sbrk" ELSE "search",
               op   |-> op, id |-> i, size |-> size, old |-> old,
               need |-> IF b_size < MINBLOCKSIZE THEN MINBLOCKSIZE ELSE b_size,
               curr |-> IF none THEN NULL
                        ELSE block_flink(heap.mem, heap.flist_first)]

(* mm_malloc(size), called for operation op on id i, up to the loop. *)
mm_malloc(op, i, size, asked, old) ==
  LET b_size == align(asked) + TAGS_SIZE
  IN  call' = [pc   |-> IF heap.flist_first = NULL THEN "sbrk" ELSE "search",
               op   |-> op, id |-> i, size |-> size, old |-> old,
               need |-> IF b_size < MINBLOCKSIZE THEN MINBLOCKSIZE ELSE b_size,
               curr |-> heap.flist_first]

(* Mutants: mm_realloc's fallback without its mm_free, ... *)
Returned_no_free(h, ptr) ==
  LET i == call.id
  IN  /\ heap' = IF call.op = "realloc" /\ ptr # NULL
                 THEN memmove(h, ptr, live[i].ptr, call.old) ELSE h
      /\ IF ptr = NULL THEN call' = Idle /\ UNCHANGED live
         ELSE Receives(i, ptr, call.size, 0)

(* ... with its mm_free before its memmove, ... *)
Returned_free_first(h, ptr) ==
  LET i == call.id
      kept == IF call.size < live[i].kept THEN call.size ELSE live[i].kept
  IN  /\ heap' = IF call.op = "realloc" /\ ptr # NULL
                 THEN memmove(mm_free(h, live[i].ptr), ptr,
                              live[i].ptr, call.old)
                 ELSE h
      /\ IF ptr = NULL THEN call' = Idle /\ UNCHANGED live
         ELSE Receives(i, ptr, call.size, kept)

(* ... and without its memmove. *)
Returned_no_memmove(h, ptr) ==
  LET i == call.id
  IN  /\ heap' = IF call.op = "realloc" /\ ptr # NULL
                 THEN mm_free(h, live[i].ptr) ELSE h
      /\ IF ptr = NULL THEN call' = Idle /\ UNCHANGED live
         ELSE Receives(i, ptr, call.size, 0)

(* mm_malloc returns ptr and leaves heap h: what its caller does with it. *)
Returned(h, ptr) ==
  LET i == call.id
      kept == IF call.size < live[i].kept THEN call.size ELSE live[i].kept
  IN  \/ /\ call.op = "malloc" /\ ptr # NULL
         /\ heap' = h
         /\ Receives(i, ptr, call.size, 0)
      \/ /\ call.op = "realloc" /\ ptr # NULL
         /\ heap' = mm_free(memmove(h, ptr, live[i].ptr, call.old), live[i].ptr)
         /\ Receives(i, ptr, call.size, kept)
      \/ /\ call.op = "realloc_null" \/ ptr = NULL
         /\ heap' = h
         /\ call' = Idle
         /\ UNCHANGED live

(* The last round of the loop, which finds curr large enough ... *)
SearchFits ==
  /\ At("search")
  /\ block_size(heap.mem, call.curr) >= call.need
  /\ call' = [call EXCEPT !.pc = "place"]
  /\ UNCHANGED <<heap, live, resets>>

Placed ==
  /\ At("place")
  /\ Returned(place(heap, call.curr, call.need), payload(call.curr))
  /\ UNCHANGED resets

(* Mutants: the last block of the ring is never looked at, ... *)
SearchMovesOn_stops_early ==
  LET next == block_flink(heap.mem, call.curr)
  IN  /\ At("search")
      /\ block_size(heap.mem, call.curr) < call.need
      /\ call' = [call EXCEPT !.curr = next,
                              !.pc = IF block_flink(heap.mem, next)
                                          = heap.flist_first
                                     THEN "sbrk" ELSE "search"]
      /\ UNCHANGED <<heap, live, resets>>

(* ... and the loop waits for a NULL that a ring does not have. *)
SearchMovesOn_until_null ==
  LET next == block_flink(heap.mem, call.curr)
  IN  /\ At("search")
      /\ block_size(heap.mem, call.curr) < call.need
      /\ call' = [call EXCEPT !.curr = next,
                              !.pc = IF next = NULL THEN "sbrk" ELSE "search"]
      /\ UNCHANGED <<heap, live, resets>>

(* ... and one that goes on to the next free block, or gives up. *)
SearchMovesOn ==
  LET next == block_flink(heap.mem, call.curr)
  IN  /\ At("search")
      /\ block_size(heap.mem, call.curr) < call.need
      /\ heap' = check(heap, ~ block_allocated(heap.mem, call.curr))
      /\ call' = [call EXCEPT !.curr = next,
                              !.pc = IF next = heap.flist_first
                                     THEN "sbrk" ELSE "search"]
      /\ UNCHANGED <<live, resets>>

Extends ==
  /\ At("sbrk")
  /\ ~ sbrk_refuses(heap.brk, call.need)
  /\ Returned(extend(heap, call.need), payload(heap.epilogue))
  /\ UNCHANGED resets

OutOfMemory ==
  /\ At("sbrk")
  /\ sbrk_refuses(heap.brk, call.need)
  /\ Returned(heap, NULL)
  /\ UNCHANGED resets

-----------------------------------------------------------------------------
(* The client's calls.  A call of size 0 that only returns NULL is no step. *)

Malloc(i, n) ==
  /\ Ready /\ live[i] = Nothing /\ n # 0
  /\ mm_malloc("malloc", i, n, n, 0)
  /\ UNCHANGED <<heap, live, resets>>

Releases(i) ==
  /\ heap' = mm_free(heap, live[i].ptr)
  /\ live' = [live EXCEPT ![i] = Nothing]
  /\ UNCHANGED call

Free(i) ==
  /\ Ready /\ live[i] # Nothing
  /\ Releases(i)
  /\ UNCHANGED resets

(* mm_realloc(NULL, n): mm_malloc is called, but its result is dropped. *)
ReallocNull(n) ==
  /\ ReallocsNull /\ Ready /\ n # 0
  /\ mm_malloc("realloc_null", 0, n, n, 0)
  /\ UNCHANGED <<heap, live, resets>>

(* mm_realloc(ptr, n), by the first case that applies. *)
Realloc(i, n) ==
  LET ptr      == live[i].ptr
      original == payload_to_block(ptr)
      b_size   == align(n) + TAGS_SIZE
      m        == heap.mem
      old_size == block_size(m, original)
      next     == block_next(m, original)
      prev     == block_prev(m, original)
      with_prev == ~ block_allocated(m, prev)
                   /\ old_size + block_size(m, prev) >= b_size
      with_next == ~ block_allocated(m, next)
                   /\ old_size + block_size(m, next) >= b_size
      with_both == /\ ~ block_allocated(m, prev) /\ ~ block_allocated(m, next)
                   /\ old_size + block_size(m, prev) + block_size(m, next)
                        >= b_size
      kept     == IF n < live[i].kept THEN n ELSE live[i].kept
      pulled_prev == pull_free_block(heap, prev)
      pulled_next == pull_free_block(heap, next)
      pulled_both == pull_free_block(pulled_next, prev)
  IN  /\ Ready /\ live[i] # Nothing
      /\ \/ /\ n = 0
            /\ Releases(i)
         \/ /\ n # 0 /\ old_size >= b_size
            /\ heap' = heap
            /\ Receives(i, ptr, n, kept)
         \/ /\ old_size < b_size /\ with_prev
            /\ heap' = memmove(block_set_size_and_allocated(pulled_prev, prev,
                                 old_size + block_size(pulled_prev.mem, prev), 1),
                               payload(prev), ptr, old_size)
            /\ Receives(i, payload(prev), n, kept)
         \/ /\ old_size < b_size /\ ~ with_prev /\ with_next
            /\ heap' = block_set_size_and_allocated(pulled_next, original,
                         old_size + block_size(pulled_next.mem, next), 1)
            /\ Receives(i, ptr, n, kept)
         \/ /\ old_size < b_size /\ ~ with_prev /\ ~ with_next /\ with_both
            /\ heap' = memmove(block_set_size_and_allocated(pulled_both, prev,
                                 old_size + block_size(pulled_both.mem, next)
                                   + block_size(pulled_both.mem, prev), 1),
                               payload(prev), ptr, old_size)
            /\ Receives(i, payload(prev), n, kept)
         \/ /\ old_size < b_size /\ ~ with_prev /\ ~ with_next /\ ~ with_both
            /\ mm_malloc("realloc", i, n, b_size, old_size)
            /\ UNCHANGED <<heap, live>>
      /\ UNCHANGED resets

(* The client writes its pattern into the block it was just given. *)
Fill ==
  LET i == call.id
  IN  /\ At("fill")
      /\ heap' = memset(heap, live[i].ptr, i, live[i].size)
      /\ live' = [live EXCEPT ![i].kept = live[i].size]
      /\ call' = Idle
      /\ UNCHANGED resets

(* The next trace: mem_reset_brk and mm_init, in memory as it was left. *)
NextTrace ==
  /\ Ready /\ resets < MaxResets
  /\ heap' = mm_init(heap.mem)
  /\ live' = [i \in Ids |-> Nothing]
  /\ resets' = resets + 1
  /\ UNCHANGED call

Loop == SearchFits \/ SearchMovesOn

Next ==
  \/ Loop \/ Placed \/ Extends \/ OutOfMemory
  \/ Fill
  \/ \E i \in Ids :
       \/ Free(i)
       \/ \E n \in Sizes : Malloc(i, n) \/ Realloc(i, n)
  \/ \E n \in Sizes : ReallocNull(n)
  \/ NextTrace

Spec == Init /\ [][Next]_vars

(* Nothing but its own exits stops mm_malloc's loop: one thread runs it. *)
FairSpec == Spec /\ WF_vars(Loop)

-----------------------------------------------------------------------------
(* What has to hold                                                         *)

CallType ==
  [pc   : {"idle", "search", "place", "sbrk", "fill"},
   op   : {"none", "malloc", "realloc", "realloc_null"},
   id   : Ids \cup {0}, size : Nat, need : Nat,
   curr : Addr \cup {NULL}, old : Nat]

(* Every variable holds what its declaration in the code can hold: memory   *)
(* words are integers, all pointers are null or inside the simulated memory *)
(* and no block or break lies outside it.                                   *)
TypeOK ==
  /\ heap \in HeapType
  /\ call \in CallType
  /\ live \in [Ids -> [ptr : Addr \cup {NULL}, size : Nat, kept : Nat]]
  /\ resets \in 0 .. MaxResets

(* No assert() of mminline.h ever fails, whatever sequence of calls a       *)
(* well-behaved client makes.                                               *)
NoAssertFails == heap.fault = "none"

(* The blocks partition the heap: from prologue to epilogue each one starts *)
(* where the last one ends, the epilogue ends at the break (mm_malloc's use *)
(* of the old epilogue as the new block depends on it), and only prologue   *)
(* and epilogue are smaller than MINBLOCKSIZE (mm.h 19-21).                 *)
HeapTiled ==
  /\ Tiled(heap.mem, heap.blocks, heap.epilogue)
  /\ heap.epilogue + TAGS_SIZE = heap.brk

(* Header and end tag of every block agree, and prologue and epilogue stay  *)
(* allocated: what lets block_prev walk backwards and coalescing stop at    *)
(* either end of the heap.                                                  *)
BoundaryTagsAgree == TagsAgree(heap.mem, heap.blocks, heap.epilogue)

(* coalescing() leaves no two free blocks side by side, nor do mm_malloc's  *)
(* split and mm_realloc's merges (README: "saves the heap from having tiny  *)
(* free blocks").                                                           *)
NoAdjacentFree ==
  \A b, c \in FreeBlocks(heap.mem, heap.blocks) : block_next(heap.mem, b) # c

(* The free list is one doubly linked ring of exactly the free blocks.      *)
FreeListExact ==
  Ring(heap.mem, heap.flist_first, FreeBlocks(heap.mem, heap.blocks))

Held == {i \in Ids : live[i] # Nothing}

(* Different ids hold different allocated blocks, each with room for the    *)
(* payload that was asked for, and never the prologue or the epilogue.      *)
PayloadsOwned ==
  /\ \A i \in Held :
       LET b == payload_to_block(live[i].ptr)
       IN  /\ b \in heap.blocks \ {prologue, heap.epilogue}
           /\ block_allocated(heap.mem, b)
           /\ live[i].size + TAGS_SIZE <= block_size(heap.mem, b)
  /\ \A i, j \in Held : live[i].ptr = live[j].ptr => i = j

(* An allocated block is one the client holds: mm_realloc's moves and       *)
(* mm_malloc's failures leak nothing.                                       *)
NoLeak ==
  \A b \in heap.blocks \ {prologue, heap.epilogue} :
    block_allocated(heap.mem, b) => \E i \in Held : live[i].ptr = payload(b)

(* What the client wrote is there until it frees the block, through every   *)
(* other call and through every way mm_realloc moves it.                    *)
DataIntact ==
  \A i \in Held : \A a \in Addr :
    live[i].ptr <= a /\ a < live[i].ptr + live[i].kept => heap.mem[a] = i

(* The heap grows only when no free block is large enough (README: "Only    *)
(* when there is no available free block in the free list, we call          *)
(* mem_sbrk()"): the search missed none.                                    *)
GrowsOnlyWhenNoneFits ==
  [][heap'.brk > heap.brk =>
       \A b \in FreeBlocks(heap.mem, heap.blocks) :
         block_size(heap.mem, b) < call.need]_vars

(* mm_malloc's loop ends, with a block or at the head it started from.      *)
SearchEnds == call.pc = "search" ~> call.pc \in {"place", "sbrk"}

(* README: "if the new size is smaller than the original size, we return    *)
(* ptr directly, and we shorten the memory size to the new size using       *)
(* block_set_size()": no splittable remainder stays behind in the block.    *)
ShrinkShortens ==
  [][\A i \in Ids :
       /\ live[i] # Nothing /\ live'[i] # Nothing
       /\ live'[i].size < live[i].size
       => block_size(heap'.mem, payload_to_block(live'[i].ptr))
            < align(live'[i].size) + TAGS_SIZE + MINBLOCKSIZE]_vars
=============================================================================

------------------------------ MODULE MMInline ------------------------------
(***************************************************************************)
(* mminline.h: the boundary tags of a block and the circular, doubly       *)
(* linked free list threaded through the payloads of the free blocks.      *)
(*                                                                         *)
(* Memory is a function m from word addresses to integers.  A block at b   *)
(* of s bytes looks like this (s is a multiple of ALIGNMENT, a is 1 if the *)
(* block is allocated and 0 if it is free):                                *)
(*                                                                         *)
(*     b        b+8       b+16                 b+s-8                       *)
(*     [ s|a ]  [ flink ] [ blink ]    ...     [ s|a ]                     *)
(*              `-------------- payload ------'                            *)
(*                                                                         *)
(* The links share the first two payload words with the user's data, and   *)
(* nothing but the tags themselves says where a block starts.              *)
(*                                                                         *)
(* The operators that write take and return a heap h, a record with the    *)
(* fields                                                                  *)
(*   mem          the memory                                               *)
(*   flist_first  head of the free list, or NULL                           *)
(*   epilogue     address of the epilogue block                            *)
(*   brk          the break kept by memlib.c                               *)
(*   fault        "assert" once an assert() of mminline.h has failed       *)
(*   blocks       auxiliary: where the blocks start; no code reads it      *)
(***************************************************************************)
EXTENDS Memlib

(* A tag t is size | allocated. *)
tag_size(t) == t - (t % 2)
tag_allocated(t) == t % 2

block_size(m, b) == tag_size(m[b])
block_allocated(m, b) == tag_allocated(m[b]) = 1
block_end_tag(m, b) == b + block_size(m, b) - WORD_SIZE
block_next(m, b) == b + block_size(m, b)
block_prev_size(m, b) == tag_size(m[b - WORD_SIZE])
block_prev(m, b) == b - block_prev_size(m, b)

(* Mutant: payload[1] is read for payload[0]. *)
block_flink_other_word(m, b) == m[b + 2 * WORD_SIZE]

block_flink(m, b) == m[b + WORD_SIZE]
block_blink(m, b) == m[b + 2 * WORD_SIZE]

prologue == mem_start_brk

payload(b) == b + WORD_SIZE
payload_to_block(p) == p - WORD_SIZE

-----------------------------------------------------------------------------

(* assert(cond): a failed assertion stops the program. *)
check(h, cond) == IF cond THEN h ELSE [h EXCEPT !.fault = "assert"]

(***************************************************************************)
(* Writing a size puts it into both tags, keeping the allocated bit found  *)
(* in the header.  Seen from outside, the bytes from b to b + size are now *)
(* one block: blocks that started strictly inside are no more.             *)
(***************************************************************************)
block_set_size(h, b, size) ==
  LET tag == size + tag_allocated(h.mem[b])
  IN  check([h EXCEPT
               !.mem = [h.mem EXCEPT ![b] = tag, ![b + size - WORD_SIZE] = tag],
               !.blocks = {c \in @ : c <= b \/ c >= b + size} \cup {b}],
            size % ALIGNMENT = 0 /\ size >= TAGS_SIZE)

(* Mutant: only the header's bit is written. *)
block_set_allocated_header_only(h, b, allocated) ==
  [h EXCEPT !.mem[b] = tag_size(@) + allocated]

(* Each tag keeps its own size bits. *)
block_set_allocated(h, b, allocated) ==
  LET m   == h.mem
      end == block_end_tag(m, b)
  IN  check([h EXCEPT
               !.mem = [m EXCEPT ![b] = tag_size(m[b]) + allocated,
                                 ![end] = tag_size(m[end]) + allocated]],
            block_size(m, b) >= TAGS_SIZE)

block_set_size_and_allocated(h, b, size, allocated) ==
  block_set_allocated(block_set_size(h, b, size), b, allocated)

-----------------------------------------------------------------------------

BothFree(h, b, c) ==
  ~ block_allocated(h.mem, b) /\ ~ block_allocated(h.mem, c)

block_set_flink(h, b, new_flink) ==
  check([h EXCEPT !.mem[b + WORD_SIZE] = new_flink], BothFree(h, b, new_flink))

block_set_blink(h, b, new_blink) ==
  check([h EXCEPT !.mem[b + 2 * WORD_SIZE] = new_blink],
        BothFree(h, b, new_blink))

(* Mutant: the last block's flink goes on skipping the new block. *)
insert_free_block_half(h, fb) ==
  LET first == h.flist_first
      h1    == block_set_flink(h, fb, IF first = NULL THEN fb ELSE first)
      h2    == block_set_blink(h1, fb, IF first = NULL THEN fb
                                       ELSE block_blink(h.mem, first))
      h3    == block_set_blink(h2, IF first = NULL THEN fb ELSE first, fb)
  IN  [h3 EXCEPT !.flist_first = fb]

(* Insertion is always at the head, between the old head and the last. *)
insert_free_block(h, fb) ==
  LET first  == h.flist_first
      last   == block_blink(h.mem, first)
      alone  == block_set_blink(block_set_flink(h, fb, fb), fb, fb)
      h1     == block_set_flink(h, fb, first)
      h2     == block_set_blink(h1, fb, last)
      h3     == block_set_flink(h2, last, fb)
      linked == block_set_blink(h3, first, fb)
  IN  [(IF first # NULL THEN linked ELSE alone) EXCEPT !.flist_first = fb]

(* Removal: the head moves on if it is fb, the last block empties the list. *)
pull_free_block(h, fb) ==
  LET next == block_flink(h.mem, fb)
      h1   == check([h EXCEPT !.flist_first = IF @ = fb THEN next ELSE @],
                    ~ block_allocated(h.mem, fb))
      h2   == block_set_flink(h1, block_blink(h1.mem, fb), next)
      h3   == block_set_blink(h2, block_flink(h2.mem, fb),
                              block_blink(h2.mem, fb))
  IN  IF h.flist_first = fb /\ next = fb
        THEN [h1 EXCEPT !.flist_first = NULL]
        ELSE h3
=============================================================================

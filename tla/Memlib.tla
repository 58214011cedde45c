------------------------------- MODULE Memlib -------------------------------
(***************************************************************************)
(* memlib.c: the simulated memory system underneath the allocator.         *)
(*                                                                         *)
(* One array of MAX_HEAP bytes is obtained once (mem_init); the break      *)
(* mem_brk divides it into the heap proper and the space not yet handed    *)
(* out.  mem_sbrk only ever moves the break upwards and mem_reset_brk puts *)
(* it back to the start WITHOUT clearing the bytes, so whatever an earlier *)
(* trace wrote is still there when the next one starts.                    *)
(*                                                                         *)
(* Addresses and sizes are in bytes; memory is looked at one machine word  *)
(* (WORD_SIZE bytes) at a time, at word-aligned addresses.                 *)
(***************************************************************************)
EXTENDS Integers

CONSTANTS
  MAX_HEAP,       \* config.h: size in bytes of the simulated memory (20 MB)
  mem_start_brk,  \* address of its first byte, whatever malloc returned
  INT_SPAN        \* number of values of a C int: 2^32 in the build

WORD_SIZE == 8
ALIGNMENT == 8
TAGS_SIZE == 2 * WORD_SIZE
MINBLOCKSIZE == 4 * WORD_SIZE

(* No heap address is the null pointer. *)
NULL == 0

INT_MAX == (INT_SPAN \div 2) - 1

(***************************************************************************)
(* The memory has room for prologue and epilogue, libc returns an aligned, *)
(* non-null address, and the simulated memory is small compared with the   *)
(* range of an int (20 * 2^20 against 2^31).                               *)
(***************************************************************************)
ASSUME MemoryAssumption ==
  /\ MAX_HEAP \in Nat /\ MAX_HEAP % WORD_SIZE = 0
  /\ MAX_HEAP >= 2 * TAGS_SIZE
  /\ mem_start_brk \in Nat /\ mem_start_brk % WORD_SIZE = 0
  /\ mem_start_brk > 0
  /\ INT_SPAN \in Nat /\ INT_SPAN % 2 = 0
  /\ INT_MAX >= MAX_HEAP + MINBLOCKSIZE

mem_max_addr == mem_start_brk + MAX_HEAP

(* The word addresses of the simulated memory. *)
Addr == {a \in mem_start_brk .. mem_max_addr - 1 : a % WORD_SIZE = 0}

(***************************************************************************)
(* mem_sbrk takes an int, its callers pass a long: the implicit conversion *)
(* keeps the low-order bits and reads them as a signed number.             *)
(***************************************************************************)
ToInt(n) ==
  LET low == n % INT_SPAN
  IN  IF low > INT_MAX THEN low - INT_SPAN ELSE low

(* Mutant: off by one word. *)
sbrk_refuses_late(brk, n) ==
  ToInt(n) < 0 \/ brk + ToInt(n) > mem_max_addr + WORD_SIZE

(* mem_sbrk(n) with the break at brk: refused, or the break it leaves.     *)
sbrk_refuses(brk, n) == ToInt(n) < 0 \/ brk + ToInt(n) > mem_max_addr
mem_sbrk(brk, n) == brk + ToInt(n)

mem_heap_lo == mem_start_brk
mem_heap_hi(brk) == brk - 1
mem_heapsize(brk) == brk - mem_start_brk
=============================================================================

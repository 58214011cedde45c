------------------------------ MODULE MMLemmas ------------------------------
(***************************************************************************)
(* Lemmas about the operators of mm.c on a well-formed heap: each leaves a *)
(* well-formed heap, and every allocated block it is not about keeps its   *)
(* size and every one of its words.                                        *)
(***************************************************************************)
EXTENDS MM, HeapLemmas

USE DEF WORD_SIZE, ALIGNMENT, TAGS_SIZE, MINBLOCKSIZE, prologue

FreeOf(h) == FreeBlocks(h.mem, h.blocks)
UsedOf(h) == h.blocks \ FreeOf(h)

(* h is tiled, ends at the break, and no assertion has failed.             *)
Shaped(h) ==
  /\ h \in HeapType
  /\ h.fault = "none"
  /\ Layout(h.mem, h.blocks, h.epilogue)
  /\ h.epilogue + TAGS_SIZE = h.brk

(* The free list of h holds its free blocks but for those in X.            *)
Off(h, X) ==
  /\ Shaped(h)
  /\ X \subseteq FreeOf(h)
  /\ Ring(h.mem, h.flist_first, FreeOf(h) \ X)

WellFormed(h) == Off(h, {})

(* The blocks in S, allocated in h, are in r what they were in h.          *)
Kept(h, r, S) ==
  \A c \in S :
    /\ c \in UsedOf(r)
    /\ block_size(r.mem, c) = block_size(h.mem, c)
    /\ \A a \in Addr : c <= a /\ a < c + block_size(h.mem, c)
                       => r.mem[a] = h.mem[a]

(* r differs from h in the list only.                                      *)
SameBlocks(h, r) ==
  /\ r.blocks = h.blocks /\ r.epilogue = h.epilogue /\ r.brk = h.brk
  /\ FreeOf(r) = FreeOf(h)
  /\ \A c \in h.blocks : block_size(r.mem, c) = block_size(h.mem, c)
  /\ Kept(h, r, UsedOf(h))

(* Only blocks of X may be free next to a free block.                      *)
Settled(h, X) ==
  \A f, g \in FreeOf(h) : block_next(h.mem, f) = g => f \in X \/ g \in X

(* Coalesced before, and coalesced after.                                  *)
Settles(h, r) == Settled(h, {}) => Settled(r, {})

-----------------------------------------------------------------------------

(* Taking free blocks away, and leaving the others as they are, brings no  *)
(* two of them together.                                                   *)
LEMMA SettledFewer ==
  ASSUME NEW h, NEW r, NEW X, Settled(h, X), FreeOf(r) \subseteq FreeOf(h),
         \A c \in FreeOf(r) : block_size(r.mem, c) = block_size(h.mem, c)
  PROVE  Settled(r, X)
BY DEF Settled, block_next

(* Every step that keeps a block keeps it for the next one.                *)
LEMMA KeptTrans ==
  ASSUME NEW h, NEW g, NEW r, NEW S, NEW T, Kept(h, g, S), Kept(g, r, T),
         S \subseteq T
  PROVE  Kept(h, r, S)
BY DEF Kept

(* A memory with the same tags, the same words in allocated blocks and the *)
(* same list words: what any change of links amounts to.                   *)
LEMMA LinksOff ==
  ASSUME NEW h, Shaped(h), NEW F \in SUBSET FreeOf(h),
         NEW n, OnlyLinks(h.mem, n, F), NEW first \in Addr \cup {NULL},
         NEW X, X \subseteq FreeOf(h), Ring(n, first, FreeOf(h) \ X)
  PROVE  LET r == [h EXCEPT !.mem = n, !.flist_first = first]
         IN  Off(r, X) /\ SameBlocks(h, r)
<1> DEFINE r == [h EXCEPT !.mem = n, !.flist_first = first]
           m == h.mem
           B == h.blocks
           E == h.epilogue
<1>1. h \in HeapType /\ Layout(m, B, E) /\ FreeOf(h) = FreeBlocks(m, B)
  BY DEF Shaped, FreeOf
<1>2. /\ Layout(n, B, E)
      /\ \A b \in B : /\ block_size(n, b) = block_size(m, b)
                      /\ block_allocated(n, b) = block_allocated(m, b)
      /\ FreeBlocks(n, B) = FreeBlocks(m, B)
      /\ \A c \in B \ F : \A a \in Addr :
           c <= a /\ a < c + block_size(m, c) => n[a] = m[a]
  BY <1>1, LinksKeepLayout
<1>3. /\ r \in HeapType /\ r.mem = n /\ r.flist_first = first
      /\ r.blocks = B /\ r.epilogue = E /\ r.brk = h.brk /\ r.fault = h.fault
  BY <1>1 DEF HeapType, OnlyLinks
<1> HIDE DEF r
<1>4. FreeOf(r) = FreeOf(h)
  BY <1>1, <1>2, <1>3 DEF FreeOf
<1>5. Off(r, X)
  BY <1>2, <1>3, <1>4 DEF Off, Shaped
<1>6. SameBlocks(h, r)
  BY <1>2, <1>3, <1>4 DEF SameBlocks, Kept, UsedOf
<1> QED
  BY <1>5, <1>6 DEF r

(* pull_free_block, called for a block of the list.                        *)
LEMMA PullOff ==
  ASSUME NEW h, NEW X, Off(h, X), NEW b \in FreeOf(h) \ X
  PROVE  LET r == pull_free_block(h, b)
         IN  Off(r, X \cup {b}) /\ SameBlocks(h, r)
<1> DEFINE r == pull_free_block(h, b)
           F == FreeOf(h) \ X
<1>1. /\ h \in HeapType /\ Layout(h.mem, h.blocks, h.epilogue)
      /\ F \in SUBSET FreeBlocks(h.mem, h.blocks)
      /\ Ring(h.mem, h.flist_first, F)
  BY DEF Off, Shaped, FreeOf
<1>2. Linkable(F) /\ AllFree(h.mem, F)
  BY <1>1, FreeLinkable
<1>3. /\ r = [h EXCEPT !.mem = r.mem, !.flist_first = r.flist_first]
      /\ r.flist_first \in Addr \cup {NULL}
      /\ Ring(r.mem, r.flist_first, F \ {b})
      /\ OnlyLinks(h.mem, r.mem, F)
  BY <1>1, <1>2, PullFree
<1>4. F \ {b} = FreeOf(h) \ (X \cup {b}) /\ X \cup {b} \subseteq FreeOf(h)
  BY DEF Off
<1> HIDE DEF r, F
<1>5. Shaped(h) /\ F \in SUBSET FreeOf(h)
  BY DEF Off, F
<1>6. LET q == [h EXCEPT !.mem = r.mem, !.flist_first = r.flist_first]
      IN  Off(q, X \cup {b}) /\ SameBlocks(h, q)
  BY <1>3, <1>4, <1>5, LinksOff
<1> QED
  BY <1>3, <1>6, Zenon DEF r

(* insert_free_block, called for a free block that is not in the list.     *)
LEMMA InsertOff ==
  ASSUME NEW h, NEW X, Off(h, X), NEW b \in X
  PROVE  LET r == insert_free_block(h, b)
         IN  Off(r, X \ {b}) /\ SameBlocks(h, r)
<1> DEFINE r == insert_free_block(h, b)
           F == FreeOf(h) \ X
           G == F \cup {b}
<1>1. /\ h \in HeapType /\ Layout(h.mem, h.blocks, h.epilogue)
      /\ G \in SUBSET FreeBlocks(h.mem, h.blocks)
      /\ Ring(h.mem, h.flist_first, F) /\ b \notin F
  BY DEF Off, Shaped, FreeOf
<1>2. Linkable(G) /\ AllFree(h.mem, G)
  BY <1>1, FreeLinkable
<1>3. /\ r = [h EXCEPT !.mem = r.mem, !.flist_first = b]
      /\ r.flist_first = b
      /\ Ring(r.mem, b, G)
      /\ OnlyLinks(h.mem, r.mem, G)
  BY <1>1, <1>2, InsertFree
<1>4. G = FreeOf(h) \ (X \ {b}) /\ X \ {b} \subseteq FreeOf(h)
  BY DEF Off
<1>5. b \in Addr \cup {NULL}
  BY <1>2 DEF Linkable
<1> HIDE DEF r, F, G
<1>6. Shaped(h) /\ G \in SUBSET FreeOf(h)
  BY <1>1 DEF Off, G, FreeOf
<1>7. LET q == [h EXCEPT !.mem = r.mem, !.flist_first = b]
      IN  Off(q, X \ {b}) /\ SameBlocks(h, q)
  BY <1>3, <1>4, <1>5, <1>6, LinksOff
<1> QED
  BY <1>3, <1>7, Zenon DEF r

-----------------------------------------------------------------------------

(* r is h with the memory from lo to hi, which was made up of the blocks C, *)
(* none of them in the list, rewritten as the blocks N.                     *)
Rebuilds(h, X, r, C, N, lo, hi) ==
  /\ r \in HeapType /\ r.fault = "none" /\ r.flist_first = h.flist_first
  /\ Layout(r.mem, r.blocks, r.epilogue) /\ r.epilogue + TAGS_SIZE = r.brk
  /\ C \subseteq h.blocks /\ FreeOf(h) \cap C \subseteq X
  /\ N \cap (h.blocks \ C) = {} /\ r.blocks = (h.blocks \ C) \cup N
  /\ lo \in Int /\ hi \in Int
  /\ \A x \in Addr : x < lo \/ x >= hi => r.mem[x] = h.mem[x]
  /\ \A c \in h.blocks \ C : c + block_size(h.mem, c) <= lo \/ hi <= c

FreeAmong(r, N) == {c \in N : ~ block_allocated(r.mem, c)}

RestKept(h, X, r, C, N) ==
  /\ FreeOf(r) = (FreeOf(h) \ C) \cup FreeAmong(r, N)
  /\ Off(r, (X \ C) \cup FreeAmong(r, N))
  /\ \A c \in h.blocks \ C : block_size(r.mem, c) = block_size(h.mem, c)
  /\ Kept(h, r, UsedOf(h) \ C)

(* Merging, splitting, tagging, extending and copying all rebuild a stretch *)
(* of the heap, and leave the list and all other blocks alone.              *)
LEMMA Rebuilt ==
  ASSUME NEW h, NEW X, Off(h, X), NEW r, NEW C, NEW N, NEW lo, NEW hi,
         Rebuilds(h, X, r, C, N, lo, hi)
  PROVE  RestKept(h, X, r, C, N)
<1> USE DEF Rebuilds
<1> DEFINE new == FreeAmong(r, N)
           m == h.mem
           F == FreeOf(h) \ X
<1>1. Layout(m, h.blocks, h.epilogue)
  BY DEF Off, Shaped
<1>2. \A c \in h.blocks \ C :
        /\ c \in Addr /\ c \in Int /\ block_size(m, c) \in Int
        /\ block_size(m, c) >= 16
  BY <1>1, BlockFacts
<1>3. \A c \in h.blocks \ C : \A a \in Addr :
        c <= a /\ a < c + block_size(m, c) => r.mem[a] = m[a]
  <2> TAKE c \in h.blocks \ C
  <2> TAKE a \in Addr
  <2> HAVE c <= a /\ a < c + block_size(m, c)
  <2>1. c + block_size(m, c) <= lo \/ hi <= c
    OBVIOUS
  <2>2. a < lo \/ a >= hi
    BY <1>2, <2>1, AddrInt
  <2> QED
    BY <2>2
<1>4. \A c \in h.blocks \ C : /\ block_size(r.mem, c) = block_size(m, c)
                              /\ block_allocated(r.mem, c) = block_allocated(m, c)
  <2>1. \A c \in h.blocks \ C : r.mem[c] = m[c]
    BY <1>2, <1>3
  <2> QED
    BY <2>1 DEF block_size, block_allocated
<1>5. FreeOf(r) = (FreeOf(h) \ C) \cup new
  <2>1. \A c \in h.blocks \ C : c \in FreeOf(r) <=> c \in FreeOf(h)
    BY <1>4 DEF FreeOf, FreeBlocks
  <2>2. \A c \in N : c \in FreeOf(r) <=> c \in new
    BY DEF FreeOf, FreeBlocks, FreeAmong
  <2>3. /\ FreeOf(r) \subseteq (h.blocks \ C) \cup N
        /\ FreeOf(h) \subseteq h.blocks /\ new \subseteq N
    BY DEF FreeOf, FreeBlocks, FreeAmong
  <2> QED
    BY <2>1, <2>2, <2>3
<1>6. Kept(h, r, UsedOf(h) \ C)
  <2>1. new \subseteq N
    BY DEF FreeAmong
  <2> QED
    BY <1>3, <1>4, <1>5, <2>1 DEF Kept, UsedOf
<1>7. X \subseteq FreeOf(h) /\ FreeOf(h) \subseteq h.blocks /\ new \subseteq N
  BY DEF Off, FreeOf, FreeBlocks, FreeAmong
<1> HIDE DEF new
<1>8. FreeOf(r) \ ((X \ C) \cup new) = F
  BY <1>5, <1>7
<1>9. Ring(r.mem, r.flist_first, F)
  <2>1. Ring(m, r.flist_first, F)
    BY DEF Off
  <2>2. \A x \in F : /\ x \in h.blocks \ C
                     /\ x + 8 \in Addr /\ x + 16 \in Addr /\ x \in Int
                     /\ block_size(m, x) >= 32 /\ block_size(m, x) \in Int
    <3>1. F \in SUBSET FreeBlocks(m, h.blocks) /\ F \subseteq h.blocks \ C
      BY <1>7 DEF FreeOf
    <3>2. F \subseteq h.blocks \ {prologue, h.epilogue}
      BY <1>1, <3>1, FreeLinkable
    <3> QED
      BY <1>1, <3>1, <3>2, BlockFacts
  <2>3. \A x \in F : /\ r.mem[x + 8] = m[x + 8]
                     /\ r.mem[x + 16] = m[x + 16]
    <3> TAKE x \in F
    <3>1. x <= x + 8 /\ x + 8 < x + block_size(m, x)
          /\ x <= x + 16 /\ x + 16 < x + block_size(m, x)
      BY <2>2
    <3> QED
      BY <1>3, <2>2, <3>1
  <2>4. \A x \in F : /\ r.mem[x + WORD_SIZE] = m[x + WORD_SIZE]
                     /\ r.mem[x + 2 * WORD_SIZE] = m[x + 2 * WORD_SIZE]
    BY <2>3
  <2> HIDE DEF F, m
  <2> QED
    BY <2>1, <2>4, RingFrame
<1>10. Off(r, (X \ C) \cup new)
  BY <1>5, <1>7, <1>8, <1>9 DEF Off, Shaped
<1> QED
  BY <1>4, <1>5, <1>6, <1>10 DEF new, RestKept

(* r differs from h in the memory, which is n, and in the block starts B.  *)
Rewritten(h, r, n, B) ==
  /\ r \in HeapType /\ r.fault = "none" /\ r.mem = n /\ r.blocks = B
  /\ r.flist_first = h.flist_first /\ r.epilogue = h.epilogue /\ r.brk = h.brk

(* The records that block_set_size_and_allocated returns are like that.    *)
LEMMA RewrittenTag ==
  ASSUME NEW h \in HeapType, h.fault = "none", NEW n \in [Addr -> Int],
         NEW B \in SUBSET Addr, NEW r, r = [h EXCEPT !.mem = n, !.blocks = B]
  PROVE  Rewritten(h, r, n, B)
BY DEF Rewritten, HeapType

(* r is h with one tag, of s bytes and bit a, over lo and the blocks K      *)
(* behind it.                                                               *)
Tags(h, X, r, lo, K, s, a) ==
  /\ lo \in h.blocks \ {prologue, h.epilogue}
  /\ K \subseteq h.blocks \ {lo}
  /\ FreeOf(h) \cap (K \cup {lo}) \subseteq X
  /\ s \in Int /\ s >= 32 /\ s % 8 = 0 /\ lo + s - 8 \in Addr
  /\ a \in {0, 1}
  /\ Layout(Tag(h.mem, lo, s, a), h.blocks \ K, h.epilogue)
  /\ \A c \in h.blocks \ (K \cup {lo}) :
       c + block_size(h.mem, c) <= lo \/ lo + s <= c
  /\ Rewritten(h, r, Tag(h.mem, lo, s, a), h.blocks \ K)

(* What it leaves.                                                          *)
Retagged(h, X, r, lo, K, s, a) ==
  /\ Off(r, (X \ (K \cup {lo})) \cup (IF a = 0 THEN {lo} ELSE {}))
  /\ FreeOf(r) = (FreeOf(h) \ (K \cup {lo})) \cup (IF a = 0 THEN {lo} ELSE {})
  /\ r.blocks = h.blocks \ K /\ r.epilogue = h.epilogue /\ r.brk = h.brk
  /\ block_size(r.mem, lo) = s
  /\ \A c \in h.blocks \ (K \cup {lo}) :
       block_size(r.mem, c) = block_size(h.mem, c)
  /\ Kept(h, r, UsedOf(h) \ (K \cup {lo}))
  /\ \A x \in Addr \ {lo, lo + s - 8} : r.mem[x] = h.mem[x]

(* One tag over lo and the blocks K behind it.                             *)
LEMMA TagOff ==
  ASSUME NEW h, NEW X, Off(h, X), NEW lo, NEW K, NEW s, NEW a, NEW r,
         Tags(h, X, r, lo, K, s, a)
  PROVE  Retagged(h, X, r, lo, K, s, a)
<1> USE DEF Tags
<1> DEFINE m == h.mem
           n == Tag(m, lo, s, a)
           C == K \cup {lo}
           new == FreeAmong(r, {lo})
<1>1. /\ m \in [Addr -> Int] /\ h.epilogue + TAGS_SIZE = h.brk
      /\ lo \in Int /\ lo \in Addr
  BY AddrInt DEF Off, Shaped, HeapType
<1>2. lo \in h.blocks /\ K \subseteq h.blocks /\ lo + s \in Int
  BY <1>1
<1>5. /\ r \in HeapType /\ r.fault = "none" /\ r.mem = n
      /\ r.flist_first = h.flist_first /\ r.blocks = h.blocks \ K
      /\ r.epilogue = h.epilogue /\ r.brk = h.brk
  BY DEF Rewritten
<1> HIDE DEF m
<1>3. /\ block_size(n, lo) = s
      /\ (block_allocated(n, lo) <=> a = 1)
      /\ \A x \in Addr \ {lo, lo + s - 8} : n[x] = m[x]
  BY <1>1, TagFacts
<1> HIDE DEF n
<1>4. \A x \in Addr : x < lo \/ x >= lo + s => n[x] = m[x]
  BY <1>1, <1>3, AddrInt
<1>6. Layout(r.mem, r.blocks, r.epilogue) /\ r.epilogue + TAGS_SIZE = r.brk
  BY <1>1, <1>5 DEF n, m
<1>7. C \in SUBSET h.blocks /\ {lo} \cap (h.blocks \ C) = {}
      /\ r.blocks = (h.blocks \ C) \cup {lo} /\ lo + s \in Int
  BY <1>1, <1>5
<1>8. /\ \A x \in Addr : x < lo \/ x >= lo + s => r.mem[x] = h.mem[x]
      /\ \A c \in h.blocks \ C :
           c + block_size(h.mem, c) <= lo \/ lo + s <= c
  BY <1>4, <1>5 DEF m
<1>9. new = IF a = 0 THEN {lo} ELSE {}
  BY <1>3, <1>5 DEF FreeAmong
<1>10. FreeOf(h) \cap C \subseteq X
  OBVIOUS
<1> HIDE DEF C
<1>10a. Rebuilds(h, X, r, C, {lo}, lo, lo + s)
  BY <1>1, <1>5, <1>6, <1>7, <1>8, <1>10 DEF Rebuilds
<1>11. /\ FreeOf(r) = (FreeOf(h) \ C) \cup new
       /\ Off(r, (X \ C) \cup new)
       /\ \A c \in h.blocks \ C : block_size(r.mem, c) = block_size(h.mem, c)
       /\ Kept(h, r, UsedOf(h) \ C)
  BY <1>10a, Rebuilt DEF RestKept
<1> HIDE DEF new
<1> QED
  BY <1>3, <1>5, <1>9, <1>11 DEF C, Retagged, m

-----------------------------------------------------------------------------

Inner(h) == h.blocks \ {prologue, h.epilogue}

(* A free block is neither prologue nor epilogue.                          *)
LEMMA FreeInner ==
  ASSUME NEW h, Shaped(h)
  PROVE  FreeOf(h) \subseteq Inner(h) /\ FreeOf(h) \subseteq Addr
BY FreeLinkable DEF Shaped, FreeOf, Inner, Layout

(* Setting or clearing the allocated bit of a block that is not listed.    *)
LEMMA RetagOff ==
  ASSUME NEW h, NEW X, Off(h, X), NEW b \in Inner(h),
         FreeOf(h) \cap {b} \subseteq X, NEW a \in {0, 1}
  PROVE  Retagged(h, X, block_set_allocated(h, b, a), b, {},
                  block_size(h.mem, b), a)
<1> DEFINE m == h.mem
           s == block_size(m, b)
           r == block_set_allocated(h, b, a)
<1>1. /\ h \in HeapType /\ h.fault = "none"
      /\ Layout(m, h.blocks, h.epilogue) /\ h.blocks \subseteq Addr
      /\ b \in h.blocks
  BY DEF Off, Shaped, Layout, Inner
<1>2. /\ b \in Addr /\ b \in Int /\ s \in Int /\ s >= 32 /\ s % 8 = 0
      /\ b + s - 8 \in Addr
  BY <1>1, BlockFacts DEF Inner
<1>3. r = [h EXCEPT !.mem = Tag(m, b, s, a)]
  BY <1>1, SetAllocated
<1>4. [h EXCEPT !.mem = Tag(m, b, s, a)]
        = [h EXCEPT !.mem = Tag(m, b, s, a), !.blocks = h.blocks]
  BY <1>1 DEF HeapType
<1>5. Rewritten(h, r, Tag(m, b, s, a), h.blocks \ {})
  <2>1. h.blocks \ {} \in SUBSET Addr /\ h.blocks \ {} = h.blocks
    BY <1>1
  <2>2. Tag(m, b, s, a) \in [Addr -> Int]
    BY <1>1, <1>2, TagType DEF Layout
  <2> QED
    BY <1>1, <1>3, <1>4, <2>1, <2>2, RewrittenTag
<1>6. Layout(Tag(m, b, s, a), h.blocks \ {}, h.epilogue)
  <2>1. Layout(Tag(m, b, s, a), h.blocks, h.epilogue)
    BY <1>1, Retag DEF Inner
  <2>2. h.blocks \ {} = h.blocks
    OBVIOUS
  <2> QED
    BY <2>1, <2>2
<1>7. \A c \in h.blocks \ ({} \cup {b}) :
        c + block_size(h.mem, c) <= b \/ b + s <= c
  BY <1>1, Apart
<1> HIDE DEF s, r
<1>8. {} \in SUBSET (h.blocks \ {b})
  OBVIOUS
<1>9. FreeOf(h) \cap ({} \cup {b}) \subseteq X
  OBVIOUS
<1>10. Tags(h, X, r, b, {}, s, a)
  BY <1>2, <1>5, <1>6, <1>7, <1>8, <1>9 DEF Tags, Inner
<1> QED
  BY <1>10, TagOff DEF s, r

(* One tag over two neighbours that are not listed.                        *)
LEMMA MergeOff ==
  ASSUME NEW h, NEW X, Off(h, X), NEW lo \in Inner(h), NEW hi \in Inner(h),
         lo + block_size(h.mem, lo) = hi, FreeOf(h) \cap {lo, hi} \subseteq X,
         NEW a \in {0, 1}
  PROVE  LET s == block_size(h.mem, lo) + block_size(h.mem, hi)
         IN  Retagged(h, X, block_set_size_and_allocated(h, lo, s, a),
                      lo, {hi}, s, a)
<1> DEFINE m == h.mem
           s == block_size(m, lo) + block_size(m, hi)
           r == block_set_size_and_allocated(h, lo, s, a)
           n == Tag(m, lo, s, a)
<1>1. /\ h \in HeapType /\ h.fault = "none"
      /\ Layout(m, h.blocks, h.epilogue) /\ h.blocks \subseteq Addr
      /\ lo \in h.blocks \ {prologue, h.epilogue}
      /\ hi \in h.blocks \ {prologue, h.epilogue}
  BY DEF Off, Shaped, Layout, Inner
<1>2. /\ lo \in Addr /\ lo \in Int /\ block_size(m, lo) \in Int
      /\ block_size(m, lo) >= 32
      /\ hi \in Int /\ block_size(m, hi) \in Int /\ block_size(m, hi) >= 32
  BY <1>1, BlockFacts
<1>3. /\ Layout(n, h.blocks \ {hi}, h.epilogue)
      /\ Starts(h.blocks, lo, s) = h.blocks \ {hi}
      /\ s \in Int /\ s >= 64 /\ s % 8 = 0 /\ lo + s - 8 \in Addr
  BY <1>1, Merge DEF Merged
<1>4. lo # hi
  BY <1>2
<1>5. \A c \in h.blocks \ {lo, hi} :
        c + block_size(m, c) <= lo \/ lo + s <= c
  <2> TAKE c \in h.blocks \ {lo, hi}
  <2>1. /\ c + block_size(m, c) <= lo \/ hi <= c
        /\ c + block_size(m, c) <= hi \/ hi + block_size(m, hi) <= c
    BY <1>1, <1>2, Apart
  <2>2. c \in Int /\ block_size(m, c) \in Int /\ block_size(m, c) >= 16
    BY <1>1, BlockFacts
  <2> QED
    BY <1>2, <2>1, <2>2
<1> HIDE DEF s
<1>6. r = [h EXCEPT !.mem = n, !.blocks = h.blocks \ {hi}]
  <2>1. /\ s \in Int /\ s >= 16 /\ s % 8 = 0 /\ lo + s - 8 \in Addr
        /\ h \in HeapType /\ lo \in Addr
    BY <1>1, <1>2, <1>3
  <2>2. r = SetTag(h, lo, s, a)
    BY <2>1, SetSizeAllocated
  <2> QED
    BY <1>3, <2>2 DEF SetTag
<1>7. Rewritten(h, r, n, h.blocks \ {hi})
  <2>1. h.blocks \ {hi} \in SUBSET Addr
    BY <1>1
  <2>2. n \in [Addr -> Int]
    BY <1>3 DEF Layout
  <2> QED
    BY <1>1, <1>6, <2>1, <2>2, RewrittenTag
<1> HIDE DEF r
<1>9. {hi} \in SUBSET (h.blocks \ {lo}) /\ FreeOf(h) \cap ({hi} \cup {lo}) \subseteq X
      /\ h.blocks \ ({hi} \cup {lo}) = h.blocks \ {lo, hi} /\ s >= 32
  BY <1>1, <1>3, <1>4
<1>10. \A c \in h.blocks \ ({hi} \cup {lo}) :
         c + block_size(m, c) <= lo \/ lo + s <= c
  BY <1>5
<1>11. Tags(h, X, r, lo, {hi}, s, a)
  BY <1>1, <1>3, <1>7, <1>9, <1>10 DEF Tags
<1> QED
  BY <1>11, TagOff DEF r, s

(* One tag over three neighbours that are not listed (mm_realloc).         *)
LEMMA MergeThreeOff ==
  ASSUME NEW h, NEW X, Off(h, X), NEW lo \in Inner(h), NEW mid \in Inner(h),
         NEW hi \in Inner(h), lo + block_size(h.mem, lo) = mid,
         mid + block_size(h.mem, mid) = hi,
         FreeOf(h) \cap {lo, mid, hi} \subseteq X, NEW a \in {0, 1}
  PROVE  LET s == block_size(h.mem, lo) + block_size(h.mem, mid)
                    + block_size(h.mem, hi)
         IN  Retagged(h, X, block_set_size_and_allocated(h, lo, s, a),
                      lo, {mid, hi}, s, a)
<1> DEFINE m == h.mem
           s == block_size(m, lo) + block_size(m, mid) + block_size(m, hi)
           r == block_set_size_and_allocated(h, lo, s, a)
           n == Tag(m, lo, s, a)
           K == {mid, hi}
<1>1. /\ h \in HeapType /\ h.fault = "none"
      /\ Layout(m, h.blocks, h.epilogue) /\ h.blocks \subseteq Addr
      /\ lo \in h.blocks \ {prologue, h.epilogue}
      /\ mid \in h.blocks \ {prologue, h.epilogue}
      /\ hi \in h.blocks \ {prologue, h.epilogue}
  BY DEF Off, Shaped, Layout, Inner
<1>2. lo \in Addr /\ lo \in Int /\ lo # mid /\ lo # hi
  BY <1>1, BlockFacts
<1>3. /\ Layout(n, h.blocks \ {mid, hi}, h.epilogue)
      /\ Starts(h.blocks, lo, s) = h.blocks \ {mid, hi}
      /\ s \in Int /\ s >= 64 /\ s % 8 = 0 /\ lo + s - 8 \in Addr
      /\ \A c \in h.blocks \ {lo, mid, hi} :
           c + block_size(m, c) <= lo \/ lo + s <= c
  <2>1. MergedThree(m, h.blocks, h.epilogue, lo, mid, hi, s, a)
    BY <1>1, MergeThree
  <2> HIDE DEF s
  <2> QED
    BY <2>1 DEF MergedThree
<1> HIDE DEF s
<1>4. r = [h EXCEPT !.mem = n, !.blocks = h.blocks \ K]
  <2>1. /\ s \in Int /\ s >= 16 /\ s % 8 = 0 /\ lo + s - 8 \in Addr
        /\ h \in HeapType /\ lo \in Addr
    BY <1>1, <1>2, <1>3
  <2>2. r = SetTag(h, lo, s, a)
    BY <2>1, SetSizeAllocated
  <2> QED
    BY <1>3, <2>2 DEF SetTag
<1>5. Rewritten(h, r, n, h.blocks \ K)
  <2>1. h.blocks \ K \in SUBSET Addr
    BY <1>1
  <2>2. n \in [Addr -> Int]
    BY <1>3 DEF Layout
  <2> QED
    BY <1>1, <1>4, <2>1, <2>2, RewrittenTag
<1> HIDE DEF r
<1>6. K \subseteq h.blocks \ {lo} /\ FreeOf(h) \cap (K \cup {lo}) \subseteq X
  BY <1>1, <1>2
<1>7. \A c \in h.blocks \ (K \cup {lo}) :
        c + block_size(m, c) <= lo \/ lo + s <= c
  BY <1>3
<1>8. Tags(h, X, r, lo, K, s, a)
  BY <1>1, <1>3, <1>5, <1>6, <1>7 DEF Tags
<1> QED
  BY <1>8, TagOff DEF r, s

-----------------------------------------------------------------------------

(* r is h with the free blocks lo and hi made one that is not listed.      *)
Absorbed(h, r, lo, hi) ==
  /\ Off(r, {lo})
  /\ r.blocks = h.blocks \ {hi} /\ r.epilogue = h.epilogue /\ r.brk = h.brk
  /\ FreeOf(r) = FreeOf(h) \ {hi}
  /\ block_size(r.mem, lo) = block_size(h.mem, lo) + block_size(h.mem, hi)
  /\ \A c \in h.blocks \ {lo, hi} :
       block_size(r.mem, c) = block_size(h.mem, c)
  /\ UsedOf(r) = UsedOf(h)
  /\ Kept(h, r, UsedOf(h))

(* x has been pulled, y is its free neighbour, lo is the lower of the two. *)
Absorbable(h, x, y, lo, hi) ==
  /\ Off(h, {x}) /\ y \in FreeOf(h) /\ y # x
  /\ {lo, hi} = {x, y} /\ lo + block_size(h.mem, lo) = hi

Absorbs(h, y, lo, hi) ==
  LET p == pull_free_block(h, y)
      s == block_size(h.mem, lo) + block_size(h.mem, hi)
  IN  /\ block_size(p.mem, lo) = block_size(h.mem, lo)
      /\ block_size(p.mem, hi) = block_size(h.mem, hi)
      /\ Absorbed(h, block_set_size_and_allocated(p, lo, s, 0), lo, hi)

(* One half of coalescing: y is pulled and tagged together with x, which   *)
(* has been pulled before and is its neighbour on either side.             *)
LEMMA Absorb ==
  ASSUME NEW h, NEW x, NEW y, NEW lo, NEW hi, Absorbable(h, x, y, lo, hi)
  PROVE  Absorbs(h, y, lo, hi)
<1> USE DEF Absorbable
<1> DEFINE p == pull_free_block(h, y)
           s == block_size(h.mem, lo) + block_size(h.mem, hi)
           r == block_set_size_and_allocated(p, lo, s, 0)
<1>1. Off(p, {x} \cup {y}) /\ SameBlocks(h, p)
  BY PullOff
<1>2. {x} \cup {y} = {lo, hi} /\ lo # hi
  OBVIOUS
<1>3. x \in FreeOf(h) /\ lo \in FreeOf(h) /\ hi \in FreeOf(h)
  BY <1>2 DEF Off
<1>4. lo \in h.blocks /\ hi \in h.blocks
  BY <1>3 DEF FreeOf, FreeBlocks
<1> HIDE DEF p
<1>5. /\ block_size(p.mem, lo) = block_size(h.mem, lo)
      /\ block_size(p.mem, hi) = block_size(h.mem, hi)
      /\ p.blocks = h.blocks /\ p.epilogue = h.epilogue /\ p.brk = h.brk
      /\ FreeOf(p) = FreeOf(h) /\ Kept(h, p, UsedOf(h))
      /\ \A c \in h.blocks : block_size(p.mem, c) = block_size(h.mem, c)
  BY <1>1, <1>4 DEF SameBlocks
<1>6. lo \in Inner(p) /\ hi \in Inner(p)
  BY <1>1, <1>3, <1>5, FreeInner DEF Off
<1>7. lo + block_size(p.mem, lo) = hi /\ Off(p, {lo, hi})
      /\ FreeOf(p) \cap {lo, hi} \subseteq {lo, hi}
      /\ s = block_size(p.mem, lo) + block_size(p.mem, hi)
  BY <1>1, <1>2, <1>5
<1>8. Retagged(p, {lo, hi}, r, lo, {hi}, s, 0)
  <2>1. 0 \in {0, 1}
    OBVIOUS
  <2> QED
    BY <1>6, <1>7, <2>1, MergeOff
<1> HIDE DEF r, s
<1>9. /\ Off(r, {lo}) /\ r.blocks = h.blocks \ {hi}
      /\ r.epilogue = h.epilogue /\ r.brk = h.brk
      /\ FreeOf(r) = FreeOf(h) \ {hi}
      /\ block_size(r.mem, lo) = s
      /\ \A c \in h.blocks \ ({hi} \cup {lo}) :
           block_size(r.mem, c) = block_size(p.mem, c)
  <2>1. ({lo, hi} \ ({hi} \cup {lo})) \cup {lo} = {lo}
    OBVIOUS
  <2>2. (FreeOf(h) \ ({hi} \cup {lo})) \cup {lo} = FreeOf(h) \ {hi}
    BY <1>2, <1>3
  <2> QED
    BY <1>5, <1>8, <2>1, <2>2 DEF Retagged
<1>10. UsedOf(r) = UsedOf(h)
  BY <1>3, <1>4, <1>9 DEF UsedOf
<1>11. Kept(h, r, UsedOf(h))
  <2>1. UsedOf(p) \ ({hi} \cup {lo}) = UsedOf(h)
    BY <1>3, <1>5 DEF UsedOf
  <2>2. Kept(p, r, UsedOf(h))
    BY <1>8, <2>1 DEF Retagged
  <2> QED
    BY <1>5, <2>2, KeptTrans
<1> QED
  BY <1>5, <1>9, <1>10, <1>11 DEF Absorbs, Absorbed, p, s, r

(* The list is complete again, and no allocated block has changed.         *)
Preserved(h, r) ==
  /\ WellFormed(r)
  /\ r.epilogue = h.epilogue /\ r.brk = h.brk
  /\ UsedOf(r) = UsedOf(h)
  /\ Kept(h, r, UsedOf(h))

(* A free block with a free block behind it can only be b.                 *)
Ahead(h, b) ==
  \A f, g \in FreeOf(h) : block_next(h.mem, f) = g => f = b

(* A block is free, as block_allocated reads its header, exactly when it is *)
(* not among the blocks handed out.                                        *)
LEMMA FreeIff ==
  ASSUME NEW h, NEW c \in h.blocks
  PROVE  block_allocated(h.mem, c) <=> c \notin FreeOf(h)
BY DEF FreeOf, FreeBlocks

(* The blocks on either side of one that is neither prologue nor epilogue. *)
LEMMA Neighbours ==
  ASSUME NEW h, Shaped(h), NEW b \in Inner(h)
  PROVE  LET p == block_prev(h.mem, b)
             n == block_next(h.mem, b)
         IN  /\ p \in h.blocks /\ p + block_size(h.mem, p) = b /\ p \in Int
             /\ n \in h.blocks /\ b + block_size(h.mem, b) = n /\ n \in Int
             /\ p < b /\ b < n /\ b \in Int
             /\ block_size(h.mem, p) \in Int /\ block_size(h.mem, n) \in Int
             /\ block_size(h.mem, b) \in Int /\ block_size(h.mem, b) >= 32
             /\ block_size(h.mem, b) % 8 = 0
             /\ block_size(h.mem, p) >= 16 /\ block_size(h.mem, n) >= 16
<1>1. Layout(h.mem, h.blocks, h.epilogue) /\ b \in h.blocks
      /\ b # prologue /\ b # h.epilogue
  BY DEF Shaped, Inner
<1>2. /\ block_prev(h.mem, b) \in h.blocks
      /\ block_prev(h.mem, b) + block_size(h.mem, block_prev(h.mem, b)) = b
  BY <1>1, PrevFacts
<1>3. block_next(h.mem, b) \in h.blocks
      /\ b + block_size(h.mem, b) = block_next(h.mem, b)
  BY <1>1, BlockFacts DEF block_next
<1> QED
  BY <1>1, <1>2, <1>3, BlockFacts

(* coalescing leaves a well-formed heap: whichever neighbours are free are *)
(* absorbed, and the result is put into the list.                          *)
LEMMA Coalescing ==
  ASSUME NEW h, WellFormed(h), NEW b \in FreeOf(h)
  PROVE  /\ Preserved(h, coalescing(h, b))
         /\ Settled(h, {b}) => Settled(coalescing(h, b), {})
<1> DEFINE next == block_next(h.mem, b)
           prev == block_prev(h.mem, b)
           h1   == pull_free_block(h, b)
           p1   == pull_free_block(h1, prev)
           h2   == IF block_allocated(h1.mem, prev) THEN h1
                   ELSE block_set_size_and_allocated(p1, prev,
                          block_size(p1.mem, prev) + block_size(p1.mem, b), 0)
           into == IF block_allocated(h2.mem, prev) THEN b ELSE prev
           p2   == pull_free_block(h2, next)
           h3   == IF block_allocated(h2.mem, next) THEN h2
                   ELSE block_set_size_and_allocated(p2, into,
                          block_size(p2.mem, next) + block_size(p2.mem, into), 0)
           r    == insert_free_block(h3, into)
<1>1. coalescing(h, b) = r
  BY DEF coalescing
<1>2. Shaped(h) /\ b \in Inner(h)
  BY FreeInner DEF WellFormed, Off
<1>3. /\ prev \in h.blocks /\ prev + block_size(h.mem, prev) = b /\ prev \in Int
      /\ next \in h.blocks /\ b + block_size(h.mem, b) = next /\ next \in Int
      /\ prev < b /\ b < next /\ b \in Int /\ b \in h.blocks
      /\ block_size(h.mem, prev) \in Int /\ block_size(h.mem, next) \in Int
      /\ block_size(h.mem, b) \in Int
  BY <1>2, Neighbours DEF Inner
<1> HIDE DEF next, prev
<1>4. Off(h1, {b}) /\ SameBlocks(h, h1)
  <2>1. b \in FreeOf(h) \ {} /\ {} \cup {b} = {b}
    OBVIOUS
  <2> QED
    BY <2>1, PullOff DEF WellFormed
<1> HIDE DEF h1
<1>5. /\ h1.blocks = h.blocks /\ h1.epilogue = h.epilogue /\ h1.brk = h.brk
      /\ FreeOf(h1) = FreeOf(h) /\ UsedOf(h1) = UsedOf(h)
      /\ Kept(h, h1, UsedOf(h))
      /\ \A c \in h.blocks : block_size(h1.mem, c) = block_size(h.mem, c)
  BY <1>4 DEF SameBlocks, UsedOf
<1>6. /\ Off(h2, {into}) /\ next \in h2.blocks
      /\ into + block_size(h2.mem, into) = next
      /\ into \in Int /\ into < next
      /\ block_size(h2.mem, into) \in Int /\ block_size(h2.mem, next) \in Int
      /\ UsedOf(h2) = UsedOf(h) /\ Kept(h, h2, UsedOf(h))
      /\ h2.epilogue = h.epilogue /\ h2.brk = h.brk
      /\ Settled(h, {b}) => Ahead(h2, into)
  <2>1. CASE prev \in FreeOf(h)
    <3> DEFINE s == block_size(h1.mem, prev) + block_size(h1.mem, b)
               q == block_set_size_and_allocated(p1, prev, s, 0)
    <3>1. prev + block_size(h1.mem, prev) = b /\ prev \in FreeOf(h1)
          /\ prev # b /\ {prev, b} = {b, prev}
      BY <1>3, <1>5, <2>1
    <3>2. /\ block_size(p1.mem, prev) = block_size(h1.mem, prev)
          /\ block_size(p1.mem, b) = block_size(h1.mem, b)
          /\ Absorbed(h1, q, prev, b)
      <4>1. Absorbable(h1, b, prev, prev, b)
        BY <1>4, <3>1 DEF Absorbable
      <4>2. Absorbs(h1, prev, prev, b)
        BY <4>1, Absorb
      <4> QED
        BY <4>2 DEF Absorbs
    <3>3. ~ block_allocated(h1.mem, prev)
      BY <1>3, <1>5, <2>1, FreeIff
    <3>4. h2 = q
      BY <3>2, <3>3
    <3> HIDE DEF q, p1, s
    <3>5. prev \in FreeOf(h2) /\ prev \in h2.blocks
      BY <3>2, <3>4 DEF Absorbed, Off, FreeOf, FreeBlocks
    <3>6. into = prev
      BY <3>5, FreeIff
    <3>7. /\ Off(q, {prev}) /\ next \in q.blocks
          /\ block_size(q.mem, prev)
               = block_size(h.mem, prev) + block_size(h.mem, b)
          /\ UsedOf(q) = UsedOf(h) /\ Kept(h, q, UsedOf(h))
          /\ q.epilogue = h.epilogue /\ q.brk = h.brk
      BY <1>3, <1>5, <3>2, KeptTrans DEF Absorbed
    <3>8. block_size(q.mem, next) \in Int
      <4>1. Layout(q.mem, q.blocks, q.epilogue)
        BY <3>7 DEF Off, Shaped
      <4> QED
        BY <3>7, <4>1, BlockFacts
    <3>9. Settled(h, {b}) => Ahead(q, prev)
      <4> SUFFICES ASSUME Settled(h, {b}), NEW f \in FreeOf(q),
                          NEW g \in FreeOf(q), block_next(q.mem, f) = g,
                          f # prev
                   PROVE  FALSE
        BY DEF Ahead
      <4>1. FreeOf(q) = FreeOf(h) \ {b} /\ FreeOf(h) \subseteq h.blocks
        BY <1>5, <3>2 DEF Absorbed, FreeOf, FreeBlocks
      <4>2. block_size(q.mem, f) = block_size(h.mem, f)
        BY <1>5, <3>2, <4>1 DEF Absorbed
      <4> QED
        BY <4>1, <4>2 DEF Settled, block_next
    <3> HIDE DEF h2, into
    <3> QED
      BY <1>3, <3>4, <3>6, <3>7, <3>8, <3>9
  <2>2. CASE prev \notin FreeOf(h)
    <3>1. block_allocated(h1.mem, prev)
      BY <1>3, <1>5, <2>2, FreeIff
    <3>2. h2 = h1
      BY <3>1
    <3>3. into = b
      BY <3>1, <3>2
    <3>4. Settled(h, {b}) => Ahead(h1, b)
      <4> SUFFICES ASSUME Settled(h, {b}), NEW f \in FreeOf(h1),
                          NEW g \in FreeOf(h1), block_next(h1.mem, f) = g,
                          f # b
                   PROVE  FALSE
        BY DEF Ahead
      <4>1. f \in FreeOf(h) /\ f \in h.blocks /\ g \in FreeOf(h)
        BY <1>5 DEF FreeOf, FreeBlocks
      <4>2. f + block_size(h.mem, f) = g /\ block_next(h.mem, f) = g
        BY <1>5, <4>1 DEF block_next
      <4>3. g = b
        BY <4>1, <4>2 DEF Settled
      <4>4. f = prev
        <5>1. Layout(h.mem, h.blocks, h.epilogue) /\ prev \in h.blocks
          BY <1>2, <1>3 DEF Shaped
        <5>2. /\ f \in Int /\ block_size(h.mem, f) \in Int
              /\ block_size(h.mem, f) >= 16 /\ block_size(h.mem, prev) >= 16
          BY <4>1, <5>1, BlockFacts
        <5>3. f # prev => \/ f + block_size(h.mem, f) <= prev
                          \/ prev + block_size(h.mem, prev) <= f
          BY <4>1, <5>1, Apart
        <5> QED
          BY <1>3, <4>2, <4>3, <5>2, <5>3
      <4> QED
        BY <2>2, <4>1, <4>4
    <3> HIDE DEF h2, into
    <3> QED
      BY <1>3, <1>4, <1>5, <3>2, <3>3, <3>4
  <2> QED
    BY <2>1, <2>2
<1> HIDE DEF h2, into
<1>7. /\ Off(h3, {into}) /\ UsedOf(h3) = UsedOf(h) /\ Kept(h, h3, UsedOf(h))
      /\ h3.epilogue = h.epilogue /\ h3.brk = h.brk
      /\ Settled(h, {b}) => Settled(h3, {})
  <2>1. CASE next \in FreeOf(h2)
    <3> DEFINE s == block_size(h2.mem, into) + block_size(h2.mem, next)
               q == block_set_size_and_allocated(p2, into, s, 0)
    <3>1. next # into /\ {into, next} = {into, next}
      BY <1>6
    <3>2. /\ block_size(p2.mem, into) = block_size(h2.mem, into)
          /\ block_size(p2.mem, next) = block_size(h2.mem, next)
          /\ Absorbed(h2, q, into, next)
      <4>1. Absorbable(h2, into, next, into, next)
        BY <1>6, <2>1, <3>1 DEF Absorbable
      <4>2. Absorbs(h2, next, into, next)
        BY <4>1, Absorb
      <4> QED
        BY <4>2 DEF Absorbs
    <3>3. ~ block_allocated(h2.mem, next)
      BY <1>6, <2>1, FreeIff
    <3>4. block_size(p2.mem, next) + block_size(p2.mem, into) = s
      BY <1>6, <3>2
    <3>5. h3 = q
      BY <3>3, <3>4
    <3> HIDE DEF q, p2, h3
    <3>6. Settled(h, {b}) => Settled(q, {})
      <4> SUFFICES ASSUME Settled(h, {b}), NEW f \in FreeOf(q),
                          NEW g \in FreeOf(q), block_next(q.mem, f) = g
                   PROVE  FALSE
        BY DEF Settled
      <4>1. FreeOf(q) = FreeOf(h2) \ {next} /\ FreeOf(h2) \subseteq h2.blocks
        BY <3>2 DEF Absorbed, FreeOf, FreeBlocks
      <4>2. CASE f = into
        <5>1. block_next(h2.mem, next) = g
          BY <1>6, <3>2, <4>2 DEF Absorbed, block_next
        <5> QED
          BY <1>6, <2>1, <3>1, <4>1, <5>1 DEF Ahead
      <4>3. CASE f # into
        <5>1. block_size(q.mem, f) = block_size(h2.mem, f)
          BY <3>2, <4>1, <4>3 DEF Absorbed
        <5> QED
          BY <1>6, <4>1, <4>3, <5>1 DEF Ahead, block_next
      <4> QED
        BY <4>2, <4>3
    <3> HIDE DEF s
    <3> QED
      BY <1>6, <3>2, <3>5, <3>6, KeptTrans DEF Absorbed
  <2>2. CASE next \notin FreeOf(h2)
    <3>1. h3 = h2
      BY <1>6, <2>2, FreeIff
    <3>2. Settled(h, {b}) => Settled(h2, {})
      BY <1>6, <2>2 DEF Ahead, Settled, block_next
    <3> HIDE DEF h3
    <3> QED
      BY <1>6, <3>1, <3>2
  <2> QED
    BY <2>1, <2>2
<1> HIDE DEF h3
<1>8. Off(r, {}) /\ SameBlocks(h3, r)
  <2>1. into \in {into} /\ {into} \ {into} = {}
    OBVIOUS
  <2> QED
    BY <1>7, <2>1, InsertOff
<1> HIDE DEF r
<1>9. /\ r.blocks = h3.blocks /\ r.epilogue = h.epilogue /\ r.brk = h.brk
      /\ FreeOf(r) = FreeOf(h3) /\ Kept(h3, r, UsedOf(h3))
  BY <1>7, <1>8 DEF SameBlocks
<1>10. UsedOf(r) = UsedOf(h)
  BY <1>7, <1>9 DEF UsedOf
<1>11. Kept(h, r, UsedOf(h))
  BY <1>7, <1>9, KeptTrans
<1>12. Settled(h, {b}) => Settled(r, {})
  <2>1. \A c \in FreeOf(r) : block_size(r.mem, c) = block_size(h3.mem, c)
    BY <1>8 DEF SameBlocks, FreeOf, FreeBlocks
  <2> QED
    BY <1>7, <1>9, <2>1, SettledFewer
<1> QED
  BY <1>1, <1>8, <1>9, <1>10, <1>11, <1>12 DEF Preserved, WellFormed

(* The heap is well formed again, the allocated blocks are those of U, and *)
(* those of S are as they were.                                            *)
Leaves(h, r, U, S) ==
  /\ WellFormed(r)
  /\ r.epilogue = h.epilogue /\ r.brk = h.brk
  /\ UsedOf(r) = U
  /\ Kept(h, r, S)
  /\ Settles(h, r)

(* mm_free of an allocated block.                                          *)
LEMMA Freeing ==
  ASSUME NEW h, WellFormed(h), NEW b \in Inner(h), b \in UsedOf(h)
  PROVE  Leaves(h, mm_free(h, payload(b)), UsedOf(h) \ {b}, UsedOf(h) \ {b})
<1> DEFINE f == block_set_allocated(h, b, 0)
           g == insert_free_block(f, b)
           r == coalescing(g, b)
           S == UsedOf(h) \ {b}
<1>1. Off(h, {}) /\ Shaped(h) /\ b \in h.blocks /\ b \notin FreeOf(h)
  BY DEF WellFormed, Off, Inner, UsedOf
<1>2. b \in Addr /\ b \in Int /\ b > 0
  <2>1. b \in Addr /\ b \in Int
    BY <1>1, BlockFacts DEF Shaped
  <2> QED
    BY <2>1, MemoryAssumption DEF Addr
<1>3. mm_free(h, payload(b)) = r
  <2>1. payload(b) # NULL /\ payload_to_block(payload(b)) = b
    BY <1>2 DEF payload, payload_to_block, NULL
  <2>2. block_allocated(h.mem, b)
    BY <1>1, FreeIff
  <2> QED
    BY <2>1, <2>2, Zenon DEF mm_free
<1>4. Retagged(h, {}, f, b, {}, block_size(h.mem, b), 0)
  <2>1. FreeOf(h) \cap {b} \subseteq {} /\ 0 \in {0, 1}
    BY <1>1
  <2> QED
    BY <1>1, <2>1, RetagOff
<1> HIDE DEF f
<1>5. /\ Off(f, {b}) /\ f.blocks = h.blocks /\ FreeOf(f) = FreeOf(h) \cup {b}
      /\ f.epilogue = h.epilogue /\ f.brk = h.brk /\ Kept(h, f, S)
      /\ \A c \in h.blocks : block_size(f.mem, c) = block_size(h.mem, c)
  <2>1. ({} \ ({} \cup {b})) \cup {b} = {b} /\ h.blocks \ {} = h.blocks
        /\ (FreeOf(h) \ ({} \cup {b})) \cup {b} = FreeOf(h) \cup {b}
        /\ UsedOf(h) \ ({} \cup {b}) = S
    OBVIOUS
  <2> QED
    BY <1>4, <2>1 DEF Retagged
<1>6. Off(g, {}) /\ SameBlocks(f, g)
  <2>1. b \in {b} /\ {b} \ {b} = {}
    OBVIOUS
  <2> QED
    BY <1>5, <2>1, InsertOff
<1> HIDE DEF g
<1>7. UsedOf(f) = S
  BY <1>5 DEF UsedOf
<1>8. /\ WellFormed(g) /\ b \in FreeOf(g) /\ UsedOf(g) = S /\ Kept(f, g, S)
      /\ g.epilogue = h.epilogue /\ g.brk = h.brk
  BY <1>5, <1>6, <1>7 DEF SameBlocks, WellFormed, UsedOf
<1>9. Preserved(g, r) /\ (Settled(g, {b}) => Settled(r, {}))
  BY <1>8, Coalescing
<1> HIDE DEF r
<1>10. Kept(h, g, S)
  BY <1>5, <1>8, KeptTrans
<1>11. Kept(h, r, S)
  BY <1>8, <1>9, <1>10, KeptTrans DEF Preserved
<1>12. Settles(h, r)
  <2>1. /\ FreeOf(g) = FreeOf(h) \cup {b} /\ FreeOf(h) \subseteq h.blocks
        /\ \A c \in FreeOf(h) : block_size(g.mem, c) = block_size(h.mem, c)
    BY <1>5, <1>6 DEF SameBlocks, FreeOf, FreeBlocks
  <2>2. Settled(h, {}) => Settled(g, {b})
    BY <2>1 DEF Settled, block_next
  <2> QED
    BY <1>9, <2>2 DEF Settles
<1> QED
  BY <1>3, <1>8, <1>9, <1>11, <1>12 DEF Leaves, Preserved

(* A pulled block that is to be cut into s and t bytes.                    *)
Splittable(h, b, s, t) ==
  /\ Off(h, {b})
  /\ s \in Int /\ t \in Int /\ s + t = block_size(h.mem, b)
  /\ s >= 32 /\ s % 8 = 0 /\ t >= 32 /\ t % 8 = 0

CutUp(h, b, s, t) ==
  LET h2 == block_set_size_and_allocated(h, b, s, 1)
      r  == block_set_size_and_allocated(h2, b + s, t, 0)
  IN  /\ block_next(h2.mem, b) = b + s
      /\ Off(r, {b + s})
      /\ r.epilogue = h.epilogue /\ r.brk = h.brk
      /\ r.blocks = h.blocks \cup {b + s}
      /\ FreeOf(r) = (FreeOf(h) \ {b}) \cup {b + s}
      /\ b + s \notin h.blocks
      /\ block_size(r.mem, b) = s /\ block_size(r.mem, b + s) = t
      /\ \A c \in h.blocks \ {b} : block_size(r.mem, c) = block_size(h.mem, c)
      /\ Kept(h, r, UsedOf(h))

(* Two tags written into one block that has been pulled make two blocks of *)
(* it, the second one free (mm_malloc's split).                            *)
LEMMA Splitting ==
  ASSUME NEW h, NEW b, NEW s, NEW t, Splittable(h, b, s, t)
  PROVE  CutUp(h, b, s, t)
<1> USE DEF Splittable
<1> DEFINE m == h.mem
           B == h.blocks
           E == h.epilogue
           h2 == block_set_size_and_allocated(h, b, s, 1)
           r  == block_set_size_and_allocated(h2, b + s, t, 0)
           m2 == Tag(m, b, s, 1)
           n == Tag(m2, b + s, t, 0)
<1>1. /\ h \in HeapType /\ h.fault = "none" /\ Layout(m, B, E)
      /\ E + TAGS_SIZE = h.brk
      /\ m \in [Addr -> Int] /\ B \subseteq Addr /\ b \in FreeOf(h)
      /\ b \in B \ {prologue, E}
  BY FreeInner DEF Off, Shaped, Layout, Inner
<1>2. /\ b \in Addr /\ b \in Int /\ b + (s + t) <= E + 16 /\ b >= prologue
      /\ b + (s + t) - 8 \in Addr
  BY <1>1, BlockFacts
<1>3. E + 16 <= mem_max_addr /\ mem_max_addr \in Int /\ E \in Int
  BY <1>1, MemoryAssumption, AddrInt DEF Layout, Tiled, mem_max_addr
<1>4. b + s \in Addr /\ b + s - 8 \in Addr /\ b + s + t - 8 \in Addr
      /\ b + s \in Int
  <2>1. b + s < mem_max_addr /\ b + s >= mem_start_brk
        /\ b + (s - 8) < mem_max_addr /\ b + (s - 8) >= mem_start_brk
    BY <1>2, <1>3, MemoryAssumption
  <2>2. b + s \in Addr /\ b + (s - 8) \in Addr
    BY <1>2, <2>1, AddrShift
  <2> QED
    BY <1>2, <2>2
<1>5. h2 = SetTag(h, b, s, 1)
  <2>1. s >= 16 /\ 1 \in {0, 1}
    OBVIOUS
  <2> QED
    BY <1>1, <1>2, <1>4, <2>1, SetSizeAllocated
<1>6. m2 \in [Addr -> Int]
  <2>1. 1 \in {0, 1}
    OBVIOUS
  <2> QED
    BY <1>1, <1>2, <2>1, TagType
<1>7. /\ m2[b] = s + 1 /\ m2[b + s - 8] = s + 1 /\ block_size(m2, b) = s
      /\ \A x \in Addr \ {b, b + s - 8} : m2[x] = m[x]
  <2>1. s >= 16 /\ 1 \in {0, 1}
    OBVIOUS
  <2> QED
    BY <1>1, <1>2, <1>4, <2>1, TagFacts
<1> HIDE DEF m2, h2
<1>8. h2 \in HeapType /\ h2.mem = m2 /\ h2.blocks = Starts(B, b, s)
      /\ h2 = [h EXCEPT !.mem = m2, !.blocks = Starts(B, b, s)]
  <2>1. Starts(B, b, s) \in SUBSET Addr
    BY <1>1, <1>2 DEF Starts
  <2> QED
    BY <1>1, <1>5, <1>6, <2>1 DEF SetTag, HeapType, m2
<1>9. r = SetTag(h2, b + s, t, 0)
  <2>1. t >= 16 /\ 0 \in {0, 1} /\ (b + s) + t - 8 \in Addr
    BY <1>4
  <2> QED
    BY <1>4, <1>8, <2>1, SetSizeAllocated
<1>10. n \in [Addr -> Int]
  <2>1. 0 \in {0, 1}
    OBVIOUS
  <2> QED
    BY <1>4, <1>6, <2>1, TagType
<1>11. /\ n[b + s] = t /\ n[b + s + t - 8] = t
       /\ \A x \in Addr \ {b + s, b + s + t - 8} : n[x] = m2[x]
  <2>1. t + 0 = t /\ b + s \in Int /\ b + s # b + s + t - 8
    BY <1>4
  <2> QED
    BY <1>4, <1>6, <2>1 DEF Tag
<1> HIDE DEF n, r
<1>12. /\ n[b] = s + 1 /\ n[b + s - 8] = s + 1
       /\ \A x \in Addr : x < b \/ x >= b + s + t => n[x] = m[x]
  <2>1. n[b] = s + 1 /\ n[b + s - 8] = s + 1
    BY <1>2, <1>4, <1>7, <1>11
  <2>2. \A x \in Addr : x < b \/ x >= b + s + t => n[x] = m[x]
    BY <1>2, <1>4, <1>7, <1>11, AddrInt
  <2> QED
    BY <2>1, <2>2
<1>13. /\ Layout(n, B \cup {b + s}, E) /\ b + s \notin B
       /\ block_size(n, b) = s /\ block_allocated(n, b)
       /\ block_size(n, b + s) = t /\ ~ block_allocated(n, b + s)
  <2>1. n[b + s] = t + 0 /\ n[b + s + t - 8] = t + 0
        /\ 0 \in {0, 1} /\ 1 \in {0, 1} /\ 0 # 1
    BY <1>11
  <2>2. Splits(m, B, E, b, s, 1, t, 0, n)
    BY <1>1, <1>10, <1>12, <2>1 DEF Splits
  <2>3. SplitUp(n, B, E, b, s, 1, t, 0)
    BY <2>2, Split
  <2> QED
    BY <2>1, <2>3 DEF SplitUp
<1>14. Starts(Starts(B, b, s), b + s, t) = B \cup {b + s}
  <2>1. \A c \in B \ {b} : c \in Int /\ (c < b \/ b + (s + t) <= c)
    <3> TAKE c \in B \ {b}
    <3>1. c \in Int /\ block_size(m, c) \in Int /\ block_size(m, c) >= 16
      BY <1>1, BlockFacts
    <3>2. c + block_size(m, c) <= b \/ b + block_size(m, b) <= c
      BY <1>1, Apart
    <3> QED
      BY <1>2, <3>1, <3>2
  <2>2. \A c \in B \ {b} : (c <= b \/ c >= b + s)
                           /\ (c <= b + s \/ c >= b + s + t)
    BY <1>2, <2>1
  <2>3. b <= b /\ b <= b + s
    BY <1>2
  <2> QED
    BY <1>1, <2>2, <2>3 DEF Starts
<1>15. /\ r \in HeapType /\ r.fault = "none" /\ r.mem = n
       /\ r.flist_first = h.flist_first /\ r.blocks = B \cup {b + s}
       /\ r.epilogue = E /\ r.brk = h.brk
  <2>1. r = [h2 EXCEPT !.mem = n, !.blocks = B \cup {b + s}]
    BY <1>8, <1>9, <1>14 DEF SetTag, n
  <2>2. B \cup {b + s} \in SUBSET Addr
    BY <1>1, <1>4
  <2> QED
    BY <1>1, <1>8, <1>10, <2>1, <2>2 DEF HeapType
<1> DEFINE N == {b, b + s}
           new == FreeAmong(r, N)
<1>16. Rebuilds(h, {b}, r, {b}, N, b, b + s + t)
  <2>1. \A c \in B \ {b} : c + block_size(m, c) <= b \/ b + s + t <= c
    <3> TAKE c \in B \ {b}
    <3>1. c + block_size(m, c) <= b \/ b + block_size(m, b) <= c
      BY <1>1, Apart
    <3> QED
      BY <1>2, <3>1
  <2>2. /\ {b} \subseteq B /\ FreeOf(h) \cap {b} \subseteq {b}
        /\ N \cap (B \ {b}) = {} /\ B \cup {b + s} = (B \ {b}) \cup N
    BY <1>1, <1>13
  <2>3. b \in Int /\ b + s + t \in Int
    BY <1>2
  <2> QED
    BY <1>1, <1>12, <1>13, <1>15, <2>1, <2>2, <2>3 DEF Rebuilds
<1>17. new = {b + s}
  BY <1>13, <1>15 DEF FreeAmong
<1>18. /\ FreeOf(r) = (FreeOf(h) \ {b}) \cup {b + s}
       /\ Off(r, ({b} \ {b}) \cup {b + s})
       /\ Kept(h, r, UsedOf(h) \ {b})
       /\ \A c \in B \ {b} : block_size(r.mem, c) = block_size(h.mem, c)
  <2>1. RestKept(h, {b}, r, {b}, N)
    BY <1>16, Rebuilt
  <2>2. FreeAmong(r, N) = {b + s}
    BY <1>17
  <2> QED
    BY <2>1, <2>2, Zenon DEF RestKept
<1>19. ({b} \ {b}) \cup {b + s} = {b + s} /\ UsedOf(h) \ {b} = UsedOf(h)
  BY <1>1 DEF UsedOf
<1>20. block_next(h2.mem, b) = b + s
  BY <1>7, <1>8 DEF block_next
<1> QED
  BY <1>13, <1>15, <1>18, <1>19, <1>20, Zenon DEF r, h2, CutUp

(* mm_malloc uses a free block that is large enough, whole or in part.     *)
LEMMA Placing ==
  ASSUME NEW h, WellFormed(h), NEW b \in FreeOf(h), NEW s \in Int,
         s >= 32, s % 8 = 0, s <= block_size(h.mem, b)
  PROVE  /\ Leaves(h, place(h, b, s), UsedOf(h) \cup {b}, UsedOf(h))
         /\ block_size(place(h, b, s).mem, b) >= s
<1> DEFINE h1 == pull_free_block(h, b)
           t  == block_size(h1.mem, b) - s
           h2 == block_set_size_and_allocated(h1, b, s, 1)
           h3 == block_set_size_and_allocated(h2, block_next(h2.mem, b), t, 0)
           r  == place(h, b, s)
           size == block_size(h.mem, b)
<1>1. r = IF t >= 32 THEN insert_free_block(h3, block_next(h2.mem, b))
          ELSE block_set_allocated(h1, b, 1)
  BY DEF place
<1>2. Shaped(h) /\ b \in Inner(h) /\ b \in h.blocks
  BY FreeInner DEF WellFormed, Off, Inner
<1>3. size \in Int /\ size % 8 = 0
  BY <1>2, Neighbours
<1>4. Off(h1, {b}) /\ SameBlocks(h, h1)
  <2>1. b \in FreeOf(h) \ {} /\ {} \cup {b} = {b}
    OBVIOUS
  <2> QED
    BY <2>1, PullOff DEF WellFormed
<1> HIDE DEF r, h1, size
<1>5. /\ h1.blocks = h.blocks /\ h1.epilogue = h.epilogue /\ h1.brk = h.brk
      /\ FreeOf(h1) = FreeOf(h) /\ UsedOf(h1) = UsedOf(h)
      /\ Kept(h, h1, UsedOf(h)) /\ block_size(h1.mem, b) = size
  BY <1>2, <1>4 DEF SameBlocks, UsedOf, size
<1>6. t \in Int /\ s + t = block_size(h1.mem, b) /\ t % 8 = 0 /\ s <= size
  BY <1>3, <1>5 DEF size
<1>7. CASE t >= 32
  <2>1. Splittable(h1, b, s, t)
    BY <1>4, <1>6, <1>7 DEF Splittable
  <2>2. CutUp(h1, b, s, t)
    BY <2>1, Splitting
  <2>3. block_next(h2.mem, b) = b + s
    BY <2>2 DEF CutUp
  <2> DEFINE g == block_set_size_and_allocated(h2, b + s, t, 0)
  <2>4. r = insert_free_block(g, b + s)
    BY <1>1, <1>7, <2>3
  <2>5. /\ Off(g, {b + s}) /\ g.blocks = h.blocks \cup {b + s}
        /\ g.epilogue = h.epilogue /\ g.brk = h.brk
        /\ FreeOf(g) = (FreeOf(h) \ {b}) \cup {b + s}
        /\ b + s \notin h.blocks /\ block_size(g.mem, b) = s
        /\ block_size(g.mem, b + s) = t
        /\ \A c \in h.blocks \ {b} : block_size(g.mem, c) = block_size(h1.mem, c)
        /\ Kept(h1, g, UsedOf(h))
    <3> HIDE DEF t
    <3> QED
      BY <1>5, <2>2, Zenon DEF CutUp
  <2> HIDE DEF g
  <2>6. Off(r, {}) /\ SameBlocks(g, r)
    <3>1. b + s \in {b + s} /\ {b + s} \ {b + s} = {}
      OBVIOUS
    <3> QED
      BY <2>4, <2>5, <3>1, InsertOff
  <2>7. UsedOf(g) = UsedOf(h) \cup {b}
    BY <1>2, <2>5 DEF UsedOf
  <2>8. /\ UsedOf(r) = UsedOf(h) \cup {b} /\ Kept(g, r, UsedOf(g))
        /\ r.epilogue = h.epilogue /\ r.brk = h.brk
        /\ block_size(r.mem, b) = s
    BY <1>2, <2>5, <2>6, <2>7 DEF SameBlocks, UsedOf
  <2>9. Kept(h, g, UsedOf(h))
    BY <1>5, <2>5, KeptTrans
  <2>10. Kept(h, r, UsedOf(h))
    <3>1. UsedOf(h) \subseteq UsedOf(g)
      BY <2>7
    <3> QED
      BY <2>8, <2>9, <3>1, KeptTrans
  <2>11. \A c \in FreeOf(g) : block_size(r.mem, c) = block_size(g.mem, c)
    BY <2>6 DEF SameBlocks, FreeOf, FreeBlocks
  <2>12. Settled(h, {}) => Settled(g, {})
    <3> SUFFICES ASSUME Settled(h, {}), NEW x \in FreeOf(g),
                        NEW y \in FreeOf(g), block_next(g.mem, x) = y
                 PROVE  FALSE
      BY DEF Settled
    <3>1. /\ FreeOf(h) \subseteq h.blocks /\ b + s + t = b + size
          /\ b \in Int /\ b + s # b + s + t
      <4>1. b \in Int
        BY <1>2, Neighbours
      <4> QED
        BY <1>3, <1>5, <1>6, <1>7, <4>1 DEF FreeOf, FreeBlocks
    <3>2. \A c \in h.blocks \ {b} : block_size(g.mem, c) = block_size(h.mem, c)
      BY <1>4, <1>5, <2>5 DEF SameBlocks
    <3> HIDE DEF t
    <3>3. CASE x = b + s
      <4>1. block_next(h.mem, b) = y
        BY <2>5, <3>1, <3>3 DEF block_next, size
      <4>2. y \in FreeOf(h)
        BY <2>5, <3>1, <3>3 DEF block_next
      <4> QED
        BY <4>1, <4>2 DEF Settled
    <3>4. CASE x # b + s
      <4>1. x \in FreeOf(h) \ {b} /\ block_next(h.mem, x) = y
        BY <2>5, <3>1, <3>2, <3>4 DEF block_next
      <4>2. y = b + s
        BY <2>5, <4>1 DEF Settled
      <4>3. block_next(h.mem, x) \in h.blocks
        <5>1. x \in Inner(h)
          BY <1>2, <4>1, FreeInner
        <5> QED
          BY <1>2, <5>1, Neighbours
      <4> QED
        BY <2>5, <4>1, <4>2, <4>3
    <3> QED
      BY <3>3, <3>4
  <2>13. Settles(h, r)
    BY <2>6, <2>11, <2>12, SettledFewer DEF Settles, SameBlocks
  <2> QED
    BY <2>6, <2>8, <2>10, <2>13 DEF Leaves, WellFormed, r
<1>8. CASE ~ (t >= 32)
  <2>1. r = block_set_allocated(h1, b, 1)
    BY <1>1, <1>8
  <2>2. Retagged(h1, {b}, r, b, {}, size, 1)
    <3>1. b \in Inner(h1) /\ FreeOf(h1) \cap {b} \subseteq {b} /\ 1 \in {0, 1}
      BY <1>2, <1>5 DEF Inner
    <3> QED
      BY <1>4, <1>5, <2>1, <3>1, RetagOff
  <2>3. /\ ({b} \ ({} \cup {b})) \cup (IF 1 = 0 THEN {b} ELSE {}) = {}
        /\ (FreeOf(h1) \ ({} \cup {b})) \cup (IF 1 = 0 THEN {b} ELSE {})
             = FreeOf(h) \ {b}
        /\ h1.blocks \ {} = h.blocks
        /\ UsedOf(h1) \ ({} \cup {b}) = UsedOf(h)
    BY <1>5 DEF UsedOf
  <2>4. /\ Off(r, {}) /\ FreeOf(r) = FreeOf(h) \ {b} /\ r.blocks = h.blocks
        /\ r.epilogue = h.epilogue /\ r.brk = h.brk
        /\ block_size(r.mem, b) = size /\ Kept(h1, r, UsedOf(h))
        /\ \A c \in h.blocks \ ({} \cup {b}) :
             block_size(r.mem, c) = block_size(h1.mem, c)
    BY <1>5, <2>2, <2>3, Zenon DEF Retagged
  <2>5. UsedOf(r) = UsedOf(h) \cup {b}
    BY <1>2, <2>4 DEF UsedOf
  <2>6. Kept(h, r, UsedOf(h))
    BY <1>5, <2>4, KeptTrans
  <2>7. Settles(h, r)
    <3>1. \A c \in FreeOf(r) : block_size(r.mem, c) = block_size(h.mem, c)
      BY <1>4, <2>4 DEF SameBlocks, FreeOf, FreeBlocks
    <3> QED
      BY <2>4, <3>1, SettledFewer DEF Settles
  <2> QED
    BY <1>6, <2>4, <2>5, <2>6, <2>7 DEF Leaves, WellFormed, r
<1> QED
  BY <1>7, <1>8

(* Words of the payload of an allocated block are written, and no others.  *)
Writes(h, r, b) ==
  /\ b \in Inner(h) /\ b \in UsedOf(h)
  /\ r = [h EXCEPT !.mem = r.mem] /\ r.mem \in [Addr -> Int]
  /\ \A x \in Addr : x < b + 8 \/ x >= b + block_size(h.mem, b) - 8
                     => r.mem[x] = h.mem[x]

(* memmove and memset into a payload leave the heap alone.                 *)
LEMMA Writing ==
  ASSUME NEW h, NEW r, NEW b, WellFormed(h), Writes(h, r, b)
  PROVE  /\ Leaves(h, r, UsedOf(h), UsedOf(h) \ {b})
         /\ r.blocks = h.blocks
         /\ \A c \in h.blocks : block_size(r.mem, c) = block_size(h.mem, c)
<1> DEFINE m == h.mem
           B == h.blocks
           E == h.epilogue
           s == block_size(m, b)
<1>1. /\ h \in HeapType /\ h.fault = "none" /\ Layout(m, B, E)
      /\ E + TAGS_SIZE = h.brk /\ b \in B /\ Off(h, {}) /\ b \notin FreeOf(h)
  BY DEF WellFormed, Off, Shaped, Inner, Writes, UsedOf
<1>2. /\ r \in HeapType /\ r.fault = "none" /\ r.blocks = B
      /\ r.flist_first = h.flist_first /\ r.epilogue = E /\ r.brk = h.brk
      /\ r.mem \in [Addr -> Int]
  <2>1. PICK n \in [Addr -> Int] : r = [h EXCEPT !.mem = n]
    BY DEF Writes
  <2> QED
    BY <1>1, <2>1 DEF HeapType
<1>3. \A x \in Addr : x < b + 8 \/ x >= b + s - 8 => r.mem[x] = m[x]
  BY DEF Writes
<1>4. \A c \in B : /\ r.mem[c] = m[c]
                   /\ r.mem[c + block_size(m, c) - WORD_SIZE]
                        = m[c + block_size(m, c) - WORD_SIZE]
  <2>1. /\ b \in Int /\ s \in Int /\ s >= 16 /\ b \in Addr /\ b + s - 8 \in Addr
    BY <1>1, BlockFacts
  <2> TAKE c \in B
  <2>2. /\ c \in Int /\ block_size(m, c) \in Int /\ block_size(m, c) >= 16
        /\ c \in Addr /\ c + block_size(m, c) - 8 \in Addr
    BY <1>1, BlockFacts
  <2>3. CASE c = b
    BY <1>3, <2>1, <2>3
  <2>4. CASE c # b
    <3>1. c + block_size(m, c) <= b \/ b + s <= c
      BY <1>1, <2>4, Apart
    <3> QED
      BY <1>3, <2>1, <2>2, <3>1
  <2> QED
    BY <2>3, <2>4
<1>5. /\ Layout(r.mem, B, E)
      /\ \A c \in B : /\ block_size(r.mem, c) = block_size(m, c)
                      /\ block_allocated(r.mem, c) = block_allocated(m, c)
      /\ FreeBlocks(r.mem, B) = FreeBlocks(m, B)
  BY <1>1, <1>2, <1>4, SameTags
<1>6. Rebuilds(h, {}, r, {b}, {b}, b, b + s)
  <2>1. \A c \in B \ {b} : c + block_size(m, c) <= b \/ b + s <= c
    <3> TAKE c \in B \ {b}
    <3>1. Layout(m, B, E) /\ b \in B /\ c \in B /\ c # b
      BY <1>1
    <3> QED
      BY <3>1, Apart
  <2>2. b \in Int /\ s \in Int /\ s >= 16
    BY <1>1, BlockFacts
  <2>3. \A x \in Addr : x < b \/ x >= b + s => r.mem[x] = m[x]
    <3> HIDE DEF s
    <3> TAKE x \in Addr
    <3> HAVE x < b \/ x >= b + s
    <3>1. x < b + 8 \/ x >= b + s - 8
      BY <2>2, AddrInt
    <3> QED
      BY <1>3, <3>1
  <2>4. /\ {b} \subseteq B /\ FreeOf(h) \cap {b} \subseteq {}
        /\ {b} \cap (B \ {b}) = {} /\ B = (B \ {b}) \cup {b}
    BY <1>1
  <2>5. Layout(r.mem, r.blocks, r.epilogue) /\ r.epilogue + TAGS_SIZE = r.brk
    BY <1>1, <1>2, <1>5
  <2> QED
    BY <1>2, <2>1, <2>2, <2>3, <2>4, <2>5 DEF Rebuilds
<1>7. FreeAmong(r, {b}) = {} /\ FreeOf(r) = FreeOf(h)
  BY <1>1, <1>2, <1>5 DEF FreeAmong, FreeOf, FreeBlocks
<1>8. ({} \ {b}) \cup {} = {}
  OBVIOUS
<1>9. Off(r, {}) /\ Kept(h, r, UsedOf(h) \ {b})
  <2>1. RestKept(h, {}, r, {b}, {b})
    BY <1>1, <1>6, Rebuilt
  <2> QED
    BY <1>7, <1>8, <2>1, Zenon DEF RestKept
<1>10. UsedOf(r) = UsedOf(h)
  BY <1>2, <1>7 DEF UsedOf
<1>11. Settles(h, r)
  <2>1. \A c \in FreeOf(r) : block_size(r.mem, c) = block_size(m, c)
    BY <1>5, <1>7 DEF FreeOf, FreeBlocks
  <2> QED
    BY <1>7, <2>1, SettledFewer DEF Settles
<1> QED
  BY <1>2, <1>5, <1>9, <1>10, <1>11 DEF Leaves, WellFormed

-----------------------------------------------------------------------------

(* b is now part of a larger allocated block at q, and its old payload is  *)
(* where it was (mm_realloc's first three cases, before any memmove).      *)
Joined(h, r, b, q, s) ==
  /\ WellFormed(r)
  /\ r.epilogue = h.epilogue /\ r.brk = h.brk
  /\ UsedOf(r) = (UsedOf(h) \ {b}) \cup {q} /\ q \in Inner(r)
  /\ q \notin UsedOf(h) \ {b}
  /\ block_size(r.mem, q) = s
  /\ Kept(h, r, UsedOf(h) \ {b})
  /\ \A a \in Addr : b + 8 <= a /\ a < b + block_size(h.mem, b) - 8
                     => r.mem[a] = h.mem[a]
  /\ Settles(h, r)

(* Free blocks that become part of an allocated one bring no others        *)
(* together.                                                               *)
LEMMA SettledJoin ==
  ASSUME NEW h, NEW g, NEW X, NEW r, NEW lo, NEW K, NEW s,
         g.blocks = h.blocks, FreeOf(g) = FreeOf(h),
         \A c \in h.blocks : block_size(g.mem, c) = block_size(h.mem, c),
         Retagged(g, X, r, lo, K, s, 1)
  PROVE  Settles(h, r)
<1>1. /\ FreeOf(r) = (FreeOf(g) \ (K \cup {lo})) \cup (IF 1 = 0 THEN {lo} ELSE {})
      /\ \A c \in g.blocks \ (K \cup {lo}) :
           block_size(r.mem, c) = block_size(g.mem, c)
  BY Zenon DEF Retagged
<1>2. FreeOf(r) = FreeOf(h) \ (K \cup {lo})
  BY <1>1
<1>3. FreeOf(h) \subseteq h.blocks
  BY DEF FreeOf, FreeBlocks
<1>4. \A c \in FreeOf(r) : block_size(r.mem, c) = block_size(h.mem, c)
  BY <1>1, <1>2, <1>3
<1> QED
  BY <1>2, <1>4, SettledFewer DEF Settles

(* The free block before it is joined to an allocated one.                 *)
LEMMA JoinPrev ==
  ASSUME NEW h, WellFormed(h), NEW b \in Inner(h), b \in UsedOf(h),
         block_prev(h.mem, b) \in FreeOf(h)
  PROVE  LET prev == block_prev(h.mem, b)
             h1   == pull_free_block(h, prev)
             s    == block_size(h.mem, b) + block_size(h1.mem, prev)
         IN  /\ block_size(h1.mem, prev) = block_size(h.mem, prev)
             /\ Joined(h, block_set_size_and_allocated(h1, prev, s, 1),
                       b, prev, s)
<1> DEFINE prev == block_prev(h.mem, b)
           h1   == pull_free_block(h, prev)
           s    == block_size(h.mem, b) + block_size(h1.mem, prev)
           r    == block_set_size_and_allocated(h1, prev, s, 1)
<1>1. Shaped(h) /\ b \in h.blocks /\ b \notin FreeOf(h) /\ prev \in Inner(h)
  BY FreeInner DEF WellFormed, Off, UsedOf
<1>2. /\ prev + block_size(h.mem, prev) = b /\ prev \in Int /\ prev < b
      /\ b \in Int /\ block_size(h.mem, b) \in Int /\ prev \in h.blocks
      /\ block_size(h.mem, prev) \in Int
      /\ block_size(h.mem, b) >= 32 /\ block_size(h.mem, prev) >= 16
  BY <1>1, Neighbours
<1> HIDE DEF prev
<1>3. Off(h1, {prev}) /\ SameBlocks(h, h1)
  <2>1. prev \in FreeOf(h) \ {} /\ {} \cup {prev} = {prev}
    BY DEF prev
  <2> QED
    BY <2>1, PullOff DEF WellFormed
<1> HIDE DEF h1
<1>4. /\ h1.blocks = h.blocks /\ h1.epilogue = h.epilogue /\ h1.brk = h.brk
      /\ FreeOf(h1) = FreeOf(h) /\ UsedOf(h1) = UsedOf(h)
      /\ Kept(h, h1, UsedOf(h))
      /\ block_size(h1.mem, prev) = block_size(h.mem, prev)
      /\ block_size(h1.mem, b) = block_size(h.mem, b)
  BY <1>1, <1>2, <1>3 DEF SameBlocks, UsedOf
<1>5. s = block_size(h1.mem, prev) + block_size(h1.mem, b)
  BY <1>2, <1>4
<1>6. Retagged(h1, {prev}, r, prev, {b}, s, 1)
  <2>1. /\ prev \in Inner(h1) /\ b \in Inner(h1) /\ 1 \in {0, 1}
        /\ prev + block_size(h1.mem, prev) = b
        /\ FreeOf(h1) \cap {prev, b} \subseteq {prev}
    BY <1>1, <1>2, <1>4 DEF Inner
  <2> QED
    BY <1>3, <1>5, <2>1, MergeOff
<1> HIDE DEF r, s
<1>7. /\ ({prev} \ ({b} \cup {prev})) \cup (IF 1 = 0 THEN {prev} ELSE {}) = {}
      /\ (FreeOf(h1) \ ({b} \cup {prev})) \cup (IF 1 = 0 THEN {prev} ELSE {})
           = FreeOf(h) \ {prev}
      /\ UsedOf(h1) \ ({b} \cup {prev}) = UsedOf(h) \ {b}
  BY <1>1, <1>4 DEF UsedOf, prev
<1>8. /\ Off(r, {}) /\ FreeOf(r) = FreeOf(h) \ {prev}
      /\ r.blocks = h.blocks \ {b}
      /\ r.epilogue = h.epilogue /\ r.brk = h.brk
      /\ block_size(r.mem, prev) = s /\ Kept(h1, r, UsedOf(h) \ {b})
      /\ \A x \in Addr \ {prev, prev + s - 8} : r.mem[x] = h1.mem[x]
  BY <1>4, <1>6, <1>7, Zenon DEF Retagged
<1>9. UsedOf(r) = (UsedOf(h) \ {b}) \cup {prev}
  BY <1>1, <1>2, <1>8 DEF UsedOf
<1>10. Kept(h, r, UsedOf(h) \ {b})
  <2>1. Kept(h, h1, UsedOf(h) \ {b})
    BY <1>4 DEF Kept
  <2> QED
    BY <1>8, <2>1, KeptTrans
<1>11. \A a \in Addr : b + 8 <= a /\ a < b + block_size(h.mem, b) - 8
                       => r.mem[a] = h.mem[a]
  <2> TAKE a \in Addr
  <2> HAVE b + 8 <= a /\ a < b + block_size(h.mem, b) - 8
  <2>1. prev + s = b + block_size(h.mem, b) /\ s \in Int
    BY <1>2, <1>4 DEF s
  <2>2. a \in Addr \ {prev, prev + s - 8}
    BY <1>2, <2>1, AddrInt
  <2>3. h1.mem[a] = h.mem[a]
    <3>1. b \in UsedOf(h) /\ b <= a /\ a < b + block_size(h.mem, b)
      BY <1>2, AddrInt
    <3> QED
      BY <1>4, <3>1 DEF Kept
  <2> QED
    BY <1>8, <2>2, <2>3
<1>12. prev \in Inner(r) /\ prev \notin UsedOf(h) \ {b}
  BY <1>1, <1>2, <1>8 DEF Inner, UsedOf, prev
<1>13. Settles(h, r)
  BY <1>3, <1>4, <1>6, SettledJoin DEF SameBlocks
<1> QED
  BY <1>4, <1>8, <1>9, <1>10, <1>11, <1>12, <1>13, Zenon
     DEF Joined, WellFormed, r, s, h1, prev

(* The free block after it is joined to an allocated one.                  *)
LEMMA JoinNext ==
  ASSUME NEW h, WellFormed(h), NEW b \in Inner(h), b \in UsedOf(h),
         block_next(h.mem, b) \in FreeOf(h)
  PROVE  LET next == block_next(h.mem, b)
             h1   == pull_free_block(h, next)
             s    == block_size(h.mem, b) + block_size(h1.mem, next)
         IN  /\ block_size(h1.mem, next) = block_size(h.mem, next)
             /\ Joined(h, block_set_size_and_allocated(h1, b, s, 1), b, b, s)
<1> DEFINE next == block_next(h.mem, b)
           h1   == pull_free_block(h, next)
           s    == block_size(h.mem, b) + block_size(h1.mem, next)
           r    == block_set_size_and_allocated(h1, b, s, 1)
<1>1. Shaped(h) /\ b \in h.blocks /\ b \notin FreeOf(h) /\ next \in Inner(h)
  BY FreeInner DEF WellFormed, Off, UsedOf
<1>2. /\ b + block_size(h.mem, b) = next /\ next \in Int /\ b < next
      /\ b \in Int /\ block_size(h.mem, b) \in Int /\ next \in h.blocks
      /\ block_size(h.mem, next) \in Int
      /\ block_size(h.mem, b) >= 32 /\ block_size(h.mem, next) >= 16
  BY <1>1, Neighbours
<1> HIDE DEF next
<1>3. Off(h1, {next}) /\ SameBlocks(h, h1)
  <2>1. next \in FreeOf(h) \ {} /\ {} \cup {next} = {next}
    BY DEF next
  <2> QED
    BY <2>1, PullOff DEF WellFormed
<1> HIDE DEF h1
<1>4. /\ h1.blocks = h.blocks /\ h1.epilogue = h.epilogue /\ h1.brk = h.brk
      /\ FreeOf(h1) = FreeOf(h) /\ UsedOf(h1) = UsedOf(h)
      /\ Kept(h, h1, UsedOf(h))
      /\ block_size(h1.mem, next) = block_size(h.mem, next)
      /\ block_size(h1.mem, b) = block_size(h.mem, b)
  BY <1>1, <1>2, <1>3 DEF SameBlocks, UsedOf
<1>5. s = block_size(h1.mem, b) + block_size(h1.mem, next)
  BY <1>4
<1>6. Retagged(h1, {next}, r, b, {next}, s, 1)
  <2>1. /\ next \in Inner(h1) /\ b \in Inner(h1) /\ 1 \in {0, 1}
        /\ b + block_size(h1.mem, b) = next
        /\ FreeOf(h1) \cap {b, next} \subseteq {next}
    BY <1>1, <1>2, <1>4 DEF Inner
  <2> QED
    BY <1>3, <1>5, <2>1, MergeOff
<1> HIDE DEF r, s
<1>7. /\ ({next} \ ({next} \cup {b})) \cup (IF 1 = 0 THEN {b} ELSE {}) = {}
      /\ (FreeOf(h1) \ ({next} \cup {b})) \cup (IF 1 = 0 THEN {b} ELSE {})
           = FreeOf(h) \ {next}
      /\ UsedOf(h1) \ ({next} \cup {b}) = UsedOf(h) \ {b}
  BY <1>1, <1>4 DEF UsedOf, next
<1>8. /\ Off(r, {}) /\ FreeOf(r) = FreeOf(h) \ {next}
      /\ r.blocks = h.blocks \ {next}
      /\ r.epilogue = h.epilogue /\ r.brk = h.brk
      /\ block_size(r.mem, b) = s /\ Kept(h1, r, UsedOf(h) \ {b})
      /\ \A x \in Addr \ {b, b + s - 8} : r.mem[x] = h1.mem[x]
  BY <1>4, <1>6, <1>7, Zenon DEF Retagged
<1>9. UsedOf(r) = (UsedOf(h) \ {b}) \cup {b}
  BY <1>1, <1>2, <1>8 DEF UsedOf, next
<1>10. Kept(h, r, UsedOf(h) \ {b})
  <2>1. Kept(h, h1, UsedOf(h) \ {b})
    BY <1>4 DEF Kept
  <2> QED
    BY <1>8, <2>1, KeptTrans
<1>11. \A a \in Addr : b + 8 <= a /\ a < b + block_size(h.mem, b) - 8
                       => r.mem[a] = h.mem[a]
  <2> TAKE a \in Addr
  <2> HAVE b + 8 <= a /\ a < b + block_size(h.mem, b) - 8
  <2>1. s = block_size(h.mem, b) + block_size(h.mem, next) /\ s \in Int
    BY <1>2, <1>4 DEF s
  <2>2. a \in Addr \ {b, b + s - 8}
    BY <1>2, <2>1, AddrInt
  <2>3. h1.mem[a] = h.mem[a]
    <3>1. b \in UsedOf(h) /\ b <= a /\ a < b + block_size(h.mem, b)
      BY <1>2, AddrInt
    <3> QED
      BY <1>4, <3>1 DEF Kept
  <2> QED
    BY <1>8, <2>2, <2>3
<1>12. b \in Inner(r) /\ b \notin UsedOf(h) \ {b}
  BY <1>1, <1>2, <1>8 DEF Inner
<1>13. Settles(h, r)
  BY <1>3, <1>4, <1>6, SettledJoin DEF SameBlocks
<1> QED
  BY <1>4, <1>8, <1>9, <1>10, <1>11, <1>12, <1>13, Zenon
     DEF Joined, WellFormed, r, s, h1, next

(* The free blocks on both sides of it are joined to an allocated one.     *)
LEMMA JoinBoth ==
  ASSUME NEW h, WellFormed(h), NEW b \in Inner(h), b \in UsedOf(h),
         block_prev(h.mem, b) \in FreeOf(h), block_next(h.mem, b) \in FreeOf(h)
  PROVE  LET prev == block_prev(h.mem, b)
             next == block_next(h.mem, b)
             h2   == pull_free_block(pull_free_block(h, next), prev)
             s    == block_size(h.mem, b) + block_size(h2.mem, next)
                       + block_size(h2.mem, prev)
         IN  /\ block_size(h2.mem, prev) = block_size(h.mem, prev)
             /\ block_size(h2.mem, next) = block_size(h.mem, next)
             /\ Joined(h, block_set_size_and_allocated(h2, prev, s, 1),
                       b, prev, s)
<1> DEFINE prev == block_prev(h.mem, b)
           next == block_next(h.mem, b)
           h1   == pull_free_block(h, next)
           h2   == pull_free_block(h1, prev)
           s    == block_size(h.mem, b) + block_size(h2.mem, next)
                     + block_size(h2.mem, prev)
           r    == block_set_size_and_allocated(h2, prev, s, 1)
           K    == {b, next}
           X    == {next, prev}
<1>1. Shaped(h) /\ b \in h.blocks /\ b \notin FreeOf(h)
      /\ prev \in Inner(h) /\ next \in Inner(h)
  BY FreeInner DEF WellFormed, Off, UsedOf
<1>2. /\ prev + block_size(h.mem, prev) = b /\ prev \in Int /\ prev < b
      /\ b + block_size(h.mem, b) = next /\ next \in Int /\ b < next
      /\ b \in Int /\ block_size(h.mem, b) \in Int
      /\ prev \in h.blocks /\ next \in h.blocks
      /\ block_size(h.mem, prev) \in Int /\ block_size(h.mem, next) \in Int
      /\ block_size(h.mem, b) >= 32
      /\ block_size(h.mem, prev) >= 16 /\ block_size(h.mem, next) >= 16
  BY <1>1, Neighbours
<1>2a. prev \in FreeOf(h) /\ next \in FreeOf(h)
  OBVIOUS
<1> HIDE DEF prev, next
<1>3. Off(h1, {next}) /\ SameBlocks(h, h1)
  <2>1. next \in FreeOf(h) \ {} /\ {} \cup {next} = {next}
    BY <1>2a
  <2> QED
    BY <2>1, PullOff DEF WellFormed
<1> HIDE DEF h1
<1>4. Off(h2, X) /\ SameBlocks(h1, h2)
  <2>1. prev \in FreeOf(h1) \ {next} /\ {next} \cup {prev} = X
    BY <1>2, <1>2a, <1>3 DEF SameBlocks
  <2> QED
    BY <1>3, <2>1, PullOff
<1> HIDE DEF h2
<1>5. /\ h2.blocks = h.blocks /\ h2.epilogue = h.epilogue /\ h2.brk = h.brk
      /\ FreeOf(h2) = FreeOf(h) /\ UsedOf(h2) = UsedOf(h)
      /\ block_size(h2.mem, prev) = block_size(h.mem, prev)
      /\ block_size(h2.mem, next) = block_size(h.mem, next)
      /\ block_size(h2.mem, b) = block_size(h.mem, b)
  BY <1>1, <1>2, <1>3, <1>4 DEF SameBlocks, UsedOf
<1>6. Kept(h, h2, UsedOf(h))
  <2>1. Kept(h, h1, UsedOf(h)) /\ Kept(h1, h2, UsedOf(h1))
        /\ UsedOf(h1) = UsedOf(h)
    BY <1>3, <1>4 DEF SameBlocks, UsedOf
  <2> QED
    BY <2>1, KeptTrans
<1>7. s = block_size(h2.mem, prev) + block_size(h2.mem, b)
            + block_size(h2.mem, next)
  BY <1>2, <1>5
<1>8. Retagged(h2, X, r, prev, K, s, 1)
  <2>1. /\ prev \in Inner(h2) /\ b \in Inner(h2) /\ next \in Inner(h2)
        /\ prev + block_size(h2.mem, prev) = b
        /\ b + block_size(h2.mem, b) = next
        /\ FreeOf(h2) \cap {prev, b, next} \subseteq X /\ 1 \in {0, 1}
    BY <1>1, <1>2, <1>5 DEF Inner
  <2> QED
    BY <1>4, <1>7, <2>1, MergeThreeOff
<1> HIDE DEF r, s
<1>9. /\ (X \ (K \cup {prev})) \cup (IF 1 = 0 THEN {prev} ELSE {}) = {}
      /\ (FreeOf(h2) \ (K \cup {prev})) \cup (IF 1 = 0 THEN {prev} ELSE {})
           = FreeOf(h) \ X
      /\ UsedOf(h2) \ (K \cup {prev}) = UsedOf(h) \ {b}
  BY <1>1, <1>2a, <1>5 DEF UsedOf
<1>10. /\ Off(r, {}) /\ FreeOf(r) = FreeOf(h) \ X
       /\ r.blocks = h.blocks \ K
       /\ r.epilogue = h.epilogue /\ r.brk = h.brk
       /\ block_size(r.mem, prev) = s /\ Kept(h2, r, UsedOf(h) \ {b})
       /\ \A x \in Addr \ {prev, prev + s - 8} : r.mem[x] = h2.mem[x]
  BY <1>5, <1>8, <1>9, Zenon DEF Retagged
<1>11. UsedOf(r) = (UsedOf(h) \ {b}) \cup {prev}
  BY <1>1, <1>2, <1>2a, <1>10 DEF UsedOf
<1>12. Kept(h, r, UsedOf(h) \ {b})
  <2>1. Kept(h, h2, UsedOf(h) \ {b})
    BY <1>6 DEF Kept
  <2> QED
    BY <1>10, <2>1, KeptTrans
<1>13. \A a \in Addr : b + 8 <= a /\ a < b + block_size(h.mem, b) - 8
                       => r.mem[a] = h.mem[a]
  <2> TAKE a \in Addr
  <2> HAVE b + 8 <= a /\ a < b + block_size(h.mem, b) - 8
  <2>1. prev + s = b + block_size(h.mem, b) + block_size(h.mem, next)
        /\ s \in Int
    BY <1>2, <1>5 DEF s
  <2>2. a \in Addr \ {prev, prev + s - 8}
    BY <1>2, <2>1, AddrInt
  <2>3. h2.mem[a] = h.mem[a]
    <3>1. b \in UsedOf(h) /\ b <= a /\ a < b + block_size(h.mem, b)
      BY <1>2, AddrInt
    <3> QED
      BY <1>6, <3>1 DEF Kept
  <2> QED
    BY <1>10, <2>2, <2>3
<1>14. prev \in Inner(r) /\ prev \notin UsedOf(h) \ {b}
  BY <1>1, <1>2, <1>2a, <1>10 DEF Inner, UsedOf
<1>15. Settles(h, r)
  <2>1. \A c \in h.blocks : block_size(h2.mem, c) = block_size(h.mem, c)
    BY <1>3, <1>4 DEF SameBlocks
  <2> QED
    BY <1>5, <1>8, <2>1, SettledJoin
<1> QED
  BY <1>5, <1>10, <1>11, <1>12, <1>13, <1>14, <1>15, Zenon
     DEF Joined, WellFormed, r, s, h2, h1, next, prev

-----------------------------------------------------------------------------

Extended(h, r, s) ==
  /\ WellFormed(r)
  /\ r.epilogue = h.epilogue + s /\ r.brk = h.brk + s
  /\ UsedOf(r) = UsedOf(h) \cup {h.epilogue + s}
  /\ h.epilogue + s \notin UsedOf(h)
  /\ h.epilogue \in Inner(r)
  /\ block_size(r.mem, h.epilogue) = s
  /\ Kept(h, r, UsedOf(h) \ {h.epilogue})
  /\ Settles(h, r)

(* mm_malloc gets s more bytes from mem_sbrk: the old epilogue becomes an  *)
(* allocated block, and the heap ends in a new epilogue.                   *)
LEMMA Extending ==
  ASSUME NEW h, WellFormed(h), NEW s \in Int, s >= 32, s % 8 = 0,
         h.brk + s <= mem_max_addr, ToInt(s) = s
  PROVE  Extended(h, extend(h, s), s)
<1> DEFINE m == h.mem
           B == h.blocks
           E == h.epilogue
           grown == [h EXCEPT !.brk = mem_sbrk(@, s)]
           h1 == block_set_size_and_allocated(grown, E, s, 1)
           h2 == [h1 EXCEPT !.epilogue = E + s]
           r  == block_set_size_and_allocated(h2, E + s, 16, 1)
           m1 == Tag(m, E, s, 1)
           n  == Tag(m1, E + s, 16, 1)
           C  == B \cup {E + s}
<1>1. /\ h \in HeapType /\ h.fault = "none" /\ Layout(m, B, E)
      /\ E + 16 = h.brk /\ m \in [Addr -> Int] /\ B \subseteq Addr
      /\ E \in B /\ E \in Addr /\ E \in Int /\ prologue < E
      /\ Off(h, {})
  BY AddrInt DEF WellFormed, Off, Shaped, Layout, Tiled
<1>2. /\ mem_max_addr \in Int /\ mem_start_brk \in Int /\ mem_start_brk < E
      /\ E + s + 16 <= mem_max_addr /\ h.brk + s \in mem_start_brk .. mem_max_addr
  BY <1>1, MemoryAssumption DEF mem_max_addr
<1>3. /\ E + s \in Addr /\ E + s - 8 \in Addr /\ E + s + 16 - 8 \in Addr
      /\ E + s + 8 = E + s + 16 - 8
  <2>1. E + (s - 8) \in Addr /\ E + s \in Addr /\ E + (s + 8) \in Addr
    BY <1>1, <1>2, AddrShift, SMTT(30)
  <2> QED
    BY <1>1, <2>1
<1>4. /\ grown \in HeapType /\ grown.mem = m /\ grown.blocks = B
      /\ grown = [h EXCEPT !.brk = h.brk + s]
  BY <1>1, <1>2 DEF HeapType, mem_sbrk
<1>5. h1 = SetTag(grown, E, s, 1)
  <2>1. s >= 16 /\ 1 \in {0, 1}
    OBVIOUS
  <2> HIDE DEF grown
  <2> QED
    BY <1>1, <1>3, <1>4, <2>1, SetSizeAllocated
<1>6. /\ m1 \in [Addr -> Int] /\ m1[E] = s + 1 /\ m1[E + s - 8] = s + 1
      /\ block_size(m1, E) = s
      /\ \A x \in Addr \ {E, E + s - 8} : m1[x] = m[x]
  <2>1. s >= 16 /\ 1 \in {0, 1}
    OBVIOUS
  <2>2. m1 \in [Addr -> Int]
    BY <1>1, <1>3, <2>1, TagType
  <2> QED
    BY <1>1, <1>3, <2>1, <2>2, TagFacts
<1> HIDE DEF m1
<1>7. Starts(B, E, s) = B
  <2>1. \A c \in B : c <= E
    BY <1>1 DEF Layout, Tiled
  <2> QED
    BY <1>1, <2>1 DEF Starts
<1>8. h1 = [h EXCEPT !.brk = h.brk + s, !.mem = m1, !.blocks = B]
  BY <1>1, <1>4, <1>5, <1>7 DEF SetTag, HeapType, m1
<1> HIDE DEF h1
<1>9. block_next(h1.mem, E) = E + s
  <2>1. h1.mem = m1
    BY <1>1, <1>8 DEF HeapType
  <2> QED
    BY <1>6, <2>1 DEF block_next
<1>10. extend(h, s) = r
  BY <1>9 DEF extend, h1
<1>11. /\ h2 \in HeapType /\ h2.mem = m1 /\ h2.blocks = B /\ h2.fault = "none"
       /\ h2.flist_first = h.flist_first /\ h2.epilogue = E + s
       /\ h2.brk = h.brk + s
  BY <1>1, <1>2, <1>3, <1>6, <1>8 DEF HeapType
<1> HIDE DEF h2
<1>12. r = SetTag(h2, E + s, 16, 1)
  <2>1. 16 >= 16 /\ 16 % 8 = 0 /\ 1 \in {0, 1} /\ 16 \in Int
    OBVIOUS
  <2> QED
    BY <1>3, <1>11, <2>1, SetSizeAllocated
<1>13. /\ n \in [Addr -> Int] /\ n[E + s] = 17 /\ n[E + s + 8] = 17
       /\ \A x \in Addr \ {E + s, E + s + 8} : n[x] = m1[x]
  <2>1. 16 >= 16 /\ 16 % 8 = 0 /\ 1 \in {0, 1} /\ 16 \in Int /\ 16 + 1 = 17
    OBVIOUS
  <2>2. n \in [Addr -> Int]
    BY <1>3, <1>6, <2>1, TagType
  <2>3. E + s + 8 = (E + s) + 16 - 8 /\ (E + s) + 16 - 8 \in Addr
    BY <1>3
  <2>4. /\ n[E + s] = 16 + 1 /\ n[(E + s) + 16 - 8] = 16 + 1
        /\ \A x \in Addr \ {E + s, (E + s) + 16 - 8} : n[x] = m1[x]
    <3>1. 16 + 1 \in Int /\ E + s # (E + s) + 16 - 8
      BY <1>1
    <3> QED
      BY <1>3, <1>6, <2>3, <3>1 DEF Tag
  <2> QED
    BY <2>1, <2>2, <2>3, <2>4
<1> HIDE DEF n, r
<1>14. /\ n[E] = s + 1 /\ n[E + s - 8] = s + 1
       /\ \A x \in Addr : x < E => n[x] = m[x]
       /\ \A x \in Addr : x < E \/ x >= E + s + 16 => n[x] = m[x]
  <2>1. /\ E \in Addr \ {E + s, E + s + 8} /\ E + s - 8 \in Addr \ {E + s, E + s + 8}
        /\ \A x \in Addr : x < E \/ x >= E + s + 16 =>
             /\ x \in Addr \ {E + s, E + s + 8}
             /\ x \in Addr \ {E, E + s - 8}
    BY <1>1, <1>3, AddrInt
  <2>2. \A x \in Addr : x < E \/ x >= E + s + 16 => n[x] = m[x]
    BY <1>6, <1>13, <2>1
  <2> QED
    BY <1>6, <1>13, <2>1, <2>2
<1>15. /\ Layout(n, C, E + s) /\ E + s \notin B
       /\ block_size(n, E) = s /\ block_allocated(n, E)
       /\ block_allocated(n, E + s)
  <2>1. Grows(m, B, E, s, n)
    BY <1>1, <1>2, <1>13, <1>14 DEF Grows
  <2>2. Grown(m, B, E, s, n)
    BY <2>1, Grow
  <2> QED
    BY <2>2 DEF Grown
<1>16. Starts(B, E + s, 16) = C
  <2>1. \A c \in B : c <= E + s
    BY <1>1 DEF Layout, Tiled
  <2> QED
    BY <2>1 DEF Starts
<1>17. /\ r \in HeapType /\ r.mem = n /\ r.blocks = C /\ r.fault = "none"
       /\ r.flist_first = h.flist_first /\ r.epilogue = E + s
       /\ r.brk = h.brk + s
  <2>1. r = [h2 EXCEPT !.mem = n, !.blocks = C]
    BY <1>11, <1>12, <1>16 DEF SetTag, n
  <2>2. C \in SUBSET Addr
    BY <1>1, <1>3
  <2> QED
    BY <1>11, <1>13, <2>1, <2>2 DEF HeapType
<1> DEFINE N == {E, E + s}
<1>18. Rebuilds(h, {}, r, {E}, N, E, E + s + 16)
  <2>1. \A c \in B \ {E} : c + block_size(m, c) <= E
    BY <1>1, BlockFacts
  <2>2. /\ {E} \subseteq B /\ FreeOf(h) \cap {E} \subseteq {}
        /\ N \cap (B \ {E}) = {} /\ C = (B \ {E}) \cup N
    BY <1>1, <1>15 DEF Layout, TagsAgree, FreeOf, FreeBlocks
  <2>3. E + s + 16 = h.brk + s /\ E + s + 16 \in Int
    BY <1>1
  <2> QED
    BY <1>1, <1>14, <1>15, <1>17, <2>1, <2>2, <2>3 DEF Rebuilds
<1>19. /\ FreeOf(r) = (FreeOf(h) \ {E}) \cup {}
       /\ Off(r, ({} \ {E}) \cup {})
       /\ Kept(h, r, UsedOf(h) \ {E})
       /\ \A c \in B \ {E} : block_size(r.mem, c) = block_size(h.mem, c)
  <2>1. RestKept(h, {}, r, {E}, N)
    BY <1>1, <1>18, Rebuilt
  <2>2. FreeAmong(r, N) = {}
    BY <1>15, <1>17 DEF FreeAmong
  <2> QED
    BY <2>1, <2>2, Zenon DEF RestKept
<1>20. /\ ({} \ {E}) \cup {} = {} /\ E \notin FreeOf(h)
       /\ FreeOf(h) \subseteq B
       /\ (FreeOf(h) \ {E}) \cup {} = FreeOf(h)
  BY <1>1 DEF Layout, TagsAgree, FreeOf, FreeBlocks
<1>21. Off(r, {}) /\ FreeOf(r) = FreeOf(h)
  BY <1>19, <1>20, Zenon
<1>22. UsedOf(r) = UsedOf(h) \cup {E + s} /\ E + s \notin UsedOf(h)
  BY <1>15, <1>17, <1>20, <1>21 DEF UsedOf
<1>23. E \in Inner(r)
  BY <1>1, <1>17 DEF Inner
<1>24. Settles(h, r)
  BY <1>19, <1>20, <1>21, SettledFewer DEF Settles
<1> QED
  BY <1>10, <1>15, <1>17, <1>19, <1>21, <1>22, <1>23, <1>24
     DEF Extended, WellFormed

(* mem_sbrk's int takes every size up to INT_MAX as it is, and turns the   *)
(* larger ones that can reach it into negative numbers.                    *)
LEMMA Narrowing ==
  ASSUME NEW n \in Nat, n < INT_SPAN
  PROVE  /\ n <= INT_MAX => ToInt(n) = n
         /\ n > INT_MAX => ToInt(n) < 0
<1>1. INT_SPAN \in Nat /\ INT_MAX \in Int
  BY MemoryAssumption DEF INT_MAX
<1>2. n % INT_SPAN = n
  BY <1>1
<1> QED
  BY <1>1, <1>2 DEF ToInt

(* What mm_init builds, whatever the memory held.                          *)
Fresh(r) ==
  /\ WellFormed(r)
  /\ UsedOf(r) = {prologue, r.epilogue}
  /\ FreeOf(r) = {}
  /\ r.epilogue = prologue + TAGS_SIZE

(* mm_init builds an empty well-formed heap in any memory, junk or the last *)
(* trace's bytes.                                                          *)
LEMMA Initialising ==
  ASSUME NEW m \in [Addr -> Int]
  PROVE  Fresh(mm_init(m))
<1> DEFINE P == prologue
           E == P + 16
           empty == [mem |-> m, flist_first |-> NULL, epilogue |-> E,
                     brk |-> E + 16, fault |-> "none", blocks |-> {}]
           h1 == block_set_size_and_allocated(empty, P, 16, 1)
           r  == block_set_size_and_allocated(h1, E, 16, 1)
           m1 == Tag(m, P, 16, 1)
           n  == Tag(m1, E, 16, 1)
           B  == {P, E}
<1>1. /\ P \in Int /\ P > 0 /\ P % 8 = 0 /\ mem_max_addr \in Int
      /\ P + 32 <= mem_max_addr /\ P = mem_start_brk /\ INT_MAX >= 64
      /\ INT_SPAN > 64
  BY MemoryAssumption DEF mem_max_addr, INT_MAX
<1>2. /\ P \in Addr /\ P + 8 \in Addr /\ P + 16 \in Addr /\ P + 24 \in Addr
  BY <1>1 DEF Addr
<1>3. mem_sbrk(P, 16) = E /\ mem_sbrk(E, 16) = E + 16
  <2>1. 16 \in Nat /\ 16 < INT_SPAN /\ 16 <= INT_MAX
    BY <1>1, MemoryAssumption DEF INT_MAX
  <2>2. ToInt(16) = 16
    BY <2>1, Narrowing
  <2> QED
    BY <2>2 DEF mem_sbrk
<1>4. mm_init(m) = r
  <2>1. /\ TAGS_SIZE = 16 /\ mem_sbrk(mem_start_brk, TAGS_SIZE) = E
        /\ mem_sbrk(E, TAGS_SIZE) = E + 16
    BY <1>3
  <2> HIDE DEF TAGS_SIZE
  <2> QED
    BY <2>1, Zenon DEF mm_init
<1>5. P \in Int /\ E \in Int /\ E = P + 16 /\ E \in Addr /\ P \in Addr
      /\ P + 16 - 8 \in Addr /\ E + 16 - 8 \in Addr /\ P < E
  BY <1>1, <1>2
<1>6. empty \in HeapType
  BY <1>1, <1>2 DEF HeapType
<1>7. h1 = SetTag(empty, P, 16, 1) /\ m1 \in [Addr -> Int]
  <2>1. 16 >= 16 /\ 16 % 8 = 0 /\ 1 \in {0, 1} /\ 16 \in Int
    OBVIOUS
  <2>2. empty.mem = m
    OBVIOUS
  <2> HIDE DEF empty
  <2> QED
    BY <1>5, <1>6, <2>1, <2>2, SetSizeAllocated, TagType
<1>8. h1 = [empty EXCEPT !.mem = m1, !.blocks = {P}]
  BY <1>7 DEF SetTag, Starts
<1> HIDE DEF m1, h1
<1>9. h1 \in HeapType /\ h1.mem = m1 /\ h1.blocks = {P}
  <2>1. {P} \in SUBSET Addr
    BY <1>5
  <2> HIDE DEF empty
  <2> QED
    BY <1>6, <1>7, <1>8, <2>1 DEF HeapType
<1>10. r = SetTag(h1, E, 16, 1) /\ n \in [Addr -> Int]
  <2>1. 16 >= 16 /\ 16 % 8 = 0 /\ 1 \in {0, 1} /\ 16 \in Int
    OBVIOUS
  <2> QED
    BY <1>5, <1>7, <1>9, <2>1, SetSizeAllocated, TagType, SMTT(30)
<1>11. r = [empty EXCEPT !.mem = n, !.blocks = B]
  <2>1. Starts({P}, E, 16) = B
    BY <1>5 DEF Starts
  <2>2. r = [h1 EXCEPT !.mem = n, !.blocks = B]
    BY <1>9, <1>10, <2>1 DEF SetTag
  <2> QED
    BY <1>8, <2>2
<1>12. /\ n[P] = 17 /\ n[P + 8] = 17 /\ n[E] = 17 /\ n[E + 8] = 17
  <2>1. P + 8 \in Addr /\ E + 8 \in Addr /\ P + 16 - 8 = P + 8
        /\ E + 16 - 8 = E + 8 /\ 16 + 1 = 17 /\ P # P + 8 /\ E # E + 8
        /\ P # E /\ P # E + 8 /\ P + 8 # E /\ P + 8 # E + 8
    BY <1>2, <1>5
  <2> QED
    BY <1>5, <1>7, <1>10, <2>1 DEF Tag, m1
<1> HIDE DEF n, r
<1>13. /\ block_size(n, P) = 16 /\ block_size(n, E) = 16
       /\ block_allocated(n, P) /\ block_allocated(n, E)
  <2>1. tag_size(17) = 16 /\ tag_allocated(17) = 1
    BY DEF tag_size, tag_allocated
  <2> QED
    BY <1>12, <2>1 DEF block_size, block_allocated
<1>14. Layout(n, B, E)
  <2>1. Tiled(n, B, E)
    BY <1>5, <1>13 DEF Tiled, block_next
  <2>2. TagsAgree(n, B, E)
    <3>1. P + 16 - 8 = P + 8 /\ E + 16 - 8 = E + 8
      BY <1>5
    <3> QED
      BY <1>12, <1>13, <3>1 DEF TagsAgree, block_end_tag
  <2> QED
    BY <1>1, <1>5, <1>10, <2>1, <2>2 DEF Layout
<1>15. /\ r \in HeapType /\ r.mem = n /\ r.blocks = B /\ r.fault = "none"
       /\ r.flist_first = NULL /\ r.epilogue = E /\ r.brk = E + 16
  <2>1. B \in SUBSET Addr
    BY <1>5
  <2> QED
    BY <1>6, <1>10, <1>11, <2>1 DEF HeapType
<1>16. FreeOf(r) = {} /\ UsedOf(r) = B
  BY <1>13, <1>15 DEF FreeOf, UsedOf, FreeBlocks
<1>17. WellFormed(r)
  <2>1. Ring(n, NULL, {})
    BY DEF Ring
  <2> QED
    BY <1>14, <1>15, <1>16, <2>1 DEF WellFormed, Off, Shaped
<1> QED
  BY <1>4, <1>15, <1>16, <1>17 DEF Fresh

-----------------------------------------------------------------------------

(* n bytes from src fit into the payload of the allocated block b.         *)
Copies(h, b, src, n) ==
  /\ WellFormed(h) /\ b \in Inner(h) /\ b \in UsedOf(h)
  /\ src \in Addr /\ n \in Nat
  /\ n + 16 <= block_size(h.mem, b) /\ src + n <= mem_max_addr

Copied(h, r, b, src, n) ==
  /\ Writes(h, r, b)
  /\ \A a \in Addr : b + 8 <= a /\ a < b + 8 + n
                     => r.mem[a] = h.mem[src + (a - (b + 8))]

(* mm_realloc's memmove writes nothing but the payload it copies into.     *)
LEMMA Moving ==
  ASSUME NEW h, NEW b, NEW src, NEW n, Copies(h, b, src, n)
  PROVE  Copied(h, memmove(h, payload(b), src, n), b, src, n)
<1> USE DEF Copies
<1> DEFINE w == [a \in Addr |-> IF b + 8 <= a /\ a < b + 8 + n
                                THEN h.mem[src + (a - (b + 8))] ELSE h.mem[a]]
           r == memmove(h, payload(b), src, n)
<1>1. /\ h \in HeapType /\ b \in h.blocks /\ h.mem \in [Addr -> Int]
      /\ Layout(h.mem, h.blocks, h.epilogue)
  BY DEF WellFormed, Off, Shaped, Inner, HeapType
<1>2. /\ b \in Int /\ b \in Addr /\ block_size(h.mem, b) \in Int
      /\ b + 8 \in Addr /\ src \in Int
  <2>1. b \notin {prologue, h.epilogue}
    BY DEF Inner
  <2> QED
    BY <1>1, <2>1, BlockFacts, AddrInt
<1>3. \A a \in Addr : b + 8 <= a /\ a < b + 8 + n => src + (a - (b + 8)) \in Addr
  <2> TAKE a \in Addr
  <2> HAVE b + 8 <= a /\ a < b + 8 + n
  <2>1. a \in Int /\ a % 8 = 0 /\ (b + 8) % 8 = 0 /\ src % 8 = 0
        /\ mem_start_brk <= src
    BY <1>2 DEF Addr
  <2>2. (a - (b + 8)) % 8 = 0 /\ a - (b + 8) \in Int
    BY <1>2, <2>1
  <2>3. mem_start_brk <= src + (a - (b + 8))
        /\ src + (a - (b + 8)) < mem_max_addr
    BY <1>2, <2>1, MemoryAssumption DEF mem_max_addr
  <2> QED
    BY <2>2, <2>3, AddrShift
<1>4. w \in [Addr -> Int]
  BY <1>1, <1>3
<1>5. r = [h EXCEPT !.mem = w] /\ r.mem = w
  BY <1>1 DEF memmove, payload, HeapType
<1>6. Writes(h, r, b)
  <2>1. \A x \in Addr : x < b + 8 \/ x >= b + block_size(h.mem, b) - 8
                        => w[x] = h.mem[x]
    BY <1>2, AddrInt
  <2> HIDE DEF w, r
  <2> QED
    BY <1>4, <1>5, <2>1 DEF Writes
<1>7. \A a \in Addr : b + 8 <= a /\ a < b + 8 + n
                      => r.mem[a] = h.mem[src + (a - (b + 8))]
  BY <1>5
<1> QED
  BY <1>6, <1>7 DEF Copied

(* So does the client's memset.                                            *)
LEMMA Setting ==
  ASSUME NEW h, WellFormed(h), NEW b \in Inner(h), b \in UsedOf(h),
         NEW v \in Int, NEW n \in Nat, n + 16 <= block_size(h.mem, b)
  PROVE  LET r == memset(h, payload(b), v, n)
         IN  /\ Writes(h, r, b)
             /\ \A a \in Addr : b + 8 <= a /\ a < b + 8 + n => r.mem[a] = v
<1> DEFINE w == [a \in Addr |-> IF b + 8 <= a /\ a < b + 8 + n
                                THEN v ELSE h.mem[a]]
           r == memset(h, payload(b), v, n)
<1>1. /\ h \in HeapType /\ b \in h.blocks /\ h.mem \in [Addr -> Int]
      /\ Layout(h.mem, h.blocks, h.epilogue)
  BY DEF WellFormed, Off, Shaped, Inner, HeapType
<1>2. b \in Int /\ block_size(h.mem, b) \in Int
  BY <1>1, BlockFacts
<1>3. w \in [Addr -> Int]
  BY <1>1
<1>4. r = [h EXCEPT !.mem = w] /\ r.mem = w
  BY <1>1 DEF memset, payload, HeapType
<1>5. Writes(h, r, b)
  <2>1. \A x \in Addr : x < b + 8 \/ x >= b + block_size(h.mem, b) - 8
                        => w[x] = h.mem[x]
    BY <1>2, AddrInt
  <2> HIDE DEF w, r
  <2> QED
    BY <1>3, <1>4, <2>1 DEF Writes
<1>6. \A a \in Addr : b + 8 <= a /\ a < b + 8 + n => r.mem[a] = v
  BY <1>4
<1> QED
  BY <1>5, <1>6

-----------------------------------------------------------------------------

(* What mm_malloc has done when it returns the payload of b: b is the only *)
(* block that is newly allocated, and the epilogue may have moved.         *)
Obtained(h, g, b, s) ==
  /\ WellFormed(g)
  /\ b \in Inner(g) /\ block_size(g.mem, b) >= s
  /\ b \notin UsedOf(h) \ {h.epilogue}
  /\ UsedOf(g) = (UsedOf(h) \ {h.epilogue}) \cup {b, g.epilogue}
  /\ g.epilogue \notin UsedOf(h) \ {h.epilogue}
  /\ Kept(h, g, UsedOf(h) \ {h.epilogue})
  /\ Settles(h, g)
  /\ b # h.epilogue => g.brk = h.brk

(* mm_malloc uses a free block ...                                         *)
LEMMA ObtainPlace ==
  ASSUME NEW h, WellFormed(h), NEW b \in FreeOf(h), NEW s \in Int,
         s >= 32, s % 8 = 0, s <= block_size(h.mem, b)
  PROVE  Obtained(h, place(h, b, s), b, s)
<1> DEFINE g == place(h, b, s)
           E == h.epilogue
<1>1. /\ Leaves(h, g, UsedOf(h) \cup {b}, UsedOf(h))
      /\ block_size(g.mem, b) >= s
  BY Placing
<1>2. b \in Inner(h) /\ E \in UsedOf(h) /\ b \notin UsedOf(h)
  BY FreeInner DEF WellFormed, Off, Shaped, Layout, Tiled, TagsAgree,
                   UsedOf, FreeOf, FreeBlocks
<1> HIDE DEF g
<1>3. /\ WellFormed(g) /\ g.epilogue = E /\ UsedOf(g) = UsedOf(h) \cup {b}
      /\ Kept(h, g, UsedOf(h)) /\ Settles(h, g) /\ g.brk = h.brk
  BY <1>1 DEF Leaves
<1>4. Kept(h, g, UsedOf(h) \ {E})
  BY <1>3 DEF Kept
<1>5. b \in Inner(g)
  BY <1>2, <1>3 DEF Inner, UsedOf
<1>6. UsedOf(h) \cup {b} = (UsedOf(h) \ {E}) \cup {b, E}
  BY <1>2
<1> QED
  BY <1>1, <1>2, <1>3, <1>4, <1>5, <1>6 DEF Obtained, g

(* ... or the memory it has just got from mem_sbrk.                        *)
LEMMA ObtainExtend ==
  ASSUME NEW h, WellFormed(h), NEW s \in Int, s >= 32, s % 8 = 0,
         h.brk + s <= mem_max_addr, ToInt(s) = s
  PROVE  Obtained(h, extend(h, s), h.epilogue, s)
<1> DEFINE g == extend(h, s)
           E == h.epilogue
<1>1. Extended(h, g, s)
  BY Extending
<1>2. E \in UsedOf(h)
  BY DEF WellFormed, Off, Shaped, Layout, Tiled, TagsAgree,
         UsedOf, FreeOf, FreeBlocks
<1> HIDE DEF g
<1>3. UsedOf(h) \cup {E + s} = (UsedOf(h) \ {E}) \cup {E, E + s}
  BY <1>2
<1> QED
  BY <1>1, <1>3 DEF Obtained, Extended, g

(* What mm_realloc's last case leaves: the new block b instead of ob, with *)
(* the first bytes of ob in it.                                            *)
Carried(h, r, b, ob, s) ==
  /\ WellFormed(r)
  /\ b \in Inner(r) /\ block_size(r.mem, b) >= s
  /\ b \notin UsedOf(h) \ {h.epilogue, ob}
  /\ UsedOf(r) = (UsedOf(h) \ {h.epilogue, ob}) \cup {b, r.epilogue}
  /\ r.epilogue \notin UsedOf(h) \ {h.epilogue, ob}
  /\ Kept(h, r, UsedOf(h) \ {h.epilogue, ob})
  /\ \A a \in Addr : b + 8 <= a /\ a < b + block_size(h.mem, ob) - 8
                     => r.mem[a] = h.mem[ob + (a - b)]
  /\ Settles(h, r)
  /\ b # h.epilogue => r.brk = h.brk

(* memmove into the new block, then mm_free of the old one.                *)
LEMMA Carrying ==
  ASSUME NEW h, WellFormed(h), NEW g, NEW b, NEW s \in Int,
         Obtained(h, g, b, s), NEW ob \in Inner(h), ob \in UsedOf(h),
         block_size(h.mem, ob) + 16 <= s
  PROVE  Carried(h, mm_free(memmove(g, payload(b), payload(ob),
                                    block_size(h.mem, ob)), payload(ob)),
                 b, ob, s)
<1> DEFINE n == block_size(h.mem, ob)
           w == memmove(g, payload(b), payload(ob), n)
           r == mm_free(w, payload(ob))
           E == h.epilogue
           T == UsedOf(h) \ {E}
           S == UsedOf(h) \ {E, ob}
<1>1. /\ Layout(h.mem, h.blocks, E) /\ ob \in h.blocks
      /\ ob \notin {prologue, E} /\ ob \in T
  BY DEF WellFormed, Off, Shaped, Inner
<1>2. /\ n \in Int /\ n >= 32 /\ ob \in Int /\ ob \in Addr /\ ob + n <= E
      /\ E \in Int /\ ob + 8 \in Addr /\ E + 16 <= mem_max_addr
      /\ mem_max_addr \in Int
  BY <1>1, BlockFacts, AddrInt, MemoryAssumption
     DEF Layout, Tiled, mem_max_addr
<1> HIDE DEF n
<1>3. /\ WellFormed(g) /\ b \in Inner(g) /\ b \in UsedOf(g)
      /\ block_size(g.mem, b) >= s
      /\ UsedOf(g) = T \cup {b, g.epilogue} /\ b \notin T
      /\ g.epilogue \notin T /\ Kept(h, g, T) /\ Settles(h, g)
      /\ b # E => g.brk = h.brk
  BY DEF Obtained
<1>4. b \in Int /\ block_size(g.mem, b) \in Int
  BY <1>3, BlockFacts DEF WellFormed, Off, Shaped, Inner
<1>5. Copied(g, w, b, ob + 8, n)
  <2>1. n \in Nat /\ n + 16 <= block_size(g.mem, b)
        /\ (ob + 8) + n <= mem_max_addr
    BY <1>2, <1>3, <1>4 DEF n
  <2>2. Copies(g, b, ob + 8, n)
    BY <1>2, <1>3, <2>1 DEF Copies
  <2>3. payload(ob) = ob + 8
    BY DEF payload
  <2> QED
    BY <2>2, <2>3, Moving
<1> HIDE DEF w
<1>6. /\ WellFormed(w) /\ w.epilogue = g.epilogue /\ UsedOf(w) = UsedOf(g)
      /\ Kept(g, w, UsedOf(g) \ {b}) /\ w.blocks = g.blocks
      /\ block_size(w.mem, b) >= s /\ Settles(g, w) /\ w.brk = g.brk
  <2>1. /\ Leaves(g, w, UsedOf(g), UsedOf(g) \ {b})
        /\ w.blocks = g.blocks
        /\ \A c \in g.blocks : block_size(w.mem, c) = block_size(g.mem, c)
    BY <1>3, <1>5, Writing DEF Copied
  <2> QED
    BY <1>3, <2>1 DEF Leaves, Inner
<1>7. ob \in Inner(w) /\ ob \in UsedOf(w) /\ ob # b
  <2>1. ob \in UsedOf(g) /\ ob # b /\ ob # g.epilogue
    BY <1>1, <1>3
  <2> QED
    BY <1>1, <1>6, <2>1 DEF Inner, UsedOf
<1>8. Leaves(w, r, UsedOf(w) \ {ob}, UsedOf(w) \ {ob})
  BY <1>6, <1>7, Freeing
<1> HIDE DEF r
<1>9. /\ WellFormed(r) /\ r.epilogue = g.epilogue
      /\ UsedOf(r) = UsedOf(w) \ {ob} /\ Kept(w, r, UsedOf(w) \ {ob})
      /\ Settles(w, r) /\ r.brk = w.brk
  BY <1>6, <1>8 DEF Leaves
<1>10. UsedOf(r) = S \cup {b, r.epilogue}
  <2>1. ob # g.epilogue
    BY <1>1, <1>3
  <2> QED
    BY <1>1, <1>3, <1>6, <1>7, <1>9, <2>1
<1>11. Kept(h, r, S)
  <2>1. Kept(h, g, S)
    BY <1>3 DEF Kept
  <2>2. S \subseteq UsedOf(g) \ {b} /\ S \subseteq UsedOf(w) \ {ob}
    BY <1>3, <1>6
  <2>3. Kept(h, w, S)
    BY <1>6, <2>1, <2>2, KeptTrans
  <2> QED
    BY <1>9, <2>2, <2>3, KeptTrans
<1>12. b \in Inner(r) /\ block_size(r.mem, b) >= s
       /\ \A a \in Addr : b <= a /\ a < b + s => r.mem[a] = w.mem[a]
  <2>1. b \in UsedOf(w) \ {ob}
    BY <1>3, <1>6, <1>7
  <2>2. /\ b \in UsedOf(r) /\ block_size(r.mem, b) = block_size(w.mem, b)
        /\ \A a \in Addr : b <= a /\ a < b + block_size(w.mem, b)
                           => r.mem[a] = w.mem[a]
    BY <1>9, <2>1 DEF Kept
  <2>3. b \notin {prologue, r.epilogue}
    BY <1>3, <1>9 DEF Inner
  <2>4. block_size(w.mem, b) \in Int
    BY <1>3, <1>6, BlockFacts DEF WellFormed, Off, Shaped, Inner
  <2>5. \A a \in Addr : b <= a /\ a < b + s => a < b + block_size(w.mem, b)
    BY <1>4, <1>6, <2>4, AddrInt
  <2> QED
    BY <1>6, <2>2, <2>3, <2>5 DEF Inner, UsedOf
<1>13. \A a \in Addr : b + 8 <= a /\ a < b + n - 8
                       => r.mem[a] = h.mem[ob + (a - b)]
  <2> TAKE a \in Addr
  <2> HAVE b + 8 <= a /\ a < b + n - 8
  <2>1. /\ a \in Int /\ b <= a /\ a < b + s /\ a < b + 8 + n
        /\ (ob + 8) + (a - (b + 8)) = ob + (a - b)
        /\ ob <= ob + (a - b) /\ ob + (a - b) < ob + n
    BY <1>2, <1>4, AddrInt DEF n
  <2>2. r.mem[a] = w.mem[a]
    BY <1>12, <2>1
  <2>3. w.mem[a] = g.mem[ob + (a - b)]
    BY <1>5, <2>1 DEF Copied
  <2>4. ob + (a - b) \in Addr
    <3>1. a % 8 = 0 /\ b % 8 = 0
      BY <1>3 DEF WellFormed, Off, Shaped, Layout, Inner, Addr
    <3>2. (a - b) % 8 = 0 /\ a - b \in Int
      BY <1>4, <2>1, <3>1
    <3>3. mem_start_brk <= ob /\ mem_start_brk \in Int
      BY <1>2, MemoryAssumption DEF Addr
    <3>4. mem_start_brk <= ob + (a - b) /\ ob + (a - b) < mem_max_addr
      BY <1>2, <1>4, <2>1, <3>3
    <3> QED
      BY <1>2, <3>2, <3>4, AddrShift
  <2>5. g.mem[ob + (a - b)] = h.mem[ob + (a - b)]
    BY <1>1, <1>3, <2>1, <2>4 DEF Kept, n
  <2> QED
    BY <2>2, <2>3, <2>5
<1>14. Settles(h, r) /\ (b # E => r.brk = h.brk)
  BY <1>3, <1>6, <1>9 DEF Settles
<1> QED
  BY <1>3, <1>9, <1>10, <1>11, <1>12, <1>13, <1>14 DEF Carried, r, w, n

(* A block that has grown downwards over its neighbour gets its payload    *)
(* moved to its new beginning, possibly over part of the old payload.      *)
LEMMA Shifting ==
  ASSUME NEW h, WellFormed(h), NEW ob \in Inner(h), ob \in UsedOf(h),
         NEW g, NEW q, NEW s \in Int, Joined(h, g, ob, q, s),
         block_size(h.mem, ob) + 16 <= s
  PROVE  Carried(h, memmove(g, payload(q), payload(ob), block_size(h.mem, ob)),
                 q, ob, s)
<1> DEFINE n == block_size(h.mem, ob)
           r == memmove(g, payload(q), payload(ob), n)
           E == h.epilogue
           S == UsedOf(h) \ {E, ob}
<1>1. /\ Layout(h.mem, h.blocks, E) /\ ob \in h.blocks
      /\ ob \notin {prologue, E} /\ E \in UsedOf(h)
  BY DEF WellFormed, Off, Shaped, Inner, Layout, Tiled, TagsAgree, UsedOf,
         FreeOf, FreeBlocks
<1>2. /\ n \in Int /\ n >= 32 /\ ob \in Int /\ ob \in Addr /\ ob + n <= E
      /\ E \in Int /\ ob + 8 \in Addr /\ E + 16 <= mem_max_addr
      /\ mem_max_addr \in Int
  BY <1>1, BlockFacts, AddrInt, MemoryAssumption
     DEF Layout, Tiled, mem_max_addr
<1> HIDE DEF n
<1>3. /\ WellFormed(g) /\ q \in Inner(g) /\ q \in UsedOf(g)
      /\ block_size(g.mem, q) = s /\ g.epilogue = E
      /\ UsedOf(g) = (UsedOf(h) \ {ob}) \cup {q} /\ q \notin UsedOf(h) \ {ob}
      /\ Kept(h, g, UsedOf(h) \ {ob})
      /\ \A a \in Addr : ob + 8 <= a /\ a < ob + n - 8 => g.mem[a] = h.mem[a]
      /\ Settles(h, g) /\ g.brk = h.brk
  BY DEF Joined, n
<1>4. q \in Int
  BY <1>3, BlockFacts DEF WellFormed, Off, Shaped, Inner
<1>5. Copied(g, r, q, ob + 8, n)
  <2>1. n \in Nat /\ n + 16 <= block_size(g.mem, q)
        /\ (ob + 8) + n <= mem_max_addr
    BY <1>2, <1>3 DEF n
  <2>2. Copies(g, q, ob + 8, n)
    BY <1>2, <1>3, <2>1 DEF Copies
  <2>3. payload(ob) = ob + 8
    BY DEF payload
  <2> QED
    BY <2>2, <2>3, Moving
<1> HIDE DEF r
<1>6. /\ WellFormed(r) /\ r.epilogue = E /\ UsedOf(r) = UsedOf(g)
      /\ Kept(g, r, UsedOf(g) \ {q}) /\ r.blocks = g.blocks
      /\ block_size(r.mem, q) = s /\ Settles(g, r) /\ r.brk = g.brk
  <2>1. /\ Leaves(g, r, UsedOf(g), UsedOf(g) \ {q})
        /\ r.blocks = g.blocks
        /\ \A c \in g.blocks : block_size(r.mem, c) = block_size(g.mem, c)
    BY <1>3, <1>5, Writing DEF Copied
  <2> QED
    BY <1>3, <2>1 DEF Leaves, Inner
<1>7. UsedOf(r) = S \cup {q, r.epilogue} /\ q \in Inner(r)
  BY <1>1, <1>3, <1>6 DEF Inner
<1>8. Kept(h, r, S)
  <2>1. Kept(h, g, S)
    BY <1>3 DEF Kept
  <2>2. S \subseteq UsedOf(g) \ {q}
    BY <1>3
  <2> QED
    BY <1>6, <2>1, <2>2, KeptTrans
<1>9. \A a \in Addr : q + 8 <= a /\ a < q + n - 8
                      => r.mem[a] = h.mem[ob + (a - q)]
  <2> TAKE a \in Addr
  <2> HAVE q + 8 <= a /\ a < q + n - 8
  <2>1. /\ a \in Int /\ a < q + 8 + n
        /\ (ob + 8) + (a - (q + 8)) = ob + (a - q)
        /\ ob + 8 <= ob + (a - q) /\ ob + (a - q) < ob + n - 8
    BY <1>2, <1>4, AddrInt
  <2>2. r.mem[a] = g.mem[ob + (a - q)]
    BY <1>5, <2>1 DEF Copied
  <2>3. ob + (a - q) \in Addr
    <3>1. a % 8 = 0 /\ q % 8 = 0
      BY <1>3 DEF WellFormed, Off, Shaped, Layout, Inner, Addr
    <3>2. (a - q) % 8 = 0 /\ a - q \in Int
      BY <1>4, <2>1, <3>1
    <3>3. mem_start_brk <= ob /\ mem_start_brk \in Int
      BY <1>2, MemoryAssumption DEF Addr
    <3>4. mem_start_brk <= ob + (a - q) /\ ob + (a - q) < mem_max_addr
      BY <1>2, <1>4, <2>1, <3>3
    <3> QED
      BY <1>2, <3>2, <3>4, AddrShift
  <2> QED
    BY <1>3, <2>1, <2>2, <2>3
<1>10. Settles(h, r) /\ r.brk = h.brk
  BY <1>3, <1>6 DEF Settles
<1> QED
  BY <1>3, <1>6, <1>7, <1>8, <1>9, <1>10 DEF Carried, r, n

(* A block that has only grown upwards keeps its payload where it is.      *)
LEMMA Staying ==
  ASSUME NEW h, WellFormed(h), NEW ob \in Inner(h), ob \in UsedOf(h),
         NEW r, NEW s \in Int, Joined(h, r, ob, ob, s)
  PROVE  Carried(h, r, ob, ob, s)
<1>1. /\ h.epilogue \in UsedOf(h) /\ ob # h.epilogue /\ ob \in Int
  BY BlockFacts
     DEF WellFormed, Off, Shaped, Inner, Layout, Tiled, TagsAgree, UsedOf,
         FreeOf, FreeBlocks
<1>2. \A a \in Addr : ob + (a - ob) = a
  BY <1>1, AddrInt
<1>3. /\ Kept(h, r, UsedOf(h) \ {h.epilogue, ob})
      /\ UsedOf(r) = (UsedOf(h) \ {h.epilogue, ob}) \cup {ob, r.epilogue}
      /\ r.epilogue = h.epilogue
  BY <1>1 DEF Joined, Kept
<1>4. /\ WellFormed(r) /\ ob \in Inner(r) /\ block_size(r.mem, ob) >= s
      /\ Settles(h, r) /\ r.brk = h.brk
  BY DEF Joined
<1>5. \A a \in Addr : ob + 8 <= a /\ a < ob + block_size(h.mem, ob) - 8
                      => r.mem[a] = h.mem[ob + (a - ob)]
  BY <1>2 DEF Joined
<1> QED
  BY <1>3, <1>4, <1>5 DEF Carried
=============================================================================

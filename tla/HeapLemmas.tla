----------------------------- MODULE HeapLemmas -----------------------------
(***************************************************************************)
(* Lemmas about the operators of MMInline on a well-formed heap.           *)
(***************************************************************************)
EXTENDS HeapShape, WellFoundedInduction, TLAPS

(* Memory m is laid out as blocks B up to the epilogue E. *)
Layout(m, B, E) ==
  /\ m \in [Addr -> Int]
  /\ B \subseteq Addr
  /\ E + TAGS_SIZE <= mem_max_addr
  /\ Tiled(m, B, E)
  /\ TagsAgree(m, B, E)

USE DEF WORD_SIZE, ALIGNMENT, TAGS_SIZE, MINBLOCKSIZE, prologue

Less == {p \in Nat \X Nat : p[1] < p[2]}

(* Numbers do not descend for ever.                                        *)
LEMMA LessWellFounded == IsWellFoundedOn(Less, Nat)
BY NatLessThanWellFounded, Zenon DEF OpToRel, Less

(* The least counterexample, which stands for induction below: there is a  *)
(* first address of a set, and a first block of a walk along the free list.*)
LEMMA LeastNat ==
  ASSUME NEW T, T \subseteq Nat, T # {}
  PROVE  \E n \in T : \A k \in T : n <= k
<1>1. \E x \in T : \A y \in T : ~ (<<y, x>> \in Less)
  BY LessWellFounded, WFMin
<1>2. PICK x \in T : \A y \in T : ~ (<<y, x>> \in Less)
  BY <1>1
<1>3. \A y \in T : x <= y
  <2> TAKE y \in T
  <2>1. x \in Nat /\ y \in Nat
    OBVIOUS
  <2>2. ~ (y < x)
    BY <1>2, <2>1 DEF Less
  <2> QED
    BY <2>1, <2>2
<1> QED
  BY <1>3

(* Addresses of the simulated memory (memlib.c) can be calculated with.    *)
LEMMA AddrInt == Addr \subseteq Int
BY DEF Addr

(* Word addresses are the multiples of 8 within the simulated memory.      *)
LEMMA AddrShift ==
  ASSUME NEW a \in Addr, NEW k \in Int, k % 8 = 0,
         mem_start_brk <= a + k, a + k < mem_max_addr
  PROVE  a + k \in Addr
BY MemoryAssumption DEF Addr, mem_max_addr

(* A tag made of a size and a bit gives both back (block_size masks the    *)
(* lowest bit, block_allocated reads it).                                  *)
LEMMA TagParts ==
  ASSUME NEW s \in Int, s % 8 = 0, NEW a \in {0, 1}
  PROVE  tag_size(s + a) = s /\ tag_allocated(s + a) = a
BY DEF tag_size, tag_allocated

(* Reading a tag (block_size, block_allocated) gives a size and a bit.     *)
LEMMA TagTypes ==
  ASSUME NEW t \in Int
  PROVE  /\ tag_size(t) \in Int /\ tag_allocated(t) \in {0, 1}
         /\ tag_size(t) + tag_allocated(t) = t
         /\ tag_size(t) % 2 = 0
BY DEF tag_size, tag_allocated

(* What every block of a well-formed heap is like.                         *)
LEMMA BlockFacts ==
  ASSUME NEW m, NEW B, NEW E, Layout(m, B, E), NEW b \in B
  PROVE  /\ b \in Addr /\ b \in Int /\ m[b] \in Int
         /\ block_size(m, b) \in Int /\ block_size(m, b) >= 16
         /\ block_size(m, b) % 8 = 0
         /\ b >= prologue /\ b <= E
         /\ b + block_size(m, b) <= E + 16
         /\ b + block_size(m, b) - 8 \in Addr
         /\ m[b + block_size(m, b) - 8] = m[b]
         /\ b # E => b + block_size(m, b) \in B /\ b + block_size(m, b) <= E
         /\ b \notin {prologue, E} =>
              /\ block_size(m, b) >= 32
              /\ b + 8 \in Addr /\ b + 16 \in Addr
<1>1. b \in Addr /\ m[b] \in Int /\ b \in Int /\ b >= prologue /\ b <= E
      /\ E \in Int /\ b % 8 = 0 /\ mem_max_addr \in Int
  BY MemoryAssumption DEF Layout, Tiled, Addr, mem_max_addr
<1>2. block_size(m, b) \in Int /\ block_size(m, b) % 8 = 0
  BY <1>1, TagTypes DEF block_size, Layout, Tiled
<1>3. block_size(m, b) >= 16
  BY <1>2 DEF Layout, Tiled
<1>4. b # E => b + block_size(m, b) \in B /\ b + block_size(m, b) <= E
  BY <1>1, <1>2 DEF Layout, Tiled, block_next
<1>5. b + block_size(m, b) <= E + 16
  BY <1>1, <1>2, <1>4 DEF Layout, Tiled
<1>6. b + block_size(m, b) - 8 \in Addr
  <2>1. b + (block_size(m, b) - 8) \in Addr
    BY <1>1, <1>2, <1>3, <1>5, MemoryAssumption, AddrShift DEF Layout
  <2> QED
    BY <2>1, <1>1, <1>2
<1>7. m[b + block_size(m, b) - 8] = m[b]
  BY DEF Layout, TagsAgree, block_end_tag
<1>8. b \notin {prologue, E} =>
        block_size(m, b) >= 32 /\ b + 8 \in Addr /\ b + 16 \in Addr
  <2>1. b \notin {prologue, E} => block_size(m, b) >= 32
    BY DEF Layout, Tiled
  <2>2. SUFFICES ASSUME b \notin {prologue, E}
                 PROVE  b + 8 \in Addr /\ b + 16 \in Addr
    BY <2>1
  <2>3. b + 16 < mem_max_addr
    BY <1>1, <1>2, <1>5, <2>1, <2>2 DEF Layout
  <2>4. b + 8 \in Addr
    BY <1>1, <2>3, MemoryAssumption, AddrShift
  <2>5. b + 16 \in Addr
    BY <1>1, <2>3, MemoryAssumption, AddrShift
  <2> QED
    BY <2>4, <2>5
<1> QED
  BY <1>1, <1>2, <1>3, <1>4, <1>5, <1>6, <1>7, <1>8

(* Reading the end tag of the block before it, block_prev finds it.        *)
LEMMA PrevFacts ==
  ASSUME NEW m, NEW B, NEW E, Layout(m, B, E), NEW c \in B, c # prologue
  PROVE  /\ block_prev(m, c) \in B
         /\ block_prev(m, c) + block_size(m, block_prev(m, c)) = c
<1>1. PICK b \in B : block_next(m, b) = c
  BY DEF Layout, Tiled
<1>2. b + block_size(m, b) = c
  BY <1>1 DEF block_next
<1>3. m[c - 8] = m[b]
  <2>1. c - 8 = b + block_size(m, b) - 8
    BY <1>2, BlockFacts
  <2> QED
    BY <2>1, BlockFacts
<1>4. block_prev(m, c) = b
  <2>1. block_prev_size(m, c) = block_size(m, b)
    BY <1>3 DEF block_prev_size, block_size
  <2> QED
    BY <2>1, <1>2, BlockFacts DEF block_prev
<1> QED
  BY <1>2, <1>4

-----------------------------------------------------------------------------

(* The link words of the blocks in F are words of memory, all different    *)
(* and none of them the header of a block in F.                            *)
Linkable(F) ==
  /\ F \subseteq Addr
  /\ \A x \in F : x + WORD_SIZE \in Addr /\ x + 2 * WORD_SIZE \in Addr
  /\ \A x, y \in F : /\ x + WORD_SIZE # y + 2 * WORD_SIZE
                      /\ x # y + WORD_SIZE
                      /\ x # y + 2 * WORD_SIZE

LinkWords(F) == {x + WORD_SIZE : x \in F} \cup {x + 2 * WORD_SIZE : x \in F}

(* Memory as pull_free_block leaves it when fb is not alone in the list.   *)
Unlinked(m, fb) ==
  [m EXCEPT ![block_blink(m, fb) + WORD_SIZE] = block_flink(m, fb),
            ![block_flink(m, fb) + 2 * WORD_SIZE] = block_blink(m, fb)]

(* Taking b out of a ring of several blocks leaves a ring of the others:   *)
(* pull_free_block's two writes.  A closed part of the shorter ring, with  *)
(* b put back where it was, is a closed part of the longer one.            *)
LEMMA RingPull ==
  ASSUME NEW m \in [Addr -> Int], NEW first, NEW F, Linkable(F),
         Ring(m, first, F), NEW b \in F, F # {b}
  PROVE  /\ Ring(Unlinked(m, b),
                 IF first = b THEN block_flink(m, b) ELSE first, F \ {b})
         /\ block_flink(m, b) # b
<1> DEFINE f(x) == block_flink(m, x)
           g(x) == block_blink(m, x)
           n == Unlinked(m, b)
           f1(x) == block_flink(n, x)
           g1(x) == block_blink(n, x)
<1>0. \A x \in F : x \in Int
  BY DEF Linkable, Addr
<1>1. \A x \in F : f(x) \in F /\ g(x) \in F /\ g(f(x)) = x /\ f(g(x)) = x
  BY DEF Ring
<1>2. \A S \in SUBSET F : S # {} /\ (\A x \in S : f(x) \in S) => S = F
  BY DEF Ring
<1>3. f(b) # b /\ g(b) # b
  <2>1. f(b) # b
    BY <1>2, {b} \in SUBSET F
  <2> QED
    BY <2>1, <1>1
<1>4. \A x \in F : f1(x) = IF x = g(b) THEN f(b) ELSE f(x)
  BY <1>0, <1>1 DEF Unlinked, Linkable, block_flink
<1>5. \A x \in F : g1(x) = IF x = f(b) THEN g(b) ELSE g(x)
  BY <1>0, <1>1 DEF Unlinked, Linkable, block_blink
<1> HIDE DEF f, g, f1, g1, n
<1>6. \A x \in F \ {b} : /\ f1(x) \in F \ {b} /\ g1(x) \in F \ {b}
                         /\ g1(f1(x)) = x /\ f1(g1(x)) = x
  BY <1>1, <1>3, <1>4, <1>5
<1>7. ASSUME NEW S \in SUBSET (F \ {b}), S # {}, \A x \in S : f1(x) \in S
      PROVE  S = F \ {b}
  <2>1. CASE g(b) \in S
    <3>1. f(b) \in S
      BY <1>4, <1>7, <2>1
    <3>2. \A x \in S \cup {b} : f(x) \in S \cup {b}
      BY <1>1, <1>4, <1>7, <3>1
    <3>3. S \cup {b} = F
      BY <1>2, <3>2, S \cup {b} \in SUBSET F
    <3> QED
      BY <3>3
  <2>2. CASE g(b) \notin S
    <3>1. \A x \in S : f(x) \in S
      BY <1>4, <1>7, <2>2
    <3>2. S = F
      BY <1>2, <1>7, <3>1
    <3> QED
      BY <3>2
  <2> QED
    BY <2>1, <2>2
<1>8. LET head == IF first = b THEN f(b) ELSE first
      IN  IF F \ {b} = {} THEN head = NULL ELSE head \in F \ {b}
  <2>1. first \in F
    BY DEF Ring
  <2> QED
    BY <1>1, <1>3, <2>1
<1> QED
  BY <1>3, <1>6, <1>7, <1>8 DEF Ring, f, g, f1, g1, n

(* Memory as insert_free_block leaves it.                                  *)
Linked(m, first, fb) ==
  [m EXCEPT ![fb + WORD_SIZE] = first,
            ![fb + 2 * WORD_SIZE] = block_blink(m, first),
            ![block_blink(m, first) + WORD_SIZE] = fb,
            ![first + 2 * WORD_SIZE] = fb]

(* Inserting a block between the last block and the head leaves a ring: a  *)
(* closed part of the longer one, without the new block, is closed in the  *)
(* shorter one.                                                            *)
LEMMA RingInsert ==
  ASSUME NEW m \in [Addr -> Int], NEW first, NEW F, NEW b, b \notin F,
         F # {}, Linkable(F \cup {b}), Ring(m, first, F)
  PROVE  Ring(Linked(m, first, b), b, F \cup {b})
<1> DEFINE f(x) == block_flink(m, x)
           g(x) == block_blink(m, x)
           last == g(first)
           n == Linked(m, first, b)
           f1(x) == block_flink(n, x)
           g1(x) == block_blink(n, x)
<1>0. \A x \in F \cup {b} : x \in Int
  BY DEF Linkable, Addr
<1>1. \A x \in F : f(x) \in F /\ g(x) \in F /\ g(f(x)) = x /\ f(g(x)) = x
  BY DEF Ring
<1>2. \A S \in SUBSET F : S # {} /\ (\A x \in S : f(x) \in S) => S = F
  BY DEF Ring
<1>3. first \in F /\ last \in F
  BY <1>1 DEF Ring
<1>4. \A x \in F \cup {b} :
        f1(x) = IF x = b THEN first ELSE IF x = last THEN b ELSE f(x)
  BY <1>0, <1>3 DEF Linked, Linkable, block_flink
<1>5. \A x \in F \cup {b} :
        g1(x) = IF x = b THEN last ELSE IF x = first THEN b ELSE g(x)
  BY <1>0, <1>3 DEF Linked, Linkable, block_blink
<1>6. f(last) = first /\ g(first) = last
  BY <1>1, <1>3
<1> HIDE DEF f, g, f1, g1, n, last
<1>7. \A x \in F \cup {b} : /\ f1(x) \in F \cup {b} /\ g1(x) \in F \cup {b}
                            /\ g1(f1(x)) = x /\ f1(g1(x)) = x
  BY <1>1, <1>3, <1>4, <1>5, <1>6
<1>8. ASSUME NEW S \in SUBSET (F \cup {b}), S # {}, \A x \in S : f1(x) \in S
      PROVE  S = F \cup {b}
  <2>1. S \ {b} # {}
    BY <1>3, <1>4, <1>8
  <2>2. \A x \in S \ {b} : f(x) \in S \ {b}
    BY <1>1, <1>3, <1>4, <1>6, <1>8
  <2>3. S \ {b} = F
    BY <1>2, <2>1, <2>2, S \ {b} \in SUBSET F
  <2>4. b \in S
    BY <1>3, <1>4, <1>8, <2>3
  <2> QED
    BY <2>3, <2>4
<1> QED
  BY <1>7, <1>8 DEF Ring, f, g, f1, g1, n, last

(* The allocated bits of all blocks of F are clear. *)
AllFree(m, F) == \A x \in F : ~ block_allocated(m, x)

(* n is m but for link words of F. *)
OnlyLinks(m, n, F) ==
  /\ n \in [Addr -> Int]
  /\ \A a \in Addr \ LinkWords(F) : n[a] = m[a]

(* pull_free_block, called for a block of the list: no assertion fails,    *)
(* the list is a ring of the others, and only link words change.           *)
LEMMA PullFree ==
  ASSUME NEW h \in HeapType, NEW F, Linkable(F), AllFree(h.mem, F),
         Ring(h.mem, h.flist_first, F), NEW b \in F
  PROVE  LET r == pull_free_block(h, b)
         IN  /\ r = [h EXCEPT !.mem = r.mem, !.flist_first = r.flist_first]
             /\ r.flist_first \in Addr \cup {NULL}
             /\ Ring(r.mem, r.flist_first, F \ {b})
             /\ OnlyLinks(h.mem, r.mem, F)
<1> DEFINE m == h.mem
           first == h.flist_first
           fl == block_flink(m, b)
           bl == block_blink(m, b)
           r == pull_free_block(h, b)
<1>1. m \in [Addr -> Int] /\ first \in F /\ F \subseteq Addr
  BY DEF HeapType, Ring, Linkable
<1>2. fl \in F /\ bl \in F
  BY DEF Ring
<1>3. ~ block_allocated(m, b)
  BY DEF AllFree
<1>4. CASE F = {b}
  <2>1. first = b /\ fl = b
    BY <1>1, <1>2, <1>4
  <2>2. r = [h EXCEPT !.flist_first = NULL]
    BY <1>3, <2>1 DEF pull_free_block, check, HeapType
  <2>3. r.mem = m /\ r.flist_first = NULL
    BY <2>2 DEF HeapType
  <2>4. Ring(m, NULL, {})
    BY DEF Ring
  <2> QED
    BY <1>1, <1>4, <2>2, <2>3, <2>4 DEF HeapType, OnlyLinks
<1>5. CASE F # {b}
  <2> DEFINE head == IF first = b THEN fl ELSE first
             m1 == [m EXCEPT ![bl + WORD_SIZE] = fl]
             h1 == [h EXCEPT !.flist_first = head]
             h2 == [h1 EXCEPT !.mem = m1]
             h3 == [h1 EXCEPT !.mem = Unlinked(m, b)]
  <2>1. Ring(Unlinked(m, b), head, F \ {b}) /\ fl # b
    BY <1>1, <1>5, RingPull
  <2>2. \A x \in F : m1[x] = m[x]
    BY <1>1, <1>2 DEF Linkable, Addr
  <2>3. block_flink(m1, b) = fl /\ block_blink(m1, b) = bl
    BY <1>1, <1>2 DEF Linkable, Addr, block_flink, block_blink
  <2>4. block_set_flink(h1, bl, fl) = h2
    <3>1. BothFree(h1, bl, fl)
      BY <1>2 DEF BothFree, AllFree, HeapType
    <3> QED
      BY <3>1 DEF block_set_flink, check, HeapType
  <2>5. block_set_blink(h2, fl, bl) = h3
    <3>1. BothFree(h2, fl, bl)
      BY <1>2, <2>2 DEF BothFree, AllFree, HeapType, block_allocated
    <3>2. [m1 EXCEPT ![fl + 2 * WORD_SIZE] = bl] = Unlinked(m, b)
      BY <1>1 DEF Unlinked
    <3> QED
      BY <3>1, <3>2 DEF block_set_blink, check, HeapType
  <2>6. r = h3
    <3> HIDE DEF h1, h2, h3, m1, head
    <3>1. check([h EXCEPT !.flist_first = IF @ = b THEN fl ELSE @],
                ~ block_allocated(m, b)) = h1
      BY <1>3 DEF check, h1, head, HeapType
    <3>2. h1.mem = m /\ h2.mem = m1
      BY DEF h1, h2, HeapType
    <3> QED
      BY <2>1, <2>3, <2>4, <2>5, <3>1, <3>2 DEF pull_free_block
  <2>7. r.mem = Unlinked(m, b) /\ r.flist_first = head
    BY <2>6 DEF HeapType
  <2>8. head \in Addr
    BY <1>1, <1>2
  <2>9. OnlyLinks(m, Unlinked(m, b), F)
    <3>1. fl \in Int /\ bl \in Int
      BY <1>1, <1>2 DEF Addr
    <3> QED
      BY <1>1, <1>2, <3>1 DEF OnlyLinks, LinkWords, Unlinked
  <2> QED
    BY <2>1, <2>6, <2>7, <2>8, <2>9 DEF HeapType
<1> QED
  BY <1>4, <1>5

(* insert_free_block, called for a block that is not in the list.          *)
LEMMA InsertFree ==
  ASSUME NEW h \in HeapType, NEW F, NEW b, b \notin F, Linkable(F \cup {b}),
         AllFree(h.mem, F \cup {b}), Ring(h.mem, h.flist_first, F)
  PROVE  LET r == insert_free_block(h, b)
         IN  /\ r = [h EXCEPT !.mem = r.mem, !.flist_first = b]
             /\ r.flist_first = b
             /\ Ring(r.mem, b, F \cup {b})
             /\ OnlyLinks(h.mem, r.mem, F \cup {b})
<1> DEFINE m == h.mem
           first == h.flist_first
           last == block_blink(m, first)
           r == insert_free_block(h, b)
<1>1. m \in [Addr -> Int] /\ F \subseteq Addr /\ b \in Addr
  BY DEF HeapType, Linkable
<1>2. NULL \notin F
  BY <1>1, MemoryAssumption DEF Addr, NULL
<1>3. CASE F = {}
  <2> DEFINE n == [m EXCEPT ![b + WORD_SIZE] = b, ![b + 2 * WORD_SIZE] = b]
             m1 == [m EXCEPT ![b + WORD_SIZE] = b]
             h1 == [h EXCEPT !.mem = m1]
  <2>1. first = NULL
    BY <1>3 DEF Ring
  <2>2. block_set_flink(h, b, b) = h1
    BY DEF block_set_flink, check, BothFree, AllFree, HeapType
  <2>3. block_set_blink(h1, b, b) = [h EXCEPT !.mem = n]
    <3>1. m1[b] = m[b]
      BY <1>1 DEF Linkable, Addr
    <3>2. BothFree(h1, b, b)
      BY <3>1 DEF BothFree, AllFree, HeapType, block_allocated
    <3> QED
      BY <3>2 DEF block_set_blink, check, HeapType
  <2>4. r = [h EXCEPT !.mem = n, !.flist_first = b]
    BY <2>1, <2>2, <2>3 DEF insert_free_block, HeapType
  <2>5. r.mem = n /\ r.flist_first = b
    BY <2>4 DEF HeapType
  <2>6. block_flink(n, b) = b /\ block_blink(n, b) = b
    BY <1>1 DEF Linkable, Addr, block_flink, block_blink
  <2>7. Ring(n, b, F \cup {b})
    BY <1>3, <2>6 DEF Ring
  <2>8. OnlyLinks(m, n, F \cup {b})
    <3> HIDE DEF m
    <3>1. b \in Int
      BY <1>1, AddrInt
    <3> QED
      BY <1>1, <3>1 DEF OnlyLinks, LinkWords
  <2> QED
    BY <2>4, <2>5, <2>7, <2>8 DEF HeapType
<1>4. CASE F # {}
  <2> DEFINE n == Linked(m, first, b)
             m1 == [m EXCEPT ![b + WORD_SIZE] = first]
             m2 == [m1 EXCEPT ![b + 2 * WORD_SIZE] = last]
             m3 == [m2 EXCEPT ![last + WORD_SIZE] = b]
             h1 == [h EXCEPT !.mem = m1]
             h2 == [h EXCEPT !.mem = m2]
             h3 == [h EXCEPT !.mem = m3]
             h4 == [h EXCEPT !.mem = n]
  <2>1. first \in F /\ last \in F /\ first # NULL
    BY <1>2, <1>4 DEF Ring
  <2>2. \A x \in F \cup {b} : m1[x] = m[x] /\ m2[x] = m[x] /\ m3[x] = m[x]
    BY <1>1, <2>1 DEF Linkable, Addr
  <2>3. block_set_flink(h, b, first) = h1
    BY <2>1 DEF block_set_flink, check, BothFree, AllFree, HeapType
  <2>4. block_set_blink(h1, b, last) = h2
    <3>1. BothFree(h1, b, last)
      BY <2>1, <2>2 DEF BothFree, AllFree, HeapType, block_allocated
    <3> QED
      BY <3>1 DEF block_set_blink, check, HeapType
  <2>5. block_set_flink(h2, last, b) = h3
    <3>1. BothFree(h2, last, b)
      BY <2>1, <2>2 DEF BothFree, AllFree, HeapType, block_allocated
    <3> QED
      BY <3>1 DEF block_set_flink, check, HeapType
  <2>6. block_set_blink(h3, first, b) = h4
    <3>1. BothFree(h3, first, b)
      BY <2>1, <2>2 DEF BothFree, AllFree, HeapType, block_allocated
    <3>2. [m3 EXCEPT ![first + 2 * WORD_SIZE] = b] = n
      BY <1>1 DEF Linked
    <3> QED
      BY <3>1, <3>2 DEF block_set_blink, check, HeapType
  <2>7. r = [h4 EXCEPT !.flist_first = b]
    <3> HIDE DEF h1, h2, h3, h4, last
    <3> QED
      BY <2>1, <2>3, <2>4, <2>5, <2>6 DEF insert_free_block, last
  <2>8. r = [h EXCEPT !.mem = n, !.flist_first = b]
    BY <2>7 DEF HeapType
  <2>9. r.mem = n /\ r.flist_first = b
    BY <2>8 DEF HeapType
  <2>10. Ring(n, b, F \cup {b})
    BY <1>1, <1>4, RingInsert
  <2>11. OnlyLinks(m, n, F \cup {b})
    <3> HIDE DEF last, first, m
    <3>1. first \in Int /\ last \in Int /\ b \in Int
      BY <1>1, <2>1, AddrInt
    <3> QED
      BY <1>1, <2>1, <3>1 DEF OnlyLinks, LinkWords, Linked, last
  <2> QED
    BY <2>8, <2>9, <2>10, <2>11 DEF HeapType
<1> QED
  BY <1>3, <1>4

-----------------------------------------------------------------------------

(* Different blocks share no byte.                                         *)
LEMMA Apart ==
  ASSUME NEW m, NEW B, NEW E, Layout(m, B, E), NEW x \in B, NEW y \in B, x # y
  PROVE  x + block_size(m, x) <= y \/ y + block_size(m, y) <= x
<1>1. x \in Int /\ y \in Int
  BY AddrInt DEF Layout
<1>2. x < y \/ y < x
  BY <1>1
<1> QED
  BY <1>2 DEF Layout, Tiled, block_next

(* Free blocks have room for their links.                                  *)
LEMMA FreeLinkable ==
  ASSUME NEW m, NEW B, NEW E, Layout(m, B, E), NEW F \in SUBSET FreeBlocks(m, B)
  PROVE  Linkable(F) /\ AllFree(m, F) /\ F \subseteq B \ {prologue, E}
<1>1. F \subseteq B \ {prologue, E}
  BY DEF Layout, TagsAgree, FreeBlocks
<1>2. AllFree(m, F)
  BY DEF AllFree, FreeBlocks
<1>3. \A x \in F : /\ x \in Int /\ x + 8 \in Addr /\ x + 16 \in Addr /\ x \in Addr
                   /\ block_size(m, x) >= 32 /\ block_size(m, x) \in Int
  BY <1>1, BlockFacts
<1>4. \A x, y \in F : x # y + 8 /\ x # y + 16 /\ x + 8 # y + 16
  <2> TAKE x, y \in F
  <2>1. CASE x = y
    BY <1>3, <2>1
  <2>2. CASE x # y
    BY <1>1, <1>3, <2>2, Apart
  <2> QED
    BY <2>1, <2>2
<1> QED
  BY <1>1, <1>2, <1>3, <1>4 DEF Linkable

(* A memory with the same tags has the same blocks.                        *)
LEMMA SameTags ==
  ASSUME NEW m, NEW B, NEW E, Layout(m, B, E), NEW n \in [Addr -> Int],
         \A b \in B : /\ n[b] = m[b]
                      /\ n[b + block_size(m, b) - WORD_SIZE]
                           = m[b + block_size(m, b) - WORD_SIZE]
  PROVE  /\ Layout(n, B, E)
         /\ \A b \in B : /\ block_size(n, b) = block_size(m, b)
                         /\ block_allocated(n, b) = block_allocated(m, b)
         /\ FreeBlocks(n, B) = FreeBlocks(m, B)
<1>1. \A b \in B : /\ block_size(n, b) = block_size(m, b)
                   /\ block_allocated(n, b) = block_allocated(m, b)
                   /\ block_next(n, b) = block_next(m, b)
  BY DEF block_size, block_allocated, block_next
<1>2. prologue \in B /\ E \in B
  BY DEF Layout, Tiled
<1>3. Tiled(n, B, E)
  <2> USE <1>1, <1>2
  <2>1. \A c \in B \ {prologue} : \E b \in B : block_next(n, b) = c
    <3> TAKE c \in B \ {prologue}
    <3>1. PICK b \in B : block_next(m, b) = c
      BY DEF Layout, Tiled
    <3> QED
      BY <3>1
  <2>2. \A b, c \in B : b < c => block_next(n, b) <= c
    BY DEF Layout, Tiled
  <2>3. \A b \in B \ {E} : block_next(n, b) \in B
    BY DEF Layout, Tiled
  <2>4. /\ prologue < E /\ B \subseteq prologue .. E
        /\ block_size(n, prologue) = TAGS_SIZE /\ block_size(n, E) = TAGS_SIZE
        /\ \A b \in B \ {prologue, E} : block_size(n, b) >= MINBLOCKSIZE
        /\ \A b \in B : block_size(n, b) % ALIGNMENT = 0
    BY DEF Layout, Tiled
  <2> QED
    BY <2>1, <2>2, <2>3, <2>4 DEF Tiled
<1>4. TagsAgree(n, B, E)
  BY <1>1, <1>2 DEF Layout, TagsAgree, block_end_tag
<1> QED
  BY <1>1, <1>3, <1>4 DEF Layout, FreeBlocks

(* Writing links does not touch a tag, nor any word of other blocks.       *)
LEMMA LinksKeepLayout ==
  ASSUME NEW m, NEW B, NEW E, Layout(m, B, E),
         NEW F \in SUBSET FreeBlocks(m, B), NEW n, OnlyLinks(m, n, F)
  PROVE  /\ Layout(n, B, E)
         /\ \A b \in B : /\ block_size(n, b) = block_size(m, b)
                         /\ block_allocated(n, b) = block_allocated(m, b)
         /\ FreeBlocks(n, B) = FreeBlocks(m, B)
         /\ \A c \in B \ F : \A a \in Addr :
              c <= a /\ a < c + block_size(m, c) => n[a] = m[a]
<1>1. \A x \in F : /\ x \in B \ {prologue, E} /\ x \in Int
                   /\ block_size(m, x) >= 32 /\ block_size(m, x) \in Int
  <2>1. F \subseteq B \ {prologue, E}
    BY FreeLinkable
  <2> QED
    BY <2>1, BlockFacts
<1>2. \A c \in B \ F : \A a \in Addr :
        c <= a /\ a < c + block_size(m, c) => n[a] = m[a]
  <2> TAKE c \in B \ F
  <2> TAKE a \in Addr
  <2> HAVE c <= a /\ a < c + block_size(m, c)
  <2>1. \A x \in F : x + block_size(m, x) <= c \/ c + block_size(m, c) <= x
    BY <1>1, Apart
  <2>2. a \notin LinkWords(F)
    BY <1>1, <2>1, BlockFacts, AddrInt DEF LinkWords
  <2> QED
    BY <2>2 DEF OnlyLinks
<1>3. \A b \in B : /\ n[b] = m[b]
                   /\ n[b + block_size(m, b) - 8] = m[b + block_size(m, b) - 8]
  <2> TAKE b \in B
  <2>1. CASE b \notin F
    BY <1>2, <2>1, BlockFacts
  <2>2. CASE b \in F
    <3>1. \A x \in F : x # b => x + block_size(m, x) <= b
                                \/ b + block_size(m, b) <= x
      BY <1>1, Apart
    <3>2. b \notin LinkWords(F) /\ b + block_size(m, b) - 8 \notin LinkWords(F)
      BY <1>1, <2>2, <3>1 DEF LinkWords
    <3> QED
      BY <3>2, BlockFacts DEF OnlyLinks
  <2> QED
    BY <2>1, <2>2
<1>4. n \in [Addr -> Int]
  BY DEF OnlyLinks
<1>5. /\ Layout(n, B, E)
      /\ \A b \in B : /\ block_size(n, b) = block_size(m, b)
                      /\ block_allocated(n, b) = block_allocated(m, b)
      /\ FreeBlocks(n, B) = FreeBlocks(m, B)
  BY <1>3, <1>4, SameTags
<1> QED
  BY <1>2, <1>5

(* A ring depends on its link words only.                                  *)
LEMMA RingFrame ==
  ASSUME NEW m, NEW n, NEW first, NEW F, Ring(m, first, F),
         \A x \in F : /\ n[x + WORD_SIZE] = m[x + WORD_SIZE]
                      /\ n[x + 2 * WORD_SIZE] = m[x + 2 * WORD_SIZE]
  PROVE  Ring(n, first, F)
<1>1. \A x \in F : /\ block_flink(n, x) = block_flink(m, x)
                   /\ block_blink(n, x) = block_blink(m, x)
  BY DEF block_flink, block_blink
<1>2. \A S \in SUBSET F :
        S # {} /\ (\A b \in S : block_flink(n, b) \in S) => S = F
  BY <1>1 DEF Ring
<1> QED
  BY <1>1, <1>2 DEF Ring

-----------------------------------------------------------------------------

(* Both tags of a block of s bytes at b are written.                       *)
Tag(m, b, s, a) == [m EXCEPT ![b] = s + a, ![b + s - WORD_SIZE] = s + a]

(* Writing both tags of a block (block_set_size_and_allocated) leaves every *)
(* word of memory an integer.                                              *)
LEMMA TagType ==
  ASSUME NEW m \in [Addr -> Int], NEW b \in Addr, NEW s \in Int,
         NEW a \in {0, 1}
  PROVE  Tag(m, b, s, a) \in [Addr -> Int]
<1>1. s + a \in Int
  OBVIOUS
<1> QED
  BY <1>1 DEF Tag

(* block_set_size_and_allocated: both tags read back as written, and no    *)
(* other word of memory changes.                                           *)
LEMMA TagFacts ==
  ASSUME NEW m \in [Addr -> Int], NEW b \in Addr, NEW s \in Int, s >= 16,
         s % 8 = 0, NEW a \in {0, 1}, b + s - 8 \in Addr
  PROVE  /\ Tag(m, b, s, a)[b] = s + a
         /\ Tag(m, b, s, a)[b + s - 8] = s + a
         /\ block_size(Tag(m, b, s, a), b) = s
         /\ (block_allocated(Tag(m, b, s, a), b) <=> a = 1)
         /\ \A x \in Addr \ {b, b + s - 8} : Tag(m, b, s, a)[x] = m[x]
<1>1. b \in Int /\ b # b + s - 8
  BY AddrInt
<1>2. Tag(m, b, s, a) \in [Addr -> Int] /\ Tag(m, b, s, a)[b] = s + a
  BY <1>1 DEF Tag
<1>3. Tag(m, b, s, a)[b + s - 8] = s + a
  BY <1>1 DEF Tag
<1>4. \A x \in Addr \ {b, b + s - 8} : Tag(m, b, s, a)[x] = m[x]
  BY DEF Tag
<1> QED
  BY <1>2, <1>3, <1>4, TagParts DEF block_size, block_allocated

(* The block starts that are left, and the heap, when that is done.        *)
Starts(B, b, s) == {c \in B : c <= b \/ c >= b + s} \cup {b}

SetTag(h, b, s, a) ==
  [h EXCEPT !.mem = Tag(h.mem, b, s, a), !.blocks = Starts(h.blocks, b, s)]

(* block_set_size_and_allocated writes both tags, whatever was there.      *)
LEMMA SetSizeAllocated ==
  ASSUME NEW h \in HeapType, NEW b \in Addr, NEW s \in Int, s >= 16,
         s % 8 = 0, NEW a \in {0, 1}, b + s - 8 \in Addr
  PROVE  block_set_size_and_allocated(h, b, s, a) = SetTag(h, b, s, a)
<1> DEFINE m == h.mem
           old == tag_allocated(m[b])
           m1 == Tag(m, b, s, old)
           B1 == {c \in h.blocks : c <= b \/ c >= b + s} \cup {b}
           h1 == [h EXCEPT !.mem = m1, !.blocks = B1]
<1>1. m \in [Addr -> Int] /\ b \in Int /\ old \in {0, 1}
  BY AddrInt, TagTypes DEF HeapType
<1>2. block_set_size(h, b, s) = h1
  BY DEF block_set_size, check, Tag, HeapType
<1>3. /\ m1[b] = s + old /\ m1[b + s - 8] = s + old
      /\ block_size(m1, b) = s
  BY <1>1, TagFacts
<1>3a. m1 \in [Addr -> Int]
  BY <1>1, TagType
<1>4. h1.mem = m1
  BY DEF HeapType
<1>5. block_end_tag(m1, b) = b + s - 8
  BY <1>3 DEF block_end_tag
<1>6. tag_size(s + old) = s
  BY <1>1, TagParts
<1> HIDE DEF m1, old, B1, h1
<1>7. [m1 EXCEPT ![b] = tag_size(m1[b]) + a,
             ![b + s - 8] = tag_size(m1[b + s - 8]) + a]
        = [m1 EXCEPT ![b] = s + a, ![b + s - 8] = s + a]
  BY <1>1, <1>3, <1>3a, <1>6
<1>8. block_set_allocated(h1, b, a)
        = [h1 EXCEPT !.mem = [m1 EXCEPT ![b] = s + a, ![b + s - 8] = s + a]]
  <2>1. block_set_allocated(h1, b, a)
          = check([h1 EXCEPT
                     !.mem = [m1 EXCEPT ![b] = tag_size(m1[b]) + a,
                                ![b + s - 8] = tag_size(m1[b + s - 8]) + a]],
                  block_size(m1, b) >= TAGS_SIZE)
    BY <1>4, <1>5, Zenon DEF block_set_allocated
  <2>2. block_size(m1, b) >= TAGS_SIZE
    BY <1>3
  <2> QED
    BY <1>7, <2>1, <2>2, Zenon DEF check
<1>9. [m1 EXCEPT ![b] = s + a, ![b + s - 8] = s + a] = Tag(m, b, s, a)
  BY <1>1 DEF m1, Tag
<1> QED
  BY <1>2, <1>8, <1>9 DEF block_set_size_and_allocated, B1, h1, HeapType,
                          SetTag, Starts

(* block_set_allocated, on a block whose tags agree.                       *)
LEMMA SetAllocated ==
  ASSUME NEW h \in HeapType, NEW E, Layout(h.mem, h.blocks, E),
         NEW b \in h.blocks, NEW a \in {0, 1}
  PROVE  block_set_allocated(h, b, a)
           = [h EXCEPT !.mem = Tag(h.mem, b, block_size(h.mem, b), a)]
<1> DEFINE m == h.mem
           s == block_size(m, b)
<1>1. /\ m \in [Addr -> Int] /\ b \in Int /\ s \in Int /\ s >= 16
      /\ m[b + s - 8] = m[b] /\ b \in Addr /\ b + s - 8 \in Addr
  BY BlockFacts DEF HeapType
<1>2. block_end_tag(m, b) = b + s - 8
  BY DEF block_end_tag
<1>3. tag_size(m[b]) = s
  BY DEF block_size
<1> HIDE DEF s, m
<1>4. [m EXCEPT ![b] = tag_size(m[b]) + a,
            ![b + s - 8] = tag_size(m[b + s - 8]) + a]
        = [m EXCEPT ![b] = s + a, ![b + s - 8] = s + a]
  BY <1>1, <1>3
<1> QED
  BY <1>1, <1>2, <1>4 DEF block_set_allocated, check, Tag, s, m

-----------------------------------------------------------------------------

(* Changing the allocated bit of a block changes nothing else.             *)
LEMMA Retag ==
  ASSUME NEW m, NEW B, NEW E, Layout(m, B, E),
         NEW b \in B \ {prologue, E}, NEW a \in {0, 1}
  PROVE  LET n == Tag(m, b, block_size(m, b), a)
         IN  /\ Layout(n, B, E)
             /\ \A c \in B : block_size(n, c) = block_size(m, c)
             /\ (block_allocated(n, b) <=> a = 1)
             /\ \A x \in Addr : x < b \/ x >= b + block_size(m, b)
                                => n[x] = m[x]
             /\ n[b + 8] = m[b + 8] /\ n[b + 16] = m[b + 16]
<1> DEFINE s == block_size(m, b)
           n == Tag(m, b, s, a)
<1>1. /\ b \in Addr /\ b \in Int /\ s \in Int /\ s >= 32 /\ s % 8 = 0
      /\ b + s - 8 \in Addr /\ b + 8 \in Addr /\ b + 16 \in Addr
  BY BlockFacts
<1>2. m \in [Addr -> Int]
  BY DEF Layout
<1> HIDE DEF s
<1>3. /\ n[b] = s + a /\ n[b + s - 8] = s + a
      /\ block_size(n, b) = s
      /\ (block_allocated(n, b) <=> a = 1)
      /\ \A x \in Addr \ {b, b + s - 8} : n[x] = m[x]
  BY <1>1, <1>2, TagFacts
<1>3a. n \in [Addr -> Int]
  BY <1>1, <1>2, TagType
<1> HIDE DEF n
<1>4. \A x \in Addr : x < b \/ x >= b + s => n[x] = m[x]
  BY <1>1, <1>3, AddrInt
<1>5. n[b + 8] = m[b + 8] /\ n[b + 16] = m[b + 16]
  BY <1>1, <1>3
<1>6. \A c \in B \ {b} : /\ c \in Int /\ block_size(m, c) \in Int
                         /\ block_size(m, c) >= 16
                         /\ c + block_size(m, c) - 8 \in Addr /\ c \in Addr
                         /\ m[c + block_size(m, c) - 8] = m[c]
  BY BlockFacts
<1>7. \A c \in B \ {b} : /\ n[c] = m[c]
                         /\ n[c + block_size(m, c) - 8] = m[c]
  <2> TAKE c \in B \ {b}
  <2>1. c + block_size(m, c) <= b \/ b + s <= c
    BY Apart DEF s
  <2> QED
    BY <1>1, <1>4, <1>6, <2>1
<1>8. \A c \in B : block_size(n, c) = block_size(m, c)
  BY <1>3, <1>7 DEF block_size, s
<1>9. \A c \in B \ {b} : block_allocated(n, c) = block_allocated(m, c)
  BY <1>7 DEF block_allocated
<1>10. Tiled(n, B, E)
  <2>1. \A c \in B : block_next(n, c) = block_next(m, c)
    BY <1>8 DEF block_next
  <2>2. prologue \in B /\ E \in B
    BY DEF Layout, Tiled
  <2>3. \A c \in B \ {prologue} : \E d \in B : block_next(n, d) = c
    BY <2>1 DEF Layout, Tiled
  <2>4. \A c \in B \ {E} : block_next(n, c) \in B
    BY <2>1 DEF Layout, Tiled
  <2>5. \A c, d \in B : c < d => block_next(n, c) <= d
    BY <2>1 DEF Layout, Tiled
  <2>6. /\ prologue < E /\ B \subseteq prologue .. E
        /\ block_size(n, prologue) = TAGS_SIZE /\ block_size(n, E) = TAGS_SIZE
        /\ \A c \in B \ {prologue, E} : block_size(n, c) >= MINBLOCKSIZE
        /\ \A c \in B : block_size(n, c) % ALIGNMENT = 0
    BY <1>8, <2>2 DEF Layout, Tiled
  <2> QED
    BY <2>2, <2>3, <2>4, <2>5, <2>6 DEF Tiled
<1>11. TagsAgree(n, B, E)
  <2>1. \A c \in B : n[block_end_tag(n, c)] = n[c]
    BY <1>3, <1>7, <1>8 DEF block_end_tag, s
  <2>2. block_allocated(n, prologue) /\ block_allocated(n, E)
    BY <1>9 DEF Layout, TagsAgree, Tiled
  <2> QED
    BY <2>1, <2>2 DEF TagsAgree
<1>12. Layout(n, B, E)
  BY <1>3a, <1>10, <1>11 DEF Layout
<1> QED
  BY <1>3, <1>4, <1>5, <1>8, <1>12 DEF n, s

(* What one tag over two neighbours makes of a memory.                     *)
Merged(m, B, E, lo, hi, s, a) ==
  LET n == Tag(m, lo, s, a)
  IN  /\ Layout(n, B \ {hi}, E)
      /\ block_size(n, lo) = s
      /\ (block_allocated(n, lo) <=> a = 1)
      /\ Starts(B, lo, s) = B \ {hi}
      /\ \A x \in Addr : x < lo \/ x >= lo + s => n[x] = m[x]
      /\ s \in Int /\ s >= 64 /\ s % 8 = 0 /\ lo + s - 8 \in Addr
      /\ n[lo + 8] = m[lo + 8] /\ n[lo + 16] = m[lo + 16]

(* Two neighbours become one block.                                        *)
LEMMA Merge ==
  ASSUME NEW m, NEW B, NEW E, Layout(m, B, E),
         NEW lo \in B \ {prologue, E}, NEW hi \in B \ {prologue, E},
         lo + block_size(m, lo) = hi, NEW a \in {0, 1}
  PROVE  Merged(m, B, E, lo, hi, block_size(m, lo) + block_size(m, hi), a)
<1> DEFINE s1 == block_size(m, lo)
           s2 == block_size(m, hi)
           s == s1 + s2
           n == Tag(m, lo, s, a)
           C == B \ {hi}
<1>1. /\ lo \in Addr /\ lo \in Int /\ s1 \in Int /\ s1 >= 32 /\ s1 % 8 = 0
      /\ lo + 8 \in Addr /\ lo + 16 \in Addr
  BY BlockFacts
<1>2. /\ hi \in Int /\ s2 \in Int /\ s2 >= 32 /\ s2 % 8 = 0
      /\ hi + s2 - 8 \in Addr /\ hi + s2 \in B /\ hi + s2 <= E
  BY BlockFacts
<1>3. m \in [Addr -> Int] /\ B \subseteq Addr /\ prologue \in B /\ E \in B
  BY DEF Layout, Tiled
<1>4. hi = lo + s1
  OBVIOUS
<1>5. \A c \in B \ {lo, hi} :
        /\ c \in Int /\ c \in Addr /\ block_size(m, c) \in Int
        /\ block_size(m, c) >= 16
        /\ c + block_size(m, c) - 8 \in Addr
        /\ m[c + block_size(m, c) - 8] = m[c]
        /\ c + block_size(m, c) <= lo \/ lo + s1 <= c
        /\ c + block_size(m, c) <= hi \/ hi + s2 <= c
  BY BlockFacts, Apart
<1>6. /\ \A c \in B \ {E} : c + block_size(m, c) \in B
      /\ \A c \in B \ {prologue} : \E d \in B : d + block_size(m, d) = c
      /\ \A c, d \in B : c < d => c + block_size(m, c) <= d
  BY DEF Layout, Tiled, block_next
<1> HIDE DEF s1, s2
<1>7. s \in Int /\ s >= 64 /\ s % 8 = 0 /\ lo + s - 8 \in Addr
  <2>1. lo + s - 8 = hi + s2 - 8
    BY <1>1, <1>2, <1>4
  <2> QED
    BY <1>1, <1>2, <2>1
<1> HIDE DEF s
<1>8. /\ n[lo] = s + a /\ n[lo + s - 8] = s + a
      /\ block_size(n, lo) = s
      /\ (block_allocated(n, lo) <=> a = 1)
      /\ \A x \in Addr \ {lo, lo + s - 8} : n[x] = m[x]
  <2>1. s \in Int /\ s >= 16 /\ s % 8 = 0 /\ lo + s - 8 \in Addr
    BY <1>7
  <2>2. lo \in Addr /\ lo \in Int /\ m \in [Addr -> Int]
    BY <1>1, <1>3
  <2>3. n[lo] = s + a
    BY <2>1, <2>2, TagFacts
  <2>4. n[lo + s - 8] = s + a
    BY <2>1, <2>2, TagFacts
  <2>5. block_size(n, lo) = s
    BY <2>1, <2>2, TagFacts
  <2>6. block_allocated(n, lo) <=> a = 1
    BY <2>1, <2>2, TagFacts
  <2>7. \A x \in Addr \ {lo, lo + s - 8} : n[x] = m[x]
    BY <2>1, <2>2, TagFacts
  <2> QED
    BY <2>3, <2>4, <2>5, <2>6, <2>7
<1>8a. n \in [Addr -> Int]
  BY <1>1, <1>3, <1>7, TagType
<1> HIDE DEF n
<1>9. \A x \in Addr : x < lo \/ x >= lo + s => n[x] = m[x]
  BY <1>1, <1>7, <1>8, AddrInt
<1>10. n[lo + 8] = m[lo + 8] /\ n[lo + 16] = m[lo + 16]
  BY <1>1, <1>7, <1>8
<1>11. s = s1 + s2
  BY DEF s
<1>12. \A c \in B \ {lo, hi} : c + block_size(m, c) <= lo \/ lo + s <= c
  BY <1>1, <1>2, <1>4, <1>5, <1>11
<1>13. \A c \in B \ {lo, hi} : /\ n[c] = m[c]
                               /\ n[c + block_size(m, c) - 8] = m[c]
  BY <1>1, <1>5, <1>7, <1>9, <1>12
<1>14. \A c \in B \ {lo, hi} :
         /\ block_size(n, c) = block_size(m, c)
         /\ block_allocated(n, c) = block_allocated(m, c)
  BY <1>13 DEF block_size, block_allocated
<1>15. Starts(B, lo, s) = C
  <2>1. ~ (hi <= lo \/ hi >= lo + s)
    BY <1>1, <1>2, <1>4, <1>11
  <2>2. \A c \in B \ {lo, hi} : c <= lo \/ c >= lo + s
    BY <1>1, <1>5, <1>12
  <2>3. lo <= lo /\ lo # hi
    BY <1>1, <1>4
  <2>4. \A c \in B : (c <= lo \/ c >= lo + s) <=> c # hi
    BY <2>1, <2>2, <2>3
  <2> QED
    BY <2>3, <2>4 DEF Starts
<1>16. Tiled(n, C, E)
  <2>1. \A c \in C \ {E} : block_next(n, c) \in C
    <3> TAKE c \in C \ {E}
    <3>1. CASE c = lo
      <4>1. block_next(n, lo) = hi + s2 /\ hi + s2 # hi
        BY <1>1, <1>2, <1>4, <1>8, <1>11 DEF block_next
      <4> QED
        BY <1>2, <3>1, <4>1
    <3>2. CASE c # lo
      <4>1. block_next(n, c) = c + block_size(m, c)
        BY <1>14, <3>2 DEF block_next
      <4>2. c + block_size(m, c) # hi
        BY <1>1, <1>4, <1>5, <3>2
      <4> QED
        BY <1>6, <4>1, <4>2
    <3> QED
      BY <3>1, <3>2
  <2>2. \A c \in C \ {prologue} : \E d \in C : block_next(n, d) = c
    <3> TAKE c \in C \ {prologue}
    <3>1. PICK d \in B : d + block_size(m, d) = c
      BY <1>6
    <3>2. d # lo
      BY <1>4, <3>1 DEF s1
    <3>3. CASE d = hi
      <4>1. block_next(n, lo) = c
        BY <1>1, <1>2, <1>4, <1>8, <1>11, <3>1, <3>3 DEF block_next, s2
      <4> QED
        BY <1>1, <1>2, <1>4, <4>1
    <3>4. CASE d # hi
      BY <1>14, <3>1, <3>2, <3>4 DEF block_next
    <3> QED
      BY <3>3, <3>4
  <2>3. \A c, d \in C : c < d => block_next(n, c) <= d
    <3> TAKE c, d \in C
    <3> HAVE c < d
    <3>1. CASE c = lo
      <4>1. lo + s1 <= d /\ d # hi
        BY <1>6, <3>1 DEF s1
      <4>2. hi + s2 <= d
        BY <1>4, <1>5, <1>2, <1>1, <4>1, <3>1
      <4> QED
        BY <1>1, <1>2, <1>4, <1>8, <1>11, <3>1, <4>2 DEF block_next
    <3>2. CASE c # lo
      BY <1>6, <1>14, <3>2 DEF block_next
    <3> QED
      BY <3>1, <3>2
  <2>4. \A c \in C : block_size(n, c) % ALIGNMENT = 0
    <3>1. \A c \in B : block_size(m, c) % 8 = 0
      BY DEF Layout, Tiled
    <3> QED
      BY <1>7, <1>8, <1>14, <3>1
  <2>5. \A c \in C \ {prologue, E} : block_size(n, c) >= MINBLOCKSIZE
    <3>1. \A c \in B \ {prologue, E} : block_size(m, c) >= 32
      BY DEF Layout, Tiled
    <3> QED
      BY <1>7, <1>8, <1>14, <3>1
  <2>6. /\ prologue \in C /\ E \in C /\ prologue < E /\ C \subseteq prologue .. E
        /\ block_size(n, prologue) = TAGS_SIZE /\ block_size(n, E) = TAGS_SIZE
    BY <1>14 DEF Layout, Tiled
  <2> QED
    BY <2>1, <2>2, <2>3, <2>4, <2>5, <2>6 DEF Tiled
<1>17. TagsAgree(n, C, E)
  <2>1. \A c \in C : n[block_end_tag(n, c)] = n[c]
    BY <1>8, <1>13, <1>14 DEF block_end_tag
  <2>2. block_allocated(n, prologue) /\ block_allocated(n, E)
    BY <1>3, <1>14 DEF Layout, TagsAgree
  <2> QED
    BY <2>1, <2>2 DEF TagsAgree
<1>18. Layout(n, C, E)
  BY <1>3, <1>8a, <1>16, <1>17 DEF Layout
<1> QED
  BY <1>7, <1>8, <1>9, <1>10, <1>15, <1>18 DEF n, s, s1, s2, Merged

(* What one tag over three neighbours makes of a memory.                   *)
MergedThree(m, B, E, lo, mid, hi, s, a) ==
  /\ Layout(Tag(m, lo, s, a), B \ {mid, hi}, E)
  /\ Starts(B, lo, s) = B \ {mid, hi}
  /\ s \in Int /\ s >= 64 /\ s % 8 = 0 /\ lo + s - 8 \in Addr
  /\ \A c \in B \ {lo, mid, hi} :
       c + block_size(m, c) <= lo \/ lo + s <= c

(* Three neighbours become one block: as if by two merges, but with no tag *)
(* written in between.                                                     *)
LEMMA MergeThree ==
  ASSUME NEW m, NEW B, NEW E, Layout(m, B, E),
         NEW lo \in B \ {prologue, E}, NEW mid \in B \ {prologue, E},
         NEW hi \in B \ {prologue, E}, NEW a \in {0, 1},
         lo + block_size(m, lo) = mid, mid + block_size(m, mid) = hi
  PROVE  MergedThree(m, B, E, lo, mid, hi,
           block_size(m, lo) + block_size(m, mid) + block_size(m, hi), a)
<1> DEFINE s1 == block_size(m, lo)
           s2 == block_size(m, mid)
           s3 == block_size(m, hi)
           t == s1 + s2
           s == s1 + s2 + s3
           n == Tag(m, lo, s, a)
           m1 == Tag(m, lo, t, a)
           u == block_size(m1, lo) + block_size(m1, hi)
           m2 == Tag(m1, lo, u, a)
           C == B \ {mid}
           D == B \ {mid, hi}
<1>1. /\ lo \in Addr /\ lo \in Int /\ s1 \in Int /\ s1 >= 32 /\ s1 % 8 = 0
      /\ mid \in Int /\ s2 \in Int /\ s2 >= 32 /\ s2 % 8 = 0
      /\ hi \in Int /\ hi \in Addr /\ s3 \in Int /\ s3 >= 32 /\ s3 % 8 = 0
      /\ mid = lo + s1 /\ hi = mid + s2
  BY BlockFacts
<1>2. m \in [Addr -> Int]
  BY DEF Layout
<1>3. /\ Layout(m1, C, E) /\ block_size(m1, lo) = t
      /\ \A x \in Addr : x < lo \/ x >= lo + t => m1[x] = m[x]
  <2>1. Merged(m, B, E, lo, mid, t, a)
    BY Merge
  <2> HIDE DEF t
  <2> QED
    BY <2>1 DEF Merged
<1>4. block_size(m1, hi) = s3
  <2>1. m1[hi] = m[hi]
    BY <1>1, <1>3
  <2> QED
    BY <2>1 DEF block_size
<1>5. u = s
  BY <1>3, <1>4, <1>1
<1>6. lo \in C \ {prologue, E} /\ hi \in C \ {prologue, E}
      /\ lo + block_size(m1, lo) = hi
  BY <1>1, <1>3
<1> HIDE DEF m1, C, u
<1>7. /\ Layout(m2, C \ {hi}, E)
      /\ \A x \in Addr : x < lo \/ x >= lo + u => m2[x] = m1[x]
      /\ u \in Int /\ u >= 64 /\ u % 8 = 0 /\ lo + u - 8 \in Addr
      /\ block_size(m2, lo) = u
  <2>1. Merged(m1, C, E, lo, hi, u, a)
    BY <1>3, <1>6, Merge DEF u
  <2> QED
    BY <2>1 DEF Merged
<1>8. C \ {hi} = D
  BY DEF C
<1> HIDE DEF m2
<1>9. s \in Int /\ s >= 64 /\ s % 8 = 0 /\ lo + s - 8 \in Addr
  BY <1>5, <1>7
<1>10. \A c \in B \ {lo, mid, hi} :
         /\ c \in Int /\ block_size(m, c) \in Int /\ block_size(m, c) >= 16
         /\ c \in Addr /\ c + block_size(m, c) - 8 \in Addr
         /\ c + block_size(m, c) <= lo \/ lo + s1 <= c
         /\ c + block_size(m, c) <= mid \/ mid + s2 <= c
         /\ c + block_size(m, c) <= hi \/ hi + s3 <= c
  BY BlockFacts, Apart
<1>11. \A c \in B \ {lo, mid, hi} :
         c + block_size(m, c) <= lo \/ lo + s <= c
  BY <1>1, <1>10
<1>12. Starts(B, lo, s) = D
  <2>1. \A c \in B \ {lo, mid, hi} : c <= lo \/ c >= lo + s
    BY <1>1, <1>10, <1>11
  <2>2. ~ (mid <= lo \/ mid >= lo + s) /\ ~ (hi <= lo \/ hi >= lo + s)
    BY <1>1
  <2>3. lo # mid /\ lo # hi
    BY <1>1
  <2> QED
    BY <2>1, <2>2, <2>3 DEF Starts
<1> HIDE DEF s
<1>13. /\ n[lo] = s + a /\ n[lo + s - 8] = s + a
       /\ \A x \in Addr \ {lo, lo + s - 8} : n[x] = m[x]
  <2>1. s >= 16
    BY <1>9
  <2> QED
    BY <1>1, <1>2, <1>9, <2>1, TagFacts
<1>14. n \in [Addr -> Int]
  BY <1>1, <1>2, <1>9, TagType
<1> HIDE DEF n
<1>15. /\ m2[lo] = s + a /\ m2[lo + s - 8] = s + a
  <2>1. /\ m1 \in [Addr -> Int] /\ lo \in Addr
        /\ u \in Int /\ u >= 16 /\ u % 8 = 0 /\ lo + u - 8 \in Addr
    BY <1>1, <1>3, <1>7 DEF Layout
  <2>2. m2[lo] = u + a /\ m2[lo + u - 8] = u + a
    <3>1. lo \in Int /\ lo # lo + u - 8
      BY <1>1, <2>1
    <3>2. u + a \in Int
      BY <2>1
    <3> QED
      BY <2>1, <3>1, <3>2 DEF m2, Tag
  <2> QED
    BY <1>5, <2>2
<1>16. \A x \in Addr : x < lo \/ x >= lo + s => n[x] = m2[x]
  <2>1. t \in Int /\ s \in Int /\ t <= s /\ s >= 64
    <3>1. s1 \in Int /\ s2 \in Int /\ s3 \in Int
          /\ s1 >= 32 /\ s2 >= 32 /\ s3 >= 32
      BY <1>1
    <3> QED
      BY <3>1 DEF s
  <2> TAKE x \in Addr
  <2> HAVE x < lo \/ x >= lo + s
  <2>2. x # lo /\ x # lo + s - 8 /\ (x < lo \/ x >= lo + t)
    BY <1>1, <2>1, AddrInt
  <2> HIDE DEF t
  <2>3. n[x] = m[x]
    BY <1>13, <2>2
  <2>4. m1[x] = m[x]
    BY <1>3, <2>2
  <2>5. m2[x] = m1[x]
    BY <1>5, <1>7
  <2> QED
    BY <2>3, <2>4, <2>5
<1>17. \A c \in D : /\ n[c] = m2[c]
                    /\ n[c + block_size(m2, c) - 8]
                         = m2[c + block_size(m2, c) - 8]
  <2> TAKE c \in D
  <2>1. CASE c = lo
    BY <1>5, <1>7, <1>13, <1>15, <2>1
  <2>2. CASE c # lo
    <3>1. c \in B \ {lo, mid, hi}
      BY <2>2
    <3>2. c < lo \/ c >= lo + s
      BY <1>1, <1>9, <1>10, <1>11, <3>1
    <3>3. m2[c] = m[c]
      BY <1>13, <1>1, <1>9, <1>10, <1>16, <3>1, <3>2
    <3>4. block_size(m2, c) = block_size(m, c)
      BY <3>3 DEF block_size
    <3>5. LET e == c + block_size(m, c) - 8
          IN  e \in Addr /\ (e < lo \/ e >= lo + s)
      BY <1>1, <1>9, <1>10, <1>11, <3>1
    <3> QED
      BY <1>10, <1>16, <3>1, <3>2, <3>4, <3>5
  <2> QED
    BY <2>1, <2>2
<1>18. Layout(n, D, E)
  BY <1>7, <1>8, <1>14, <1>17, SameTags
<1> QED
  BY <1>9, <1>11, <1>12, <1>18 DEF n, s, MergedThree

(* Tags for two blocks of s and t bytes have been written where there was  *)
(* one block.                                                              *)
Splits(m, B, E, b, s, a, t, d, n) ==
  /\ Layout(m, B, E)
  /\ b \in B \ {prologue, E}
  /\ s \in Int /\ s >= 32 /\ s % 8 = 0 /\ a \in {0, 1}
  /\ t \in Int /\ t >= 32 /\ t % 8 = 0 /\ d \in {0, 1}
  /\ s + t = block_size(m, b)
  /\ n \in [Addr -> Int]
  /\ n[b] = s + a /\ n[b + s - 8] = s + a
  /\ n[b + s] = t + d /\ n[b + s + t - 8] = t + d
  /\ \A x \in Addr : x < b \/ x >= b + s + t => n[x] = m[x]

SplitUp(n, B, E, b, s, a, t, d) ==
  /\ Layout(n, B \cup {b + s}, E)
  /\ b + s \notin B
  /\ block_size(n, b) = s
  /\ (block_allocated(n, b) <=> a = 1)
  /\ block_size(n, b + s) = t
  /\ (block_allocated(n, b + s) <=> d = 1)

(* One block becomes two.                                                  *)
LEMMA Split ==
  ASSUME NEW m, NEW B, NEW E, NEW b, NEW s, NEW a, NEW t, NEW d, NEW n,
         Splits(m, B, E, b, s, a, t, d, n)
  PROVE  SplitUp(n, B, E, b, s, a, t, d)
<1> USE DEF Splits
<1> DEFINE r == b + s
           C == B \cup {r}
<1>1. /\ b \in Addr /\ b \in Int /\ b + (s + t) \in B /\ b + (s + t) <= E
      /\ b >= prologue
  BY BlockFacts
<1>2. B \subseteq Addr /\ prologue \in B /\ E \in B /\ E \in Int
      /\ E + 16 <= mem_max_addr
  BY AddrInt DEF Layout, Tiled
<1>3. r \in Int /\ r \in Addr
  <2>1. b + s < mem_max_addr
    BY <1>1, <1>2, MemoryAssumption DEF mem_max_addr
  <2>2. mem_start_brk <= b + s
    BY <1>1, MemoryAssumption
  <2>3. b + s \in Addr
    BY <1>1, <2>1, <2>2, AddrShift
  <2> QED
    BY <1>1, <2>3
<1>4. \A c \in B \ {b} :
        /\ c \in Int /\ c \in Addr /\ block_size(m, c) \in Int
        /\ block_size(m, c) >= 16
        /\ c + block_size(m, c) - 8 \in Addr
        /\ m[c + block_size(m, c) - 8] = m[c]
        /\ (c + block_size(m, c) <= b \/ b + (s + t) <= c)
  BY BlockFacts, Apart
<1>5. /\ \A c \in B \ {E} : c + block_size(m, c) \in B
      /\ \A c \in B \ {prologue} : \E e \in B : e + block_size(m, e) = c
      /\ \A c, e \in B : c < e => c + block_size(m, c) <= e
  BY DEF Layout, Tiled, block_next
<1>6. r \notin B
  BY <1>1, <1>4
<1>7. block_size(n, b) = s /\ (block_allocated(n, b) <=> a = 1)
  BY TagParts DEF block_size, block_allocated
<1>8. block_size(n, r) = t /\ (block_allocated(n, r) <=> d = 1)
  BY TagParts DEF block_size, block_allocated
<1> HIDE DEF r
<1>9. r = b + s
  BY DEF r
<1>10. \A c \in B \ {b} : /\ n[c] = m[c]
                          /\ n[c + block_size(m, c) - 8] = m[c]
  BY <1>1, <1>4
<1>11. \A c \in B \ {b} :
         /\ block_size(n, c) = block_size(m, c)
         /\ block_allocated(n, c) = block_allocated(m, c)
  BY <1>10 DEF block_size, block_allocated
<1>12. Tiled(n, C, E)
  <2>1. \A c \in C \ {E} : block_next(n, c) \in C
    <3>1. block_next(n, b) \in C
      BY <1>7, <1>9 DEF block_next
    <3>2. block_next(n, r) \in C
      <4>1. r + t = b + (s + t)
        BY <1>1, <1>9
      <4> QED
        BY <1>1, <1>8, <4>1 DEF block_next
    <3>3. \A c \in B \ {b, E} : block_next(n, c) \in C
      BY <1>5, <1>11 DEF block_next
    <3> QED
      BY <3>1, <3>2, <3>3
  <2>2. \A c \in C \ {prologue} : \E e \in C : block_next(n, e) = c
    <3> TAKE c \in C \ {prologue}
    <3>1. CASE c = r
      <4>1. block_next(n, b) = r
        BY <1>7, <1>9 DEF block_next
      <4> QED
        BY <3>1, <4>1
    <3>2. CASE c # r
      <4>1. PICK e \in B : e + block_size(m, e) = c
        BY <1>5, <3>2
      <4>2. CASE e = b
        <5>1. r + t = b + (s + t)
          BY <1>1, <1>9
        <5>2. block_next(n, r) = c
          BY <1>8, <4>1, <4>2, <5>1 DEF block_next
        <5> QED
          BY <5>2
      <4>3. CASE e # b
        BY <1>11, <4>1, <4>3 DEF block_next
      <4> QED
        BY <4>2, <4>3
    <3> QED
      BY <3>1, <3>2
  <2>3. \A c, e \in C : c < e => block_next(n, c) <= e
    <3>1. block_next(n, b) = b + s /\ block_next(n, r) = b + (s + t)
      BY <1>1, <1>7, <1>8, <1>9 DEF block_next
    <3>2. \A c \in B \ {b} : block_next(n, c) = c + block_size(m, c)
      BY <1>11 DEF block_next
    <3> TAKE c, e \in C
    <3> HAVE c < e
    <3>3. CASE c \in B \ {b} /\ e \in B
      BY <1>5, <3>2, <3>3
    <3>4. CASE c \in B \ {b} /\ e = r
      BY <1>1, <1>4, <1>9, <3>2, <3>4
    <3>5. CASE c = b
      BY <1>1, <1>4, <1>9, <3>1, <3>5
    <3>6. CASE c = r
      BY <1>1, <1>4, <1>9, <3>1, <3>6
    <3> QED
      BY <3>3, <3>4, <3>5, <3>6
  <2>4. \A c \in C : block_size(n, c) % ALIGNMENT = 0
    <3>1. \A c \in B : block_size(m, c) % 8 = 0
      BY DEF Layout, Tiled
    <3> QED
      BY <1>7, <1>8, <1>11, <3>1
  <2>5. \A c \in C \ {prologue, E} : block_size(n, c) >= MINBLOCKSIZE
    <3>1. \A c \in B \ {prologue, E} : block_size(m, c) >= 32
      BY DEF Layout, Tiled
    <3> QED
      BY <1>7, <1>8, <1>11, <3>1
  <2>6. /\ prologue \in C /\ E \in C /\ prologue < E
        /\ block_size(n, prologue) = TAGS_SIZE /\ block_size(n, E) = TAGS_SIZE
    BY <1>11 DEF Layout, Tiled
  <2>7. C \subseteq prologue .. E
    <3>1. B \subseteq prologue .. E
      BY DEF Layout, Tiled
    <3>2. r \in prologue .. E
      BY <1>1, <1>2, <1>9, MemoryAssumption
    <3> QED
      BY <3>1, <3>2
  <2> QED
    BY <2>1, <2>2, <2>3, <2>4, <2>5, <2>6, <2>7 DEF Tiled
<1>13. TagsAgree(n, C, E)
  <2>1. \A c \in B \ {b} : n[block_end_tag(n, c)] = n[c]
    BY <1>10, <1>11 DEF block_end_tag
  <2>2. n[block_end_tag(n, b)] = n[b]
    BY <1>7 DEF block_end_tag
  <2>3. n[block_end_tag(n, r)] = n[r]
    BY <1>8, <1>9 DEF block_end_tag
  <2>4. block_allocated(n, prologue) /\ block_allocated(n, E)
    BY <1>2, <1>11 DEF Layout, TagsAgree
  <2> QED
    BY <2>1, <2>2, <2>3, <2>4 DEF TagsAgree
<1>14. Layout(n, C, E)
  BY <1>2, <1>3, <1>12, <1>13 DEF Layout
<1> QED
  BY <1>6, <1>7, <1>8, <1>14 DEF r, SplitUp

(* The epilogue becomes a block of s bytes, a new one is tagged behind it. *)
Grows(m, B, E, s, n) ==
  /\ Layout(m, B, E)
  /\ s \in Int /\ s >= 32 /\ s % 8 = 0 /\ E + s + 16 <= mem_max_addr
  /\ n \in [Addr -> Int]
  /\ n[E] = s + 1 /\ n[E + s - 8] = s + 1
  /\ n[E + s] = 17 /\ n[E + s + 8] = 17
  /\ \A x \in Addr : x < E => n[x] = m[x]

Grown(m, B, E, s, n) ==
  /\ Layout(n, B \cup {E + s}, E + s)
  /\ E + s \notin B
  /\ block_size(n, E) = s /\ block_allocated(n, E)
  /\ block_allocated(n, E + s)
  /\ FreeBlocks(n, B \cup {E + s}) = FreeBlocks(m, B)

(* The epilogue becomes a block of s bytes and a new one is put behind it. *)
LEMMA Grow ==
  ASSUME NEW m, NEW B, NEW E, NEW s, NEW n, Grows(m, B, E, s, n)
  PROVE  Grown(m, B, E, s, n)
<1> USE DEF Grows
<1> DEFINE r == E + s
           C == B \cup {r}
<1>1. /\ B \subseteq Addr /\ prologue \in B /\ E \in B /\ E \in Int /\ E \in Addr
      /\ prologue < E /\ block_size(m, E) = 16
      /\ B \subseteq prologue .. E
  BY AddrInt DEF Layout, Tiled
<1>2. r \in Int /\ r \in Addr
  <2>1. E + s < mem_max_addr
    BY <1>1, MemoryAssumption DEF mem_max_addr
  <2>2. mem_start_brk <= E + s
    BY <1>1, MemoryAssumption
  <2>3. E + s \in Addr
    BY <1>1, <2>1, <2>2, AddrShift
  <2> QED
    BY <1>1, <2>3
<1>3. \A c \in B \ {E} :
        /\ c \in Int /\ c \in Addr /\ block_size(m, c) \in Int
        /\ block_size(m, c) >= 16
        /\ c + block_size(m, c) - 8 \in Addr
        /\ m[c + block_size(m, c) - 8] = m[c]
        /\ c + block_size(m, c) <= E /\ c + block_size(m, c) \in B
  BY BlockFacts
<1>4. /\ \A c \in B \ {prologue} : \E e \in B : e + block_size(m, e) = c
      /\ \A c, e \in B : c < e => c + block_size(m, c) <= e
  BY DEF Layout, Tiled, block_next
<1>5. r \notin B
  BY <1>1
<1>6. block_size(n, E) = s /\ block_allocated(n, E)
  BY TagParts DEF block_size, block_allocated
<1>7. block_size(n, r) = 16 /\ block_allocated(n, r)
  <2>1. 17 = 16 + 1 /\ 16 % 8 = 0
    OBVIOUS
  <2>2. tag_size(16 + 1) = 16 /\ tag_allocated(16 + 1) = 1
    BY <2>1, TagParts
  <2> QED
    BY <2>1, <2>2 DEF block_size, block_allocated
<1> HIDE DEF r
<1>8. r = E + s
  BY DEF r
<1>9. \A c \in B \ {E} : n[c] = m[c] /\ n[c + block_size(m, c) - 8] = m[c]
  BY <1>1, <1>3
<1>10. \A c \in B \ {E} : /\ block_size(n, c) = block_size(m, c)
                          /\ block_allocated(n, c) = block_allocated(m, c)
  BY <1>9 DEF block_size, block_allocated
<1>11. Tiled(n, C, r)
  <2>1. \A c \in C \ {r} : block_next(n, c) \in C
    BY <1>3, <1>6, <1>8, <1>10 DEF block_next
  <2>2. \A c \in C \ {prologue} : \E e \in C : block_next(n, e) = c
    <3> TAKE c \in C \ {prologue}
    <3>1. CASE c = r
      BY <1>1, <1>6, <1>8, <3>1 DEF block_next
    <3>2. CASE c # r
      <4>1. PICK e \in B : e + block_size(m, e) = c
        BY <1>4, <3>2
      <4>2. e # E
        BY <1>1, <3>2, <4>1
      <4> QED
        BY <1>10, <4>1, <4>2 DEF block_next
    <3> QED
      BY <3>1, <3>2
  <2>3. \A c, e \in C : c < e => block_next(n, c) <= e
    <3> TAKE c, e \in C
    <3> HAVE c < e
    <3>1. CASE c \in B \ {E}
      BY <1>1, <1>3, <1>4, <1>8, <1>10, <3>1 DEF block_next
    <3>2. CASE c = E \/ c = r
      BY <1>1, <1>6, <1>8, <3>2 DEF block_next
    <3> QED
      BY <3>1, <3>2
  <2>4. \A c \in C : block_size(n, c) % ALIGNMENT = 0
    <3>1. \A c \in B : block_size(m, c) % 8 = 0
      BY DEF Layout, Tiled
    <3> QED
      BY <1>6, <1>7, <1>10, <3>1
  <2>5. \A c \in C \ {prologue, r} : block_size(n, c) >= MINBLOCKSIZE
    <3>1. \A c \in B \ {prologue, E} : block_size(m, c) >= 32
      BY DEF Layout, Tiled
    <3> QED
      BY <1>6, <1>10, <3>1
  <2>6. /\ prologue \in C /\ r \in C /\ prologue < r
        /\ block_size(n, prologue) = TAGS_SIZE /\ block_size(n, r) = TAGS_SIZE
    <3>1. block_size(m, prologue) = 16
      BY DEF Layout, Tiled
    <3>2. block_size(n, prologue) = 16
      BY <1>1, <1>10, <3>1, MemoryAssumption
    <3> QED
      BY <1>1, <1>7, <1>8, <3>2, MemoryAssumption
  <2>7. C \subseteq prologue .. r
    BY <1>1, <1>8, MemoryAssumption
  <2> QED
    BY <2>1, <2>2, <2>3, <2>4, <2>5, <2>6, <2>7 DEF Tiled
<1>12. TagsAgree(n, C, r)
  <2>1. \A c \in B \ {E} : n[block_end_tag(n, c)] = n[c]
    BY <1>9, <1>10 DEF block_end_tag
  <2>2. n[block_end_tag(n, E)] = n[E]
    BY <1>6 DEF block_end_tag
  <2>3. n[block_end_tag(n, r)] = n[r]
    <3>1. r + 16 - 8 = E + s + 8
      BY <1>1, <1>8
    <3> QED
      BY <1>7, <1>8, <3>1 DEF block_end_tag
  <2>4. block_allocated(n, prologue)
    BY <1>1, <1>10, MemoryAssumption DEF Layout, TagsAgree
  <2> QED
    BY <1>7, <2>1, <2>2, <2>3, <2>4 DEF TagsAgree
<1>13. Layout(n, C, r)
  <2>1. r + 16 <= mem_max_addr
    BY <1>8
  <2> QED
    BY <1>1, <1>2, <1>11, <1>12, <2>1 DEF Layout
<1>14. FreeBlocks(n, C) = FreeBlocks(m, B)
  <2>1. block_allocated(m, E)
    BY DEF Layout, TagsAgree
  <2> QED
    BY <1>6, <1>7, <1>10, <2>1 DEF FreeBlocks
<1> QED
  BY <1>5, <1>6, <1>7, <1>13, <1>14 DEF r, Grown
=============================================================================

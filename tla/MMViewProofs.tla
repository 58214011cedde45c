---------------------------- MODULE MMViewProofs ----------------------------
(***************************************************************************)
(* What others see of the allocator's heap: its client, the contract of    *)
(* MallocSpec; mm_malloc's search, the free list along its links           *)
(* (MMFreeList); and the REPL's print, one block after the other           *)
(* (HeapPrint).  For every size of memory and of int, every set of ids and *)
(* sizes and every initial content of the memory.                          *)
(***************************************************************************)
EXTENDS MMFreeList, HeapPrint, MMRefinesMalloc, MMProofs, FiniteSetTheorems

USE DEF WORD_SIZE, ALIGNMENT, TAGS_SIZE, MINBLOCKSIZE, prologue

-----------------------------------------------------------------------------
(* The client                                                              *)

(* The mapping of MMRefinesMalloc as a function of a heap h and of the     *)
(* piece p that is held under i.                                           *)
Missing(h, p, i) ==
  {a \in Addr : p.ptr <= a /\ a < p.ptr + p.size /\ h.mem[a] # i}

Measure(h, p, i) ==
  IF Missing(h, p, i) = {} THEN p.size ELSE Min(Missing(h, p, i)) - p.ptr

Seen(h, p, i) == [ptr |-> p.ptr, size |-> p.size, kept |-> Measure(h, p, i)]

(* given is what is seen of heap and live, before and after a step.        *)
LEMMA GivenSeen ==
  /\ given = [i \in Ids |-> Seen(heap, live[i], i)]
  /\ given' = [i \in Ids |-> Seen(heap', live'[i], i)]
BY DEF given, Seen, Measure, Missing, Intact, Lost

(* Who holds nothing is seen to hold nothing.                              *)
LEMMA SeenNothing ==
  ASSUME NEW h, NEW i
  PROVE  Seen(h, Nothing, i) = Abstract!None
<1>1. \A a \in Addr : ~ (0 <= a /\ a < 0 + 0)
  BY AddrInt
<1>2. Missing(h, Nothing, i) = {}
  BY <1>1 DEF Missing, Nothing, NULL
<1> QED
  BY <1>2 DEF Seen, Measure, Abstract!None, Nothing, NULL

(* Of a block the client holds, at least what it has written is intact, so *)
(* that all of it is once mdriver.c has filled it.                         *)
LEMMA SeenHeld ==
  ASSUME NEW h, NEW l, Sound(h, l), NEW i \in Ids, l[i] # Nothing
  PROVE  LET s == Seen(h, l[i], i)
         IN  /\ s.ptr = l[i].ptr /\ s.size = l[i].size
             /\ s # Abstract!None
             /\ s.kept \in Int /\ l[i].kept <= s.kept /\ s.kept <= s.size
<1> DEFINE p == l[i]
           b == payload_to_block(p.ptr)
           M == Missing(h, p, i)
<1>1. /\ p.ptr \in Int /\ p.ptr > 0 /\ p.size \in Nat /\ p.kept \in Nat
      /\ p.kept <= p.size
      /\ \A a \in Addr : p.ptr <= a /\ a < p.ptr + p.kept => h.mem[a] = i
  <2>1. /\ b \in Int /\ b \in Addr /\ p.ptr = b + 8 /\ Owner(h, i, p)
        /\ p.kept <= p.size /\ p.size \in Nat /\ p.kept \in Nat
    BY HeldBlock
  <2>2. b > 0
    BY <2>1, MemoryAssumption DEF Addr
  <2> HIDE DEF b, p
  <2> QED
    BY <2>1, <2>2 DEF Owner
<1> HIDE DEF p
<1>2. /\ Measure(h, p, i) \in Int /\ p.kept <= Measure(h, p, i)
      /\ Measure(h, p, i) <= p.size
  <2>1. CASE M = {}
    BY <1>1, <2>1 DEF Measure
  <2>2. CASE M # {}
    <3>1. M \subseteq Nat
      BY MemoryAssumption DEF Missing, Addr
    <3>2. \E x \in M : \A y \in M : x <= y
      BY <2>2, <3>1, LeastNat
    <3>3. Min(M) \in M
      BY <3>2 DEF Min
    <3>4. /\ Min(M) \in Addr /\ p.ptr <= Min(M) /\ Min(M) < p.ptr + p.size
          /\ h.mem[Min(M)] # i
      BY <3>3 DEF Missing
    <3>5. Min(M) \in Int
      BY <3>4, AddrInt
    <3>6. ~ (Min(M) < p.ptr + p.kept)
      BY <1>1, <3>4
    <3>7. Measure(h, p, i) = Min(M) - p.ptr
      BY <2>2 DEF Measure
    <3> HIDE DEF M
    <3> QED
      BY <1>1, <3>4, <3>5, <3>6, <3>7
  <2> QED
    BY <2>1, <2>2
<1>3. Seen(h, p, i).ptr # Abstract!None.ptr
  BY <1>1 DEF Seen, Abstract!None
<1> QED
  BY <1>2, <1>3 DEF Seen, p

(* A block that is kept looks the same.                                    *)
LEMMA SeenKept ==
  ASSUME NEW h, NEW l, Sound(h, l), NEW r, NEW j \in Ids,
         l[j] # Nothing => Kept(h, r, {payload_to_block(l[j].ptr)})
  PROVE  Seen(r, l[j], j) = Seen(h, l[j], j)
<1>1. CASE l[j] = Nothing
  BY <1>1, SeenNothing
<1>2. CASE l[j] # Nothing
  <2> DEFINE p == l[j]
             b == payload_to_block(p.ptr)
  <2>1. /\ b \in Int /\ p.ptr = b + 8 /\ p.size \in Nat
        /\ block_size(h.mem, b) \in Int /\ p.size + 16 <= block_size(h.mem, b)
    BY <1>2, HeldBlock
  <2>2. \A a \in Addr : b <= a /\ a < b + block_size(h.mem, b)
                        => r.mem[a] = h.mem[a]
    BY <1>2 DEF Kept
  <2> HIDE DEF b, p
  <2>3. \A a \in Addr : p.ptr <= a /\ a < p.ptr + p.size
                        => r.mem[a] = h.mem[a]
    BY <2>1, <2>2, AddrInt
  <2>4. Missing(r, p, j) = Missing(h, p, j)
    BY <2>3 DEF Missing
  <2> QED
    BY <2>4 DEF Seen, Measure, p
<1> QED
  BY <1>1, <1>2

(* Whoever is spared by a step is seen to hold what it held.               *)
LEMMA SparedSeen ==
  ASSUME IInv, NEW I, Spares(I), NEW j \in Ids \ I
  PROVE  given'[j] = given[j]
<1>1. /\ live'[j] = live[j] /\ Sound(heap, live) /\ j \in Ids
      /\ live[j] # Nothing =>
           Kept(heap, heap', {payload_to_block(live[j].ptr)})
  BY DEF Spares, IInv
<1>2. Seen(heap', live[j], j) = Seen(heap, live[j], j)
  BY <1>1, SeenKept, ZenonT(60)
<1> QED
  BY <1>1, <1>2, GivenSeen

(* Held is held.                                                           *)
LEMMA HeldSeen ==
  ASSUME Sound(heap, live)
  PROVE  \A i \in Ids : /\ i \in Abstract!Held <=> live[i] # Nothing
                        /\ live[i] = Nothing => given[i] = Abstract!None
BY GivenSeen, SeenNothing, SeenHeld DEF Abstract!Held

(* What the allocator has handed to i is aligned, inside the memory, and   *)
(* shares no byte with what somebody else holds.                           *)
LEMMA Fitting ==
  ASSUME NEW h, NEW l, Sound(h, l), NEW i \in Ids, l[i] # Nothing
  PROVE  /\ l[i].ptr % ALIGNMENT = 0
         /\ mem_start_brk <= l[i].ptr
         /\ l[i].ptr + l[i].size <= mem_max_addr
         /\ \A j \in Ids \ {i} : l[j] # Nothing =>
              Abstract!Disjoint(l[i].ptr, l[i].size, l[j].ptr, l[j].size)
<1> DEFINE b(j) == payload_to_block(l[j].ptr)
<1>1. \A j \in Ids : l[j] # Nothing =>
        /\ b(j) \in Int /\ b(j) \in Addr /\ l[j].ptr = b(j) + 8
        /\ b(j) \in h.blocks
        /\ block_size(h.mem, b(j)) \in Int
        /\ b(j) + block_size(h.mem, b(j)) <= h.epilogue
        /\ h.epilogue + 16 <= mem_max_addr /\ h.epilogue \in Int
        /\ l[j].size + 16 <= block_size(h.mem, b(j)) /\ l[j].size \in Nat
  BY HeldBlock DEF Inner
<1>2. Layout(h.mem, h.blocks, h.epilogue)
  BY DEF Sound, WellFormed, Off, Shaped
<1>3. \A j \in Ids \ {i} : l[j] # Nothing => b(j) # b(i)
  <2> TAKE j \in Ids \ {i}
  <2> HAVE l[j] # Nothing
  <2>1. l[j].ptr # l[i].ptr
    BY DEF Sound, Owned
  <2> QED
    BY <1>1, <2>1
<1>4. b(i) % 8 = 0 /\ mem_start_brk <= b(i) /\ mem_start_brk \in Int
      /\ mem_max_addr \in Int
  BY <1>1, MemoryAssumption DEF Addr, mem_max_addr
<1> HIDE DEF b
<1>5. l[i].ptr % ALIGNMENT = 0 /\ mem_start_brk <= l[i].ptr
      /\ l[i].ptr + l[i].size <= mem_max_addr
  BY <1>1, <1>4
<1>6. ASSUME NEW j \in Ids \ {i}, l[j] # Nothing
      PROVE  Abstract!Disjoint(l[i].ptr, l[i].size, l[j].ptr, l[j].size)
  <2>1. \/ b(i) + block_size(h.mem, b(i)) <= b(j)
        \/ b(j) + block_size(h.mem, b(j)) <= b(i)
    BY <1>1, <1>2, <1>3, <1>6, Apart
  <2> QED
    BY <1>1, <1>6, <2>1 DEF Abstract!Disjoint
<1> QED
  BY <1>5, <1>6

(* mm_malloc and mm_realloc give what the contract lets them give.         *)
LEMMA Giving ==
  ASSUME IInv, IInv', NEW i \in Ids, Spares({i}), Exchanges(i)
  PROVE  LET n == live'[i].size
         IN  Abstract!Malloc(i, n) \/ Abstract!Realloc(i, n)
<1> DEFINE n == live'[i].size
<1>1. /\ Sound(heap, live) /\ Sound(heap', live')
      /\ live'[i] # Nothing /\ n \in Sizes \ {0}
  BY DEF IInv, Exchanges
<1>2. given' = [given EXCEPT ![i] = given'[i]]
  <2>1. \A j \in Ids \ {i} : given'[j] = given[j]
    BY SparedSeen
  <2> QED
    BY <2>1, GivenSeen
<1>3. /\ given'[i] = Seen(heap', live'[i], i)
      /\ given[i] = Seen(heap, live[i], i)
  BY GivenSeen
<1>4. /\ given'[i].ptr = live'[i].ptr /\ given'[i].size = n
      /\ given'[i].kept \in Int /\ live'[i].kept <= given'[i].kept
      /\ given'[i].kept <= n
      /\ live'[i].kept \in Nat /\ n \in Nat
  BY <1>1, <1>3, SeenHeld, HeldBlock
<1>5. Abstract!Fits(i, given'[i].ptr, n)
  <2>1. ASSUME NEW j \in Abstract!Held \ {i}
        PROVE  Abstract!Disjoint(live'[i].ptr, n, given[j].ptr, given[j].size)
    <3>1. j \in Ids \ {i} /\ live[j] # Nothing
      BY <1>1, <2>1, HeldSeen DEF Abstract!Held
    <3>2. live'[j] = live[j]
      BY <3>1 DEF Spares
    <3>3. given[j].ptr = live'[j].ptr /\ given[j].size = live'[j].size
      BY <3>1, <3>2, GivenSeen DEF Seen
    <3> QED
      BY <1>1, <3>1, <3>2, <3>3, Fitting
  <2>2. /\ live'[i].ptr % ALIGNMENT = 0
        /\ mem_start_brk <= live'[i].ptr
        /\ live'[i].ptr + n <= mem_max_addr
    BY <1>1, Fitting
  <2> QED
    BY <1>4, <2>1, <2>2 DEF Abstract!Fits
<1> HIDE DEF n
<1>6. CASE live[i] = Nothing
  <2>1. i \notin Abstract!Held
    BY <1>1, <1>6, HeldSeen
  <2>2. given'[i].kept \in 0 .. n
    BY <1>4
  <2> QED
    BY <1>1, <1>2, <1>4, <1>5, <2>1, <2>2
       DEF Abstract!Malloc, Abstract!Give, n
<1>7. CASE live[i] # Nothing
  <2>1. i \in Abstract!Held
    BY <1>1, <1>7, HeldSeen
  <2>2. /\ given[i].kept \in Int /\ given[i].kept = live[i].size
        /\ live[i].size \in Nat
        /\ live'[i].kept = IF n < live[i].size THEN n ELSE live[i].size
    <3>1. /\ live[i].kept = live[i].size
          /\ live'[i].kept = IF n < live[i].size THEN n ELSE live[i].size
      BY <1>7 DEF Exchanges, n
    <3>2. /\ given[i].kept \in Int /\ live[i].kept <= given[i].kept
          /\ given[i].kept <= live[i].size /\ live[i].size \in Nat
      BY <1>1, <1>3, <1>7, SeenHeld, HeldBlock
    <3> QED
      BY <3>1, <3>2
  <2>3. given'[i].kept \in (IF given[i].kept < n THEN given[i].kept ELSE n) .. n
    BY <1>4, <2>2
  <2> QED
    BY <1>1, <1>2, <1>4, <1>5, <2>1, <2>3
       DEF Abstract!Realloc, Abstract!Give, n
<1> QED
  BY <1>6, <1>7

(* Every step of the allocator and its client is one of the contract's, or *)
(* none.                                                                   *)
LEMMA Implementing ==
  ASSUME IInv, IInv', Honours
  PROVE  [Abstract!Next]_given
<1>1. Sound(heap, live) /\ Sound(heap', live')
  BY DEF IInv
<1>2. CASE Spares({})
  BY <1>2, SparedSeen, GivenSeen
<1>3. ASSUME NEW i \in Ids, Spares({i}), live'[i] = Nothing
      PROVE  [Abstract!Next]_given
  <2>1. \A j \in Ids \ {i} : given'[j] = given[j]
    BY <1>3, SparedSeen
  <2>2. given'[i] = Abstract!None
    BY <1>3, GivenSeen, SeenNothing
  <2>3. CASE live[i] = Nothing
    <3>1. given[i] = Abstract!None
      BY <1>1, <2>3, HeldSeen
    <3> QED
      BY <2>1, <2>2, <3>1, GivenSeen
  <2>4. CASE live[i] # Nothing
    <3>1. i \in Abstract!Held
      BY <1>1, <2>4, HeldSeen
    <3>2. given' = [given EXCEPT ![i] = Abstract!None]
      BY <2>1, <2>2, GivenSeen
    <3> QED
      BY <3>1, <3>2 DEF Abstract!Next, Abstract!Free
  <2> QED
    BY <2>3, <2>4
<1>4. ASSUME NEW i \in Ids, Spares({i}), Exchanges(i)
      PROVE  [Abstract!Next]_given
  <2>1. live'[i].size \in Sizes
    BY <1>4 DEF Exchanges
  <2> QED
    BY <1>4, <2>1, Giving DEF Abstract!Next
<1>5. ASSUME NEW i \in Ids, Spares({i}), live[i] # Nothing,
             live'[i] = [live[i] EXCEPT !.kept = live[i].size]
      PROVE  [Abstract!Next]_given
  <2>1. \A j \in Ids \ {i} : given'[j] = given[j]
    BY <1>5, SparedSeen
  <2>2. i \in Abstract!Held
    BY <1>1, <1>5, HeldSeen
  <2>3. /\ live[i] \in Piece /\ live[i].ptr \in Int /\ live[i].size \in Nat
        /\ live[i] # Nothing
    BY <1>1, <1>5, HeldBlock DEF payload
  <2>4. /\ live'[i].ptr = live[i].ptr /\ live'[i].size = live[i].size
        /\ live'[i].kept = live[i].size
    BY <1>5, <2>3 DEF Piece
  <2>5. live'[i] # Nothing
    <3>1. live[i].ptr # NULL
      <4>1. /\ payload_to_block(live[i].ptr) \in Addr
            /\ live[i].ptr = payload(payload_to_block(live[i].ptr))
        BY <1>1, <1>5, HeldBlock
      <4> QED
        BY <4>1, NotNothing
    <3> QED
      BY <2>4, <3>1 DEF Nothing
  <2>6. /\ given'[i].ptr = given[i].ptr /\ given'[i].size = given[i].size
        /\ given'[i].kept = given[i].size
    <3>1. /\ given'[i] = Seen(heap', live'[i], i)
          /\ given[i] = Seen(heap, live[i], i)
      BY GivenSeen
    <3>2. /\ given'[i].kept \in Int /\ live'[i].kept <= given'[i].kept
          /\ given'[i].kept <= live'[i].size
          /\ given'[i].ptr = live'[i].ptr /\ given'[i].size = live'[i].size
      BY <1>1, <2>5, <3>1, SeenHeld
    <3>3. given[i].ptr = live[i].ptr /\ given[i].size = live[i].size
      BY <3>1 DEF Seen
    <3> QED
      BY <2>3, <2>4, <3>2, <3>3
  <2>7. given'[i] = [given[i] EXCEPT !.kept = given[i].size]
    BY <2>6, GivenSeen DEF Seen
  <2>8. given' = [given EXCEPT ![i].kept = given[i].size]
    BY <2>1, <2>7, GivenSeen
  <2> QED
    BY <2>2, <2>8 DEF Abstract!Next, Abstract!Write
<1>6. CASE live' = [i \in Ids |-> Nothing]
  <2>1. \A i \in Ids : given'[i] = Abstract!None
    BY <1>6, GivenSeen, SeenNothing
  <2>2. given' = [i \in Ids |-> Abstract!None]
    BY <2>1, GivenSeen
  <2> QED
    BY <2>2 DEF Abstract!Next, Abstract!Restart
<1> QED
  BY <1>2, <1>3, <1>4, <1>5, <1>6 DEF Honours

(* The allocator keeps the malloc contract: whatever mm_malloc, mm_free and *)
(* mm_realloc do to blocks, tags and lists, the client sees aligned,        *)
(* disjoint pieces inside the memory, none disturbed by a call on another,  *)
(* and its data carried along by mm_realloc.                                *)
THEOREM Refinement == Spec => ImplementsMalloc
<1>1. Init => Abstract!Init
  <2> SUFFICES ASSUME Init PROVE Abstract!Init
    OBVIOUS
  <2>1. \A i \in Ids : given[i] = Abstract!None
    BY GivenSeen, SeenNothing DEF Init
  <2> QED
    BY <2>1, GivenSeen DEF Abstract!Init
<1>2. IInv /\ [Next]_vars => [Abstract!Next]_given
  BY StepSound, Implementing
<1> QED
  BY <1>1, <1>2, Invariance, PTL DEF Spec, ImplementsMalloc, Abstract!Spec

-----------------------------------------------------------------------------
(* The walks                                                               *)

(* f follows the forward links from first on, n times.                     *)
Walks(f, m, first, n) ==
  f = [k \in 1 .. n |-> IF k = 1 THEN first ELSE block_flink(m, f[k - 1])]

(* There is such a walk of every length: the least length without one      *)
(* would be one more than a length with one.                               *)
LEMMA WalkExists ==
  ASSUME NEW m, NEW first, NEW n \in Nat
  PROVE  \E f : Walks(f, m, first, n)
<1> DEFINE T == {k \in Nat : ~ \E f : Walks(f, m, first, k)}
<1>1. SUFFICES ASSUME T # {} PROVE FALSE
  OBVIOUS
<1>2. PICK k \in T : \A j \in T : k <= j
  BY <1>1, LeastNat
<1>3. k \in Nat /\ ~ \E f : Walks(f, m, first, k)
  OBVIOUS
<1>4. k # 0
  <2>1. Walks([j \in 1 .. 0 |-> first], m, first, 0)
    BY DEF Walks
  <2> QED
    BY <1>3, <2>1
<1>5. \E f : Walks(f, m, first, k - 1)
  BY <1>2, <1>3, <1>4
<1>6. PICK f : Walks(f, m, first, k - 1)
  BY <1>5
<1> DEFINE g == [j \in 1 .. k |-> IF j = k
                  THEN IF k = 1 THEN first ELSE block_flink(m, f[k - 1])
                  ELSE f[j]]
<1>7. \A j \in 1 .. k :
        g[j] = IF j = 1 THEN first ELSE block_flink(m, g[j - 1])
  <2> TAKE j \in 1 .. k
  <2>1. CASE j = k
    BY <1>3, <1>4, <2>1
  <2>2. CASE j # k
    <3>1. j \in 1 .. k - 1 /\ (j # 1 => j - 1 \in 1 .. k - 1)
      BY <1>3, <2>2
    <3>2. f[j] = IF j = 1 THEN first ELSE block_flink(m, f[j - 1])
      BY <1>6, <3>1 DEF Walks
    <3> QED
      BY <1>3, <2>2, <3>1, <3>2
  <2> QED
    BY <2>1, <2>2
<1>8. g = [j \in 1 .. k |-> g[j]]
  OBVIOUS
<1> HIDE DEF g
<1>9. Walks(g, m, first, k)
  BY <1>7, <1>8 DEF Walks
<1> QED
  BY <1>3, <1>9

(* There are finitely many free blocks.                                    *)
LEMMA FreeFinite ==
  ASSUME IInv
  PROVE  /\ IsFiniteSet(Addr)
         /\ IsFiniteSet(FreeBlocks(heap.mem, heap.blocks))
         /\ Cardinality(FreeBlocks(heap.mem, heap.blocks)) \in Nat
<1>1. FreeBlocks(heap.mem, heap.blocks) \subseteq Addr
  BY DEF IInv, Sound, WellFormed, Off, Shaped, Layout, FreeBlocks
<1>2. IsFiniteSet(Addr)
  <2>1. mem_start_brk \in Int /\ mem_max_addr - 1 \in Int
    BY MemoryAssumption DEF mem_max_addr
  <2>2. IsFiniteSet(mem_start_brk .. mem_max_addr - 1)
    BY <2>1, FS_Interval
  <2> QED
    BY <2>2, FS_Subset DEF Addr
<1> QED
  BY <1>1, <1>2, FS_Subset, FS_CardinalityType

(* list starts at flist_first and goes on by flink.                        *)
LEMMA ListWalks ==
  ASSUME IInv
  PROVE  Walks(list, heap.mem, heap.flist_first,
               Cardinality(FreeBlocks(heap.mem, heap.blocks)))
<1> DEFINE m == heap.mem
           many == Cardinality(FreeBlocks(m, heap.blocks))
           at == CHOOSE f : Walks(f, m, heap.flist_first, many)
<1>1. Walks(at, m, heap.flist_first, many)
  BY FreeFinite, WalkExists
<1>2. list = [k \in 1 .. many |-> at[k]]
  BY DEF list, Walks
<1> HIDE DEF at, many
<1>3. at = [k \in 1 .. many |-> at[k]]
  BY <1>1 DEF Walks
<1> QED
  BY <1>1, <1>2, <1>3 DEF many

(* The same, entry by entry.                                               *)
LEMMA ListEntries ==
  ASSUME IInv
  PROVE  LET many == Cardinality(FreeBlocks(heap.mem, heap.blocks))
         IN  /\ many \in Nat
             /\ DOMAIN list = 1 .. many
             /\ list = [k \in 1 .. many |-> list[k]]
             /\ \A k \in 1 .. many :
                  list[k] = IF k = 1 THEN heap.flist_first
                            ELSE block_flink(heap.mem, list[k - 1])
<1> DEFINE many == Cardinality(FreeBlocks(heap.mem, heap.blocks))
<1>1. many \in Nat /\ Walks(list, heap.mem, heap.flist_first, many)
  BY FreeFinite, ListWalks
<1> HIDE DEF many
<1>2. /\ DOMAIN list = 1 .. many
      /\ list = [k \in 1 .. many |-> list[k]]
      /\ \A k \in 1 .. many :
           list[k] = IF k = 1 THEN heap.flist_first
                     ELSE block_flink(heap.mem, list[k - 1])
  BY <1>1 DEF Walks
<1> QED
  BY <1>1, <1>2 DEF many

(* Every free block is on the list, and only once: one that came twice     *)
(* would close a ring of too few blocks.                                   *)
LEMMA ListWhole ==
  ASSUME IInv
  PROVE  list \in Bijection(DOMAIN list, FreeBlocks(heap.mem, heap.blocks))
<1> DEFINE m == heap.mem
           F == FreeBlocks(m, heap.blocks)
           many == Cardinality(F)
<1>1. /\ many \in Nat /\ DOMAIN list = 1 .. many
      /\ list = [k \in 1 .. many |-> list[k]]
      /\ \A k \in 1 .. many : list[k] = IF k = 1 THEN heap.flist_first
                                         ELSE block_flink(m, list[k - 1])
  BY ListEntries
<1>2. Ring(m, heap.flist_first, F)
  <2>1. FreeOf(heap) \ {} = F
    BY DEF FreeOf
  <2> QED
    BY <2>1, Zenon DEF IInv, Sound, WellFormed, Off
<1>3. IsFiniteSet(F)
  BY FreeFinite
<1>4. many # 0 => F # {}
  BY FS_EmptySet
<1> HIDE DEF F, many
<1>5. \A k \in 1 .. many : list[k] \in F
  <2> DEFINE T == {k \in 1 .. many : list[k] \notin F}
  <2>1. SUFFICES ASSUME T # {} PROVE FALSE
    OBVIOUS
  <2>2. PICK k \in T : \A j \in T : k <= j
    <3>1. T \subseteq Nat
      BY <1>1
    <3> HIDE DEF T
    <3> QED
      BY <2>1, <3>1, LeastNat
  <2>3. k \in 1 .. many /\ list[k] \notin F
    OBVIOUS
  <2>4. F # {}
    BY <1>1, <1>4, <2>3
  <2>5. CASE k = 1
    BY <1>1, <1>2, <2>3, <2>4, <2>5 DEF Ring
  <2>6. CASE k # 1
    <3>1. k - 1 \in 1 .. many /\ k - 1 \notin T
      BY <1>1, <2>2, <2>3, <2>6
    <3>2. list[k - 1] \in F
      BY <3>1
    <3> QED
      BY <1>1, <1>2, <2>3, <2>6, <3>2, ZenonT(60) DEF Ring
  <2> QED
    BY <2>5, <2>6
<1>6. ASSUME NEW i \in 1 .. many, NEW j \in 1 .. many, i < j,
             list[i] = list[j]
      PROVE  FALSE
  <2> DEFINE Q == {list[k] : k \in i .. j - 1}
             f == [k \in i .. j - 1 |-> list[k]]
  <2>1. i \in Int /\ j \in Int /\ j - 1 \in Int /\ i \in i .. j - 1
        /\ i .. j - 1 \subseteq 1 .. many
    BY <1>1, <1>6
  <2>2. Q \subseteq F /\ Q # {}
    BY <1>5, <2>1
  <2>3. \A b \in Q : block_flink(m, b) \in Q
    <3> TAKE b \in Q
    <3>1. PICK k \in i .. j - 1 : b = list[k]
      OBVIOUS
    <3>2. k + 1 \in 1 .. many /\ k + 1 # 1 /\ (k + 1) - 1 = k
      BY <1>1, <2>1, <3>1
    <3>3. block_flink(m, b) = list[k + 1]
      BY <1>1, <3>1, <3>2
    <3>4. CASE k + 1 = j
      BY <1>6, <2>1, <3>3, <3>4
    <3>5. CASE k + 1 # j
      <4>1. k + 1 \in i .. j - 1
        BY <2>1, <3>1, <3>5
      <4> QED
        BY <3>3, <4>1
    <3> QED
      BY <3>4, <3>5
  <2>4. Q = F
    BY <1>2, <2>2, <2>3 DEF Ring
  <2>5. f \in Surjection(i .. j - 1, Q)
    BY DEF Surjection
  <2>6. IsFiniteSet(i .. j - 1) /\ Cardinality(i .. j - 1) = j - i
    BY <1>6, <2>1, FS_Interval
  <2>7. Cardinality(Q) <= j - i
    BY <2>5, <2>6, FS_Surjection
  <2>8. many <= j - i
    BY <2>4, <2>7 DEF many
  <2> QED
    BY <1>1, <1>6, <2>8
<1>7. list \in Injection(1 .. many, F)
  <2>1. list \in [1 .. many -> F]
    BY <1>1, <1>5
  <2>2. \A i, j \in 1 .. many : list[i] = list[j] => i = j
    <3> TAKE i, j \in 1 .. many
    <3> HAVE list[i] = list[j]
    <3>1. ~ (i < j) /\ ~ (j < i)
      BY <1>6
    <3> QED
      BY <1>1, <3>1
  <2> QED
    BY <2>1, <2>2 DEF Injection, IsInjective
<1>8. Cardinality(1 .. many) = many
  BY <1>1, FS_Interval
<1>9. list \in Surjection(1 .. many, F)
  BY <1>3, <1>7, <1>8, FS_Injection DEF many
<1> QED
  BY <1>1, <1>7, <1>9 DEF Bijection, F

(* mm_malloc takes the first block of the list that is large enough: its    *)
(* loop leaves none out, and each one it goes past is too small.            *)
THEOREM TakesFirstFit == Spec => []FirstFit
<1>1. ASSUME IInv, call.pc = "place",
             NEW k \in DOMAIN list, \A j \in 1 .. k : list[j] # call.curr
      PROVE  block_size(heap.mem, list[k]) < call.need
  <2> DEFINE m == heap.mem
             many == Cardinality(FreeBlocks(m, heap.blocks))
  <2>1. PICK S \in SUBSET FreeOf(heap) :
          /\ heap.flist_first \in S \cup {call.curr}
          /\ \A b \in S : /\ block_size(m, b) < call.need
                          /\ block_flink(m, b) \in S \cup {call.curr}
    BY <1>1 DEF IInv, CallFits, Searched
  <2>2. many \in Nat
    BY <1>1, FreeFinite
  <2> HIDE DEF many
  <2>3. /\ DOMAIN list = 1 .. many
        /\ \A j \in 1 .. many :
             list[j] = IF j = 1 THEN heap.flist_first
                       ELSE block_flink(m, list[j - 1])
    BY <1>1, ListWalks DEF Walks, many
  <2> DEFINE T == {n \in 1 .. k : list[n] \notin S}
  <2>4. T = {}
    <3>1. SUFFICES ASSUME T # {} PROVE FALSE
      OBVIOUS
    <3>2. k \in Nat /\ T \subseteq Nat
      BY <1>1, <2>2, <2>3
    <3>3. PICK n \in T : \A j \in T : n <= j
      BY <3>1, <3>2, LeastNat
    <3>4. n \in 1 .. k /\ n \in 1 .. many /\ list[n] \notin S
          /\ list[n] # call.curr
      BY <1>1, <2>2, <2>3, <3>3
    <3>5. CASE n = 1
      BY <2>1, <2>3, <3>4, <3>5
    <3>6. CASE n # 1
      <4>1. n - 1 \in 1 .. k /\ n - 1 \notin T
        BY <3>2, <3>3, <3>4, <3>6
      <4>2. list[n - 1] \in S
        BY <4>1
      <4> QED
        BY <2>1, <2>3, <3>4, <3>6, <4>2
    <3> QED
      BY <3>5, <3>6
  <2>5. k \in 1 .. k
    BY <1>1, <2>2, <2>3
  <2> QED
    BY <2>1, <2>4, <2>5
<1>2. IInv => FirstFit
  BY <1>1 DEF FirstFit
<1> QED
  BY <1>2, Invariance, PTL

(* The free list, read from flist_first on, shows every free block exactly  *)
(* once, so that first fit is the first of all of them.                     *)
THEOREM ListShowsAll ==
  Spec => [](list \in Bijection(DOMAIN list,
                                FreeBlocks(heap.mem, heap.blocks)))
BY ListWhole, Invariance, PTL

-----------------------------------------------------------------------------

(* f goes from block to block up to end, n times.                          *)
Strides(f, m, end, n) ==
  f = [k \in 0 .. n |->
         LET b == IF k = 0 THEN prologue ELSE f[k - 1]
         IN  IF b \in Addr \ {end} THEN block_next(m, b) ELSE b]

(* There is such a walk of every length, as above.                         *)
LEMMA StridesExist ==
  ASSUME NEW m, NEW end, NEW n \in Nat
  PROVE  \E f : Strides(f, m, end, n)
<1> DEFINE after(b) == IF b \in Addr \ {end} THEN block_next(m, b) ELSE b
           T == {k \in Nat : ~ \E f : Strides(f, m, end, k)}
<1>1. SUFFICES ASSUME T # {} PROVE FALSE
  OBVIOUS
<1>2. PICK k \in T : \A j \in T : k <= j
  BY <1>1, LeastNat
<1>3. k \in Nat /\ ~ \E f : Strides(f, m, end, k)
  OBVIOUS
<1>4. k # 0
  <2>1. Strides([j \in 0 .. 0 |-> after(prologue)], m, end, 0)
    BY DEF Strides
  <2> QED
    BY <1>3, <2>1
<1>5. \E f : Strides(f, m, end, k - 1)
  BY <1>2, <1>3, <1>4
<1>6. PICK f : Strides(f, m, end, k - 1)
  BY <1>5
<1> DEFINE g == [j \in 0 .. k |-> IF j = k THEN after(f[k - 1]) ELSE f[j]]
<1>7. \A j \in 0 .. k :
        g[j] = after(IF j = 0 THEN prologue ELSE g[j - 1])
  <2> TAKE j \in 0 .. k
  <2>1. CASE j = k
    BY <1>3, <1>4, <2>1
  <2>2. CASE j # k
    <3>1. j \in 0 .. k - 1 /\ (j # 0 => j - 1 \in 0 .. k - 1)
      BY <1>3, <2>2
    <3>2. f[j] = after(IF j = 0 THEN prologue ELSE f[j - 1])
      BY <1>6, <3>1 DEF Strides
    <3> HIDE DEF after
    <3> QED
      BY <1>3, <2>2, <3>1, <3>2
  <2> QED
    BY <2>1, <2>2
<1>8. g = [j \in 0 .. k |-> g[j]]
  OBVIOUS
<1> HIDE DEF g
<1>9. Strides(g, m, end, k)
  BY <1>7, <1>8 DEF Strides
<1> QED
  BY <1>3, <1>9

(* print's walk, stride by stride.                                         *)
LEMMA WalkStrides ==
  ASSUME NEW m, NEW end
  PROVE  LET at == walk(m, end)
             C  == Cardinality(Addr)
         IN  /\ C \in Nat /\ IsFiniteSet(Addr)
             /\ DOMAIN at = 0 .. C
             /\ at[0] = IF prologue \in Addr \ {end}
                        THEN block_next(m, prologue) ELSE prologue
             /\ \A k \in 1 .. C :
                  at[k] = IF at[k - 1] \in Addr \ {end}
                          THEN block_next(m, at[k - 1]) ELSE at[k - 1]
<1> DEFINE C == Cardinality(Addr)
           at == CHOOSE f : Strides(f, m, end, C)
<1>1. C \in Nat /\ IsFiniteSet(Addr)
  <2>1. mem_start_brk \in Int /\ mem_max_addr - 1 \in Int
    BY MemoryAssumption DEF mem_max_addr
  <2>2. IsFiniteSet(mem_start_brk .. mem_max_addr - 1)
    BY <2>1, FS_Interval
  <2>3. IsFiniteSet(Addr)
    BY <2>2, FS_Subset DEF Addr
  <2> QED
    BY <2>3, FS_CardinalityType
<1>2. Strides(at, m, end, C)
  BY <1>1, StridesExist
<1>3. walk(m, end) = at
  BY DEF walk, Strides
<1> HIDE DEF at, C
<1>4. /\ DOMAIN at = 0 .. C
      /\ \A k \in 0 .. C :
           at[k] = LET b == IF k = 0 THEN prologue ELSE at[k - 1]
                   IN  IF b \in Addr \ {end} THEN block_next(m, b) ELSE b
  BY <1>2 DEF Strides
<1>5. /\ at[0] = IF prologue \in Addr \ {end}
                  THEN block_next(m, prologue) ELSE prologue
      /\ \A k \in 1 .. C :
           at[k] = IF at[k - 1] \in Addr \ {end}
                   THEN block_next(m, at[k - 1]) ELSE at[k - 1]
  BY <1>1, <1>4
<1> QED
  BY <1>1, <1>3, <1>4, <1>5 DEF C

(* On a heap that is laid out as blocks, print's walk meets exactly those  *)
(* behind the prologue and comes to the epilogue: it goes upwards as long  *)
(* as it has not, and there are not that many addresses.                   *)
LEMMA WalkMeets ==
  ASSUME NEW m, NEW B, NEW E, Layout(m, B, E)
  PROVE  LET at == walk(m, E)
         IN  /\ at[Cardinality(Addr)] = E
             /\ {at[k] : k \in DOMAIN at} = B \ {prologue}
<1> DEFINE at == walk(m, E)
           C  == Cardinality(Addr)
<1>1. /\ C \in Nat /\ IsFiniteSet(Addr) /\ DOMAIN at = 0 .. C
      /\ at[0] = IF prologue \in Addr \ {E}
                 THEN block_next(m, prologue) ELSE prologue
      /\ \A k \in 1 .. C :
           at[k] = IF at[k - 1] \in Addr \ {E}
                   THEN block_next(m, at[k - 1]) ELSE at[k - 1]
  BY WalkStrides
<1> HIDE DEF at, C
<1>2. /\ prologue \in B /\ prologue # E /\ E \in B /\ prologue \in Nat
      /\ E \in Int /\ prologue \in Addr
  BY MemoryAssumption DEF Layout, Tiled
<1>3. ASSUME NEW b \in B
       PROVE  /\ b \in Addr /\ b \in Int /\ b \in Nat
              /\ prologue <= b /\ b <= E
              /\ b # E => block_next(m, b) \in B
              /\ b # E => block_next(m, b) > b
  <2>1. /\ b \in Addr /\ b \in Int /\ prologue <= b /\ b <= E
        /\ block_size(m, b) \in Int /\ block_size(m, b) >= 16
        /\ b # E => b + block_size(m, b) \in B
    BY BlockFacts
  <2> QED
    BY <1>2, <2>1 DEF block_next
<1>4. at[0] = block_next(m, prologue)
  BY <1>1, <1>2
<1>5. \A k \in 0 .. C : at[k] \in B \ {prologue}
  <2> DEFINE T == {k \in 0 .. C : at[k] \notin B \ {prologue}}
  <2>1. SUFFICES ASSUME T # {} PROVE FALSE
    OBVIOUS
  <2>2. PICK k \in T : \A j \in T : k <= j
    <3>1. T \subseteq Nat
      BY <1>1
    <3> HIDE DEF T
    <3> QED
      BY <2>1, <3>1, LeastNat
  <2>3. k \in 0 .. C /\ at[k] \notin B \ {prologue}
    OBVIOUS
  <2>4. CASE k = 0
    BY <1>2, <1>3, <1>4, <2>3, <2>4
  <2>5. CASE k # 0
    <3>1. k - 1 \in 0 .. C /\ k - 1 \notin T /\ k \in 1 .. C
      BY <1>1, <2>2, <2>3, <2>5
    <3>2. at[k - 1] \in B \ {prologue}
      BY <3>1
    <3>3. CASE at[k - 1] = E
      BY <1>1, <2>3, <3>1, <3>2, <3>3
    <3>4. CASE at[k - 1] # E
      <4>1. at[k - 1] \in Addr /\ at[k - 1] \in Int
            /\ prologue <= at[k - 1]
            /\ block_next(m, at[k - 1]) \in B
            /\ block_next(m, at[k - 1]) > at[k - 1]
            /\ block_next(m, at[k - 1]) \in Int
        BY <1>3, <3>2, <3>4
      <4>2. at[k] = block_next(m, at[k - 1])
        BY <1>1, <3>1, <3>4, <4>1
      <4> QED
        BY <1>2, <2>3, <4>1, <4>2
    <3> QED
      BY <3>3, <3>4
  <2> QED
    BY <2>4, <2>5
<1>6. \A k \in 1 .. C : /\ at[k - 1] # E => at[k] = block_next(m, at[k - 1])
                        /\ at[k - 1] = E => at[k] = E
  <2> TAKE k \in 1 .. C
  <2>1. k - 1 \in 0 .. C
    BY <1>1
  <2> QED
    BY <1>1, <1>2, <1>3, <1>5, <2>1
<1>7. \A k \in 0 .. C : at[k] # E => \A j \in 0 .. k - 1 : at[j] < at[k]
  <2> DEFINE T == {k \in 0 .. C : /\ at[k] # E
                                  /\ ~ \A j \in 0 .. k - 1 : at[j] < at[k]}
  <2>1. SUFFICES ASSUME T # {} PROVE FALSE
    OBVIOUS
  <2>2. PICK k \in T : \A j \in T : k <= j
    <3>1. T \subseteq Nat
      BY <1>1
    <3> HIDE DEF T
    <3> QED
      BY <2>1, <3>1, LeastNat
  <2>3. k \in 0 .. C /\ at[k] # E
    OBVIOUS
  <2>4. PICK j \in 0 .. k - 1 : ~ (at[j] < at[k])
    OBVIOUS
  <2>5. k \in 1 .. C /\ k - 1 \in 0 .. C /\ k - 1 \notin T /\ j \in 0 .. C
    BY <1>1, <2>2, <2>3, <2>4
  <2>6. at[k - 1] # E /\ at[k] = block_next(m, at[k - 1])
    BY <1>6, <2>3, <2>5
  <2>7. at[k - 1] < at[k] /\ at[k - 1] \in Int /\ at[k] \in Int
        /\ at[j] \in Int
    BY <1>2, <1>3, <1>5, <2>3, <2>5, <2>6
  <2>8. j # k - 1 => at[j] < at[k - 1]
    <3> HAVE j # k - 1
    <3>1. j \in 0 .. (k - 1) - 1
      BY <1>1, <2>3, <2>4
    <3> QED
      BY <2>5, <2>6, <3>1
  <2> QED
    BY <2>4, <2>7, <2>8
<1>8. at[C] = E
  <2>1. SUFFICES ASSUME at[C] # E PROVE FALSE
    OBVIOUS
  <2> DEFINE f == [k \in 0 .. C |-> at[k]]
  <2>2. f \in [0 .. C -> Addr]
    BY <1>2, <1>3, <1>5
  <2>3. IsFiniteSet(0 .. C) /\ Cardinality(0 .. C) = C + 1
    BY <1>1, FS_Interval
  <2>4. C < C + 1
    BY <1>1
  <2>5. \E x, y \in 0 .. C : x # y /\ f[x] = f[y]
    <3> HIDE DEF f
    <3> QED
      BY <1>1, <2>2, <2>3, <2>4, FS_PigeonHole, SMTT(30) DEF C
  <2>6. \A k \in 0 .. C : at[k] # E
    <3> SUFFICES ASSUME NEW k \in 0 .. C, at[k] = E PROVE FALSE
      OBVIOUS
    <3>1. k \in 0 .. C - 1 /\ C \in 0 .. C
      BY <1>1, <2>1
    <3>2. at[k] < at[C]
      BY <1>7, <2>1, <3>1
    <3>3. at[C] \in Int /\ at[C] <= E
      BY <1>3, <1>5, <3>1
    <3> QED
      BY <1>2, <3>2, <3>3
  <2>7. ASSUME NEW x \in 0 .. C, NEW y \in 0 .. C, x < y PROVE at[x] # at[y]
    <3>1. x \in 0 .. y - 1
      BY <1>1, <2>7
    <3>2. at[x] < at[y] /\ at[x] \in Int /\ at[y] \in Int
      BY <1>2, <1>3, <1>5, <1>7, <2>6, <3>1
    <3> QED
      BY <3>2
  <2>8. PICK x, y \in 0 .. C : x # y /\ at[x] = at[y]
    BY <2>5
  <2>9. x < y \/ y < x
    BY <1>1, <2>8
  <2> QED
    BY <2>7, <2>8, <2>9
<1>9. ASSUME NEW b \in B \ {prologue} PROVE \E k \in 0 .. C : at[k] = b
  <2> DEFINE T == {c \in B \ {prologue} : ~ \E k \in 0 .. C : at[k] = c}
  <2>1. SUFFICES ASSUME T # {} PROVE FALSE
    OBVIOUS
  <2>2. PICK c \in T : \A d \in T : c <= d
    <3>1. T \subseteq Nat
      BY <1>3
    <3> HIDE DEF T
    <3> QED
      BY <2>1, <3>1, LeastNat
  <2>3. c \in B /\ c # prologue /\ ~ \E k \in 0 .. C : at[k] = c
    OBVIOUS
  <2>4. PICK p \in B : block_next(m, p) = c
    BY <2>3 DEF Layout, Tiled
  <2>5. p # E
    <3>1. p = E => c = E + 16
      BY <1>2, <1>3, <2>4 DEF Layout, Tiled, block_next
    <3> QED
      BY <1>2, <1>3, <2>3, <3>1
  <2>6. p < c /\ p \in Int /\ c \in Int
    BY <1>2, <1>3, <2>3, <2>4, <2>5
  <2>7. CASE p = prologue
    BY <1>1, <1>4, <2>3, <2>4, <2>7
  <2>8. CASE p # prologue
    <3>1. p \notin T
      BY <2>2, <2>6
    <3>2. PICK k \in 0 .. C : at[k] = p
      BY <2>8, <3>1
    <3>3. k + 1 \in 1 .. C /\ (k + 1) - 1 = k /\ k + 1 \in 0 .. C
      BY <1>1, <1>8, <2>5, <3>2
    <3>4. at[k + 1] = c
      BY <1>6, <2>4, <2>5, <3>2, <3>3
    <3> QED
      BY <2>3, <3>3, <3>4
  <2> QED
    BY <2>7, <2>8
<1>10. {at[k] : k \in DOMAIN at} = B \ {prologue}
  BY <1>1, <1>5, <1>9
<1> QED
  BY <1>8, <1>10 DEF at, C

(* print, given at any time, shows every block, in order, comes to its end  *)
(* and complains of nothing: the end it takes from memlib.c's break is the  *)
(* epilogue mm.c keeps, and all tags on the way are in order.               *)
THEOREM PrintAlwaysShows == Spec => []PrintShowsHeap
<1>1. ASSUME IInv PROVE PrintShowsHeap
  <2> DEFINE m == heap.mem
             B == heap.blocks
             E == heap.epilogue
             at == walk(m, E)
             printed == {at[k] : k \in DOMAIN at} \ {E}
  <2>1. Layout(m, B, E) /\ E + 16 = heap.brk /\ heap.brk \in Int /\ E \in Int
    <3>1. Layout(m, B, E) /\ E + 16 = heap.brk
      BY <1>1 DEF IInv, Sound, WellFormed, Off, Shaped
    <3>2. E \in Int
      BY <3>1, AddrInt DEF Layout, Tiled
    <3> QED
      BY <3>1, <3>2
  <2>2. print_end(heap.brk) = E
    BY <2>1 DEF print_end, mem_heap_hi
  <2>3. at[Cardinality(Addr)] = E /\ printed = B \ {prologue, E}
    BY <2>1, WalkMeets
  <2> HIDE DEF at, printed
  <2>4. ASSUME NEW b \in printed PROVE complaints(m, b, E) = {}
    <3>1. b \in B /\ b \notin {prologue, E}
      BY <2>3, <2>4
    <3>2. /\ block_size(m, b) \in Int /\ block_size(m, b) >= 32
          /\ b + block_size(m, b) <= E /\ b \in Int
          /\ m[b + block_size(m, b) - 8] = m[b]
      BY <2>1, <3>1, BlockFacts
    <3>3. block_end_size(m, b) = block_size(m, b)
      BY <3>2 DEF block_end_size, block_end_tag, block_size
    <3>4. ~ (block_next(m, b) > E + MINBLOCKSIZE * WORD_SIZE)
      BY <2>1, <3>2 DEF block_next
    <3>5. ~ (block_size(m, b) < MINBLOCKSIZE)
      BY <3>2
    <3> QED
      BY <3>3, <3>4, <3>5 DEF complaints
  <2>5. UNION {complaints(m, b, E) : b \in printed \cap Addr} = {}
    BY <2>4
  <2>6. mm_print_heap_repl(heap) =
          [ends    |-> at[Cardinality(Addr)] = E,
           printed |-> printed,
           reports |-> UNION {complaints(m, b, E) : b \in printed \cap Addr}]
    BY <2>2 DEF mm_print_heap_repl, at, printed
  <2>7. mm_print_heap_repl(heap) =
          [ends |-> TRUE, printed |-> B \ {prologue, E}, reports |-> {}]
    <3>1. (at[Cardinality(Addr)] = E) = TRUE
      BY <2>3
    <3> QED
      BY <2>3, <2>5, <2>6, <3>1, Zenon
  <2> QED
    BY <2>7, Zenon DEF PrintShowsHeap
<1> QED
  BY <1>1, Invariance, PTL
=============================================================================

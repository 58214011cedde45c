------------------------------- MODULE MMProofs -------------------------------
(***************************************************************************)
(* The invariants of MM, proved for every size of memory and of int, every *)
(* set of ids and sizes and every initial content of the memory.           *)
(***************************************************************************)
EXTENDS MMLemmas

USE DEF WORD_SIZE, ALIGNMENT, TAGS_SIZE, MINBLOCKSIZE, prologue

(* What the client records about a block it holds.                         *)
Piece == [ptr : Addr \cup {NULL}, size : Nat, kept : Nat]

(* The block behind p is the client's under id i, with i's pattern in it.  *)
Owner(h, i, p) ==
  LET b == payload_to_block(p.ptr)
  IN  /\ b \in Inner(h) /\ b \in UsedOf(h)
      /\ p.size + TAGS_SIZE <= block_size(h.mem, b)
      /\ p.kept <= p.size
      /\ \A a \in Addr : p.ptr <= a /\ a < p.ptr + p.kept => h.mem[a] = i

Owned(h, l) ==
  /\ l \in [Ids -> Piece]
  /\ \A i \in Ids : l[i] # Nothing => Owner(h, i, l[i])
  /\ \A i, j \in Ids :
       l[i] # Nothing /\ l[j] # Nothing /\ l[i].ptr = l[j].ptr => i = j

(* Every allocated block is held.                                          *)
Covers(h, l) ==
  \A b \in UsedOf(h) \ {prologue, h.epilogue} :
    \E i \in Ids : l[i] # Nothing /\ l[i].ptr = payload(b)

Sound(h, l) ==
  /\ WellFormed(h) /\ Settled(h, {})
  /\ Owned(h, l) /\ (ReallocsNull \/ Covers(h, l))

(* The search has seen nothing but blocks that are too small, and has left *)
(* none out between the head of the list and the block it is at.           *)
Searched(h, c) ==
  \E S \in SUBSET FreeOf(h) :
    /\ h.flist_first \in S \cup {c.curr}
    /\ \A b \in S : /\ block_size(h.mem, b) < c.need
                    /\ block_flink(h.mem, b) \in S \cup {c.curr}

(* The mm_malloc in progress looks at a free block, is about to use one    *)
(* that is large enough, and knows the block it is to replace.             *)
CallFits(c, h, l) ==
  /\ c \in CallType
  /\ c.pc \in {"search", "place"} => c.curr \in FreeOf(h) /\ Searched(h, c)
  /\ c.pc = "sbrk" => \A b \in FreeOf(h) : block_size(h.mem, b) < c.need
  /\ c.pc = "place" => block_size(h.mem, c.curr) >= c.need
  /\ c.pc = "fill" => c.id \in Ids /\ l[c.id] # Nothing
  /\ c.pc \in {"search", "place", "sbrk"} =>
       /\ c.need >= 32 /\ c.need % 8 = 0 /\ c.need < INT_SPAN
       /\ c.size + 16 <= c.need /\ c.size \in Sizes \ {0}
       /\ c.op = "malloc" => c.id \in Ids /\ l[c.id] = Nothing
       /\ c.op = "realloc" =>
            /\ c.id \in Ids /\ l[c.id] # Nothing
            /\ c.old = block_size(h.mem, payload_to_block(l[c.id].ptr))
            /\ c.old + 16 <= c.need
       /\ c.op = "realloc_null" => ReallocsNull

(* The client writes its pattern before it does anything else.             *)
Written(c, l) ==
  \A i \in Ids : l[i] # Nothing /\ (c.pc = "fill" => i # c.id)
                 => l[i].kept = l[i].size

IInv ==
  /\ Sound(heap, live)
  /\ CallFits(call, heap, live)
  /\ Written(call, live)
  /\ resets \in 0 .. MaxResets

(* Whoever is not in I holds what it held before the step, and finds its   *)
(* block as it was.                                                        *)
Spares(I) ==
  \A j \in Ids \ I :
    /\ live'[j] = live[j]
    /\ live[j] # Nothing =>
         Kept(heap, heap', {payload_to_block(live[j].ptr)})

(* i, who had written all it held, holds something else now, with as much  *)
(* of the contents as fits.                                                *)
Exchanges(i) ==
  /\ live'[i] # Nothing /\ live'[i].size \in Sizes \ {0}
  /\ live[i] # Nothing =>
       /\ live[i].kept = live[i].size
       /\ live'[i].kept = IF live'[i].size < live[i].size
                          THEN live'[i].size ELSE live[i].size

(* What a step may do to the client.                                       *)
Honours ==
  \/ Spares({})
  \/ \E i \in Ids :
       /\ Spares({i})
       /\ \/ live'[i] = Nothing
          \/ Exchanges(i)
          \/ /\ live[i] # Nothing
             /\ live'[i] = [live[i] EXCEPT !.kept = live[i].size]
  \/ live' = [i \in Ids |-> Nothing]

-----------------------------------------------------------------------------

(* The allocated blocks that are neither the epilogue nor i's.             *)
Rest(h, l, i) ==
  UsedOf(h) \ ({h.epilogue} \cup IF l[i] = Nothing THEN {}
                                 ELSE {payload_to_block(l[i].ptr)})

(* A call for id i that leaves the heap as r and i with new.               *)
Hands(h, l, i, r, new) ==
  /\ WellFormed(r)
  /\ new \in Piece
  /\ Kept(h, r, Rest(h, l, i))
  /\ r.epilogue \notin Rest(h, l, i)
  /\ new # Nothing => Owner(r, i, new)
                      /\ payload_to_block(new.ptr) \notin Rest(h, l, i)
  /\ UsedOf(r) \subseteq Rest(h, l, i) \cup {prologue, r.epilogue}
       \cup IF new = Nothing THEN {} ELSE {payload_to_block(new.ptr)}
  /\ Settles(h, r)
  /\ payload_to_block(new.ptr) # h.epilogue => r.brk = h.brk

(* What the client records of a payload can be calculated with.            *)
LEMMA PieceInt ==
  ASSUME NEW p \in Piece
  PROVE  p.ptr \in Int /\ p.size \in Nat /\ p.kept \in Nat
<1>1. p.ptr \in Addr \cup {NULL} /\ p.size \in Nat /\ p.kept \in Nat
  BY DEF Piece
<1>2. NULL \in Int
  BY DEF NULL
<1> QED
  BY <1>1, <1>2, AddrInt

(* A block the client holds stays the client's when it is kept.            *)
LEMMA OwnerKept ==
  ASSUME NEW h, WellFormed(h), NEW r, WellFormed(r), NEW i, NEW p \in Piece,
         Owner(h, i, p), NEW S, Kept(h, r, S), payload_to_block(p.ptr) \in S,
         r.epilogue # payload_to_block(p.ptr)
  PROVE  Owner(r, i, p)
<1> DEFINE b == payload_to_block(p.ptr)
<1>1. /\ b \in Inner(h) /\ b \in UsedOf(h)
      /\ p.size + TAGS_SIZE <= block_size(h.mem, b)
      /\ p.kept <= p.size
      /\ \A a \in Addr : p.ptr <= a /\ a < p.ptr + p.kept => h.mem[a] = i
  BY DEF Owner
<1>2. /\ b \in UsedOf(r) /\ block_size(r.mem, b) = block_size(h.mem, b)
      /\ \A a \in Addr : b <= a /\ a < b + block_size(h.mem, b)
                         => r.mem[a] = h.mem[a]
  BY DEF Kept
<1>3. b \in Inner(r)
  BY <1>1, <1>2 DEF Inner, UsedOf
<1>4. /\ b = p.ptr - 8 /\ p.ptr \in Int /\ p.size \in Nat /\ p.kept \in Nat
      /\ block_size(h.mem, b) \in Int
  <2>1. block_size(h.mem, b) \in Int
    BY <1>1, BlockFacts DEF WellFormed, Off, Shaped, Inner
  <2> QED
    BY <2>1, PieceInt DEF payload_to_block
<1> HIDE DEF b
<1>5. \A a \in Addr : p.ptr <= a /\ a < p.ptr + p.kept
                      => b <= a /\ a < b + block_size(h.mem, b)
  <2>1. /\ p.size + 16 <= block_size(h.mem, b) /\ p.kept <= p.size
        /\ p.size \in Int /\ p.kept \in Int
    BY <1>1, <1>4
  <2> QED
    BY <1>4, <2>1, AddrInt
<1>6. \A a \in Addr : p.ptr <= a /\ a < p.ptr + p.kept => r.mem[a] = i
  BY <1>1, <1>2, <1>5
<1> QED
  BY <1>1, <1>2, <1>3, <1>6 DEF Owner, b

(* Somebody else's block is among the rest.                                *)
LEMMA OthersRest ==
  ASSUME NEW h, WellFormed(h), NEW l, Owned(h, l), NEW i \in Ids,
         NEW j \in Ids, j # i, l[j] # Nothing
  PROVE  payload_to_block(l[j].ptr) \in Rest(h, l, i)
<1>1. l[i] \in Piece /\ l[j] \in Piece /\ Owner(h, j, l[j])
  BY DEF Owned
<1>2. l[i].ptr \in Int /\ l[j].ptr \in Int
  BY <1>1, PieceInt
<1>3. l[i] # Nothing => l[i].ptr # l[j].ptr
  BY DEF Owned
<1>4. l[i] # Nothing => payload_to_block(l[i].ptr) # payload_to_block(l[j].ptr)
  BY <1>2, <1>3 DEF payload_to_block
<1>5. /\ payload_to_block(l[j].ptr) \in UsedOf(h)
      /\ payload_to_block(l[j].ptr) # h.epilogue
  BY <1>1 DEF Owner, Inner
<1> QED
  BY <1>4, <1>5 DEF Rest

(* Whatever a call does for one id, nobody else notices.                   *)
LEMMA Handing ==
  ASSUME NEW h, NEW l, Sound(h, l), NEW i \in Ids, NEW r, NEW new,
         Hands(h, l, i, r, new)
  PROVE  Sound(r, [l EXCEPT ![i] = new])
<1> DEFINE l2 == [l EXCEPT ![i] = new]
<1> USE DEF Hands
<1>1. WellFormed(h) /\ Owned(h, l) /\ l \in [Ids -> Piece]
  BY DEF Sound, Owned
<1>2. l2 \in [Ids -> Piece] /\ l2[i] = new
      /\ \A j \in Ids : j # i => l2[j] = l[j]
  BY <1>1
<1> HIDE DEF l2
<1>3. \A j \in Ids : l2[j] # Nothing => Owner(r, j, l2[j])
  <2> TAKE j \in Ids
  <2> HAVE l2[j] # Nothing
  <2>1. CASE j = i
    BY <1>2, <2>1
  <2>2. CASE j # i
    <3>1. payload_to_block(l[j].ptr) \in Rest(h, l, i)
      BY <1>1, <1>2, <2>2, OthersRest
    <3>2. Owner(h, j, l[j]) /\ l[j] \in Piece
      BY <1>1, <1>2, <2>2 DEF Owned
    <3>3. r.epilogue # payload_to_block(l[j].ptr)
      BY <3>1
    <3> QED
      BY <1>1, <1>2, <2>2, <3>1, <3>2, <3>3, OwnerKept
  <2> QED
    BY <2>1, <2>2
<1>4. \A j \in Ids : j # i /\ l2[j] # Nothing /\ l2[i] # Nothing
                     => l2[j].ptr # l2[i].ptr
  <2> TAKE j \in Ids
  <2> HAVE j # i /\ l2[j] # Nothing /\ l2[i] # Nothing
  <2>1. payload_to_block(l[j].ptr) \in Rest(h, l, i)
    BY <1>1, <1>2, OthersRest
  <2> QED
    BY <1>2, <2>1
<1>5. \A j, k \in Ids :
        l2[j] # Nothing /\ l2[k] # Nothing /\ l2[j].ptr = l2[k].ptr => j = k
  <2> TAKE j, k \in Ids
  <2> HAVE l2[j] # Nothing /\ l2[k] # Nothing /\ l2[j].ptr = l2[k].ptr
  <2>1. CASE j = i \/ k = i
    BY <1>4, <2>1
  <2>2. CASE j # i /\ k # i
    BY <1>1, <1>2, <2>2 DEF Owned
  <2> QED
    BY <2>1, <2>2
<1>6. Owned(r, l2)
  BY <1>2, <1>3, <1>5 DEF Owned
<1>7. ASSUME Covers(h, l) PROVE Covers(r, l2)
  <2> SUFFICES ASSUME NEW b \in UsedOf(r) \ {prologue, r.epilogue}
               PROVE  \E j \in Ids : l2[j] # Nothing /\ l2[j].ptr = payload(b)
    BY DEF Covers
  <2>1. CASE b \in Rest(h, l, i)
    <3>1. b \in UsedOf(h) \ {prologue, h.epilogue}
      BY <2>1 DEF Rest
    <3>2. PICK j \in Ids : l[j] # Nothing /\ l[j].ptr = payload(b)
      BY <1>7, <3>1 DEF Covers
    <3>3. b \in Int
      BY <1>1, <3>1, BlockFacts DEF WellFormed, Off, Shaped, UsedOf
    <3>4. payload_to_block(l[j].ptr) = b
      BY <3>2, <3>3 DEF payload, payload_to_block
    <3>5. j # i
      BY <2>1, <3>2, <3>4 DEF Rest
    <3> QED
      BY <1>2, <3>2, <3>5
  <2>2. CASE b \notin Rest(h, l, i)
    <3>1. new # Nothing /\ b = payload_to_block(new.ptr)
      BY <2>2
    <3>2. new.ptr \in Int
      BY PieceInt
    <3>3. new.ptr = payload(b)
      BY <3>1, <3>2 DEF payload, payload_to_block
    <3> QED
      BY <1>2, <3>1, <3>3
  <2> QED
    BY <2>1, <2>2
<1>8. Settled(r, {})
  BY DEF Sound, Settles
<1> QED
  BY <1>6, <1>7, <1>8 DEF Sound, l2

(* A block nobody is told of takes nothing away from anybody.              *)
LEMMA Leaking ==
  ASSUME NEW h, NEW l, Sound(h, l), NEW r, WellFormed(r), ReallocsNull,
         Kept(h, r, UsedOf(h) \ {h.epilogue}),
         r.epilogue \notin UsedOf(h) \ {h.epilogue}, Settles(h, r)
  PROVE  Sound(r, l)
<1>1. WellFormed(h) /\ Owned(h, l)
  BY DEF Sound
<1>2. \A j \in Ids : l[j] # Nothing => Owner(r, j, l[j])
  <2> TAKE j \in Ids
  <2> HAVE l[j] # Nothing
  <2>1. Owner(h, j, l[j]) /\ l[j] \in Piece
    BY <1>1 DEF Owned
  <2>2. payload_to_block(l[j].ptr) \in UsedOf(h) \ {h.epilogue}
    BY <2>1 DEF Owner, Inner
  <2>3. r.epilogue # payload_to_block(l[j].ptr)
    BY <2>2
  <2> QED
    BY <1>1, <2>1, <2>2, <2>3, OwnerKept
<1> QED
  BY <1>1, <1>2 DEF Sound, Owned, Settles

-----------------------------------------------------------------------------

(* The block behind a pointer the client holds.                            *)
LEMMA HeldBlock ==
  ASSUME NEW h, NEW l, Sound(h, l), NEW i \in Ids, l[i] # Nothing
  PROVE  LET b == payload_to_block(l[i].ptr)
         IN  /\ WellFormed(h) /\ l[i] \in Piece /\ Owner(h, i, l[i])
             /\ b \in Inner(h) /\ b \in UsedOf(h) /\ b \in Int /\ b \in Addr
             /\ l[i].ptr = payload(b) /\ l[i].ptr = b + 8
             /\ block_size(h.mem, b) \in Int /\ block_size(h.mem, b) >= 32
             /\ b + block_size(h.mem, b) <= h.epilogue
             /\ h.epilogue + 16 <= mem_max_addr /\ h.epilogue \in Int
             /\ l[i].size + 16 <= block_size(h.mem, b)
             /\ l[i].kept <= l[i].size
             /\ l[i].size \in Nat /\ l[i].kept \in Nat
<1> DEFINE b == payload_to_block(l[i].ptr)
<1>1. /\ WellFormed(h) /\ l[i] \in Piece /\ Owner(h, i, l[i])
      /\ b \in Inner(h) /\ b \in UsedOf(h)
      /\ l[i].size + 16 <= block_size(h.mem, b) /\ l[i].kept <= l[i].size
  BY DEF Sound, Owned, Owner
<1>2. /\ l[i].ptr \in Int /\ l[i].size \in Nat /\ l[i].kept \in Nat
  BY <1>1, PieceInt
<1>3. b = l[i].ptr - 8
  BY DEF payload_to_block
<1> HIDE DEF b
<1>4. /\ Layout(h.mem, h.blocks, h.epilogue) /\ b \in h.blocks
      /\ b \notin {prologue, h.epilogue}
  BY <1>1 DEF WellFormed, Off, Shaped, Inner
<1>5. /\ b \in Int /\ b \in Addr /\ block_size(h.mem, b) \in Int
      /\ block_size(h.mem, b) >= 32
      /\ b + block_size(h.mem, b) <= h.epilogue
  BY <1>4, BlockFacts
<1>6. h.epilogue + 16 <= mem_max_addr /\ h.epilogue \in Int
  BY <1>4, AddrInt DEF Layout, Tiled
<1>7. l[i].ptr = payload(b) /\ l[i].ptr = b + 8
  BY <1>2, <1>3 DEF payload
<1> QED
  BY <1>1, <1>2, <1>5, <1>6, <1>7 DEF b

(* A payload is never what the client records when it holds nothing.       *)
LEMMA NotNothing ==
  ASSUME NEW b \in Addr, NEW n, NEW k
  PROVE  /\ [ptr |-> payload(b), size |-> n, kept |-> k] # Nothing
         /\ payload(b) \in Int /\ payload(b) = b + 8 /\ payload(b) # NULL
         /\ payload_to_block(payload(b)) = b
<1>1. b \in Int /\ b > 0
  BY MemoryAssumption DEF Addr
<1>2. payload(b) = b + 8 /\ payload(b) # 0
  BY <1>1 DEF payload
<1>3. payload_to_block(payload(b)) = b
  BY <1>1, <1>2 DEF payload_to_block
<1>4. [ptr |-> payload(b), size |-> n, kept |-> k].ptr # Nothing.ptr
  BY <1>2 DEF Nothing, NULL
<1> QED
  BY <1>1, <1>2, <1>3, <1>4 DEF NULL

(* mm_malloc's new block.                                                  *)
LEMMA HandsNew ==
  ASSUME NEW h, NEW l, Sound(h, l), NEW i \in Ids, l[i] = Nothing,
         NEW g, NEW b, NEW s \in Int, Obtained(h, g, b, s),
         NEW n \in Nat, n + 16 <= s
  PROVE  Hands(h, l, i, g, [ptr |-> payload(b), size |-> n, kept |-> 0])
<1> DEFINE new == [ptr |-> payload(b), size |-> n, kept |-> 0]
<1>1. /\ WellFormed(g) /\ b \in Inner(g) /\ b \in UsedOf(g)
      /\ block_size(g.mem, b) >= s
  BY DEF Obtained
<1>2. /\ b \in Addr /\ b \in Int /\ block_size(g.mem, b) \in Int
      /\ b + 8 \in Addr
  BY <1>1, BlockFacts DEF WellFormed, Off, Shaped, Inner
<1>3. payload(b) = b + 8 /\ payload_to_block(payload(b)) = b
  BY <1>2, NotNothing
<1>4. new \in Piece
  BY <1>2, <1>3 DEF Piece
<1>5. Owner(g, i, new)
  <2>1. \A a \in Addr : ~ (b + 8 <= a /\ a < b + 8 + 0)
    BY <1>2, AddrInt
  <2>2. n + 16 <= block_size(g.mem, b)
    BY <1>1, <1>2
  <2> QED
    BY <1>1, <1>3, <2>1, <2>2 DEF Owner
<1>6. Rest(h, l, i) = UsedOf(h) \ {h.epilogue}
  BY DEF Rest
<1>7. new # Nothing /\ payload_to_block(new.ptr) = b
  BY <1>2, <1>3, NotNothing
<1> HIDE DEF new
<1>8. Hands(h, l, i, g, new)
  BY <1>4, <1>5, <1>6, <1>7 DEF Hands, Obtained
<1> QED
  BY <1>8 DEF new

(* What mm_realloc leaves, in every case in which the block grows.         *)
LEMMA HandsCarried ==
  ASSUME NEW h, NEW l, Sound(h, l), NEW i \in Ids, l[i] # Nothing,
         NEW r, NEW b, NEW s \in Int,
         Carried(h, r, b, payload_to_block(l[i].ptr), s),
         NEW n \in Nat, n + 16 <= s,
         NEW k \in Nat, k <= n, k <= l[i].kept
  PROVE  Hands(h, l, i, r, [ptr |-> payload(b), size |-> n, kept |-> k])
<1> DEFINE new == [ptr |-> payload(b), size |-> n, kept |-> k]
           ob  == payload_to_block(l[i].ptr)
<1>1. /\ WellFormed(r) /\ b \in Inner(r) /\ b \in UsedOf(r)
      /\ block_size(r.mem, b) >= s
  BY DEF Carried
<1>2. /\ b \in Addr /\ b \in Int /\ block_size(r.mem, b) \in Int
      /\ b + 8 \in Addr
  BY <1>1, BlockFacts DEF WellFormed, Off, Shaped, Inner
<1>3. payload(b) = b + 8 /\ payload_to_block(payload(b)) = b
  BY <1>2, NotNothing
<1>4. new \in Piece
  BY <1>2, <1>3 DEF Piece
<1>5. /\ ob \in Int /\ ob \in Addr /\ l[i].ptr = ob + 8
      /\ block_size(h.mem, ob) \in Int
      /\ l[i].kept + 16 <= block_size(h.mem, ob) /\ l[i].kept \in Nat
      /\ ob + block_size(h.mem, ob) + 16 <= mem_max_addr
      /\ mem_max_addr \in Int
      /\ Owner(h, i, l[i])
  <2>1. mem_max_addr \in Int
    BY MemoryAssumption DEF mem_max_addr
  <2> QED
    BY <2>1, HeldBlock
<1>6. /\ \A a \in Addr : b + 8 <= a /\ a < b + block_size(h.mem, ob) - 8
                        => r.mem[a] = h.mem[ob + (a - b)]
      /\ \A a \in Addr : ob + 8 <= a /\ a < ob + 8 + l[i].kept => h.mem[a] = i
  BY <1>5 DEF Carried, Owner
<1> HIDE DEF ob
<1>7. \A a \in Addr : b + 8 <= a /\ a < b + 8 + k => r.mem[a] = i
  <2> TAKE a \in Addr
  <2> HAVE b + 8 <= a /\ a < b + 8 + k
  <2>1. /\ a \in Int /\ a < b + block_size(h.mem, ob) - 8
        /\ ob + 8 <= ob + (a - b) /\ ob + (a - b) < ob + 8 + l[i].kept
        /\ ob + (a - b) < mem_max_addr
    BY <1>2, <1>5, AddrInt
  <2>2. ob + (a - b) \in Addr
    <3>1. a % 8 = 0 /\ b % 8 = 0
      BY <1>2 DEF Addr
    <3>2. (a - b) % 8 = 0 /\ a - b \in Int
      BY <1>2, <2>1, <3>1
    <3>3. mem_start_brk <= ob /\ mem_start_brk \in Int
      BY <1>5, MemoryAssumption DEF Addr
    <3>4. mem_start_brk <= ob + (a - b)
      BY <1>2, <1>5, <2>1, <3>3
    <3> QED
      BY <1>5, <2>1, <3>2, <3>4, AddrShift
  <2> QED
    BY <1>6, <2>1, <2>2
<1>8. Owner(r, i, new)
  <2>1. n + 16 <= block_size(r.mem, b)
    BY <1>1, <1>2
  <2> QED
    BY <1>1, <1>3, <1>7, <2>1 DEF Owner
<1>9. Rest(h, l, i) = UsedOf(h) \ {h.epilogue, ob}
  BY DEF Rest, ob
<1>10. new # Nothing /\ payload_to_block(new.ptr) = b
  BY <1>2, <1>3, NotNothing
<1> HIDE DEF new
<1>11. Hands(h, l, i, r, new)
  BY <1>4, <1>8, <1>9, <1>10 DEF Hands, Carried, ob
<1> QED
  BY <1>11 DEF new

(* A block that stays as it is, for another size (mm_realloc's shrink).    *)
LEMMA HandsSame ==
  ASSUME NEW h, NEW l, Sound(h, l), NEW i \in Ids, l[i] # Nothing,
         NEW n \in Nat,
         n + 16 <= block_size(h.mem, payload_to_block(l[i].ptr)),
         NEW k \in Nat, k <= n, k <= l[i].kept
  PROVE  Hands(h, l, i, h, [ptr |-> l[i].ptr, size |-> n, kept |-> k])
<1> DEFINE new == [ptr |-> l[i].ptr, size |-> n, kept |-> k]
           b   == payload_to_block(l[i].ptr)
<1>1. /\ WellFormed(h) /\ l[i] \in Piece /\ Owner(h, i, l[i])
      /\ b \in Inner(h) /\ b \in UsedOf(h) /\ b \in Int /\ l[i].ptr = b + 8
      /\ l[i].kept \in Nat
  BY HeldBlock
<1>2. new \in Piece
  BY <1>1 DEF Piece
<1>3. \A a \in Addr : l[i].ptr <= a /\ a < l[i].ptr + k => h.mem[a] = i
  <2>1. \A a \in Addr : a < l[i].ptr + k => a < l[i].ptr + l[i].kept
    BY <1>1, AddrInt
  <2> QED
    BY <1>1, <2>1 DEF Owner
<1>4. Owner(h, i, new)
  BY <1>1, <1>3 DEF Owner
<1>5. /\ Rest(h, l, i) = UsedOf(h) \ {h.epilogue, b}
      /\ Kept(h, h, Rest(h, l, i))
  BY DEF Rest, Kept
<1>6. new # Nothing /\ payload_to_block(new.ptr) = b
  BY <1>1, HeldBlock, NotNothing
<1> HIDE DEF new
<1>7. Hands(h, l, i, h, new)
  BY <1>1, <1>2, <1>4, <1>5, <1>6 DEF Hands, Settles
<1> QED
  BY <1>7 DEF new

(* mm_free of a block the client holds.                                    *)
LEMMA HandsBack ==
  ASSUME NEW h, NEW l, Sound(h, l), NEW i \in Ids, l[i] # Nothing
  PROVE  Hands(h, l, i, mm_free(h, l[i].ptr), Nothing)
<1> DEFINE b == payload_to_block(l[i].ptr)
           r == mm_free(h, l[i].ptr)
<1>1. /\ WellFormed(h) /\ b \in Inner(h) /\ b \in UsedOf(h)
      /\ l[i].ptr = payload(b)
  BY HeldBlock
<1>2. Leaves(h, r, UsedOf(h) \ {b}, UsedOf(h) \ {b})
  BY <1>1, Freeing
<1>3. Nothing \in Piece
  BY DEF Nothing, Piece
<1> HIDE DEF r
<1>4. /\ Rest(h, l, i) = UsedOf(h) \ {h.epilogue, b}
      /\ Kept(h, r, Rest(h, l, i))
  BY <1>2 DEF Rest, Kept, Leaves
<1> QED
  BY <1>2, <1>3, <1>4 DEF Hands, Leaves, r

(* The client fills a block it holds.                                      *)
LEMMA HandsFilled ==
  ASSUME NEW h, NEW l, Sound(h, l), NEW i \in Ids, l[i] # Nothing
  PROVE  Hands(h, l, i, memset(h, l[i].ptr, i, l[i].size),
               [l[i] EXCEPT !.kept = l[i].size])
<1> DEFINE b == payload_to_block(l[i].ptr)
           r == memset(h, l[i].ptr, i, l[i].size)
           new == [l[i] EXCEPT !.kept = l[i].size]
<1>1. /\ WellFormed(h) /\ l[i] \in Piece
      /\ b \in Inner(h) /\ b \in UsedOf(h) /\ l[i].ptr = payload(b)
      /\ l[i].ptr = b + 8 /\ l[i].size \in Nat
      /\ l[i].size + 16 <= block_size(h.mem, b)
  BY HeldBlock
<1>2. i \in Int
  BY ClientAssumption
<1>3. /\ Writes(h, r, b)
      /\ \A a \in Addr : b + 8 <= a /\ a < b + 8 + l[i].size => r.mem[a] = i
  BY <1>1, <1>2, Setting
<1> HIDE DEF r
<1>4. /\ Leaves(h, r, UsedOf(h), UsedOf(h) \ {b}) /\ r.blocks = h.blocks
      /\ \A c \in h.blocks : block_size(r.mem, c) = block_size(h.mem, c)
  BY <1>1, <1>3, Writing
<1>5. /\ WellFormed(r) /\ r.epilogue = h.epilogue /\ UsedOf(r) = UsedOf(h)
      /\ Kept(h, r, UsedOf(h) \ {b}) /\ Settles(h, r) /\ r.brk = h.brk
  BY <1>4 DEF Leaves
<1>6. /\ new \in Piece /\ new.ptr = l[i].ptr /\ new.size = l[i].size
      /\ new.kept = l[i].size
  BY <1>1 DEF Piece
<1> HIDE DEF new
<1>7. Owner(r, i, new)
  <2>1. b \in Inner(r) /\ block_size(r.mem, b) = block_size(h.mem, b)
    BY <1>1, <1>4, <1>5 DEF Inner
  <2>2. new.kept <= new.size
    BY <1>1, <1>6
  <2> QED
    BY <1>1, <1>3, <1>5, <1>6, <2>1, <2>2 DEF Owner
<1>8. /\ Rest(h, l, i) = UsedOf(h) \ {h.epilogue, b}
      /\ Kept(h, r, Rest(h, l, i))
  BY <1>5 DEF Rest, Kept
<1>9. new # Nothing
  <2>1. b \in Addr
    BY HeldBlock
  <2>2. new.ptr # 0
    BY <1>1, <1>6, <2>1, NotNothing DEF NULL
  <2> QED
    BY <2>2 DEF Nothing, NULL
<1> QED
  BY <1>1, <1>5, <1>6, <1>7, <1>8, <1>9 DEF Hands, r, new

-----------------------------------------------------------------------------

(* A call for id i spares everybody else.                                  *)
LEMMA HandsSpares ==
  ASSUME Sound(heap, live), NEW i \in Ids, NEW new,
         Hands(heap, live, i, heap', new), live' = [live EXCEPT ![i] = new]
  PROVE  Spares({i}) /\ live'[i] = new
<1>1. WellFormed(heap) /\ Owned(heap, live) /\ live \in [Ids -> Piece]
  BY DEF Sound, Owned
<1>2. SUFFICES ASSUME NEW j \in Ids \ {i}, live[j] # Nothing
               PROVE  Kept(heap, heap', {payload_to_block(live[j].ptr)})
  BY <1>1 DEF Spares
<1>3. payload_to_block(live[j].ptr) \in Rest(heap, live, i)
  BY <1>1, <1>2, OthersRest
<1> QED
  BY <1>3 DEF Hands, Kept

(* A step that leaves heap and holdings alone spares everybody.            *)
LEMMA IdleSpares ==
  ASSUME Sound(heap, live), heap' = heap, live' = live
  PROVE  Honours
<1>1. \A j \in Ids : live[j] # Nothing =>
                      payload_to_block(live[j].ptr) \in UsedOf(heap)
  BY HeldBlock
<1> QED
  BY <1>1 DEF Honours, Spares, Kept

(* Only a call that hands a block out leaves something to be written.      *)
LEMMA StillWritten ==
  ASSUME Written(call, live), call.pc # "fill", live' = live
  PROVE  Written(call', live')
BY DEF Written

(* align: up to the next multiple of the word size, by less than a word.   *)
LEMMA AlignFacts ==
  ASSUME NEW n \in Nat
  PROVE  /\ align(n) \in Nat /\ align(n) % 8 = 0
         /\ n <= align(n) /\ align(n) <= n + 7
BY DEF align

(* The int has room for every request the client can make, twice aligned.  *)
LEMMA SpanFacts == INT_MAX \in Int /\ INT_MAX >= 64 /\ INT_SPAN = 2 * INT_MAX + 2
BY MemoryAssumption DEF INT_MAX

(* mm_malloc starts on a list that is empty or headed by a free block.     *)
LEMMA Starting ==
  ASSUME Sound(heap, live),
         NEW op \in {"malloc", "realloc", "realloc_null"}, NEW i \in Ids \cup {0},
         NEW n \in Sizes \ {0}, n \in Nat, NEW asked \in Nat, NEW old \in Nat,
         n <= asked, asked <= INT_MAX + 23,
         op = "malloc" => i \in Ids /\ live[i] = Nothing,
         op = "realloc" =>
           /\ i \in Ids /\ live[i] # Nothing
           /\ old = block_size(heap.mem, payload_to_block(live[i].ptr))
           /\ old <= asked,
         op = "realloc_null" => ReallocsNull,
         mm_malloc(op, i, n, asked, old)
  PROVE  CallFits(call', heap, live)
<1> DEFINE b_size == align(asked) + TAGS_SIZE
           need == IF b_size < MINBLOCKSIZE THEN MINBLOCKSIZE ELSE b_size
<1>1. /\ need \in Nat /\ need >= 32 /\ need % 8 = 0 /\ need < INT_SPAN
      /\ n + 16 <= need /\ asked + 16 <= need
  <2>1. /\ align(asked) \in Nat /\ align(asked) % 8 = 0
        /\ asked <= align(asked) /\ align(asked) <= asked + 7
    BY AlignFacts
  <2>2. (align(asked) + 16) % 8 = 0
    BY <2>1
  <2> QED
    BY <2>1, <2>2, SpanFacts
<1>2. /\ call'.pc = IF heap.flist_first = NULL THEN "sbrk" ELSE "search"
      /\ call'.op = op /\ call'.id = i /\ call'.size = n /\ call'.old = old
      /\ call'.need = need /\ call'.curr = heap.flist_first
  BY DEF mm_malloc
<1>3. heap.flist_first \in Addr \cup {NULL}
  BY DEF Sound, WellFormed, Off, Shaped, HeapType
<1>4. call' \in CallType
  <2>1. call' = [pc |-> IF heap.flist_first = NULL THEN "sbrk" ELSE "search",
                 op |-> op, id |-> i, size |-> n, old |-> old,
                 need |-> need, curr |-> heap.flist_first]
    BY DEF mm_malloc
  <2>2. need \in Nat
    BY <1>1
  <2> HIDE DEF need
  <2> QED
    BY <1>3, <2>1, <2>2 DEF CallType
<1> HIDE DEF need
<1>5. heap.flist_first # NULL => heap.flist_first \in FreeOf(heap)
  <2>1. Ring(heap.mem, heap.flist_first, FreeOf(heap) \ {})
    BY DEF Sound, WellFormed, Off
  <2> QED
    BY <2>1 DEF Ring
<1>6. op = "realloc" => old + 16 <= need
  BY <1>1
<1>7. heap.flist_first = NULL => FreeOf(heap) = {}
  <2>1. Ring(heap.mem, heap.flist_first, FreeOf(heap) \ {})
    BY DEF Sound, WellFormed, Off
  <2>2. NULL \notin FreeOf(heap)
    <3>1. FreeOf(heap) \subseteq Addr
      BY FreeInner DEF Sound, WellFormed, Off
    <3>2. NULL \notin Addr
      BY MemoryAssumption DEF Addr, NULL
    <3> QED
      BY <3>1, <3>2
  <2> QED
    BY <2>1, <2>2 DEF Ring
<1>8. Searched(heap, call')
  <2>1. {} \in SUBSET FreeOf(heap) /\ heap.flist_first \in {} \cup {call'.curr}
    BY <1>2
  <2> QED
    BY <2>1 DEF Searched
<1> QED
  BY <1>1, <1>2, <1>4, <1>5, <1>6, <1>7, <1>8 DEF CallFits

(* A call that ends in the client's writing its pattern.                   *)
LEMMA Received ==
  ASSUME IInv, NEW i \in Ids, NEW p, NEW n, NEW k,
         Hands(heap, live, i, heap', [ptr |-> p, size |-> n, kept |-> k]),
         [ptr |-> p, size |-> n, kept |-> k] # Nothing,
         Receives(i, p, n, k), resets' = resets, call.pc # "fill",
         n \in Sizes \ {0}, n \in Nat,
         live[i] # Nothing =>
           k = IF n < live[i].kept THEN n ELSE live[i].kept
  PROVE  IInv' /\ Honours
         /\ (payload_to_block(p) # heap.epilogue => heap'.brk = heap.brk)
<1> DEFINE new == [ptr |-> p, size |-> n, kept |-> k]
<1>1. Sound(heap, live) /\ live \in [Ids -> Piece]
  BY DEF IInv, Sound, Owned
<1>2. live' = [live EXCEPT ![i] = new] /\ call' = [Idle EXCEPT !.pc = "fill", !.id = i]
  BY DEF Receives
<1>3. Sound(heap', live')
  BY <1>1, <1>2, Handing
<1>4. live'[i] # Nothing
  BY <1>1, <1>2
<1>5. /\ call' \in CallType /\ call'.pc = "fill" /\ call'.id = i
  BY <1>2 DEF Idle, CallType
<1>6. CallFits(call', heap', live')
  BY <1>4, <1>5 DEF CallFits
<1>7. Written(call', live')
  BY <1>1, <1>2, <1>5 DEF IInv, Written
<1>8. Spares({i}) /\ live'[i] = new
  BY <1>1, <1>2, HandsSpares
<1>9. Exchanges(i)
  <2>1. new.size = n /\ new.kept = k
    OBVIOUS
  <2>2. live[i] # Nothing => live[i].kept = live[i].size
    BY DEF IInv, Written
  <2> HIDE DEF new
  <2> QED
    BY <1>4, <1>8, <2>1, <2>2 DEF Exchanges
<1>10. Honours
  BY <1>8, <1>9 DEF Honours
<1> QED
  BY <1>3, <1>6, <1>7, <1>10 DEF IInv, Hands

(* Without a call in progress nothing has to be remembered.                *)
LEMMA IdleFits ==
  ASSUME NEW h, NEW l
  PROVE  CallFits(Idle, h, l)
<1>1. Idle \in CallType /\ Idle.pc = "idle"
  BY DEF Idle, CallType
<1> QED
  BY <1>1 DEF CallFits

(* mm_malloc returns the payload of b.                                     *)
LEMMA Returning ==
  ASSUME IInv, call.pc \in {"place", "sbrk"}, NEW g, NEW b,
         Obtained(heap, g, b, call.need), Returned(g, payload(b)),
         resets' = resets
  PROVE  IInv' /\ Honours /\ (b # heap.epilogue => heap'.brk = heap.brk)
<1> DEFINE i == call.id
           s == call.need
           n == call.size
           kept == IF n < live[i].kept THEN n ELSE live[i].kept
<1>1. /\ Sound(heap, live) /\ s \in Int /\ n \in Nat /\ n + 16 <= s
      /\ n \in Sizes \ {0} /\ call.pc # "fill"
      /\ call.op = "malloc" => i \in Ids /\ live[i] = Nothing
      /\ call.op = "realloc" =>
           /\ i \in Ids /\ live[i] # Nothing
           /\ call.old = block_size(heap.mem, payload_to_block(live[i].ptr))
           /\ call.old + 16 <= s
      /\ call.op = "realloc_null" => ReallocsNull
  BY DEF IInv, CallFits, CallType
<1>2. b \in Addr
  BY BlockFacts DEF Obtained, WellFormed, Off, Shaped, Inner
<1>3. payload(b) # NULL /\ payload_to_block(payload(b)) = b
  BY <1>2, NotNothing
<1> HIDE DEF i, s, n
<1>4. CASE call.op = "malloc" /\ payload(b) # NULL /\ heap' = g
           /\ Receives(i, payload(b), n, 0)
  <2>1. Hands(heap, live, i, heap', [ptr |-> payload(b), size |-> n, kept |-> 0])
    BY <1>1, <1>4, HandsNew DEF s
  <2>2. [ptr |-> payload(b), size |-> n, kept |-> 0] # Nothing
    BY <1>2, NotNothing
  <2> QED
    BY <1>1, <1>3, <1>4, <2>1, <2>2, Received
<1>5. CASE /\ call.op = "realloc" /\ payload(b) # NULL
           /\ heap' = mm_free(memmove(g, payload(b), live[i].ptr, call.old),
                              live[i].ptr)
           /\ Receives(i, payload(b), n, kept)
  <2> DEFINE ob == payload_to_block(live[i].ptr)
  <2>1. /\ WellFormed(heap) /\ ob \in Inner(heap) /\ ob \in UsedOf(heap)
        /\ live[i].ptr = payload(ob) /\ live[i].kept \in Nat
    BY <1>1, <1>5, HeldBlock
  <2>2. call.old = block_size(heap.mem, ob) /\ block_size(heap.mem, ob) + 16 <= s
    BY <1>1, <1>5
  <2> HIDE DEF ob
  <2>3. Carried(heap, mm_free(memmove(g, payload(b), payload(ob),
                                      block_size(heap.mem, ob)), payload(ob)),
                b, ob, s)
    BY <1>1, <2>1, <2>2, Carrying DEF s
  <2>4. heap' = mm_free(memmove(g, payload(b), payload(ob),
                                block_size(heap.mem, ob)), payload(ob))
    BY <1>5, <2>1, <2>2
  <2>5. Carried(heap, heap', b, payload_to_block(live[i].ptr), s)
    BY <2>3, <2>4 DEF ob
  <2>6. kept \in Nat /\ kept <= n /\ kept <= live[i].kept
    BY <1>1, <2>1
  <2> HIDE DEF kept
  <2>7. Hands(heap, live, i, heap',
              [ptr |-> payload(b), size |-> n, kept |-> kept])
    BY <1>1, <1>5, <2>5, <2>6, HandsCarried
  <2>8. [ptr |-> payload(b), size |-> n, kept |-> kept] # Nothing
    BY <1>2, NotNothing
  <2> QED
    BY <1>1, <1>3, <1>5, <2>7, <2>8, Received DEF kept
<1>6. CASE /\ call.op = "realloc_null" \/ payload(b) = NULL
           /\ heap' = g /\ call' = Idle /\ live' = live
  <2>1. ReallocsNull
    BY <1>1, <1>3, <1>6
  <2>2. Sound(g, live)
    BY <1>1, <2>1, Leaking DEF Obtained
  <2>3. CallFits(call', heap', live') /\ Written(call', live')
    BY <1>1, <1>6, IdleFits, StillWritten DEF IInv
  <2>4. Honours
    <3>1. \A j \in Ids : live[j] # Nothing =>
            payload_to_block(live[j].ptr) \in UsedOf(heap) \ {heap.epilogue}
      BY <1>1, HeldBlock DEF Inner
    <3>2. Kept(heap, heap', UsedOf(heap) \ {heap.epilogue})
      BY <1>6 DEF Obtained
    <3> QED
      BY <1>6, <3>1, <3>2 DEF Honours, Spares, Kept
  <2> QED
    BY <1>6, <2>2, <2>3, <2>4 DEF IInv, Obtained
<1> QED
  BY <1>4, <1>5, <1>6 DEF Returned, i, n

-----------------------------------------------------------------------------

(* A heap fresh from mm_init, nobody holding anything of it.               *)
LEMMA FreshSound ==
  ASSUME NEW m \in [Addr -> Int]
  PROVE  Sound(mm_init(m), [i \in Ids |-> Nothing])
<1> DEFINE r == mm_init(m)
           l == [i \in Ids |-> Nothing]
<1>1. /\ WellFormed(r) /\ UsedOf(r) = {prologue, r.epilogue}
      /\ Settled(r, {})
  BY Initialising DEF Fresh, Settled
<1>2. Nothing \in Piece
  BY DEF Nothing, Piece
<1>3. l \in [Ids -> Piece] /\ \A i \in Ids : l[i] = Nothing
  BY <1>2
<1> HIDE DEF r, l
<1>4. Owned(r, l) /\ Covers(r, l)
  BY <1>1, <1>3 DEF Owned, Covers
<1> QED
  BY <1>1, <1>4 DEF Sound, r, l

(* The program starts with mm_init, on memory with anything in it.         *)
LEMMA InitSound == Init => IInv
<1> SUFFICES ASSUME Init PROVE IInv
  OBVIOUS
<1>1. PICK j \in Junk : heap = mm_init([a \in Addr |-> j])
  BY DEF Init
<1>2. [a \in Addr |-> j] \in [Addr -> Int]
  BY ClientAssumption
<1>3. Sound(heap, live)
  BY <1>1, <1>2, FreshSound DEF Init
<1>4. CallFits(call, heap, live)
  BY IdleFits DEF Init
<1>5. Written(call, live)
  BY DEF Init, Written
<1> QED
  BY <1>3, <1>4, <1>5, ClientAssumption DEF Init, IInv

(* mm_free, or mm_realloc to size 0, of a block the client holds.          *)
LEMMA ReleasesSound ==
  ASSUME IInv, Ready, NEW i \in Ids, live[i] # Nothing, Releases(i),
         resets' = resets
  PROVE  IInv' /\ Honours /\ heap'.brk = heap.brk
<1>1. Sound(heap, live)
  BY DEF IInv
<1>2. Hands(heap, live, i, heap', Nothing)
  BY <1>1, HandsBack DEF Releases
<1>3. Sound(heap', live')
  BY <1>1, <1>2, Handing DEF Releases
<1>4. CallFits(call', heap', live')
  BY DEF IInv, CallFits, Releases, Ready, At
<1>5. payload_to_block(Nothing.ptr) # heap.epilogue
  <2>1. heap.epilogue \in Addr
    BY <1>1 DEF Sound, WellFormed, Off, Shaped, HeapType
  <2> QED
    BY <2>1, MemoryAssumption DEF Addr, Nothing, NULL, payload_to_block
<1>6. Written(call', live')
  BY <1>1 DEF IInv, Written, Releases, Ready, At, Sound, Owned
<1>7. Honours
  <2>1. Spares({i}) /\ live'[i] = Nothing
    BY <1>1, <1>2, HandsSpares DEF Releases
  <2> QED
    BY <2>1 DEF Honours
<1> QED
  BY <1>2, <1>3, <1>4, <1>5, <1>6, <1>7 DEF IInv, Hands

(* One step of mm_malloc's loop that finds a block.                        *)
LEMMA SearchFitsSound == IInv /\ SearchFits => IInv' /\ Honours /\ heap'.brk = heap.brk
<1> SUFFICES ASSUME IInv, SearchFits PROVE IInv' /\ Honours /\ heap'.brk = heap.brk
  OBVIOUS
<1>1. call \in CallType /\ call' = [call EXCEPT !.pc = "place"]
      /\ heap' = heap /\ live' = live /\ resets' = resets /\ call.pc = "search"
      /\ block_size(heap.mem, call.curr) >= call.need
  BY DEF SearchFits, At, IInv, CallFits
<1>2. /\ call' \in CallType /\ call'.pc = "place"
      /\ call'.op = call.op /\ call'.id = call.id /\ call'.size = call.size
      /\ call'.need = call.need /\ call'.curr = call.curr
      /\ call'.old = call.old
  BY <1>1 DEF CallType
<1>3. Searched(heap, call) => Searched(heap, call')
  BY <1>2 DEF Searched
<1>4. CallFits(call', heap, live)
  BY <1>1, <1>2, <1>3 DEF IInv, CallFits
<1> QED
  BY <1>1, <1>4, IdleSpares, StillWritten DEF IInv

(* And one that goes on: the next block of the ring is free as well.       *)
LEMMA SearchMovesOnSound == IInv /\ SearchMovesOn => IInv' /\ Honours /\ heap'.brk = heap.brk
<1> SUFFICES ASSUME IInv, SearchMovesOn PROVE IInv' /\ Honours /\ heap'.brk = heap.brk
  OBVIOUS
<1> DEFINE next == block_flink(heap.mem, call.curr)
           pc   == IF next = heap.flist_first THEN "sbrk" ELSE "search"
<1>1. call \in CallType /\ call.pc = "search" /\ call.curr \in FreeOf(heap)
      /\ WellFormed(heap) /\ block_size(heap.mem, call.curr) < call.need
      /\ Searched(heap, call)
  BY DEF SearchMovesOn, At, IInv, CallFits, Sound
<1>2. heap' = heap
  BY <1>1 DEF SearchMovesOn, check, FreeOf, FreeBlocks
<1>3. /\ call' = [call EXCEPT !.curr = next, !.pc = pc]
      /\ live' = live /\ resets' = resets
  BY DEF SearchMovesOn
<1>4. next \in FreeOf(heap)
  <2>1. Ring(heap.mem, heap.flist_first, FreeOf(heap) \ {})
    BY <1>1 DEF WellFormed, Off
  <2> QED
    BY <1>1, <2>1 DEF Ring
<1>5. next \in Addr
  BY <1>1, <1>4 DEF FreeOf, FreeBlocks, WellFormed, Off, Shaped, Layout
<1> HIDE DEF next
<1>6. /\ call' \in CallType /\ call'.pc \in {"sbrk", "search"}
      /\ call'.op = call.op /\ call'.id = call.id /\ call'.size = call.size
      /\ call'.need = call.need /\ call'.curr = next /\ call'.old = call.old
  BY <1>1, <1>3, <1>5 DEF CallType
<1>7. PICK S \in SUBSET FreeOf(heap) :
        /\ heap.flist_first \in S \cup {call.curr}
        /\ \A b \in S : /\ block_size(heap.mem, b) < call.need
                        /\ block_flink(heap.mem, b) \in S \cup {call.curr}
  BY <1>1 DEF Searched
<1> DEFINE T == S \cup {call.curr}
<1>8. /\ T \in SUBSET FreeOf(heap) /\ heap.flist_first \in T
      /\ \A b \in T : /\ block_size(heap.mem, b) < call.need
                      /\ block_flink(heap.mem, b) \in T \cup {next}
  BY <1>1, <1>7 DEF next
<1>9. Searched(heap, call')
  BY <1>6, <1>8 DEF Searched
<1>10. call'.pc = "sbrk" =>
         \A b \in FreeOf(heap) : block_size(heap.mem, b) < call.need
  <2> HAVE call'.pc = "sbrk"
  <2>1. next = heap.flist_first
    BY <1>1, <1>3 DEF CallType
  <2>2. Ring(heap.mem, heap.flist_first, FreeOf(heap))
    <3>1. FreeOf(heap) \ {} = FreeOf(heap)
      OBVIOUS
    <3> QED
      BY <1>1, <3>1, Zenon DEF WellFormed, Off
  <2>3. T # {} /\ \A b \in T : block_flink(heap.mem, b) \in T
    BY <1>8, <2>1
  <2>4. T = FreeOf(heap)
    BY <1>8, <2>2, <2>3 DEF Ring
  <2> QED
    BY <1>8, <2>4
<1>11. CallFits(call', heap, live)
  BY <1>1, <1>4, <1>6, <1>9, <1>10 DEF IInv, CallFits
<1> QED
  BY <1>1, <1>2, <1>3, <1>11, IdleSpares, StillWritten DEF IInv

(* mm_malloc returns a free block.                                         *)
LEMMA PlacedSound == IInv /\ Placed => IInv' /\ Honours /\ heap'.brk = heap.brk
<1> SUFFICES ASSUME IInv, Placed PROVE IInv' /\ Honours /\ heap'.brk = heap.brk
  OBVIOUS
<1>1. /\ call.pc = "place" /\ call.curr \in FreeOf(heap)
      /\ block_size(heap.mem, call.curr) >= call.need
      /\ call.need \in Int /\ call.need >= 32 /\ call.need % 8 = 0
      /\ WellFormed(heap)
  BY DEF Placed, At, IInv, CallFits, CallType, Sound
<1>2. block_size(heap.mem, call.curr) \in Int
  BY <1>1, BlockFacts DEF WellFormed, Off, Shaped, FreeOf, FreeBlocks
<1>3. call.need <= block_size(heap.mem, call.curr)
  BY <1>1, <1>2
<1>4. Obtained(heap, place(heap, call.curr, call.need), call.curr, call.need)
  BY <1>1, <1>3, ObtainPlace
<1>5. call.curr # heap.epilogue
  BY <1>1, FreeInner DEF WellFormed, Off, Inner
<1> QED
  BY <1>1, <1>4, <1>5, Returning DEF Placed

(* mm_malloc returns new memory.                                           *)
LEMMA ExtendsSound == IInv /\ Extends => IInv' /\ Honours
<1> SUFFICES ASSUME IInv, Extends PROVE IInv' /\ Honours
  OBVIOUS
<1>1. /\ call.pc = "sbrk" /\ WellFormed(heap)
      /\ call.need \in Nat /\ call.need >= 32 /\ call.need % 8 = 0
      /\ call.need < INT_SPAN
      /\ ~ (ToInt(call.need) < 0)
      /\ ~ (heap.brk + ToInt(call.need) > mem_max_addr)
  BY DEF Extends, At, IInv, CallFits, CallType, Sound, sbrk_refuses
<1>2. ToInt(call.need) = call.need
  BY <1>1, Narrowing, SpanFacts
<1>3. heap.brk \in Int /\ mem_max_addr \in Int
  BY <1>1, MemoryAssumption
     DEF WellFormed, Off, Shaped, HeapType, mem_max_addr
<1>4. heap.brk + call.need <= mem_max_addr
  BY <1>1, <1>2, <1>3
<1>5. Obtained(heap, extend(heap, call.need), heap.epilogue, call.need)
  BY <1>1, <1>2, <1>4, ObtainExtend
<1> QED
  BY <1>1, <1>5, Returning DEF Extends

(* mm_malloc fails: nothing has changed.                                   *)
LEMMA OutOfMemorySound == IInv /\ OutOfMemory => IInv' /\ Honours /\ heap'.brk = heap.brk
<1> SUFFICES ASSUME IInv, OutOfMemory PROVE IInv' /\ Honours /\ heap'.brk = heap.brk
  OBVIOUS
<1>1. heap' = heap /\ call' = Idle /\ live' = live /\ resets' = resets
  BY DEF OutOfMemory, Returned
<1>2. CallFits(call', heap, live)
  BY <1>1, IdleFits
<1>3. call.pc # "fill"
  BY DEF OutOfMemory, At
<1> QED
  BY <1>1, <1>2, <1>3, IdleSpares, StillWritten DEF IInv

(* The client writes its pattern.                                          *)
LEMMA FillSound == IInv /\ Fill => IInv' /\ Honours /\ heap'.brk = heap.brk
<1> SUFFICES ASSUME IInv, Fill PROVE IInv' /\ Honours /\ heap'.brk = heap.brk
  OBVIOUS
<1> DEFINE i == call.id
           new == [live[i] EXCEPT !.kept = live[i].size]
<1>1. /\ Sound(heap, live) /\ i \in Ids /\ live[i] # Nothing
      /\ live \in [Ids -> Piece]
  BY DEF IInv, CallFits, Fill, At, Sound, Owned
<1>2. /\ heap' = memset(heap, live[i].ptr, i, live[i].size)
      /\ live' = [live EXCEPT ![i] = new]
      /\ call' = Idle /\ resets' = resets
  BY <1>1 DEF Fill
<1>3. Hands(heap, live, i, heap', new)
  BY <1>1, <1>2, HandsFilled
<1> HIDE DEF new
<1>4. Sound(heap', live')
  BY <1>1, <1>2, <1>3, Handing
<1>5. heap'.brk = heap.brk
  <2>1. payload_to_block(live[i].ptr) # heap.epilogue /\ new.ptr = live[i].ptr
    BY <1>1, HeldBlock DEF new, Inner, Piece
  <2> QED
    BY <1>3, <2>1 DEF Hands
<1>6. Written(call', live')
  BY <1>1, <1>2 DEF IInv, Written, new, Piece
<1>7. Honours
  <2>1. Spares({i}) /\ live'[i] = new
    BY <1>1, <1>2, <1>3, HandsSpares
  <2> QED
    BY <1>1, <2>1 DEF Honours, new
<1> QED
  BY <1>2, <1>4, <1>5, <1>6, <1>7, IdleFits DEF IInv

(* A new trace starts.                                                     *)
LEMMA NextTraceSound == IInv /\ NextTrace => IInv' /\ Honours /\ heap'.brk <= heap.brk
<1> SUFFICES ASSUME IInv, NextTrace PROVE IInv' /\ Honours /\ heap'.brk <= heap.brk
  OBVIOUS
<1>1. heap.mem \in [Addr -> Int]
  BY DEF IInv, Sound, WellFormed, Off, Shaped, HeapType
<1>2. Sound(heap', live')
  BY <1>1, FreshSound DEF NextTrace
<1>3. CallFits(call', heap', live')
  BY DEF IInv, CallFits, NextTrace, Ready, At
<1>4. resets' \in 0 .. MaxResets
  BY ClientAssumption DEF NextTrace, IInv
<1>5. heap'.brk <= heap.brk
  <2>1. Fresh(heap')
    BY <1>1, Initialising DEF NextTrace
  <2>2. heap'.brk = prologue + 32
    BY <2>1, MemoryAssumption DEF Fresh, WellFormed, Off, Shaped
  <2>3. /\ Layout(heap.mem, heap.blocks, heap.epilogue)
        /\ heap.brk = heap.epilogue + 16
    BY DEF IInv, Sound, WellFormed, Off, Shaped
  <2>4. prologue + 16 <= heap.epilogue /\ heap.epilogue \in Int
    BY <2>3, MemoryAssumption, AddrInt DEF Layout, Tiled, block_next
  <2> QED
    BY <2>2, <2>3, <2>4, MemoryAssumption
<1>6. Written(call', live') /\ Honours
  BY DEF NextTrace, Written, Honours
<1> QED
  BY <1>2, <1>3, <1>4, <1>5, <1>6 DEF IInv

(* The client's calls of mm_malloc.                                        *)
LEMMA MallocSound ==
  ASSUME IInv, NEW i \in Ids, NEW n \in Sizes, Malloc(i, n)
  PROVE  IInv' /\ Honours /\ heap'.brk = heap.brk
<1>1. n \in Nat /\ n <= INT_MAX + 23 /\ n <= n /\ 0 \in Nat
  BY ClientAssumption, SpanFacts
<1>2. Sound(heap, live)
  BY DEF IInv
<1>3. CallFits(call', heap, live)
  BY <1>1, <1>2, Starting DEF Malloc
<1> QED
  BY <1>2, <1>3, IdleSpares, StillWritten DEF Malloc, IInv, Ready, At

(* The call mm_realloc makes for mm_realloc(NULL, n).                      *)
LEMMA ReallocNullSound ==
  ASSUME IInv, NEW n \in Sizes, ReallocNull(n)
  PROVE  IInv' /\ Honours /\ heap'.brk = heap.brk
<1>1. n \in Nat /\ n <= INT_MAX + 23 /\ n <= n /\ 0 \in Nat
  BY ClientAssumption, SpanFacts
<1>2. Sound(heap, live) /\ ReallocsNull
  BY DEF IInv, ReallocNull
<1>3. CallFits(call', heap, live)
  BY <1>1, <1>2, Starting DEF ReallocNull
<1> QED
  BY <1>2, <1>3, IdleSpares, StillWritten DEF ReallocNull, IInv, Ready, At

(* mm_realloc has made the block b, of s bytes, out of the old one and its *)
(* neighbours, and moved the payload there.                                *)
LEMMA Regrown ==
  ASSUME IInv, NEW i \in Ids, live[i] # Nothing, NEW b, NEW s \in Int,
         Carried(heap, heap', b, payload_to_block(live[i].ptr), s),
         NEW n \in Nat, n + 16 <= s, n \in Sizes \ {0},
         NEW k \in Nat, k <= n, k <= live[i].kept,
         k = IF n < live[i].kept THEN n ELSE live[i].kept,
         Receives(i, payload(b), n, k), resets' = resets, b # heap.epilogue,
         call.pc # "fill"
  PROVE  IInv' /\ Honours /\ heap'.brk = heap.brk
<1>1. Sound(heap, live)
  BY DEF IInv
<1>2. Hands(heap, live, i, heap', [ptr |-> payload(b), size |-> n, kept |-> k])
  BY <1>1, HandsCarried
<1>3. b \in Addr
  BY BlockFacts DEF Carried, WellFormed, Off, Shaped, Inner
<1>4. /\ [ptr |-> payload(b), size |-> n, kept |-> k] # Nothing
      /\ payload_to_block(payload(b)) = b
  BY <1>3, NotNothing
<1> QED
  BY <1>2, <1>4, Received

(* mm_realloc, by the first case that applies.                             *)
LEMMA ReallocSound ==
  ASSUME IInv, NEW i \in Ids, NEW n \in Sizes, Realloc(i, n)
  PROVE  IInv' /\ Honours /\ heap'.brk = heap.brk
<1> DEFINE ptr  == live[i].ptr
           b    == payload_to_block(ptr)
           need == align(n) + TAGS_SIZE
           m    == heap.mem
           old  == block_size(m, b)
           next == block_next(m, b)
           prev == block_prev(m, b)
           kept == IF n < live[i].kept THEN n ELSE live[i].kept
           p1   == pull_free_block(heap, prev)
           n1   == pull_free_block(heap, next)
           n2   == pull_free_block(n1, prev)
           s1   == old + block_size(p1.mem, prev)
           s2   == old + block_size(n1.mem, next)
           s3   == old + block_size(n2.mem, next) + block_size(n2.mem, prev)
<1>1. /\ Sound(heap, live) /\ live[i] # Nothing /\ Ready /\ resets' = resets
      /\ n \in Nat /\ n <= INT_MAX /\ call.pc # "fill"
  BY ClientAssumption DEF IInv, Realloc, Ready, At
<1>2. /\ WellFormed(heap) /\ b \in Inner(heap) /\ b \in UsedOf(heap)
      /\ ptr = payload(b) /\ old \in Int /\ old >= 32 /\ b \in Addr
      /\ live[i].kept \in Nat
  BY <1>1, HeldBlock
<1>3. need \in Nat /\ n + 16 <= need /\ need <= n + 23
  BY <1>1, AlignFacts, SMTT(30)
<1>4. /\ kept \in Nat /\ kept <= n /\ kept <= live[i].kept
      /\ kept = IF n < live[i].kept THEN n ELSE live[i].kept
  BY <1>1, <1>2
<1>5. /\ prev \in heap.blocks /\ next \in heap.blocks
      /\ block_size(m, prev) \in Int /\ block_size(m, prev) >= 16
      /\ block_size(m, next) \in Int /\ block_size(m, next) >= 16
  BY <1>2, Neighbours DEF WellFormed, Off
<1>6. /\ ~ block_allocated(m, prev) => prev \in FreeOf(heap)
      /\ ~ block_allocated(m, next) => next \in FreeOf(heap)
  BY <1>5 DEF FreeOf, FreeBlocks
<1> DEFINE with_prev == ~ block_allocated(m, prev)
                        /\ old + block_size(m, prev) >= need
           with_next == ~ block_allocated(m, next)
                        /\ old + block_size(m, next) >= need
           with_both == /\ ~ block_allocated(m, prev)
                        /\ ~ block_allocated(m, next)
                        /\ old + block_size(m, prev) + block_size(m, next)
                             >= need
           g1 == block_set_size_and_allocated(p1, prev, s1, 1)
           g2 == block_set_size_and_allocated(n1, b, s2, 1)
           g3 == block_set_size_and_allocated(n2, prev, s3, 1)
<1>7. \/ n = 0 /\ Releases(i)
      \/ n # 0 /\ old >= need /\ heap' = heap /\ Receives(i, ptr, n, kept)
      \/ /\ old < need
         /\ with_prev /\ heap' = memmove(g1, payload(prev), ptr, old)
         /\ Receives(i, payload(prev), n, kept)
      \/ old < need /\ with_next /\ heap' = g2 /\ Receives(i, ptr, n, kept)
      \/ /\ old < need
         /\ with_both /\ heap' = memmove(g3, payload(prev), ptr, old)
         /\ Receives(i, payload(prev), n, kept)
      \/ /\ old < need /\ mm_malloc("realloc", i, n, need, old)
         /\ heap' = heap /\ live' = live
  BY DEF Realloc
<1>8. old < need => n \in Sizes \ {0}
  <2>1. align(0) = 0
    BY DEF align
  <2>2. n = 0 => need = 16
    BY <2>1
  <2> HIDE DEF need, old
  <2> QED
    BY <1>2, <2>2
<1>9. CASE n = 0 /\ Releases(i)
  BY <1>1, <1>9, ReleasesSound
<1>10. CASE n # 0 /\ old >= need /\ heap' = heap /\ Receives(i, ptr, n, kept)
  <2>1. n + 16 <= old
    BY <1>1, <1>2, <1>3, <1>10
  <2> HIDE DEF kept, old, need
  <2>2. Hands(heap, live, i, heap', [ptr |-> ptr, size |-> n, kept |-> kept])
    BY <1>1, <1>4, <1>10, <2>1, HandsSame DEF old
  <2>3. [ptr |-> ptr, size |-> n, kept |-> kept] # Nothing
    BY <1>2, NotNothing
  <2> QED
    BY <1>1, <1>4, <1>10, <2>2, <2>3, Received
<1>11. CASE /\ old < need
            /\ with_prev /\ heap' = memmove(g1, payload(prev), ptr, old)
            /\ Receives(i, payload(prev), n, kept)
  <2>1. prev \in FreeOf(heap) /\ prev # heap.epilogue
    BY <1>2, <1>6, <1>11, FreeInner DEF WellFormed, Off, Inner
  <2>2. block_size(p1.mem, prev) = block_size(m, prev)
        /\ Joined(heap, g1, b, prev, s1)
    BY <1>2, <2>1, JoinPrev
  <2>3. s1 \in Int /\ n + 16 <= s1 /\ old + 16 <= s1
    BY <1>1, <1>2, <1>3, <1>5, <1>11, <2>2
  <2> HIDE DEF s1, g1, prev, kept, old, b
  <2>4. Carried(heap, memmove(g1, payload(prev), payload(b), old), prev, b, s1)
    BY <1>2, <2>2, <2>3, Shifting DEF old
  <2>5. Carried(heap, heap', prev, payload_to_block(live[i].ptr), s1)
    BY <1>2, <1>11, <2>4 DEF b
  <2> QED
    BY <1>1, <1>4, <1>11, <1>8, <2>1, <2>3, <2>5, Regrown
<1>12. CASE old < need /\ with_next /\ heap' = g2 /\ Receives(i, ptr, n, kept)
  <2>1. next \in FreeOf(heap)
    BY <1>6, <1>12
  <2>2. block_size(n1.mem, next) = block_size(m, next)
        /\ Joined(heap, g2, b, b, s2)
    BY <1>2, <2>1, JoinNext
  <2>3. s2 \in Int /\ n + 16 <= s2
    BY <1>1, <1>2, <1>3, <1>5, <1>12, <2>2
  <2> HIDE DEF s2, g2, next, kept, old, b
  <2>4. Carried(heap, g2, b, b, s2)
    BY <1>2, <2>2, <2>3, Staying
  <2>5. Carried(heap, heap', b, payload_to_block(live[i].ptr), s2)
    BY <1>2, <1>12, <2>4 DEF b
  <2>6. b # heap.epilogue
    BY <1>2 DEF Inner
  <2> QED
    BY <1>1, <1>2, <1>4, <1>12, <1>8, <2>3, <2>5, <2>6, Regrown
<1>13. CASE /\ old < need
            /\ with_both /\ heap' = memmove(g3, payload(prev), ptr, old)
            /\ Receives(i, payload(prev), n, kept)
  <2>1. prev \in FreeOf(heap) /\ next \in FreeOf(heap) /\ prev # heap.epilogue
    BY <1>2, <1>6, <1>13, FreeInner DEF WellFormed, Off, Inner
  <2>2. /\ block_size(n2.mem, prev) = block_size(m, prev)
        /\ block_size(n2.mem, next) = block_size(m, next)
        /\ Joined(heap, g3, b, prev, s3)
    BY <1>2, <2>1, JoinBoth
  <2>3. s3 \in Int /\ n + 16 <= s3 /\ old + 16 <= s3
    BY <1>1, <1>2, <1>3, <1>5, <1>13, <2>2
  <2> HIDE DEF s3, g3, prev, kept, old, b
  <2>4. Carried(heap, memmove(g3, payload(prev), payload(b), old), prev, b, s3)
    BY <1>2, <2>2, <2>3, Shifting DEF old
  <2>5. Carried(heap, heap', prev, payload_to_block(live[i].ptr), s3)
    BY <1>2, <1>13, <2>4 DEF b
  <2> QED
    BY <1>1, <1>4, <1>13, <1>8, <2>1, <2>3, <2>5, Regrown
<1>14. CASE /\ old < need /\ mm_malloc("realloc", i, n, need, old)
            /\ heap' = heap /\ live' = live
  <2>1. n <= need /\ need <= INT_MAX + 23 /\ old <= need /\ old \in Nat
    BY <1>1, <1>2, <1>3, <1>14, SpanFacts
  <2>2. old = block_size(heap.mem, payload_to_block(live[i].ptr))
    OBVIOUS
  <2> HIDE DEF need, old
  <2>3. CallFits(call', heap, live)
    BY <1>1, <1>3, <1>14, <1>8, <2>1, <2>2, Starting
  <2> QED
    BY <1>1, <1>14, <2>3, IdleSpares, StillWritten DEF IInv
<1> QED
  BY <1>7, <1>9, <1>10, <1>11, <1>12, <1>13, <1>14

-----------------------------------------------------------------------------

(* Every call of the allocator, every step of mm_malloc's loop and every    *)
(* write of the client keeps IInv and does to the client only what it may.  *)
LEMMA StepSound == IInv /\ [Next]_vars => IInv' /\ Honours
<1> SUFFICES ASSUME IInv, [Next]_vars PROVE IInv' /\ Honours
  OBVIOUS
<1>1. CASE Loop
  BY <1>1, SearchFitsSound, SearchMovesOnSound DEF Loop
<1>2. CASE Placed
  BY <1>2, PlacedSound
<1>3. CASE Extends
  BY <1>3, ExtendsSound
<1>4. CASE OutOfMemory
  BY <1>4, OutOfMemorySound
<1>5. CASE Fill
  BY <1>5, FillSound
<1>6. ASSUME NEW i \in Ids, Free(i) PROVE IInv' /\ Honours
  BY <1>6, ReleasesSound DEF Free
<1>7. ASSUME NEW i \in Ids, NEW n \in Sizes, Malloc(i, n)
      PROVE  IInv' /\ Honours
  BY <1>7, MallocSound
<1>8. ASSUME NEW i \in Ids, NEW n \in Sizes, Realloc(i, n)
      PROVE  IInv' /\ Honours
  BY <1>8, ReallocSound
<1>9. ASSUME NEW n \in Sizes, ReallocNull(n) PROVE IInv' /\ Honours
  BY <1>9, ReallocNullSound
<1>10. CASE NextTrace
  BY <1>10, NextTraceSound
<1>11. CASE UNCHANGED vars
  <2>1. IInv'
    BY <1>11 DEF vars, IInv
  <2>2. Honours
    BY <1>11, IdleSpares DEF vars, IInv
  <2> QED
    BY <2>1, <2>2
<1> QED
  BY <1>1, <1>2, <1>3, <1>4, <1>5, <1>6, <1>7, <1>8, <1>9, <1>10, <1>11
     DEF Next

(* IInv is inductive: mm_init establishes it, and every step keeps it.      *)
THEOREM Invariance == Spec => []IInv
BY InitSound, StepSound, PTL DEF Spec

(* Every variable always holds what the code can hold in it, whatever       *)
(* calls mm_malloc, mm_free and mm_realloc get.                             *)
THEOREM Typed == Spec => []TypeOK
<1>1. IInv => TypeOK
  BY DEF IInv, Sound, WellFormed, Off, Shaped, Owned, Piece, CallFits, TypeOK
<1> QED
  BY <1>1, Invariance, PTL

(* No assert() of mminline.h can fail in any of the calls mm_malloc,        *)
(* mm_free, mm_realloc and coalescing make.                                 *)
THEOREM Asserted == Spec => []NoAssertFails
<1>1. IInv => NoAssertFails
  BY DEF IInv, Sound, WellFormed, Off, Shaped, NoAssertFails
<1> QED
  BY <1>1, Invariance, PTL

(* The blocks always partition the heap from the prologue to the break:     *)
(* splitting, merging and extending leave no gap and no overlap.            *)
THEOREM AlwaysTiled == Spec => []HeapTiled
<1>1. IInv => HeapTiled
  BY DEF IInv, Sound, WellFormed, Off, Shaped, Layout, HeapTiled
<1> QED
  BY <1>1, Invariance, PTL

(* Header and end tag of every block always agree, so that block_prev       *)
(* always finds the block before.                                           *)
THEOREM TagsAlwaysAgree == Spec => []BoundaryTagsAgree
<1>1. IInv => BoundaryTagsAgree
  BY DEF IInv, Sound, WellFormed, Off, Shaped, Layout, BoundaryTagsAgree
<1> QED
  BY <1>1, Invariance, PTL

(* Between any two steps the free list is one ring of exactly the free      *)
(* blocks: pull_free_block and insert_free_block are called for each block  *)
(* that leaves or joins them, and at the right time.                        *)
THEOREM ListAlwaysExact == Spec => []FreeListExact
<1>1. ASSUME IInv PROVE FreeListExact
  <2>1. Ring(heap.mem, heap.flist_first, FreeOf(heap) \ {})
    BY <1>1 DEF IInv, Sound, WellFormed, Off
  <2>2. FreeOf(heap) \ {} = FreeBlocks(heap.mem, heap.blocks)
    BY DEF FreeOf
  <2> QED
    BY <2>1, <2>2, Zenon DEF FreeListExact
<1> QED
  BY <1>1, Invariance, PTL

(* What the client holds are different allocated blocks, each large enough  *)
(* for the payload it asked mm_malloc or mm_realloc for.                    *)
THEOREM AlwaysOwned == Spec => []PayloadsOwned
<1>1. ASSUME IInv PROVE PayloadsOwned
  <2>1. Owned(heap, live)
    BY <1>1 DEF IInv, Sound
  <2>2. \A i \in Held :
          LET b == payload_to_block(live[i].ptr)
          IN  /\ b \in heap.blocks \ {prologue, heap.epilogue}
              /\ block_allocated(heap.mem, b)
              /\ live[i].size + TAGS_SIZE <= block_size(heap.mem, b)
    BY <2>1 DEF Owned, Owner, Held, Inner, UsedOf, FreeOf, FreeBlocks
  <2>3. \A i, j \in Held : live[i].ptr = live[j].ptr => i = j
    BY <2>1 DEF Owned, Held
  <2> QED
    BY <2>2, <2>3 DEF PayloadsOwned
<1> QED
  BY <1>1, Invariance, PTL

(* No call ever damages what the client has written into a block it holds,  *)
(* and mm_realloc carries it along wherever it moves the block.             *)
THEOREM DataAlwaysIntact == Spec => []DataIntact
<1>1. IInv => DataIntact
  BY DEF IInv, Sound, Owned, Owner, Held, DataIntact
<1> QED
  BY <1>1, Invariance, PTL

(* As long as nobody calls mm_realloc(NULL, n), every allocated block is    *)
(* one the client can still free.                                           *)
THEOREM NothingLeaks ==
  ASSUME ~ ReallocsNull
  PROVE  Spec => []NoLeak
<1>1. ASSUME IInv PROVE NoLeak
  <2>1. Covers(heap, live)
    BY <1>1 DEF IInv, Sound
  <2>2. SUFFICES ASSUME NEW b \in heap.blocks \ {prologue, heap.epilogue},
                        block_allocated(heap.mem, b)
                 PROVE  \E i \in Held : live[i].ptr = payload(b)
    BY DEF NoLeak
  <2>3. b \in UsedOf(heap) \ {prologue, heap.epilogue}
    BY <2>2 DEF UsedOf, FreeOf, FreeBlocks
  <2> QED
    BY <2>1, <2>3 DEF Covers, Held
<1> QED
  BY <1>1, Invariance, PTL

(* No two free blocks are ever side by side: every mm_free coalesces on     *)
(* both sides, and neither mm_malloc's split nor mm_realloc's merges leave  *)
(* a free block beside another.                                             *)
THEOREM NeverAdjacent == Spec => []NoAdjacentFree
<1>1. IInv => NoAdjacentFree
  BY DEF IInv, Sound, Settled, FreeOf, NoAdjacentFree
<1> QED
  BY <1>1, Invariance, PTL

(* mem_sbrk is called only when every free block is too small for the       *)
(* request: mm_malloc's loop over the ring has left none out.               *)
THEOREM GrowsOnlyAtNeed == Spec => GrowsOnlyWhenNoneFits
<1> DEFINE Needed == \A b \in FreeBlocks(heap.mem, heap.blocks) :
                       block_size(heap.mem, b) < call.need
<1>1. ASSUME IInv, [Next]_vars PROVE [heap'.brk > heap.brk => Needed]_vars
  <2>1. heap.brk \in Int
    BY <1>1, MemoryAssumption
       DEF IInv, Sound, WellFormed, Off, Shaped, HeapType, mem_max_addr
  <2>2. SUFFICES ASSUME heap'.brk > heap.brk, Next PROVE Needed
    BY <1>1
  <2>3. CASE Extends
    <3>1. call.pc = "sbrk"
      BY <2>3 DEF Extends, At
    <3> QED
      BY <1>1, <3>1 DEF IInv, CallFits, FreeOf
  <2>4. ASSUME ~ Extends PROVE FALSE
    <3>1. CASE NextTrace
      <4>1. heap'.brk <= heap.brk /\ heap'.brk \in Int
        <5>1. IInv' /\ Honours /\ heap'.brk <= heap.brk
          BY <1>1, <3>1, NextTraceSound
        <5> QED
          BY <5>1, MemoryAssumption
             DEF IInv, Sound, WellFormed, Off, Shaped, HeapType, mem_max_addr
      <4> QED
        BY <2>1, <2>2, <4>1
    <3>2. CASE ~ NextTrace
      <4>1. heap'.brk = heap.brk
        <5>1. CASE Loop
          BY <1>1, <5>1, SearchFitsSound, SearchMovesOnSound DEF Loop
        <5>2. CASE Placed
          BY <1>1, <5>2, PlacedSound
        <5>3. CASE OutOfMemory
          BY <1>1, <5>3, OutOfMemorySound
        <5>4. CASE Fill
          BY <1>1, <5>4, FillSound
        <5>5. ASSUME NEW i \in Ids, Free(i) PROVE heap'.brk = heap.brk
          BY <1>1, <5>5, ReleasesSound DEF Free
        <5>6. ASSUME NEW i \in Ids, NEW n \in Sizes, Malloc(i, n)
              PROVE  heap'.brk = heap.brk
          BY <1>1, <5>6, MallocSound
        <5>7. ASSUME NEW i \in Ids, NEW n \in Sizes, Realloc(i, n)
              PROVE  heap'.brk = heap.brk
          BY <1>1, <5>7, ReallocSound
        <5>8. ASSUME NEW n \in Sizes, ReallocNull(n) PROVE heap'.brk = heap.brk
          BY <1>1, <5>8, ReallocNullSound
        <5> QED
          BY <2>2, <2>4, <3>2, <5>1, <5>2, <5>3, <5>4, <5>5, <5>6, <5>7, <5>8
             DEF Next
      <4> QED
        BY <2>1, <2>2, <4>1
    <3> QED
      BY <3>1, <3>2
  <2> QED
    BY <2>3, <2>4
<1> QED
  BY <1>1, Invariance, PTL DEF Spec, GrowsOnlyWhenNoneFits
=============================================================================

---------------------------- MODULE RangesLemmas ----------------------------
(***************************************************************************)
(* Lemmas about the books mdriver.c keeps: what add_range and remove_range *)
(* do to the records of the range list, and sums of the sizes of payloads. *)
(***************************************************************************)
EXTENDS Ranges, SequenceTheorems, FiniteSetTheorems, TLAPS

USE DEF WORD_SIZE, ALIGNMENT, TAGS_SIZE, MINBLOCKSIZE

Record == [lo : Int, hi : Int]

(* Of the indices of a sequence, any that there are have a first.          *)
LEMMA FirstIndex ==
  ASSUME NEW T, T \subseteq Nat, T # {}
  PROVE  Min(T) \in T /\ \A k \in T : Min(T) <= k
<1> DEFINE Less == {p \in Nat \X Nat : p[1] < p[2]}
<1>1. IsWellFoundedOn(Less, Nat)
  BY NatLessThanWellFounded, Zenon DEF OpToRel
<1> HIDE DEF Less
<1>2. PICK x \in T : \A y \in T : ~ (<<y, x>> \in Less)
  BY <1>1, WFMin
<1>3. \A y \in T : x <= y
  <2> TAKE y \in T
  <2>1. x \in Nat /\ y \in Nat
    OBVIOUS
  <2>2. ~ (y < x)
    BY <1>2, <2>1 DEF Less
  <2> QED
    BY <2>1, <2>2
<1> QED
  BY <1>3 DEF Min

(* Dropping one entry of a sequence moves those behind it up by one.       *)
LEMMA RemoveAtFacts ==
  ASSUME NEW S, NEW s \in Seq(S), NEW i \in 1 .. Len(s)
  PROVE  /\ RemoveAt(s, i) \in Seq(S)
         /\ Len(RemoveAt(s, i)) = Len(s) - 1
         /\ \A k \in 1 .. Len(s) - 1 :
              RemoveAt(s, i)[k] = IF k < i THEN s[k] ELSE s[k + 1]
<1> DEFINE a == SubSeq(s, 1, i - 1)
           b == SubSeq(s, i + 1, Len(s))
<1>1. Len(s) \in Nat /\ i \in Int /\ \A k \in 1 .. Len(s) : s[k] \in S
  BY LenProperties, ElementOfSeq
<1>2. /\ a \in Seq(S) /\ Len(a) = i - 1
      /\ \A k \in 1 .. i - 1 : a[k] = s[k]
  <2>1. \A k \in 1 .. i - 1 : s[k] \in S
    BY <1>1
  <2>2. /\ a \in Seq(S) /\ Len(a) = IF 1 <= i - 1 THEN i - 1 - 1 + 1 ELSE 0
        /\ \A k \in 1 .. i - 1 - 1 + 1 : a[k] = s[1 + k - 1]
    BY <1>1, <2>1, SubSeqProperties
  <2> HIDE DEF a
  <2> QED
    BY <1>1, <2>2
<1>3. /\ b \in Seq(S) /\ Len(b) = Len(s) - i
      /\ \A k \in 1 .. Len(s) - i : b[k] = s[i + k]
  <2>1. \A k \in i + 1 .. Len(s) : s[k] \in S
    BY <1>1
  <2>2. /\ b \in Seq(S)
        /\ Len(b) = IF i + 1 <= Len(s) THEN Len(s) - (i + 1) + 1 ELSE 0
        /\ \A k \in 1 .. Len(s) - (i + 1) + 1 : b[k] = s[i + 1 + k - 1]
    BY <1>1, <2>1, SubSeqProperties
  <2> HIDE DEF b
  <2> QED
    BY <1>1, <2>2
<1> HIDE DEF a, b
<1>4. /\ a \o b \in Seq(S) /\ Len(a \o b) = Len(s) - 1
      /\ \A k \in 1 .. Len(s) - 1 :
           (a \o b)[k] = IF k <= i - 1 THEN a[k] ELSE b[k - (i - 1)]
  <2>1. Len(a) + Len(b) = Len(s) - 1
    BY <1>1, <1>2, <1>3
  <2>2. /\ a \o b \in Seq(S) /\ Len(a \o b) = Len(a) + Len(b)
        /\ \A k \in 1 .. Len(a) + Len(b) :
             (a \o b)[k] = IF k <= Len(a) THEN a[k] ELSE b[k - Len(a)]
    BY <1>2, <1>3, ConcatProperties
  <2> QED
    BY <1>2, <2>1, <2>2
<1>5. \A k \in 1 .. Len(s) - 1 :
        (a \o b)[k] = IF k < i THEN s[k] ELSE s[k + 1]
  <2> TAKE k \in 1 .. Len(s) - 1
  <2>1. CASE k < i
    BY <1>1, <1>2, <1>4, <2>1
  <2>2. CASE ~ (k < i)
    <3>1. k - (i - 1) \in 1 .. Len(s) - i /\ i + (k - (i - 1)) = k + 1
      BY <1>1, <2>2
    <3> QED
      BY <1>1, <1>3, <1>4, <2>2, <3>1
  <2> QED
    BY <2>1, <2>2
<1> QED
  BY <1>4, <1>5 DEF RemoveAt, a, b

(* remove_range finds the first record that starts at lo, or does nothing. *)
LEMMA RemoveRange ==
  ASSUME NEW rs \in Seq(Record), NEW lo
  PROVE  \/ /\ remove_range(rs, lo) = rs
            /\ \A k \in 1 .. Len(rs) : rs[k].lo # lo
         \/ \E i \in 1 .. Len(rs) :
              /\ rs[i].lo = lo
              /\ remove_range(rs, lo) \in Seq(Record)
              /\ Len(remove_range(rs, lo)) = Len(rs) - 1
              /\ \A k \in 1 .. Len(rs) - 1 :
                   remove_range(rs, lo)[k] = IF k < i THEN rs[k] ELSE rs[k + 1]
<1> DEFINE I == {i \in 1 .. Len(rs) : rs[i].lo = lo}
<1>1. remove_range(rs, lo) = IF \E i \in 1 .. Len(rs) : rs[i].lo = lo
                             THEN RemoveAt(rs, IF I # {} THEN Min(I) ELSE 0)
                             ELSE rs
  BY DEF remove_range, RemoveFirstMatch, SelectInSeq
<1>2. CASE I = {}
  BY <1>1, <1>2
<1>3. CASE I # {}
  <2>1. Len(rs) \in Nat
    BY LenProperties
  <2>2. I \subseteq Nat
    BY <2>1
  <2>3. Min(I) \in I
    BY <1>3, <2>2, FirstIndex
  <2>4. remove_range(rs, lo) = RemoveAt(rs, Min(I))
    BY <1>1, <1>3
  <2>5. Min(I) \in 1 .. Len(rs) /\ rs[Min(I)].lo = lo
    BY <2>3
  <2> HIDE DEF I
  <2> QED
    BY <2>4, <2>5, RemoveAtFacts, ZenonT(60)
<1> QED
  BY <1>2, <1>3

(* add_range puts the new record in front.                                 *)
LEMMA AddRange ==
  ASSUME NEW rs \in Seq(Record), NEW lo \in Int, NEW size \in Int
  PROVE  LET r == add_range(rs, lo, size)
         IN  /\ r \in Seq(Record) /\ Len(r) = Len(rs) + 1
             /\ DOMAIN r = 1 .. Len(rs) + 1
             /\ r[1] = range(lo, size)
             /\ \A k \in 2 .. Len(rs) + 1 : r[k] = rs[k - 1]
<1> DEFINE new == range(lo, size)
           s   == <<new>>
<1>1. new \in Record
  BY DEF range, Record
<1> HIDE DEF new
<1>2. s \in Seq(Record) /\ Len(s) = 1 /\ s[1] = new
  BY <1>1
<1>3. Len(rs) \in Nat
  BY LenProperties
<1> HIDE DEF s
<1>4. /\ s \o rs \in Seq(Record) /\ Len(s \o rs) = 1 + Len(rs)
      /\ \A i \in 1 .. 1 + Len(rs) :
           (s \o rs)[i] = IF i <= 1 THEN s[i] ELSE rs[i - 1]
  <2>1. /\ s \o rs \in Seq(Record) /\ Len(s \o rs) = Len(s) + Len(rs)
        /\ \A i \in 1 .. Len(s) + Len(rs) :
             (s \o rs)[i] = IF i <= Len(s) THEN s[i] ELSE rs[i - Len(s)]
    BY <1>2, ConcatProperties
  <2> QED
    BY <1>2, <2>1
<1>5. DOMAIN (s \o rs) = 1 .. Len(rs) + 1
  BY <1>3, <1>4, LenProperties
<1>6. add_range(rs, lo, size) = s \o rs
  BY DEF add_range, s, new
<1> QED
  BY <1>2, <1>3, <1>4, <1>5, <1>6 DEF new

-----------------------------------------------------------------------------

(* A payload that add_range admits leaves the records apart.               *)
LEMMA AddApart ==
  ASSUME NEW rs \in Seq(Record), Apart(rs), NEW lo \in Int, NEW size \in Int,
         range_asserts(size), NEW brk, range_is_fine(rs, brk, lo, size)
  PROVE  Apart(add_range(rs, lo, size))
<1> DEFINE r == add_range(rs, lo, size)
           new == range(lo, size)
           n == Len(rs)
<1>1. /\ r \in Seq(Record) /\ DOMAIN r = 1 .. n + 1 /\ r[1] = new
      /\ \A k \in 2 .. n + 1 : r[k] = rs[k - 1]
  BY AddRange
<1>2. n \in Nat /\ DOMAIN rs = 1 .. n /\ \A k \in 1 .. n : rs[k] \in Record
  BY LenProperties, ElementOfSeq
<1>3. new.lo \in Int /\ new.hi \in Int /\ new.lo <= new.hi
  BY DEF range, range_asserts
<1>4. \A k \in 1 .. n : ~ collides(new, rs[k])
  BY <1>2 DEF range_is_fine
<1> HIDE DEF r, new, n
<1>5. ASSUME NEW j \in 1 .. n + 1, NEW k \in 1 .. n + 1, j < k
      PROVE  \/ r[j].hi < r[k].lo \/ r[k].hi < r[j].lo
             \/ r[j].lo < r[k].lo /\ r[k].hi < r[j].hi
  <2>1. k \in 2 .. n + 1 /\ k - 1 \in 1 .. n /\ r[k] = rs[k - 1]
    BY <1>1, <1>2, <1>5
  <2>2. rs[k - 1].lo \in Int /\ rs[k - 1].hi \in Int
    BY <1>2, <2>1 DEF Record
  <2>3. CASE j = 1
    <3>1. ~ collides(new, rs[k - 1])
      BY <1>4, <2>1
    <3> QED
      BY <1>1, <1>3, <2>1, <2>2, <2>3, <3>1 DEF collides
  <2>4. CASE j # 1
    <3>1. j \in 2 .. n + 1 /\ j - 1 \in 1 .. n /\ j - 1 < k - 1
      BY <1>2, <1>5, <2>4
    <3>2. r[j] = rs[j - 1]
      BY <1>1, <3>1
    <3> QED
      BY <1>2, <2>1, <3>1, <3>2 DEF Apart
  <2> QED
    BY <2>3, <2>4
<1> QED
  BY <1>1, <1>5 DEF Apart, r

(* Dropping a record leaves the others apart, and in their order.          *)
LEMMA RemoveApart ==
  ASSUME NEW rs \in Seq(Record), Apart(rs), NEW lo
  PROVE  /\ remove_range(rs, lo) \in Seq(Record)
         /\ Apart(remove_range(rs, lo))
         /\ \A k \in DOMAIN remove_range(rs, lo) :
              \E j \in DOMAIN rs : remove_range(rs, lo)[k] = rs[j]
<1> DEFINE r == remove_range(rs, lo)
           n == Len(rs)
<1>1. n \in Nat /\ DOMAIN rs = 1 .. n
  BY LenProperties
<1>2. CASE r = rs
  BY <1>2
<1>3. ASSUME NEW i \in 1 .. n, r \in Seq(Record), Len(r) = n - 1,
             \A k \in 1 .. n - 1 : r[k] = IF k < i THEN rs[k] ELSE rs[k + 1]
      PROVE  /\ r \in Seq(Record) /\ Apart(r)
             /\ \A k \in DOMAIN r : \E j \in DOMAIN rs : r[k] = rs[j]
  <2> DEFINE at(k) == IF k < i THEN k ELSE k + 1
  <2>1. DOMAIN r = 1 .. n - 1
    BY <1>1, <1>3, LenProperties
  <2> HIDE DEF r
  <2>2. \A k \in 1 .. n - 1 : at(k) \in 1 .. n /\ r[k] = rs[at(k)]
    BY <1>1, <1>3
  <2>3. \A j, k \in 1 .. n - 1 : j < k => at(j) < at(k)
    BY <1>1, <1>3
  <2> HIDE DEF at
  <2>4. Apart(r)
    BY <1>1, <2>1, <2>2, <2>3 DEF Apart
  <2> QED
    BY <1>1, <1>3, <2>1, <2>2, <2>4
<1> QED
  BY <1>2, <1>3, RemoveRange
-----------------------------------------------------------------------------

(* The list has a record for each extent of G, once, and no other.         *)
Lists(rs, G) ==
  /\ rs \in Seq(Record)
  /\ \A k \in 1 .. Len(rs) : rs[k] \in G
  /\ \A g \in G : \E k \in 1 .. Len(rs) : rs[k] = g
  /\ \A j, k \in 1 .. Len(rs) : rs[j] = rs[k] => j = k

(* clear_ranges: no record for no payload.                                 *)
LEMMA ListsNone == Lists(clear_ranges, {})
BY DEF Lists, clear_ranges

(* add_range, of a payload that had no record.                             *)
LEMMA ListsAdd ==
  ASSUME NEW rs, NEW G, Lists(rs, G), NEW lo \in Int, NEW size \in Int,
         range(lo, size) \notin G
  PROVE  Lists(add_range(rs, lo, size), G \cup {range(lo, size)})
<1> DEFINE r == add_range(rs, lo, size)
           new == range(lo, size)
           n == Len(rs)
<1>1. /\ r \in Seq(Record) /\ Len(r) = n + 1 /\ r[1] = new
      /\ \A k \in 2 .. n + 1 : r[k] = rs[k - 1]
  BY AddRange DEF Lists
<1>2. n \in Nat /\ \A k \in 1 .. n : rs[k] \in G
  BY LenProperties DEF Lists
<1> HIDE DEF r, new, n
<1>3. \A k \in 1 .. n + 1 : k # 1 => k \in 2 .. n + 1 /\ k - 1 \in 1 .. n
  BY <1>2
<1>4. \A k \in 1 .. n + 1 : r[k] \in G \cup {new}
  BY <1>1, <1>2, <1>3
<1>5. \A g \in G \cup {new} : \E k \in 1 .. n + 1 : r[k] = g
  <2> TAKE g \in G \cup {new}
  <2>1. CASE g = new
    BY <1>1, <1>2, <2>1
  <2>2. CASE g \in G
    <3>1. PICK k \in 1 .. n : rs[k] = g
      BY <2>2 DEF Lists, n
    <3>2. k + 1 \in 2 .. n + 1 /\ k + 1 \in 1 .. n + 1 /\ (k + 1) - 1 = k
      BY <1>2, <3>1
    <3>3. r[k + 1] = g
      BY <1>1, <3>1, <3>2
    <3> QED
      BY <3>2, <3>3
  <2> QED
    BY <2>1, <2>2
<1>6. ASSUME NEW j \in 1 .. n + 1, NEW k \in 1 .. n + 1, r[j] = r[k]
      PROVE  j = k
  <2>1. CASE j = 1 /\ k # 1
    <3>1. r[k] \in G /\ r[j] = new
      BY <1>1, <1>2, <1>3, <2>1
    <3> QED
      BY <1>6, <3>1 DEF new
  <2>2. CASE j # 1 /\ k = 1
    <3>1. r[j] \in G /\ r[k] = new
      BY <1>1, <1>2, <1>3, <2>2
    <3> QED
      BY <1>6, <3>1 DEF new
  <2>3. CASE j # 1 /\ k # 1
    <3>1. j - 1 \in 1 .. n /\ k - 1 \in 1 .. n /\ rs[j - 1] = rs[k - 1]
      BY <1>1, <1>3, <1>6, <2>3
    <3>2. j - 1 = k - 1
      BY <3>1 DEF Lists, n
    <3> QED
      BY <1>2, <3>2
  <2> QED
    BY <2>1, <2>2, <2>3
<1> QED
  BY <1>1, <1>4, <1>5, <1>6 DEF Lists, r, new

(* remove_range, of a payload that is the only one to start where it does. *)
LEMMA ListsRemove ==
  ASSUME NEW rs, NEW G, Lists(rs, G), NEW g \in G,
         \A e \in G : e.lo = g.lo => e = g
  PROVE  Lists(remove_range(rs, g.lo), G \ {g})
<1> DEFINE r == remove_range(rs, g.lo)
           n == Len(rs)
<1>1. rs \in Seq(Record) /\ n \in Nat
  BY LenProperties DEF Lists
<1>2. PICK x \in 1 .. n : rs[x] = g
  BY DEF Lists
<1>3. PICK i \in 1 .. n :
        /\ rs[i].lo = g.lo /\ r \in Seq(Record) /\ Len(r) = n - 1
        /\ \A k \in 1 .. n - 1 : r[k] = IF k < i THEN rs[k] ELSE rs[k + 1]
  BY <1>1, <1>2, RemoveRange, SMTT(30)
<1>4. rs[i] = g
  BY <1>3 DEF Lists
<1> DEFINE at(k) == IF k < i THEN k ELSE k + 1
<1> HIDE DEF r
<1>5. \A k \in 1 .. n - 1 : at(k) \in 1 .. n /\ at(k) # i /\ r[k] = rs[at(k)]
  BY <1>1, <1>3
<1>6. \A j, k \in 1 .. n - 1 : at(j) = at(k) => j = k
  BY <1>1, <1>3
<1>7. \A j \in 1 .. n : j # i => \E k \in 1 .. n - 1 : at(k) = j
  <2> TAKE j \in 1 .. n
  <2> HAVE j # i
  <2>1. CASE j < i
    <3>1. j \in 1 .. n - 1 /\ at(j) = j
      BY <1>1, <1>3, <2>1
    <3> QED
      BY <3>1
  <2>2. CASE ~ (j < i)
    <3>1. j - 1 \in 1 .. n - 1 /\ at(j - 1) = j
      BY <1>1, <1>3, <2>2
    <3> QED
      BY <3>1
  <2> QED
    BY <2>1, <2>2
<1> HIDE DEF at, n
<1>8. \A k \in 1 .. n - 1 : r[k] \in G \ {g}
  <2> TAKE k \in 1 .. n - 1
  <2>1. at(k) \in 1 .. n /\ at(k) # i /\ r[k] = rs[at(k)]
    BY <1>5
  <2>2. rs[at(k)] \in G /\ rs[at(k)] # rs[i]
    BY <1>3, <2>1 DEF Lists, n
  <2> QED
    BY <1>4, <2>1, <2>2
<1>9. \A e \in G \ {g} : \E k \in 1 .. n - 1 : r[k] = e
  <2> TAKE e \in G \ {g}
  <2>1. PICK j \in 1 .. n : rs[j] = e
    BY DEF Lists, n
  <2>2. j # i
    BY <1>4, <2>1
  <2>3. PICK k \in 1 .. n - 1 : at(k) = j
    BY <1>7, <2>2
  <2> QED
    BY <1>5, <2>1, <2>3
<1>10. \A j, k \in 1 .. n - 1 : r[j] = r[k] => j = k
  <2> TAKE j, k \in 1 .. n - 1
  <2> HAVE r[j] = r[k]
  <2>1. at(j) \in 1 .. n /\ at(k) \in 1 .. n /\ rs[at(j)] = rs[at(k)]
    BY <1>5
  <2>2. at(j) = at(k)
    BY <2>1 DEF Lists, n
  <2> QED
    BY <1>6, <2>2
<1> QED
  BY <1>3, <1>8, <1>9, <1>10 DEF Lists, r

(* As many records as there are payloads, when each has an extent of its   *)
(* own.                                                                    *)
LEMMA ListsCount ==
  ASSUME NEW rs, NEW G, Lists(rs, G), NEW H, NEW f \in Bijection(H, G)
  PROVE  Len(rs) = Cardinality(H)
<1> DEFINE n == Len(rs)
           h == [k \in 1 .. n |-> CHOOSE x \in H : f[x] = rs[k]]
<1>1. n \in Nat
  BY LenProperties DEF Lists
<1>2. /\ \A x \in H : f[x] \in G
      /\ \A x, y \in H : f[x] = f[y] => x = y
      /\ \A g \in G : \E x \in H : f[x] = g
  BY DEF Bijection, Injection, Surjection, IsInjective
<1>3. \A k \in 1 .. n : h[k] \in H /\ f[h[k]] = rs[k]
  <2> TAKE k \in 1 .. n
  <2>1. rs[k] \in G
    BY DEF Lists
  <2>2. \E x \in H : f[x] = rs[k]
    BY <1>2, <2>1
  <2> QED
    BY <2>2
<1>4. h \in [1 .. n -> H]
  BY <1>3
<1> HIDE DEF h, n
<1>5. \A j, k \in 1 .. n : h[j] = h[k] => j = k
  <2> TAKE j, k \in 1 .. n
  <2> HAVE h[j] = h[k]
  <2>1. rs[j] = rs[k]
    BY <1>3
  <2> QED
    BY <2>1 DEF Lists, n
<1>6. \A x \in H : \E k \in 1 .. n : h[k] = x
  <2> TAKE x \in H
  <2>1. PICK k \in 1 .. n : rs[k] = f[x]
    BY <1>2 DEF Lists, n
  <2> QED
    BY <1>2, <1>3, <2>1
<1>7. h \in Bijection(1 .. n, H)
  BY <1>4, <1>5, <1>6 DEF Bijection, Injection, Surjection, IsInjective
<1>8. Cardinality(H) = n
  BY <1>1, <1>7, FS_CountingElements DEF ExistsBijection
<1> QED
  BY <1>8 DEF n

-----------------------------------------------------------------------------
(* Sums of sizes                                                           *)

SizeSum(g, S) == MapThenSumSet(LAMBDA j : g[j].size, S)

(* The element that MapThenSumSet takes first. *)
FirstOf(s) == CHOOSE x \in s : TRUE

(* it adds up the sizes of each set in D. *)
Adds(g, D, it) ==
  it = [s \in D |-> IF s = {} THEN 0
                    ELSE g[FirstOf(s)].size + it[s \ {FirstOf(s)}]]

(* Adding up never leaves D and comes to an end. *)
Closed(D) == \A s \in D : IsFiniteSet(s) /\ \A x \in s : s \ {x} \in D

(* The sum is what such a function says of the whole set.                  *)
LEMMA SumUnfold ==
  ASSUME NEW g, NEW S
  PROVE  SizeSum(g, S) = (CHOOSE it : Adds(g, SUBSET S, it))[S]
BY Zenon DEF SizeSum, MapThenSumSet, MapThenFoldSet, Adds, FirstOf

(* What it says of the empty set, and of any other.                        *)
LEMMA AddsStep ==
  ASSUME NEW g, NEW D, NEW it, Adds(g, D, it), NEW s \in D
  PROVE  /\ s = {} => it[s] = 0
         /\ s # {} => /\ FirstOf(s) \in s
                      /\ it[s] = g[FirstOf(s)].size + it[s \ {FirstOf(s)}]
<1>1. s # {} => FirstOf(s) \in s
  BY DEF FirstOf
<1>2. it[s] = IF s = {} THEN 0 ELSE g[FirstOf(s)].size + it[s \ {FirstOf(s)}]
  BY Zenon DEF Adds
<1> QED
  BY <1>1, <1>2

(* Two of them agree on a set whose members have the same sizes: in the    *)
(* least set on which they differ, taking one out leaves a smaller one.    *)
LEMMA SumsAgree ==
  ASSUME NEW g, NEW h, NEW D, NEW E, NEW u, NEW v, Closed(D), Closed(E),
         Adds(g, D, u), Adds(h, E, v), NEW s \in D \cap E,
         \A i \in s : g[i].size = h[i].size
  PROVE  u[s] = v[s]
<1> DEFINE Bad(r) == /\ r \in D \cap E /\ u[r] # v[r]
                     /\ \A i \in r : g[i].size = h[i].size
           T == {n \in Nat : \E r \in D \cap E : Bad(r) /\ Cardinality(r) = n}
<1> SUFFICES ASSUME T # {} PROVE FALSE
  <2>1. Cardinality(s) \in Nat
    BY FS_CardinalityType DEF Closed
  <2> QED
    BY <2>1
<1>1. Min(T) \in T /\ \A n \in T : Min(T) <= n
  <2> HIDE DEF T
  <2>1. T \subseteq Nat
    BY DEF T
  <2> QED
    BY <2>1, FirstIndex
<1>2. PICK r \in D \cap E : Bad(r) /\ Cardinality(r) = Min(T)
  BY <1>1
<1>3. /\ r = {} => u[r] = 0 /\ v[r] = 0
      /\ r # {} => /\ FirstOf(r) \in r
                   /\ u[r] = g[FirstOf(r)].size + u[r \ {FirstOf(r)}]
                   /\ v[r] = h[FirstOf(r)].size + v[r \ {FirstOf(r)}]
  <2>1. r \in D /\ r \in E
    OBVIOUS
  <2>2. /\ r = {} => u[r] = 0
        /\ r # {} => /\ FirstOf(r) \in r
                     /\ u[r] = g[FirstOf(r)].size + u[r \ {FirstOf(r)}]
    BY <2>1, AddsStep, SMTT(30)
  <2>3. /\ r = {} => v[r] = 0
        /\ r # {} => v[r] = h[FirstOf(r)].size + v[r \ {FirstOf(r)}]
    BY <2>1, AddsStep, SMTT(30)
  <2> QED
    BY <2>2, <2>3, Zenon
<1>4. r # {}
  BY <1>2, <1>3
<1> DEFINE q == r \ {FirstOf(r)}
<1>5. q \in D \cap E /\ IsFiniteSet(r)
  BY <1>3, <1>4 DEF Closed
<1>6. Cardinality(q) \in Nat /\ Cardinality(r) \in Nat
      /\ Cardinality(q) = Cardinality(r) - 1
  BY <1>3, <1>4, <1>5, FS_RemoveElement, FS_CardinalityType
<1>7. \A i \in q : g[i].size = h[i].size
  BY <1>2
<1>8. u[q] = v[q]
  <2> HIDE DEF q
  <2> SUFFICES ASSUME u[q] # v[q] PROVE FALSE
    OBVIOUS
  <2>1. Bad(q)
    BY <1>5, <1>7
  <2> HIDE DEF Bad
  <2>2. Cardinality(q) \in T
    BY <1>5, <1>6, <2>1
  <2> HIDE DEF T
  <2> QED
    BY <1>1, <1>2, <1>6, <2>2
<1> QED
  BY <1>2, <1>3, <1>4, <1>8

(* There is one for the subsets of a finite set: from one for those of up   *)
(* to n - 1 elements the next is made.                                     *)
LEMMA AddsExists ==
  ASSUME NEW g, NEW S, IsFiniteSet(S)
  PROVE  \E it : Adds(g, SUBSET S, it)
<1> DEFINE D(n) == {s \in SUBSET S : Cardinality(s) <= n}
           T == {n \in Nat : ~ \E it : Adds(g, D(n), it)}
<1>1. \A s \in SUBSET S : IsFiniteSet(s) /\ Cardinality(s) \in Nat
                          /\ Cardinality(s) <= Cardinality(S)
  BY FS_Subset, FS_CardinalityType
<1>2. Cardinality(S) \in Nat
  BY FS_CardinalityType
<1> SUFFICES ASSUME T # {} PROVE FALSE
  <2>1. D(Cardinality(S)) = SUBSET S
    BY <1>1
  <2> QED
    BY <1>2, <2>1
<1>3. Min(T) \in T /\ \A n \in T : Min(T) <= n
  <2> HIDE DEF T
  <2>1. T \subseteq Nat
    BY DEF T
  <2> QED
    BY <2>1, FirstIndex
<1> DEFINE m == Min(T)
<1>4. m \in Nat /\ ~ \E it : Adds(g, D(m), it)
  BY <1>3
<1>5. m # 0
  <2> SUFFICES ASSUME m = 0 PROVE FALSE
    OBVIOUS
  <2> DEFINE it == [s \in D(m) |-> 0]
  <2>1. \A s \in D(m) : s = {}
    BY <1>1, FS_EmptySet
  <2>2. Adds(g, D(m), it)
    BY <2>1 DEF Adds
  <2> QED
    BY <1>4, <2>2
<1>6. PICK u : Adds(g, D(m - 1), u)
  <2>1. m - 1 \in Nat /\ ~ (m <= m - 1)
    BY <1>4, <1>5
  <2>2. m - 1 \notin T
    BY <1>3, <2>1
  <2> QED
    BY <2>1, <2>2
<1> DEFINE F(s) == IF s = {} THEN 0 ELSE g[FirstOf(s)].size + u[s \ {FirstOf(s)}]
           v == [s \in D(m) |-> F(s)]
<1>7. \A s \in D(m) : s # {} => s \ {FirstOf(s)} \in D(m - 1)
                                /\ s \ {FirstOf(s)} \in D(m)
  <2> TAKE s \in D(m)
  <2> HAVE s # {}
  <2>1. FirstOf(s) \in s
    BY DEF FirstOf
  <2>2. Cardinality(s \ {FirstOf(s)}) = Cardinality(s) - 1
    BY <1>1, <2>1, FS_RemoveElement
  <2>3. Cardinality(s) \in Nat /\ Cardinality(s) <= m
    BY <1>1
  <2> QED
    BY <1>4, <2>2, <2>3
<1>8. \A s \in D(m - 1) : u[s] = F(s)
  BY <1>6, Zenon DEF Adds
<1>9. \A s \in D(m) : s # {} => v[s \ {FirstOf(s)}] = u[s \ {FirstOf(s)}]
  BY <1>7, <1>8
<1>10. v = [s \in D(m) |-> IF s = {} THEN 0
                           ELSE g[FirstOf(s)].size + v[s \ {FirstOf(s)}]]
  <2>1. \A s \in D(m) : F(s) = IF s = {} THEN 0
                               ELSE g[FirstOf(s)].size + v[s \ {FirstOf(s)}]
    BY <1>9
  <2> HIDE DEF F
  <2>2. \A s \in D(m) : v[s] = F(s)
    OBVIOUS
  <2> QED
    BY <2>1
<1> QED
  BY <1>4, <1>10 DEF Adds

(* So the sum of a finite set is that of one element less and the element. *)
LEMMA SumFirst ==
  ASSUME NEW g, NEW S, IsFiniteSet(S)
  PROVE  /\ S = {} => SizeSum(g, S) = 0
         /\ S # {} => /\ FirstOf(S) \in S
                      /\ SizeSum(g, S) = g[FirstOf(S)].size
                                          + SizeSum(g, S \ {FirstOf(S)})
<1> DEFINE u(s) == CHOOSE it : Adds(g, SUBSET s, it)
<1>1. ASSUME NEW s \in SUBSET S
      PROVE  Adds(g, SUBSET s, u(s)) /\ Closed(SUBSET s) /\ SizeSum(g, s) = u(s)[s]
  <2>1. IsFiniteSet(s)
    BY FS_Subset
  <2>2. Adds(g, SUBSET s, u(s))
    BY <2>1, AddsExists, Zenon
  <2>3. Closed(SUBSET s)
    BY <2>1, FS_Subset DEF Closed
  <2> QED
    BY <2>2, <2>3, SumUnfold
<1> HIDE DEF u
<1>2. Adds(g, SUBSET S, u(S)) /\ Closed(SUBSET S) /\ SizeSum(g, S) = u(S)[S]
  BY <1>1
<1>3. CASE S = {}
  <2>1. S \in SUBSET S
    OBVIOUS
  <2> QED
    BY <1>2, <1>3, <2>1, AddsStep
<1>4. CASE S # {}
  <2> DEFINE r == S \ {FirstOf(S)}
  <2>1. S \in SUBSET S
    OBVIOUS
  <2>2. FirstOf(S) \in S /\ u(S)[S] = g[FirstOf(S)].size + u(S)[r]
    BY <1>2, <1>4, <2>1, AddsStep
  <2>3. r \in SUBSET S /\ r \in SUBSET r
    OBVIOUS
  <2>4. Adds(g, SUBSET r, u(r)) /\ Closed(SUBSET r) /\ SizeSum(g, r) = u(r)[r]
    BY <1>1, <2>3
  <2> HIDE DEF r
  <2>5. u(r)[r] = u(S)[r]
    BY <1>2, <2>3, <2>4, SumsAgree
  <2> QED
    BY <1>2, <1>4, <2>2, <2>4, <2>5 DEF r
<1> QED
  BY <1>3, <1>4

(* It depends on nothing but the sizes of the elements.                    *)
LEMMA SumSame ==
  ASSUME NEW g, NEW h, NEW S, IsFiniteSet(S),
         \A i \in S : g[i].size = h[i].size
  PROVE  SizeSum(g, S) = SizeSum(h, S)
<1> DEFINE u == CHOOSE it : Adds(g, SUBSET S, it)
           v == CHOOSE it : Adds(h, SUBSET S, it)
<1>1. Adds(g, SUBSET S, u)
  BY AddsExists, Zenon
<1>2. Adds(h, SUBSET S, v)
  BY AddsExists, Zenon
<1>3. SizeSum(g, S) = u[S] /\ SizeSum(h, S) = v[S]
  BY SumUnfold
<1>4. Closed(SUBSET S) /\ S \in SUBSET S
  BY FS_Subset DEF Closed
<1> HIDE DEF u, v
<1> QED
  BY <1>1, <1>2, <1>3, <1>4, SumsAgree

(* The sum of natural numbers is one.                                      *)
LEMMA SumNat ==
  ASSUME NEW g, NEW S, IsFiniteSet(S), \A i \in S : g[i].size \in Nat
  PROVE  SizeSum(g, S) \in Nat
<1> DEFINE T == {n \in Nat : \E s \in SUBSET S :
                   Cardinality(s) = n /\ SizeSum(g, s) \notin Nat}
<1>1. \A s \in SUBSET S : IsFiniteSet(s) /\ Cardinality(s) \in Nat
  BY FS_Subset, FS_CardinalityType
<1> SUFFICES ASSUME T # {} PROVE FALSE
  BY <1>1
<1>2. Min(T) \in T /\ \A n \in T : Min(T) <= n
  <2> HIDE DEF T
  <2>1. T \subseteq Nat
    BY DEF T
  <2> QED
    BY <2>1, FirstIndex
<1>3. PICK s \in SUBSET S : Cardinality(s) = Min(T) /\ SizeSum(g, s) \notin Nat
  BY <1>2
<1> DEFINE r == s \ {FirstOf(s)}
<1>4. s # {} /\ FirstOf(s) \in s /\ SizeSum(g, s) = g[FirstOf(s)].size + SizeSum(g, r)
  <2>1. IsFiniteSet(s)
    BY <1>1
  <2>2. s # {}
    <3>1. s = {} => SizeSum(g, s) = 0
      BY <2>1, SumFirst
    <3> QED
      BY <1>3, <3>1
  <2> QED
    BY <2>1, <2>2, SumFirst
<1>5. r \in SUBSET S /\ Cardinality(r) \in Nat /\ Cardinality(s) \in Nat
      /\ Cardinality(r) = Cardinality(s) - 1
  BY <1>1, <1>4, FS_RemoveElement
<1> HIDE DEF r
<1>6. SizeSum(g, r) \in Nat
  <2> SUFFICES ASSUME SizeSum(g, r) \notin Nat PROVE FALSE
    OBVIOUS
  <2>1. Cardinality(r) \in T
    BY <1>5
  <2> HIDE DEF T
  <2> QED
    BY <1>2, <1>3, <1>5, <2>1
<1> QED
  BY <1>3, <1>4, <1>6

(* Any element may be taken out first.                                     *)
LEMMA SumWithout ==
  ASSUME NEW g, NEW S, IsFiniteSet(S), \A i \in S : g[i].size \in Nat,
         NEW x \in S
  PROVE  SizeSum(g, S) = g[x].size + SizeSum(g, S \ {x})
<1> DEFINE Off(s, y) == SizeSum(g, s) # g[y].size + SizeSum(g, s \ {y})
           T == {n \in Nat : \E s \in SUBSET S :
                   Cardinality(s) = n /\ \E y \in s : Off(s, y)}
<1>1. \A s \in SUBSET S : IsFiniteSet(s) /\ Cardinality(s) \in Nat
  BY FS_Subset, FS_CardinalityType
<1> SUFFICES ASSUME T # {} PROVE FALSE
  <2>1. S \in SUBSET S
    OBVIOUS
  <2> QED
    BY <1>1, <2>1
<1>2. Min(T) \in T /\ \A n \in T : Min(T) <= n
  <2> HIDE DEF T
  <2>1. T \subseteq Nat
    BY DEF T
  <2> QED
    BY <2>1, FirstIndex
<1>3. PICK s \in SUBSET S : Cardinality(s) = Min(T) /\ \E y \in s : Off(s, y)
  BY <1>2
<1>4. PICK y \in s : Off(s, y)
  BY <1>3
<1>5. ASSUME NEW z \in s
      PROVE  /\ s \ {z} \in SUBSET S
             /\ \A w \in s \ {z} : ~ Off(s \ {z}, w)
  <2> DEFINE r == s \ {z}
  <2>1. r \in SUBSET S /\ Cardinality(r) \in Nat /\ Cardinality(s) \in Nat
        /\ Cardinality(r) = Cardinality(s) - 1
    BY <1>1, FS_RemoveElement
  <2> HIDE DEF r, Off
  <2> SUFFICES ASSUME NEW w \in r, Off(r, w) PROVE FALSE
    BY <2>1 DEF r
  <2>2. Cardinality(r) \in T
    BY <2>1
  <2> HIDE DEF T
  <2> QED
    BY <1>2, <1>3, <2>1, <2>2
<1> DEFINE z == FirstOf(s)
<1>6. z \in s /\ SizeSum(g, s) = g[z].size + SizeSum(g, s \ {z})
  BY <1>1, SumFirst
<1>7. z # y
  BY <1>4, <1>6
<1> HIDE DEF z
<1> DEFINE q == s \ {y, z}
<1>8. (s \ {z}) \ {y} = q /\ (s \ {y}) \ {z} = q
      /\ y \in s \ {z} /\ z \in s \ {y}
  BY <1>6, <1>7
<1> HIDE DEF q
<1>9. SizeSum(g, s \ {z}) = g[y].size + SizeSum(g, q)
  BY <1>5, <1>6, <1>8
<1>10. SizeSum(g, s \ {y}) = g[z].size + SizeSum(g, q)
  BY <1>5, <1>6, <1>8
<1>11. SizeSum(g, q) \in Nat /\ g[y].size \in Nat /\ g[z].size \in Nat
  <2>1. q \in SUBSET S
    BY DEF q
  <2> QED
    BY <1>1, <1>6, <2>1, SumNat
<1> QED
  BY <1>4, <1>6, <1>9, <1>10, <1>11

(* Pieces that lie between lo and hi and do not overlap take no more bytes  *)
(* than there are: what the highest leaves below it has room for the rest.  *)
LEMMA SumFits ==
  ASSUME NEW g, NEW S, IsFiniteSet(S), NEW lo \in Nat, NEW hi \in Nat, lo <= hi,
         \A i \in S : /\ g[i].ptr \in Nat /\ g[i].size \in Nat
                      /\ g[i].size > 0
                      /\ lo <= g[i].ptr /\ g[i].ptr + g[i].size <= hi,
         \A i, j \in S : i # j =>
           \/ g[i].ptr + g[i].size <= g[j].ptr
           \/ g[j].ptr + g[j].size <= g[i].ptr
  PROVE  SizeSum(g, S) <= hi - lo
<1> DEFINE Below(s, top) == \A i \in s : g[i].ptr + g[i].size <= top
           Burst(s, top) == Below(s, top) /\ ~ (SizeSum(g, s) <= top - lo)
           T == {n \in Nat : \E s \in SUBSET S :
                   Cardinality(s) = n /\ \E top \in lo .. hi : Burst(s, top)}
<1>1. \A s \in SUBSET S : IsFiniteSet(s) /\ Cardinality(s) \in Nat
  BY FS_Subset, FS_CardinalityType
<1> SUFFICES ASSUME T # {} PROVE FALSE
  <2>1. S \in SUBSET S /\ hi \in lo .. hi /\ Below(S, hi)
    OBVIOUS
  <2> QED
    BY <1>1, <2>1
<1>2. Min(T) \in T /\ \A n \in T : Min(T) <= n
  <2> HIDE DEF T
  <2>1. T \subseteq Nat
    BY DEF T
  <2> QED
    BY <2>1, FirstIndex
<1>3. PICK s \in SUBSET S :
        Cardinality(s) = Min(T) /\ \E top \in lo .. hi : Burst(s, top)
  BY <1>2
<1>4. PICK top \in lo .. hi : Burst(s, top)
  BY <1>3
<1>5. s # {}
  <2> SUFFICES ASSUME s = {} PROVE FALSE
    OBVIOUS
  <2>1. SizeSum(g, s) = 0
    BY <1>1, SumFirst
  <2> QED
    BY <1>4, <2>1
<1>6. PICK x \in s : \A i \in s : g[i].ptr <= g[x].ptr
  <2> DEFINE H == {n \in Nat : \E i \in s : n = hi - g[i].ptr}
  <2>1. \A i \in s : hi - g[i].ptr \in H
    OBVIOUS
  <2>2. H # {} /\ H \subseteq Nat
    BY <1>5, <2>1
  <2>3. Min(H) \in H /\ \A n \in H : Min(H) <= n
    <3> HIDE DEF H
    <3> QED
      BY <2>2, FirstIndex
  <2>4. PICK x \in s : Min(H) = hi - g[x].ptr
    BY <2>3
  <2>5. \A i \in s : hi - g[x].ptr <= hi - g[i].ptr
    BY <2>1, <2>3, <2>4
  <2> HIDE DEF H
  <2>6. \A i \in s : g[i].ptr <= g[x].ptr
    BY <2>5
  <2> QED
    BY <2>6
<1> DEFINE r == s \ {x}
<1>7. r \in SUBSET S /\ Cardinality(r) \in Nat /\ Cardinality(s) \in Nat
      /\ Cardinality(r) = Cardinality(s) - 1
  BY <1>1, FS_RemoveElement
<1>8. g[x].ptr \in lo .. hi /\ Below(r, g[x].ptr)
  <2>1. g[x].ptr \in lo .. hi
    OBVIOUS
  <2>2. ASSUME NEW i \in r PROVE g[i].ptr + g[i].size <= g[x].ptr
    <3>1. i \in S /\ x \in S /\ i # x /\ g[i].ptr <= g[x].ptr
      BY <1>6
    <3>2. /\ g[i].ptr \in Nat /\ g[x].ptr \in Nat /\ g[x].size \in Nat
          /\ g[x].size > 0 /\ g[i].size \in Nat
      BY <3>1
    <3>3. \/ g[i].ptr + g[i].size <= g[x].ptr
          \/ g[x].ptr + g[x].size <= g[i].ptr
      BY <3>1
    <3> QED
      BY <3>1, <3>2, <3>3
  <2> QED
    BY <2>1, <2>2
<1>9. SizeSum(g, r) <= g[x].ptr - lo
  <2> HIDE DEF r
  <2> SUFFICES ASSUME ~ (SizeSum(g, r) <= g[x].ptr - lo) PROVE FALSE
    OBVIOUS
  <2>1. Burst(r, g[x].ptr)
    BY <1>8
  <2> HIDE DEF Burst, Below
  <2>2. Cardinality(r) \in T
    BY <1>7, <1>8, <2>1
  <2> HIDE DEF T
  <2> QED
    BY <1>2, <1>3, <1>7, <2>2
<1>10. SizeSum(g, s) = g[x].size + SizeSum(g, r)
  <2>1. IsFiniteSet(s) /\ \A i \in s : g[i].size \in Nat
    BY <1>1
  <2> QED
    BY <2>1, SumWithout
<1>11. SizeSum(g, r) \in Nat
  <2>1. IsFiniteSet(r) /\ \A i \in r : g[i].size \in Nat
    BY <1>1, <1>7
  <2> HIDE DEF r
  <2> QED
    BY <2>1, SumNat
<1>12. g[x].ptr + g[x].size <= top /\ ~ (SizeSum(g, s) <= top - lo)
  BY <1>4
<1>13. g[x].ptr \in Nat /\ g[x].size \in Nat /\ top \in Nat
  OBVIOUS
<1> HIDE DEF r
<1> QED
  BY <1>9, <1>10, <1>11, <1>12, <1>13
=============================================================================

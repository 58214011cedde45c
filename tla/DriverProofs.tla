---------------------------- MODULE DriverProofs ----------------------------
(***************************************************************************)
(* What mdriver.c's passes over the traces keep, for any number of trace   *)
(* files, ids and sizes and any answers of the allocator.  Some of it      *)
(* holds whatever the files say; the rest of the traces of programs.       *)
(***************************************************************************)
EXTENDS Driver, RangesLemmas

Op == [type : {"ALLOC", "REALLOC", "FREE", "bogus"}, index : Ids, size : Int]

(* What read_trace makes of a file's lines. *)
Ops(file) ==
  [k \in DOMAIN file.lines |-> [file.lines[k] EXCEPT !.size = ToInt(@)]]

Evaluating == pass \in {"valid", "util", "cut_short", "speed"}

-----------------------------------------------------------------------------
(* The invariant of any files and any allocator                            *)

ArgumentsOK ==
  /\ correct \in Allocators
  /\ files \in [1 .. MaxTraces -> Files[correct]]

(* Where main is.  A trace is timed only after the passes that check it.   *)
PlaceOK ==
  /\ package \in {"libc", "mm"}
  /\ pass \in {"read", "valid", "util", "cut_short", "speed", "exit", "abort",
              "overrun", "undefined"}
  /\ tracenum \in 0 .. MaxTraces /\ runs \in 0 .. SpeedRuns
  /\ trace \in Seq(Op) /\ opnum \in Nat
  /\ Running => opnum \in 1 .. Len(trace) + 1
  /\ pass \in {"valid", "util", "cut_short"} => runs = 0

Sound(rs) ==
  /\ rs \in Seq(Record)
  /\ \A k \in DOMAIN rs : rs[k] \in [lo : Nat, hi : Nat]

Given == [ptr : Nat, size : Nat, kept : Nat]

MemoryOK ==
  /\ blocks \in [Ids -> Nat] /\ block_sizes \in [Ids -> Nat]
  /\ Sound(ranges)
  /\ errors \subseteq {"failed", "range", "data"}
  /\ given \in [Ids -> Given]
  /\ brk \in mem_start_brk .. mem_max_addr

(* The trace that is being evaluated is the last one read. *)
Loaded ==
  Evaluating =>
    /\ tracenum \in 1 .. MaxTraces
    /\ header_asserts(files[tracenum])
    /\ \A k \in DOMAIN files[tracenum].lines :
         files[tracenum].lines[k].type # "bogus"
    /\ trace = Ops(files[tracenum])

(* Past eval_mm_valid, no request has a negative size; and in it, none that *)
(* was made.                                                                *)
Signed ==
  package = "mm" /\ Evaluating =>
    \A k \in DOMAIN trace :
      trace[k].type # "FREE" /\ (pass = "valid" => k < opnum) =>
        trace[k].size >= 0

Basic == /\ ArgumentsOK /\ PlaceOK /\ MemoryOK /\ Loaded /\ Signed
         /\ OverlapsOnlyByContaining

-----------------------------------------------------------------------------
(* What a line of a trace file says                                        *)

(* An int takes 0 and some positive numbers.                               *)
LEMMA IntSpan ==
  INT_SPAN \in Nat /\ INT_SPAN > 0 /\ INT_MAX \in Int /\ INT_MAX >= 0
<1>1. INT_SPAN \in Nat /\ MAX_HEAP \in Nat
      /\ INT_MAX >= MAX_HEAP + MINBLOCKSIZE
  BY MemoryAssumption
<1>2. INT_MAX \in Int /\ INT_MAX >= 0
  BY <1>1 DEF INT_MAX, MINBLOCKSIZE, WORD_SIZE
<1> QED
  BY <1>1, <1>2 DEF INT_MAX

(* The conversion of a size to int is not the identity, but only 0 is 0.    *)
LEMMA ToIntFacts ==
  ASSUME NEW n \in 0 .. INT_SPAN - 1
  PROVE  ToInt(n) \in Int /\ (ToInt(n) = 0 <=> n = 0)
<1>1. /\ INT_SPAN \in Nat /\ n \in Nat /\ n < INT_SPAN
      /\ INT_MAX \in Int /\ INT_MAX >= 0
  BY IntSpan
<1>2. n % INT_SPAN = n
  BY <1>1
<1> QED
  BY <1>1, <1>2 DEF ToInt

(* read_trace: the requests are the lines, with their sizes as ints.       *)
LEMMA OpsFacts ==
  ASSUME NEW c \in Allocators, NEW file \in Files[c]
  PROVE  /\ Ops(file) \in Seq(Op) /\ Len(Ops(file)) = Len(file.lines)
         /\ DOMAIN file.lines = 1 .. Len(file.lines) /\ Len(file.lines) \in Nat
         /\ \A k \in 1 .. Len(file.lines) :
              /\ Ops(file)[k].type = file.lines[k].type
              /\ Ops(file)[k].index = file.lines[k].index
              /\ Ops(file)[k].index \in Ids
              /\ Ops(file)[k].size = 0 <=> file.lines[k].size = 0
<1> DEFINE lines == file.lines
<1>1. file \in File
  BY DriverAssumption
<1>2. lines \in Seq(Line)
  BY <1>1 DEF File
<1>3. /\ DOMAIN lines = 1 .. Len(lines) /\ Len(lines) \in Nat
      /\ \A k \in 1 .. Len(lines) : lines[k] \in Line
  BY <1>2, LenProperties, ElementOfSeq
<1>4. \A n \in Sizes \cup {0} : n \in 0 .. INT_SPAN - 1
  BY DriverAssumption, IntSpan
<1> DEFINE ops == [k \in 1 .. Len(lines) |-> [lines[k] EXCEPT !.size = ToInt(@)]]
<1>5. ASSUME NEW k \in 1 .. Len(lines)
      PROVE  /\ ops[k] \in Op /\ ops[k].type = lines[k].type
             /\ ops[k].index = lines[k].index
             /\ ops[k].size = 0 <=> lines[k].size = 0
  <2>1. lines[k] \in Line
    BY <1>3
  <2>2. ops[k] = [lines[k] EXCEPT !.size = ToInt(lines[k].size)]
    OBVIOUS
  <2>3. /\ lines[k].type \in {"ALLOC", "REALLOC", "FREE", "bogus"}
        /\ lines[k].index \in Ids /\ lines[k].size \in Sizes \cup {0}
    BY <2>1 DEF Line
  <2>4. ToInt(lines[k].size) \in Int /\ (ToInt(lines[k].size) = 0 <=> lines[k].size = 0)
    BY <1>4, <2>3, ToIntFacts
  <2> HIDE DEF ops, lines
  <2> QED
    BY <2>1, <2>2, <2>3, <2>4 DEF Line, Op
<1>6. Ops(file) = ops
  BY <1>3 DEF Ops
<1> HIDE DEF ops
<1>7. ops \in Seq(Op) /\ Len(ops) = Len(lines)
  <2>1. ops = [k \in 1 .. Len(lines) |-> ops[k]]
    BY DEF ops
  <2> QED
    BY <1>3, <1>5, <2>1, IsASeq
<1>8. \A k \in 1 .. Len(lines) : ops[k].index \in Ids
  BY <1>5 DEF Op
<1> HIDE DEF lines
<1> QED
  BY <1>3, <1>5, <1>6, <1>7, <1>8 DEF lines

-----------------------------------------------------------------------------
(* The steps keep it                                                       *)

(* add_range and remove_range keep the records sound.                      *)
LEMMA AddSound ==
  ASSUME NEW rs, Sound(rs), NEW p \in Nat, NEW size \in Int, range_asserts(size)
  PROVE  Sound(add_range(rs, p, size))
<1> DEFINE r == add_range(rs, p, size)
<1>0. rs \in Seq(Record) /\ p \in Int
  BY DEF Sound
<1>1. /\ r \in Seq(Record) /\ DOMAIN r = 1 .. Len(rs) + 1
      /\ r[1] = range(p, size)
      /\ \A k \in 2 .. Len(rs) + 1 : r[k] = rs[k - 1]
  BY <1>0, AddRange
<1>2. DOMAIN rs = 1 .. Len(rs) /\ Len(rs) \in Nat
  BY LenProperties DEF Sound
<1>3. range(p, size) \in [lo : Nat, hi : Nat]
  BY DEF range, range_asserts
<1> HIDE DEF r
<1>4. ASSUME NEW k \in DOMAIN r PROVE r[k] \in [lo : Nat, hi : Nat]
  <2>1. CASE k = 1
    BY <1>1, <1>3, <2>1
  <2>2. CASE k # 1
    <3>1. k \in 2 .. Len(rs) + 1 /\ k - 1 \in DOMAIN rs
      BY <1>1, <1>2, <1>4, <2>2
    <3> QED
      BY <1>1, <3>1 DEF Sound
  <2> QED
    BY <2>1, <2>2
<1> QED
  BY <1>1, <1>4 DEF Sound, r

(* What remove_range leaves was there before.                              *)
LEMMA RemoveSound ==
  ASSUME NEW rs, Sound(rs), NEW lo
  PROVE  /\ Sound(remove_range(rs, lo))
         /\ Apart(rs) => Apart(remove_range(rs, lo))
<1> DEFINE r == remove_range(rs, lo)
           n == Len(rs)
<1>1. rs \in Seq(Record) /\ n \in Nat /\ DOMAIN rs = 1 .. n
  BY LenProperties DEF Sound
<1>2. CASE r = rs
  BY <1>2
<1>3. ASSUME NEW i \in 1 .. n, r \in Seq(Record), Len(r) = n - 1,
             \A k \in 1 .. n - 1 : r[k] = IF k < i THEN rs[k] ELSE rs[k + 1]
      PROVE  Sound(r)
  <2>1. DOMAIN r = 1 .. n - 1
    BY <1>3, LenProperties
  <2>2. \A k \in 1 .. n - 1 : \E j \in 1 .. n : r[k] = rs[j]
    BY <1>1, <1>3, SMTT(30)
  <2> HIDE DEF r
  <2> QED
    BY <1>1, <1>3, <2>1, <2>2 DEF Sound
<1>4. Sound(r)
  BY <1>1, <1>2, <1>3, RemoveRange, Zenon
<1> QED
  BY <1>1, <1>4, RemoveApart

(* What a request may do to the place main is at: the ends of a request of  *)
(* any pass, as Proceeds, app_error and malloc_error leave it.              *)
Outcome ==
  \/ Proceeds
  \/ Stops("exit") \/ Stops("abort") \/ Misuses
  \/ /\ pass # "speed"
     /\ Blames("failed") \/ Blames("range") \/ Blames("data")

(* Whichever it is, main stays in step with the trace.                     *)
LEMMA OutcomeBasic ==
  ASSUME Basic, Running, opnum <= Len(trace), UNCHANGED arguments, Outcome,
         package = "mm" /\ Proceeds =>
           trace[opnum].type = "FREE" \/ trace[opnum].size >= 0
  PROVE  /\ ArgumentsOK' /\ PlaceOK' /\ Loaded' /\ Signed'
         /\ errors' \subseteq {"failed", "range", "data"}
         /\ Checking' => Checking
<1> USE DEF Outcome, Proceeds, Stops, Misuses, Blames, arguments, progress,
            Running
<1>1. ArgumentsOK'
  BY DEF Basic, ArgumentsOK
<1>2. /\ trace' = trace /\ package' = package /\ tracenum' = tracenum
      /\ runs' = runs /\ files' = files
      /\ \/ pass' = pass /\ opnum' = opnum + 1
         \/ pass' \in {"exit", "abort", "undefined", "read"}
         \/ pass' = "cut_short" /\ pass = "util"
      /\ opnum' \in {opnum, opnum + 1}
  OBVIOUS
<1>3. errors' \subseteq {"failed", "range", "data"}
  BY DEF Basic, MemoryOK
<1>4. package = "mm" /\ Evaluating' =>
         \/ pass' = "cut_short" /\ pass = "util"
         \/ /\ pass' = pass /\ opnum' = opnum + 1
            /\ trace[opnum].type = "FREE" \/ trace[opnum].size >= 0
  BY DEF Evaluating
<1> HIDE DEF Outcome, Proceeds, Stops, Misuses, Blames, arguments, progress
<1>5. PlaceOK
  BY DEF Basic
<1>6. opnum \in Nat /\ opnum' \in Nat /\ Len(trace) \in Nat
      /\ trace \in Seq(Op)
  <2>1. opnum \in Nat /\ trace \in Seq(Op)
    BY <1>5 DEF PlaceOK
  <2>2. Len(trace) \in Nat
    BY <2>1, LenProperties
  <2>3. opnum' \in Nat
    BY <1>2, <2>1
  <2> QED
    BY <2>1, <2>2, <2>3
<1>7. PlaceOK'
  <2>1. package' \in {"libc", "mm"} /\ tracenum' \in 0 .. MaxTraces
        /\ runs' \in 0 .. SpeedRuns /\ trace' \in Seq(Op) /\ opnum' \in Nat
    BY <1>2, <1>5, <1>6 DEF PlaceOK
  <2>2. pass' \in {"read", "valid", "util", "cut_short", "speed", "exit",
                   "abort", "undefined"}
    BY <1>2 DEF Running
  <2>3. Running' => opnum' \in 1 .. Len(trace) + 1
    BY <1>2, <1>6 DEF Running
  <2>4. pass' \in {"valid", "util", "cut_short"} => runs' = 0
    <3>1. pass' \in {"valid", "util"} => runs' = 0
      BY <1>2, <1>5 DEF PlaceOK
    <3> QED
      BY <1>2, <1>5, <3>1 DEF PlaceOK, Running
  <2> QED
    BY <1>2, <2>1, <2>2, <2>3, <2>4 DEF PlaceOK
<1>8. Loaded'
  BY <1>2 DEF Basic, Loaded, Evaluating
<1>9. Signed'
  <2>1. Signed
    BY DEF Basic
  <2>2. DOMAIN trace = 1 .. Len(trace)
    BY <1>6, LenProperties
  <2> SUFFICES ASSUME package = "mm", Evaluating', NEW k \in DOMAIN trace,
                      trace[k].type # "FREE", pass' = "valid" => k < opnum'
               PROVE  trace[k].size >= 0
    BY <1>2 DEF Signed
  <2>3. CASE pass' = "cut_short" /\ pass = "util"
    BY <2>1, <2>3 DEF Signed, Evaluating
  <2>4. CASE pass' = pass /\ opnum' = opnum + 1 /\ k = opnum
    BY <1>4, <2>4
  <2>5. CASE pass' = pass /\ opnum' = opnum + 1 /\ k # opnum
    <3>1. pass = "valid" => k < opnum
      BY <1>6, <2>2, <2>5
    <3> QED
      BY <2>1, <2>5, <3>1 DEF Signed, Evaluating
  <2> QED
    BY <1>4, <2>3, <2>4, <2>5
<1>10. Checking' => Checking
  BY <1>2 DEF Checking
<1> QED
  BY <1>1, <1>3, <1>7, <1>8, <1>9, <1>10

(* The request at hand.                                                    *)
LEMMA RequestFacts ==
  ASSUME Basic, Running, opnum <= Len(trace)
  PROVE  /\ opnum \in DOMAIN trace /\ opnum \in 1 .. Len(trace)
         /\ trace[opnum] \in Op
         /\ trace[opnum].index \in Ids /\ trace[opnum].size \in Int
<1>1. trace \in Seq(Op) /\ opnum \in 1 .. Len(trace) + 1
  BY DEF Basic, PlaceOK
<1>2. DOMAIN trace = 1 .. Len(trace) /\ Len(trace) \in Nat
  BY <1>1, LenProperties
<1>3. opnum \in 1 .. Len(trace)
  BY <1>1, <1>2
<1>4. trace[opnum] \in Op
  BY <1>1, <1>3, ElementOfSeq
<1> QED
  BY <1>2, <1>3, <1>4 DEF Op

(* mm_malloc and mm_realloc, whatever they answer.                         *)
LEMMA HandsOutTyped ==
  ASSUME MemoryOK, NEW index \in Ids, NEW size \in Int, NEW p \in Pointers,
         HandsOut(index, size, p)
  PROVE  /\ given' \in [Ids -> Given] /\ p \in Nat /\ p # NULL
         /\ Granted(size) \in Nat
         /\ brk' \in mem_start_brk .. mem_max_addr
<1>1. p \in Nat /\ p # NULL
  BY DriverAssumption
<1>2. Granted(size) \in Nat
  BY DEF Granted, MINBLOCKSIZE, TAGS_SIZE, WORD_SIZE
<1>3. given' = [given EXCEPT ![index] =
        [ptr |-> p, size |-> Granted(size), kept |-> Granted(size)]]
  BY DEF HandsOut
<1>4. brk' \in Breaks \cup {brk}
  BY DEF HandsOut
<1>5. given' \in [Ids -> Given]
  BY <1>1, <1>2, <1>3 DEF MemoryOK, Given
<1>6. brk' \in mem_start_brk .. mem_max_addr
  BY <1>4, DriverAssumption DEF MemoryOK
<1> QED
  BY <1>1, <1>2, <1>5, <1>6

(* The result of an ALLOC or REALLOC, in any pass.                         *)
LEMMA ReceivesBasic ==
  ASSUME Basic, Running, package = "mm", opnum <= Len(trace),
         trace[opnum].type # "FREE",
         NEW p \in Pointers, NEW rs, NEW intact, NEW old \in Nat,
         Sound(rs), pass # "speed" => Apart(rs),
         HandsOut(trace[opnum].index, trace[opnum].size, p),
         Receives(trace[opnum].index, p, trace[opnum].size, rs, intact, old),
         UNCHANGED arguments
  PROVE  Basic'
<1> DEFINE index == trace[opnum].index
           size == trace[opnum].size
<1>1. opnum \in DOMAIN trace /\ index \in Ids /\ size \in Int
  BY RequestFacts
<1>2. MemoryOK
  BY DEF Basic
<1>3. /\ given' \in [Ids -> Given] /\ p \in Nat
      /\ brk' \in mem_start_brk .. mem_max_addr
  BY <1>1, <1>2, HandsOutTyped
<1>4. pass = "speed" => size >= 0
  BY <1>1 DEF Basic, Signed, Evaluating
<1> HIDE DEF index, size
<1>5. /\ Outcome
      /\ Proceeds => size >= 0
      /\ \/ UNCHANGED recorded
         \/ pass = "speed" /\ Records(index, p, size)
         \/ range_asserts(size) /\ Records(index, p, size)
      /\ \/ pass = "speed" /\ ranges' = ranges
         \/ pass # "speed" /\ ranges' = rs
         \/ /\ pass # "speed" /\ ranges' = add_range(rs, p, size)
            /\ range_asserts(size) /\ range_is_fine(rs, brk', p, size)
  <2>1. Receives(index, p, size, rs, intact, old)
    BY DEF index, size
  <2>2. range_asserts(size) => size > 0
    BY DEF range_asserts
  <2>3. CASE /\ pass = "speed" /\ Records(index, p, size) /\ Fills(size)
             /\ UNCHANGED <<ranges, totals>>
    <3>1. Proceeds
      BY <1>1, <1>4, <2>3 DEF Fills, index, size
    <3> QED
      BY <1>4, <2>3, <3>1 DEF Outcome
  <2>4. CASE /\ pass # "speed" /\ ~ range_asserts(size)
             /\ ranges' = rs /\ Stops("abort") /\ UNCHANGED <<recorded, totals>>
    <3>1. ~ Proceeds
      BY <2>4 DEF Stops, Proceeds, Running
    <3> QED
      BY <2>4, <3>1 DEF Outcome
  <2>5. CASE /\ pass # "speed" /\ range_asserts(size)
             /\ range_is_fine(rs, brk', p, size)
             /\ ranges' = add_range(rs, p, size) /\ Records(index, p, size)
             /\ Fills(size)
    <3>1. size > 0
      BY <2>2, <2>5
    <3>2. Proceeds
      BY <1>1, <2>5, <3>1 DEF Fills, index, size
    <3> QED
      BY <1>1, <2>5, <3>1, <3>2 DEF Outcome, index, size
  <2>6. CASE /\ pass # "speed" /\ range_asserts(size)
             /\ range_is_fine(rs, brk', p, size)
             /\ ranges' = add_range(rs, p, size)
             /\ Blames("data") /\ UNCHANGED <<recorded, totals>>
    <3>1. size > 0
      BY <2>2, <2>6
    <3> QED
      BY <1>1, <2>6, <3>1 DEF Outcome, index, size
  <2>7. CASE /\ pass # "speed" /\ range_asserts(size) /\ ranges' = rs
             /\ Blames("range") /\ UNCHANGED <<recorded, totals>>
    <3>1. size > 0
      BY <2>2, <2>7
    <3> QED
      BY <1>1, <2>7, <3>1 DEF Outcome, index, size
  <2> QED
    BY <2>1, <2>3, <2>4, <2>5, <2>6, <2>7 DEF Receives
<1>6. /\ ArgumentsOK' /\ PlaceOK' /\ Loaded' /\ Signed'
      /\ errors' \subseteq {"failed", "range", "data"}
      /\ Checking' => Checking
  BY <1>5, OutcomeBasic DEF size
<1>7. blocks' \in [Ids -> Nat] /\ block_sizes' \in [Ids -> Nat]
  <2>1. blocks \in [Ids -> Nat] /\ block_sizes \in [Ids -> Nat]
    BY <1>2 DEF MemoryOK
  <2>2. CASE UNCHANGED recorded
    BY <2>1, <2>2 DEF recorded
  <2>3. CASE Records(index, p, size) /\ (pass = "speed" \/ range_asserts(size))
    <3>1. index \in Ids /\ size \in Int /\ p \in Nat
      BY <1>1, <1>3 DEF index, size
    <3>2. pass # "speed" => size \in Nat
      BY <2>3, <3>1 DEF range_asserts
    <3> QED
      BY <2>1, <2>3, <3>1, <3>2 DEF Records
  <2> QED
    BY <1>5, <2>2, <2>3
<1>8. Sound(ranges')
  <2>1. Sound(ranges)
    BY <1>2 DEF MemoryOK
  <2>2. range_asserts(size) => Sound(add_range(rs, p, size))
    BY <1>1, <1>3, AddSound DEF size
  <2> QED
    BY <1>5, <2>1, <2>2
<1>9. OverlapsOnlyByContaining'
  <2> SUFFICES ASSUME Checking' PROVE Apart(ranges')
    BY DEF OverlapsOnlyByContaining
  <2>1. pass # "speed"
    BY <1>6 DEF Checking
  <2>2. CASE ranges' = rs
    BY <2>1, <2>2
  <2>3. CASE /\ ranges' = add_range(rs, p, size)
             /\ range_asserts(size) /\ range_is_fine(rs, brk', p, size)
    <3>1. p \in Int /\ size \in Int /\ rs \in Seq(Record) /\ Apart(rs)
      BY <1>1, <1>3, <2>1 DEF Sound, size
    <3> QED
      BY <2>3, <3>1, AddApart
  <2> QED
    BY <1>5, <2>1, <2>2, <2>3
<1> QED
  BY <1>3, <1>6, <1>7, <1>8, <1>9 DEF Basic, MemoryOK

(* A step that leaves the records alone.                                   *)
LEMMA LeavesBasic ==
  ASSUME Basic, Running, opnum <= Len(trace), UNCHANGED arguments, Outcome,
         package = "mm" /\ Proceeds =>
           trace[opnum].type = "FREE" \/ trace[opnum].size >= 0,
         blocks' \in [Ids -> Nat], block_sizes' = block_sizes, brk' = brk,
         given' \in [Ids -> Given],
         Sound(ranges'), Apart(ranges) => Apart(ranges')
  PROVE  Basic'
<1>1. /\ ArgumentsOK' /\ PlaceOK' /\ Loaded' /\ Signed'
      /\ errors' \subseteq {"failed", "range", "data"}
      /\ Checking' => Checking
  BY OutcomeBasic
<1>2. MemoryOK'
  BY <1>1 DEF Basic, MemoryOK
<1>3. OverlapsOnlyByContaining'
  BY <1>1 DEF Basic, OverlapsOnlyByContaining
<1> QED
  BY <1>1, <1>2, <1>3 DEF Basic

(* No payload, or a result of NULL.                                        *)
LEMMA NothingTyped == Nothing \in Given
BY DEF Nothing, Contract!None, Given

(* NULL for an ALLOC or REALLOC: on, over, or out of memory.               *)
LEMMA NullBasic ==
  ASSUME Basic, Running, package = "mm", opnum <= Len(trace),
         trace[opnum].type # "FREE", UNCHANGED arguments,
         ReceivesNull(trace[opnum].size), given' \in [Ids -> Given]
  PROVE  Basic'
<1>1. trace[opnum].size \in Int
  BY RequestFacts
<1>2. Outcome /\ (Proceeds => trace[opnum].size >= 0)
  <2>1. CASE pass # "speed" /\ trace[opnum].size = 0 /\ Proceeds
    BY <2>1 DEF Outcome
  <2>2. CASE pass = "valid" /\ trace[opnum].size # 0 /\ Blames("failed")
    <3>1. ~ Proceeds
      BY <2>2 DEF Proceeds, Blames
    <3> QED
      BY <2>2, <3>1 DEF Outcome
  <2>3. CASE Stops("exit")
    <3>1. ~ Proceeds
      BY <2>3 DEF Proceeds, Stops, Running
    <3> QED
      BY <2>3, <3>1 DEF Outcome
  <2> QED
    BY <2>1, <2>2, <2>3 DEF ReceivesNull
<1>3. UNCHANGED <<recorded, ranges, brk>>
  BY DEF ReceivesNull
<1>4. /\ blocks' \in [Ids -> Nat] /\ block_sizes' = block_sizes
      /\ Sound(ranges') /\ ranges' = ranges /\ brk' = brk
  BY <1>3 DEF recorded, Basic, MemoryOK
<1> QED
  BY <1>2, <1>4, LeavesBasic

(* mm_malloc: ALLOC, in any pass.                                          *)
LEMMA AllocBasic ==
  ASSUME Basic, Alloc PROVE Basic'
<1>1. /\ Running /\ package = "mm" /\ opnum <= Len(trace)
      /\ trace[opnum].type = "ALLOC" /\ UNCHANGED arguments
  BY DEF Alloc, Requested
<1>2. CASE ReceivesNull(trace[opnum].size) /\ UNCHANGED given
  <2>1. given' \in [Ids -> Given]
    BY <1>2 DEF Basic, MemoryOK
  <2> QED
    BY <1>1, <1>2, <2>1, NullBasic
<1>3. ASSUME NEW p \in Pointers,
             HandsOut(trace[opnum].index, trace[opnum].size, p),
             Receives(trace[opnum].index, p, trace[opnum].size, ranges, 0, 0)
      PROVE  Basic'
  <2>1. Sound(ranges) /\ (pass # "speed" => Apart(ranges))
    BY <1>1 DEF Basic, MemoryOK, OverlapsOnlyByContaining, Checking, Running
  <2> QED
    BY <1>1, <1>3, <2>1, ReceivesBasic
<1> QED
  BY <1>2, <1>3 DEF Alloc

(* A call with a pointer the allocator has not handed out: the end.        *)
LEMMA MisusesBasic ==
  ASSUME Basic, Running, opnum <= Len(trace), UNCHANGED arguments, Misuses
  PROVE  Basic'
<1>1. Outcome /\ ~ Proceeds
  BY DEF Outcome, Misuses, Proceeds, Running
<1>2. UNCHANGED <<recorded, ranges, given, brk>>
  BY DEF Misuses
<1>3. /\ blocks' \in [Ids -> Nat] /\ block_sizes' = block_sizes
      /\ Sound(ranges') /\ ranges' = ranges /\ brk' = brk
      /\ given' \in [Ids -> Given]
  BY <1>2 DEF recorded, Basic, MemoryOK
<1> QED
  BY <1>1, <1>3, LeavesBasic

(* mm_realloc: REALLOC, in any pass.                                       *)
LEMMA ReallocBasic ==
  ASSUME Basic, Realloc PROVE Basic'
<1> DEFINE index == trace[opnum].index
           size == trace[opnum].size
<1>1. /\ Running /\ package = "mm" /\ opnum <= Len(trace)
      /\ trace[opnum].type = "REALLOC" /\ UNCHANGED arguments
  BY DEF Realloc, Requested
<1>2. index \in Ids /\ given \in [Ids -> Given] /\ block_sizes[index] \in Nat
  BY <1>1, RequestFacts DEF Basic, MemoryOK
<1>3. CASE Misuses
  BY <1>1, <1>3, MisusesBasic
<1>4. CASE /\ ReceivesNull(size)
           /\ given' = IF size = 0 THEN [given EXCEPT ![index] = Nothing] ELSE given
  <2>1. given' \in [Ids -> Given]
    BY <1>2, <1>4, NothingTyped
  <2> QED
    BY <1>1, <1>4, <2>1, NullBasic
<1>5. ASSUME NEW p \in Pointers, NEW intact, HandsOut(index, size, p),
             Receives(index, p, size, remove_range(ranges, blocks[index]),
                      intact, block_sizes[index])
      PROVE  Basic'
  <2> DEFINE rs == remove_range(ranges, blocks[index])
  <2>1. Sound(ranges) /\ (pass # "speed" => Apart(ranges))
    BY <1>1 DEF Basic, MemoryOK, OverlapsOnlyByContaining, Checking, Running
  <2>2. Sound(rs) /\ (pass # "speed" => Apart(rs))
    BY <2>1, RemoveSound
  <2> HIDE DEF rs
  <2>3. Receives(index, p, size, rs, intact, block_sizes[index])
    BY <1>5 DEF rs
  <2> QED
    BY <1>1, <1>2, <1>5, <2>2, <2>3, ReceivesBasic
<1> QED
  BY <1>3, <1>4, <1>5 DEF Realloc

(* mm_free: FREE, in any pass.                                             *)
LEMMA FreeBasic ==
  ASSUME Basic, Free PROVE Basic'
<1> DEFINE index == trace[opnum].index
           p == blocks[index]
<1>1. /\ Running /\ package = "mm" /\ opnum <= Len(trace)
      /\ trace[opnum].type = "FREE" /\ UNCHANGED arguments
  BY DEF Free, Requested
<1>2. index \in Ids /\ given \in [Ids -> Given] /\ Sound(ranges)
  BY <1>1, RequestFacts DEF Basic, MemoryOK
<1>3. CASE Misuses
  BY <1>1, <1>3, MisusesBasic
<1>4. CASE /\ given' = [given EXCEPT ![index] = Nothing]
           /\ ranges' = IF pass = "speed" THEN ranges ELSE remove_range(ranges, p)
           /\ Proceeds /\ UNCHANGED <<recorded, brk>>
  <2>1. given' \in [Ids -> Given]
    BY <1>2, <1>4, NothingTyped
  <2>2. Sound(ranges') /\ (Apart(ranges) => Apart(ranges'))
    BY <1>2, <1>4, RemoveSound
  <2>3. /\ blocks' \in [Ids -> Nat] /\ block_sizes' = block_sizes /\ brk' = brk
    BY <1>4 DEF recorded, Basic, MemoryOK
  <2> QED
    BY <1>1, <1>4, <2>1, <2>2, <2>3, LeavesBasic DEF Outcome
<1> QED
  BY <1>3, <1>4 DEF Free

(* A request of libc's malloc.                                             *)
LEMMA LibcBasic ==
  ASSUME Basic, LibcRequest PROVE Basic'
<1> DEFINE op == trace[opnum]
           index == op.index
           sized == op.type # "FREE"
           never == op.size < 0 \/ (op.type = "REALLOC" /\ op.size = 0)
<1>1. Running /\ package = "libc" /\ opnum <= Len(trace)
  BY DEF LibcRequest
<1>2. UNCHANGED <<arguments, ranges, brk>>
  BY DEF LibcRequest
<1>3. index \in Ids /\ given \in [Ids -> Given] /\ blocks \in [Ids -> Nat]
      /\ op.size \in Int
  BY <1>1, RequestFacts DEF Basic, MemoryOK
<1>4. Sound(ranges') /\ (Apart(ranges) => Apart(ranges')) /\ brk' = brk
      /\ UNCHANGED arguments
  BY <1>2 DEF Basic, MemoryOK
<1>5. CASE Misuses
  BY <1>1, <1>4, <1>5, MisusesBasic
<1>6. CASE Stops("exit") /\ UNCHANGED <<recorded, given>>
  <2>1. blocks' \in [Ids -> Nat] /\ block_sizes' = block_sizes
        /\ given' \in [Ids -> Given]
    BY <1>3, <1>6 DEF recorded
  <2> QED
    BY <1>1, <1>4, <1>6, <2>1, LeavesBasic DEF Outcome
<1>7. ASSUME ~ never, NEW p \in Elsewhere,
             given' = [given EXCEPT ![index] =
                         [ptr |-> p, size |-> op.size, kept |-> op.size]],
             blocks' = [blocks EXCEPT ![index] = p],
             Proceeds, UNCHANGED block_sizes
      PROVE  Basic'
  <2>1. p \in Nat /\ op.size \in Nat
    BY <1>3, <1>7, DriverAssumption
  <2>2. given' \in [Ids -> Given] /\ blocks' \in [Ids -> Nat]
    BY <1>3, <1>7, <2>1 DEF Given
  <2> QED
    BY <1>1, <1>4, <1>7, <2>2, LeavesBasic DEF Outcome
<1>8. CASE /\ given' = [given EXCEPT ![index] = Nothing]
           /\ Proceeds /\ UNCHANGED recorded
  <2>1. blocks' \in [Ids -> Nat] /\ block_sizes' = block_sizes
        /\ given' \in [Ids -> Given]
    BY <1>3, <1>8, NothingTyped DEF recorded
  <2> QED
    BY <1>1, <1>4, <1>8, <2>1, LeavesBasic DEF Outcome
<1> QED
  BY <1>5, <1>6, <1>7, <1>8 DEF LibcRequest

(* The break and the ranges at the start of a pass.                        *)
LEMMA StartFacts ==
  /\ mem_start_brk \in mem_start_brk .. mem_max_addr
  /\ Sound(clear_ranges) /\ Apart(clear_ranges)
  /\ [j \in Ids |-> Nothing] \in [Ids -> Given]
<1>1. mem_start_brk \in mem_start_brk .. mem_max_addr
  BY MemoryAssumption DEF mem_max_addr
<1>2. Sound(clear_ranges) /\ Apart(clear_ranges)
  BY DEF Sound, Apart, clear_ranges
<1> QED
  BY <1>1, <1>2, NothingTyped

(* A pass begins, or mm_init fails: the memory is in order.                *)
LEMMA EntersMemory ==
  ASSUME Basic, NEW p \in {"valid", "util", "speed"}, Enters(p) \/ InitFails(p),
         blocks' \in [Ids -> Nat], block_sizes' \in [Ids -> Nat]
  PROVE  /\ MemoryOK' /\ opnum' = 1
         /\ pass' = p \/ pass' \in {"read", "exit"}
         /\ OverlapsOnlyByContaining'
<1>1. MemoryOK
  BY DEF Basic
<1>2. CASE Enters(p)
  <2>1. /\ pass' = p /\ opnum' = 1 /\ brk' = mem_start_brk
        /\ given' = given \/ given' = [j \in Ids |-> Nothing]
        /\ ranges' = IF p = "speed" THEN ranges ELSE clear_ranges
        /\ errors' = errors
    BY <1>2 DEF Enters
  <2>2. MemoryOK'
    BY <1>1, <2>1, StartFacts DEF MemoryOK
  <2>3. OverlapsOnlyByContaining'
    BY <2>1, StartFacts DEF OverlapsOnlyByContaining, Checking
  <2> QED
    BY <2>1, <2>2, <2>3
<1>3. CASE InitFails(p)
  <2>1. /\ pass' \in {"read", "exit"} /\ opnum' = 1
        /\ errors' \subseteq errors \cup {"failed"}
        /\ UNCHANGED <<ranges, given, brk>>
    BY <1>3 DEF InitFails
  <2>2. MemoryOK'
    BY <1>1, <2>1 DEF MemoryOK
  <2>3. OverlapsOnlyByContaining'
    BY <2>1 DEF OverlapsOnlyByContaining, Checking
  <2> QED
    BY <2>1, <2>2, <2>3
<1> QED
  BY <1>2, <1>3

(* read_trace: whatever the file says.                                     *)
LEMMA ReadBasic ==
  ASSUME Basic, read_trace PROVE Basic'
<1> DEFINE file == files[tracenum + 1]
           bad == \E k \in DOMAIN file.lines : file.lines[k].type = "bogus"
<1>1. /\ pass = "read" /\ tracenum < MaxTraces /\ tracenum' = tracenum + 1
      /\ trace' = Ops(file) /\ runs' = 0
      /\ UNCHANGED <<correct, files, package>>
  BY DEF read_trace, Ops, arguments
<1>2. blocks' \in [Ids -> Nat] /\ block_sizes' \in [Ids -> Nat]
  <2>1. PICK junk \in Garbage : /\ blocks' = [j \in Ids |-> junk]
                                /\ block_sizes' = [j \in Ids |-> junk]
    BY DEF read_trace
  <2> QED
    BY <2>1, DriverAssumption
<1>3. /\ tracenum \in Nat /\ tracenum' \in 1 .. MaxTraces /\ MaxTraces \in Nat
      /\ SpeedRuns \in Nat
  BY <1>1, DriverAssumption DEF Basic, PlaceOK
<1>4. file \in Files[correct] /\ correct \in Allocators
  BY <1>1, <1>3 DEF Basic, ArgumentsOK
<1>5. trace' \in Seq(Op) /\ Len(trace') \in Nat
  BY <1>1, <1>4, OpsFacts, LenProperties
<1>6. ArgumentsOK'
  BY <1>1 DEF Basic, ArgumentsOK
<1>7. CASE ~ bad /\ header_asserts(file) /\ (Enters("valid") \/ InitFails("valid"))
  <2>1. /\ MemoryOK' /\ opnum' = 1 /\ pass' \in {"valid", "read", "exit"}
        /\ OverlapsOnlyByContaining'
    BY <1>2, <1>7, EntersMemory
  <2>2. PlaceOK'
    BY <1>1, <1>3, <1>5, <2>1 DEF Basic, PlaceOK, Running
  <2>3. Loaded'
    BY <1>1, <1>3, <1>7 DEF Loaded
  <2>4. Signed'
    <3>1. DOMAIN trace' = 1 .. Len(trace')
      BY <1>5, LenProperties
    <3> QED
      BY <1>5, <2>1, <3>1 DEF Signed, Evaluating
  <2> QED
    BY <1>6, <2>1, <2>2, <2>3, <2>4 DEF Basic
<1>8. CASE /\ pass' \in {"exit", "abort", "overrun"}
           /\ UNCHANGED <<opnum, ranges, errors, given, brk>>
  <2>1. MemoryOK'
    BY <1>2, <1>8 DEF Basic, MemoryOK
  <2>2. PlaceOK'
    BY <1>1, <1>3, <1>5, <1>8 DEF Basic, PlaceOK, Running
  <2>3. Loaded' /\ Signed' /\ OverlapsOnlyByContaining'
    BY <1>8 DEF Loaded, Signed, Evaluating, OverlapsOnlyByContaining, Checking
  <2> QED
    BY <1>6, <2>1, <2>2, <2>3 DEF Basic
<1> QED
  <2>1. \/ /\ ~ bad /\ header_asserts(file)
           /\ Enters("valid") \/ InitFails("valid")
        \/ /\ pass' \in {"exit", "abort", "overrun"}
           /\ UNCHANGED <<opnum, ranges, errors, given, brk>>
    BY <1>1 DEF read_trace
  <2> QED
    BY <1>7, <1>8, <2>1

(* A pass ends.  eval_mm_util and eval_mm_speed come after eval_mm_valid    *)
(* has seen every request.                                                  *)
LEMMA PassEndsBasic ==
  ASSUME Basic, PassEnds PROVE Basic'
<1>1. /\ UNCHANGED <<correct, files, package, tracenum, trace, blocks, block_sizes>>
  BY DEF PassEnds, arguments, recorded
<1>2. ArgumentsOK' /\ blocks' \in [Ids -> Nat] /\ block_sizes' \in [Ids -> Nat]
  BY <1>1 DEF Basic, ArgumentsOK, MemoryOK
<1>3. PlaceOK /\ Loaded /\ Signed
  BY DEF Basic
<1>4. trace \in Seq(Op) /\ Len(trace) \in Nat /\ DOMAIN trace = 1 .. Len(trace)
  BY <1>3, LenProperties DEF PlaceOK
<1>5. Evaluating
  BY DEF PassEnds, Running, Evaluating
<1>6. package = "mm" /\ (pass = "valid" => opnum > Len(trace)) =>
        \A k \in DOMAIN trace : trace[k].type # "FREE" => trace[k].size >= 0
  <2> SUFFICES ASSUME package = "mm", pass = "valid" => opnum > Len(trace),
                      NEW k \in DOMAIN trace, trace[k].type # "FREE"
               PROVE  trace[k].size >= 0
    OBVIOUS
  <2>1. pass = "valid" => k < opnum
    BY <1>3, <1>4 DEF PlaceOK
  <2> QED
    BY <1>3, <1>5, <2>1 DEF Signed
<1>7. pass = "valid" => opnum > Len(trace)
  BY DEF PassEnds
<1>8. ASSUME NEW p \in {"util", "speed"}, Enters(p) \/ InitFails(p),
             runs' \in 0 .. SpeedRuns, p = "util" => runs' = 0
      PROVE  Basic'
  <2>1. /\ MemoryOK' /\ opnum' = 1 /\ OverlapsOnlyByContaining'
        /\ pass' = p \/ pass' \in {"read", "exit"}
    BY <1>2, <1>8, EntersMemory
  <2>2. PlaceOK'
    BY <1>1, <1>3, <1>4, <1>8, <2>1 DEF PlaceOK, Running
  <2>3. Loaded'
    BY <1>1, <1>3, <1>5 DEF Loaded
  <2>4. Signed'
    BY <1>1, <1>6, <1>7 DEF Signed
  <2> QED
    BY <1>2, <2>1, <2>2, <2>3, <2>4 DEF Basic
<1>9. CASE /\ pass = "valid" /\ package = "mm"
           /\ Enters("util") \/ InitFails("util")
           /\ UNCHANGED runs
  <2>1. runs' = 0 /\ runs' \in 0 .. SpeedRuns
    BY <1>3, <1>9 DEF PlaceOK
  <2> QED
    BY <1>8, <1>9, <2>1
<1>10. CASE /\ \/ pass = "valid" /\ package = "libc"
               \/ pass \in {"util", "cut_short"}
               \/ runs \in 1 .. SpeedRuns - 1
            /\ Enters("speed") \/ InitFails("speed")
            /\ runs' = runs + 1
  <2>1. runs' \in 0 .. SpeedRuns
    BY <1>3, <1>10, DriverAssumption DEF PlaceOK
  <2> QED
    BY <1>8, <1>10, <2>1
<1>11. CASE /\ pass' = "read"
            /\ UNCHANGED <<opnum, runs, ranges, errors, totals, given, brk>>
  <2>1. PlaceOK'
    BY <1>1, <1>3, <1>11 DEF PlaceOK, Running
  <2>2. MemoryOK'
    BY <1>1, <1>11 DEF Basic, MemoryOK
  <2>3. Loaded' /\ Signed' /\ OverlapsOnlyByContaining'
    BY <1>11 DEF Loaded, Signed, Evaluating, OverlapsOnlyByContaining, Checking
  <2> QED
    BY <1>2, <2>1, <2>2, <2>3 DEF Basic
<1> QED
  BY <1>9, <1>10, <1>11 DEF PassEnds

(* From libc's malloc to mm.c.                                             *)
LEMMA LibcEndsBasic ==
  ASSUME Basic, LibcEnds PROVE Basic'
<1>1. /\ pass = "read" /\ pass' = "read" /\ package' = "mm" /\ tracenum' = 0
      /\ given' = [j \in Ids |-> Nothing]
      /\ UNCHANGED <<correct, files, opnum, trace, runs, blocks, block_sizes,
                     ranges, errors, brk>>
  BY DEF LibcEnds, arguments, recorded
<1>2. ArgumentsOK'
  BY <1>1 DEF Basic, ArgumentsOK
<1>3. PlaceOK'
  BY <1>1, DriverAssumption DEF Basic, PlaceOK, Running
<1>4. MemoryOK'
  BY <1>1, StartFacts DEF Basic, MemoryOK
<1>5. Loaded' /\ Signed' /\ OverlapsOnlyByContaining'
  BY <1>1 DEF Loaded, Signed, Evaluating, OverlapsOnlyByContaining, Checking
<1> QED
  BY <1>2, <1>3, <1>4, <1>5 DEF Basic

(* A step of anything but the driver.                                      *)
LEMMA StutterBasic ==
  ASSUME Basic, UNCHANGED vars PROVE Basic'
<1>1. UNCHANGED <<correct, files, pass, opnum, package, tracenum, trace, runs,
                  blocks, block_sizes, ranges, errors, given, brk>>
  BY DEF vars, arguments, progress, recorded
<1>2. ArgumentsOK' /\ PlaceOK'
  BY <1>1 DEF Basic, ArgumentsOK, PlaceOK, Running
<1>3. MemoryOK' /\ OverlapsOnlyByContaining'
  BY <1>1 DEF Basic, MemoryOK, OverlapsOnlyByContaining, Checking
<1>4. Loaded' /\ Signed'
  BY <1>1 DEF Basic, Loaded, Signed, Evaluating
<1> QED
  BY <1>2, <1>3, <1>4 DEF Basic

(* Every step of the driver keeps it.                                      *)
LEMMA StepBasic == Basic /\ [Next]_vars => Basic'
BY AllocBasic, ReallocBasic, FreeBasic, LibcBasic, ReadBasic, PassEndsBasic,
   LibcEndsBasic, StutterBasic DEF Next

(* main starts with no trace read.                                         *)
LEMMA InitBasic == Init => Basic
<1> SUFFICES ASSUME Init PROVE Basic
  OBVIOUS
<1>1. ArgumentsOK
  BY DEF Init, ArgumentsOK
<1>2. PlaceOK
  <2>1. trace \in Seq(Op) /\ Len(trace) = 0
    BY DEF Init
  <2> QED
    BY <2>1, DriverAssumption DEF Init, PlaceOK, Running
<1>3. MemoryOK
  BY StartFacts DEF Init, MemoryOK, NULL
<1>4. Loaded /\ Signed /\ OverlapsOnlyByContaining
  BY DEF Init, Loaded, Signed, Evaluating, OverlapsOnlyByContaining, Checking
<1> QED
  BY <1>1, <1>2, <1>3, <1>4 DEF Basic

(* The invariant of any files and any allocator.                           *)
LEMMA BasicInvariance == Spec => []Basic
BY InitBasic, StepBasic, PTL DEF Spec

(* Whatever sizes the trace files give, no pass fills a payload of negative *)
(* length: eval_mm_valid sees every request before eval_mm_speed, which     *)
(* checks nothing, and add_range's assert stops it at a negative size.      *)
THEOREM NeverWildFill == Spec => []NoWildFill
<1>1. Basic => NoWildFill
  BY DEF Basic, PlaceOK, NoWildFill
<1> QED
  BY <1>1, BasicInvariance, PTL

(* Whatever an allocator answers, while it passes for correct the payloads  *)
(* recorded overlap only where a newer one reaches out on both sides of an  *)
(* older one: the one case that add_range's comparison of ends misses.      *)
THEOREM OverlapsContain == Spec => []OverlapsOnlyByContaining
<1>1. Basic => OverlapsOnlyByContaining
  BY DEF Basic
<1> QED
  BY <1>1, BasicInvariance, PTL

-----------------------------------------------------------------------------
(* The invariant of programs' traces                                       *)

(* What the program has before request k is allocated, and the pointer      *)
(* recorded for it.                                                         *)
Points(b, g, t, k) ==
  \A i \in Ids : Has(t, k, i) =>
    g[i] # Nothing /\ b[i] = g[i].ptr /\ b[i] # NULL

(* Nothing else is. *)
OnlyLive(g, t, k) == \A i \in Ids : g[i] # Nothing => Has(t, k, i)

(* What is allocated is filled, and its size recorded. *)
Booked(g, sizes) ==
  \A i \in Ids : g[i] # Nothing =>
    g[i].size > 0 /\ g[i].kept = g[i].size /\ sizes[i] = g[i].size

Extents(g) == {range(g[i].ptr, g[i].size) : i \in {j \in Ids : g[j] # Nothing}}

(* Each payload starts at an address of its own and has its record. *)
Recorded(g, rs) ==
  /\ \A i, j \in Ids :
       g[i] # Nothing /\ g[j] # Nothing /\ g[i].ptr = g[j].ptr => i = j
  /\ Lists(rs, Extents(g))

(* Where a correct allocator has put the payloads. *)
Placed(g, top) ==
  \A i \in Ids : g[i] # Nothing =>
    /\ mem_start_brk <= g[i].ptr /\ g[i].ptr + g[i].size <= top
    /\ \A j \in Ids : g[j] # Nothing /\ i # j =>
         \/ g[i].ptr + g[i].size <= g[j].ptr
         \/ g[j].ptr + g[j].size <= g[i].ptr

Books ==
  /\ pass # "undefined"
  /\ Running => Points(blocks, given, trace, opnum)
  /\ Running /\ package = "mm" => OnlyLive(given, trace, opnum)
  /\ Checking => Booked(given, block_sizes)
  /\ Checking /\ NoneFreedByRealloc => Recorded(given, ranges)
  /\ Checking /\ correct => Placed(given, brk)
  /\ NoReallocToZero /\ correct => errors \subseteq {"failed"}

-----------------------------------------------------------------------------
(* What a program has                                                      *)

(* Before the first request, nothing.                                      *)
LEMMA HasFirst == ASSUME NEW t, NEW i PROVE ~ Has(t, 1, i)
BY DEF Has

(* After request k: what it asked for, and what it did not release.        *)
LEMMA HasStep ==
  ASSUME NEW t, NEW k \in Nat \ {0}, NEW i
  PROVE  Has(t, k + 1, i) <=>
           \/ t[k].index = i /\ Allocates(t[k])
           \/ Has(t, k, i) /\ ~ (t[k].index = i /\ Releases(t[k]))
<1> DEFINE A(j) == t[j].index = i /\ Allocates(t[j])
           R(j) == t[j].index = i => ~ Releases(t[j])
<1>1. \A n \in Nat \ {0} : Has(t, n, i) <=>
        \E j \in 1 .. n - 1 : A(j) /\ \A l \in j + 1 .. n - 1 : R(l)
  BY DEF Has
<1> HIDE DEF A, R
<1>2. Has(t, k + 1, i) <=>
        \E j \in 1 .. k : A(j) /\ \A l \in j + 1 .. k : R(l)
  BY <1>1
<1>3. Has(t, k, i) <=>
        \E j \in 1 .. k - 1 : A(j) /\ \A l \in j + 1 .. k - 1 : R(l)
  BY <1>1
<1>4. (\E j \in 1 .. k : A(j) /\ \A l \in j + 1 .. k : R(l)) <=>
        \/ A(k)
        \/ R(k) /\ \E j \in 1 .. k - 1 : A(j) /\ \A l \in j + 1 .. k - 1 : R(l)
  <2>1. ASSUME NEW j \in 1 .. k, A(j), \A l \in j + 1 .. k : R(l), ~ A(k)
        PROVE  R(k) /\ j \in 1 .. k - 1 /\ \A l \in j + 1 .. k - 1 : R(l)
    BY <2>1
  <2>2. ASSUME A(k) PROVE \E j \in 1 .. k : A(j) /\ \A l \in j + 1 .. k : R(l)
    BY <2>2
  <2>3. ASSUME R(k), NEW j \in 1 .. k - 1, A(j), \A l \in j + 1 .. k - 1 : R(l)
        PROVE  j \in 1 .. k /\ \A l \in j + 1 .. k : R(l)
    <3>1. ASSUME NEW l \in j + 1 .. k PROVE R(l)
      <4>1. l = k \/ l \in j + 1 .. k - 1
        OBVIOUS
      <4> QED
        BY <2>3, <4>1
    <3> QED
      BY <3>1
  <2> QED
    BY <2>1, <2>2, <2>3
<1> QED
  BY <1>2, <1>3, <1>4 DEF A, R

(* The int that a line's size becomes does not matter to that.             *)
LEMMA HasOps ==
  ASSUME NEW c \in Allocators, NEW file \in Files[c],
         NEW k \in 1 .. Len(file.lines), NEW i
  PROVE  Has(Ops(file), k, i) <=> Has(file.lines, k, i)
<1>1. /\ Len(file.lines) \in Nat
      /\ \A j \in 1 .. Len(file.lines) :
           /\ Ops(file)[j].type = file.lines[j].type
           /\ Ops(file)[j].index = file.lines[j].index
           /\ Ops(file)[j].size = 0 <=> file.lines[j].size = 0
  BY OpsFacts
<1>2. \A j \in 1 .. k - 1 :
        /\ Ops(file)[j].index = file.lines[j].index
        /\ Allocates(Ops(file)[j]) <=> Allocates(file.lines[j])
        /\ Releases(Ops(file)[j]) <=> Releases(file.lines[j])
  BY <1>1 DEF Allocates, Releases
<1>3. \A j \in 1 .. k - 1 :
        (\A l \in j + 1 .. k - 1 : Ops(file)[l].index = i => ~ Releases(Ops(file)[l]))
          <=> \A l \in j + 1 .. k - 1 :
                file.lines[l].index = i => ~ Releases(file.lines[l])
  BY <1>2, SMTT(30)
<1> QED
  BY <1>2, <1>3, ZenonT(60) DEF Has

(* read_trace got a program's trace: FREE and REALLOC are of what it has,   *)
(* ALLOC of what it has not.                                               *)
LEMMA ProgramTrace ==
  ASSUME Basic, ProgramFiles, Evaluating, NEW k \in DOMAIN trace
  PROVE  (trace[k].type # "ALLOC") <=> Has(trace, k, trace[k].index)
<1> DEFINE file == files[tracenum]
<1>1. /\ correct \in Allocators /\ file \in Files[correct] /\ trace = Ops(file)
      /\ \A j \in DOMAIN file.lines : file.lines[j].type # "bogus"
  BY DEF Basic, ArgumentsOK, Loaded
<1>2. /\ k \in 1 .. Len(file.lines) /\ k \in DOMAIN file.lines
      /\ trace[k].type = file.lines[k].type /\ trace[k].index = file.lines[k].index
  BY <1>1, OpsFacts, LenProperties
<1>3. (file.lines[k].type # "ALLOC") = Has(file.lines, k, file.lines[k].index)
  BY <1>1, <1>2 DEF ProgramFiles
<1>4. Has(Ops(file), k, trace[k].index) <=> Has(file.lines, k, trace[k].index)
  BY <1>1, <1>2, HasOps
<1> HIDE DEF file
<1> QED
  BY <1>1, <1>2, <1>3, <1>4

(* A trace without REALLOC to size 0 has made none.                        *)
LEMMA NoneFreed ==
  ASSUME Basic, NoReallocToZero, correct, Running
  PROVE  NoneFreedByRealloc
<1> DEFINE file == files[tracenum]
<1>1. /\ correct \in Allocators /\ file \in Files[correct] /\ trace = Ops(file)
  BY DEF Basic, ArgumentsOK, Loaded, Running, Evaluating
<1>2. /\ Len(trace) = Len(file.lines) /\ Len(file.lines) \in Nat
      /\ DOMAIN file.lines = 1 .. Len(file.lines)
      /\ \A k \in 1 .. Len(file.lines) :
              /\ trace[k].type = file.lines[k].type
              /\ trace[k].size = 0 <=> file.lines[k].size = 0
  BY <1>1, OpsFacts
<1>3. \A k \in DOMAIN file.lines :
        file.lines[k].type = "REALLOC" => file.lines[k].size # 0
  BY <1>1 DEF NoReallocToZero
<1> HIDE DEF file
<1>4. opnum \in 1 .. Len(trace) + 1
  BY DEF Basic, PlaceOK
<1> QED
  BY <1>2, <1>3, <1>4 DEF NoneFreedByRealloc

-----------------------------------------------------------------------------
(* What a request does to the books                                        *)

Piece(p, n) == [ptr |-> p, size |-> n, kept |-> n]

(* A request that allocates: the pointer is recorded.                      *)
LEMMA GivePoints ==
  ASSUME NEW t, NEW k \in Nat \ {0}, NEW b \in [Ids -> Nat],
         NEW g \in [Ids -> Given], Points(b, g, t, k), t[k].index \in Ids,
         NEW p \in Nat, p # NULL, NEW n \in Nat,
         NEW h, h = [g EXCEPT ![t[k].index] = Piece(p, n)],
         NEW c, c = [b EXCEPT ![t[k].index] = p]
  PROVE  /\ Points(c, h, t, k + 1)
         /\ Allocates(t[k]) /\ OnlyLive(g, t, k) => OnlyLive(h, t, k + 1)
<1> DEFINE x == t[k].index
<1>1. Piece(p, n) # Nothing /\ Piece(p, n).ptr = p
  BY DEF Piece, Nothing, Contract!None, NULL
<1>2. /\ h[x] = Piece(p, n) /\ c[x] = p
      /\ \A i \in Ids : i # x => h[i] = g[i] /\ c[i] = b[i]
  OBVIOUS
<1>3. \A i \in Ids : Has(t, k + 1, i) /\ i # x => Has(t, k, i)
  BY HasStep
<1>4. Points(c, h, t, k + 1)
  BY <1>1, <1>2, <1>3 DEF Points
<1>5. ASSUME Allocates(t[k]), OnlyLive(g, t, k) PROVE OnlyLive(h, t, k + 1)
  <2>1. Has(t, k + 1, x)
    BY <1>5, HasStep
  <2>2. \A i \in Ids : i # x /\ Has(t, k, i) => Has(t, k + 1, i)
    BY HasStep
  <2> QED
    BY <1>2, <1>5, <2>1, <2>2 DEF OnlyLive
<1> QED
  BY <1>4, <1>5

(* A request that releases: a FREE, or a REALLOC to size 0.                *)
LEMMA DropPoints ==
  ASSUME NEW t, NEW k \in Nat \ {0}, NEW b, NEW g \in [Ids -> Given],
         Points(b, g, t, k), t[k].index \in Ids,
         Releases(t[k]), ~ Allocates(t[k]),
         NEW h, h = [g EXCEPT ![t[k].index] = Nothing]
  PROVE  /\ Points(b, h, t, k + 1)
         /\ OnlyLive(g, t, k) => OnlyLive(h, t, k + 1)
<1> DEFINE x == t[k].index
<1>1. /\ h[x] = Nothing
      /\ \A i \in Ids : i # x => h[i] = g[i]
  OBVIOUS
<1>2. \A i \in Ids : Has(t, k + 1, i) <=> i # x /\ Has(t, k, i)
  BY HasStep
<1> QED
  BY <1>1, <1>2 DEF Points, OnlyLive

(* An ALLOC of size 0: nothing is allocated, and nothing was.              *)
LEMMA NullPoints ==
  ASSUME NEW t, NEW k \in Nat \ {0}, NEW b, NEW g,
         Points(b, g, t, k), t[k].index \in Ids,
         ~ Releases(t[k]), ~ Allocates(t[k])
  PROVE  /\ Points(b, g, t, k + 1)
         /\ OnlyLive(g, t, k) => OnlyLive(g, t, k + 1)
<1>1. \A i \in Ids : Has(t, k + 1, i) <=> Has(t, k, i)
  BY HasStep
<1> QED
  BY <1>1 DEF Points, OnlyLive

(* remove_range, of the payload of x.                                      *)
LEMMA DropRecorded ==
  ASSUME NEW g \in [Ids -> Given], NEW rs, Recorded(g, rs), NEW x \in Ids,
         g[x] # Nothing, NEW h, h = [g EXCEPT ![x] = Nothing]
  PROVE  Recorded(h, remove_range(rs, g[x].ptr))
<1>1. /\ h[x] = Nothing
      /\ \A i \in Ids : i # x => h[i] = g[i]
  OBVIOUS
<1> DEFINE e == range(g[x].ptr, g[x].size)
<1>2. e \in Extents(g) /\ e.lo = g[x].ptr
  BY DEF Extents, range
<1>3. \A f \in Extents(g) : f.lo = e.lo => f = e
  BY <1>2 DEF Extents, range, Recorded
<1>4. Extents(h) = Extents(g) \ {e}
  <2>1. ASSUME NEW i \in Ids, g[i] # Nothing, i # x
        PROVE  range(g[i].ptr, g[i].size) # e
    BY <2>1 DEF Recorded, range
  <2> HIDE DEF e
  <2>2. ASSUME NEW f \in Extents(h) PROVE f \in Extents(g) \ {e}
    <3>1. PICK i \in Ids : h[i] # Nothing /\ f = range(h[i].ptr, h[i].size)
      BY <2>2 DEF Extents
    <3>2. i # x /\ g[i] # Nothing /\ f = range(g[i].ptr, g[i].size)
      BY <1>1, <3>1
    <3> QED
      BY <2>1, <3>2 DEF Extents
  <2>3. ASSUME NEW f \in Extents(g), f # e PROVE f \in Extents(h)
    <3>1. PICK i \in Ids : g[i] # Nothing /\ f = range(g[i].ptr, g[i].size)
      BY <2>3 DEF Extents
    <3>2. i # x
      BY <2>3, <3>1 DEF e
    <3> QED
      BY <1>1, <3>1, <3>2 DEF Extents
  <2> QED
    BY <2>2, <2>3
<1>5. Lists(remove_range(rs, e.lo), Extents(g) \ {e})
  <2> HIDE DEF e
  <2> QED
    BY <1>2, <1>3, ListsRemove DEF Recorded
<1>6. \A i, j \in Ids :
        h[i] # Nothing /\ h[j] # Nothing /\ h[i].ptr = h[j].ptr => i = j
  BY <1>1 DEF Recorded
<1> QED
  BY <1>2, <1>4, <1>5, <1>6 DEF Recorded

(* add_range, of a payload it finds nothing wrong with: for one thing, it   *)
(* does not start where another does.                                       *)
LEMMA GiveRecorded ==
  ASSUME NEW g \in [Ids -> Given], NEW rs, Recorded(g, rs), NEW x \in Ids,
         g[x] = Nothing, \A i \in Ids : g[i] # Nothing => g[i].size > 0,
         NEW p \in Nat, NEW n \in Nat, n > 0, NEW top,
         range_is_fine(rs, top, p, n), NEW h, h = [g EXCEPT ![x] = Piece(p, n)],
         p # NULL
  PROVE  Recorded(h, add_range(rs, p, n))
<1>1. Piece(p, n) # Nothing /\ Piece(p, n).ptr = p /\ Piece(p, n).size = n
  BY DEF Piece, Nothing, Contract!None, NULL
<1>2. /\ h[x] = Piece(p, n)
      /\ \A i \in Ids : i # x => h[i] = g[i]
  OBVIOUS
<1>3. ASSUME NEW i \in Ids, g[i] # Nothing PROVE g[i].ptr # p
  <2>1. g[i].ptr \in Nat /\ g[i].size \in Nat /\ g[i].size > 0
    BY <1>3 DEF Given
  <2>2. range(g[i].ptr, g[i].size) \in Extents(g)
    BY <1>3 DEF Extents
  <2>3. PICK k \in 1 .. Len(rs) : rs[k] = range(g[i].ptr, g[i].size)
    BY <2>2 DEF Recorded, Lists
  <2>4. k \in DOMAIN rs
    BY <2>3, LenProperties DEF Recorded, Lists
  <2>5. ~ collides(range(p, n), rs[k])
    BY <2>4 DEF range_is_fine
  <2>6. rs[k].lo = g[i].ptr /\ rs[k].hi = g[i].ptr + g[i].size - 1
    BY <2>3 DEF range
  <2>7. range(p, n).lo = p
    BY DEF range
  <2> QED
    BY <2>1, <2>5, <2>6, <2>7 DEF collides
<1>4. range(p, n) \notin Extents(g)
  BY <1>3 DEF Extents, range
<1>5. Extents(h) = Extents(g) \cup {range(p, n)}
  <2>1. ASSUME NEW f \in Extents(h) PROVE f \in Extents(g) \cup {range(p, n)}
    <3>1. PICK i \in Ids : h[i] # Nothing /\ f = range(h[i].ptr, h[i].size)
      BY <2>1 DEF Extents
    <3>2. CASE i = x
      BY <1>1, <1>2, <3>1, <3>2
    <3>3. CASE i # x
      BY <1>2, <3>1, <3>3 DEF Extents
    <3> QED
      BY <3>2, <3>3
  <2>2. range(p, n) \in Extents(h)
    BY <1>1, <1>2 DEF Extents
  <2>3. ASSUME NEW f \in Extents(g) PROVE f \in Extents(h)
    <3>1. PICK i \in Ids : g[i] # Nothing /\ f = range(g[i].ptr, g[i].size)
      BY <2>3 DEF Extents
    <3>2. i # x
      BY <3>1
    <3> QED
      BY <1>2, <3>1, <3>2 DEF Extents
  <2> QED
    BY <2>1, <2>2, <2>3
<1>6. Lists(add_range(rs, p, n), Extents(g) \cup {range(p, n)})
  BY <1>4, ListsAdd DEF Recorded
<1>7. \A i, j \in Ids :
        h[i] # Nothing /\ h[j] # Nothing /\ h[i].ptr = h[j].ptr => i = j
  <2> SUFFICES ASSUME NEW i \in Ids, NEW j \in Ids,
                      h[i] # Nothing, h[j] # Nothing, h[i].ptr = h[j].ptr
               PROVE  i = j
    OBVIOUS
  <2>1. CASE i # x /\ j # x
    BY <1>2, <2>1 DEF Recorded
  <2>2. CASE i = x /\ j # x
    BY <1>1, <1>2, <1>3, <2>2
  <2>3. CASE i # x /\ j = x
    BY <1>1, <1>2, <1>3, <2>3
  <2> QED
    BY <2>1, <2>2, <2>3
<1> QED
  BY <1>5, <1>6, <1>7 DEF Recorded

(* Where a correct allocator puts a payload, add_range has nothing to say.  *)
LEMMA PlacedFine ==
  ASSUME NEW g \in [Ids -> Given], NEW rs, Recorded(g, rs),
         \A i \in Ids : g[i] # Nothing => g[i].size > 0,
         NEW p \in Nat, NEW n \in Nat, n > 0, NEW top \in Nat,
         p % ALIGNMENT = 0, mem_start_brk <= p, p + n <= top,
         \A i \in Ids : g[i] # Nothing =>
           p + n <= g[i].ptr \/ g[i].ptr + g[i].size <= p
  PROVE  range_is_fine(rs, top, p, n)
<1> DEFINE new == range(p, n)
<1>1. new.lo = p /\ new.hi = p + n - 1 /\ mem_start_brk \in Nat
  BY MemoryAssumption DEF range
<1> HIDE DEF new
<1>2. in_heap(new.lo, top) /\ in_heap(new.hi, top)
  BY <1>1 DEF in_heap, mem_heap_lo, mem_heap_hi
<1>3. ASSUME NEW k \in DOMAIN rs PROVE ~ collides(new, rs[k])
  <2>1. k \in 1 .. Len(rs)
    BY <1>3, LenProperties DEF Recorded, Lists
  <2>2. PICK i \in Ids : g[i] # Nothing /\ rs[k] = range(g[i].ptr, g[i].size)
    BY <2>1 DEF Recorded, Lists, Extents
  <2>3. g[i].ptr \in Nat /\ g[i].size \in Nat /\ g[i].size > 0
    BY <2>2 DEF Given
  <2>4. rs[k].lo = g[i].ptr /\ rs[k].hi = g[i].ptr + g[i].size - 1
    BY <2>2 DEF range
  <2>5. p + n <= g[i].ptr \/ g[i].ptr + g[i].size <= p
    BY <2>2
  <2> QED
    BY <1>1, <2>3, <2>4, <2>5 DEF collides
<1> QED
  BY <1>2, <1>3 DEF range_is_fine, new

(* A correct allocator's next payload is in its place too.                 *)
LEMMA GivePlaced ==
  ASSUME NEW g \in [Ids -> Given], NEW low \in Nat, Placed(g, low),
         NEW x \in Ids, NEW p \in Nat, NEW n \in Nat, NEW top \in Nat,
         low <= top, mem_start_brk <= p, p + n <= top,
         \A i \in Ids : i # x /\ g[i] # Nothing =>
           p + n <= g[i].ptr \/ g[i].ptr + g[i].size <= p,
         NEW h, h = [g EXCEPT ![x] = Piece(p, n)]
  PROVE  Placed(h, top)
<1>1. Piece(p, n).ptr = p /\ Piece(p, n).size = n
  BY DEF Piece
<1>2. /\ h[x] = Piece(p, n)
      /\ \A i \in Ids : i # x => h[i] = g[i]
  OBVIOUS
<1>3. \A i \in Ids : g[i].ptr \in Nat /\ g[i].size \in Nat
  BY DEF Given
<1> SUFFICES ASSUME NEW i \in Ids, h[i] # Nothing
             PROVE  /\ mem_start_brk <= h[i].ptr /\ h[i].ptr + h[i].size <= top
                    /\ \A j \in Ids : h[j] # Nothing /\ i # j =>
                         \/ h[i].ptr + h[i].size <= h[j].ptr
                         \/ h[j].ptr + h[j].size <= h[i].ptr
  BY DEF Placed
<1>4. CASE i = x
  <2>1. ASSUME NEW j \in Ids, h[j] # Nothing, i # j
        PROVE  h[i].ptr + h[i].size <= h[j].ptr \/ h[j].ptr + h[j].size <= h[i].ptr
    BY <1>1, <1>2, <1>4, <2>1
  <2> QED
    BY <1>1, <1>2, <1>4, <2>1
<1>5. CASE i # x
  <2>1. h[i] = g[i] /\ g[i] # Nothing
    BY <1>2, <1>5
  <2>2. mem_start_brk <= g[i].ptr /\ g[i].ptr + g[i].size <= top
    BY <1>3, <2>1 DEF Placed
  <2>3. ASSUME NEW j \in Ids, h[j] # Nothing, i # j
        PROVE  h[i].ptr + h[i].size <= h[j].ptr \/ h[j].ptr + h[j].size <= h[i].ptr
    <3>1. CASE j = x
      <4>1. p + n <= g[i].ptr \/ g[i].ptr + g[i].size <= p
        BY <1>5, <2>1
      <4>2. h[j].ptr = p /\ h[j].size = n
        BY <1>1, <1>2, <3>1
      <4> QED
        BY <2>1, <4>1, <4>2
    <3>2. CASE j # x
      BY <1>2, <2>1, <2>3, <3>2 DEF Placed
    <3> QED
      BY <3>1, <3>2
  <2> QED
    BY <2>1, <2>2, <2>3
<1> QED
  BY <1>4, <1>5

-----------------------------------------------------------------------------
(* The steps keep the books                                                *)

(* A step out of the passes, with nothing blamed on a correct allocator.   *)
LEMMA IdleBooks ==
  ASSUME pass' \notin {"valid", "util", "speed", "undefined"},
         NoReallocToZero /\ correct' => errors' \subseteq {"failed"}
  PROVE  Books'
BY DEF Books, Running, Checking

(* An ALLOC or REALLOC that is answered.  g is what was handed out under    *)
(* the other ids, rs their records.                                         *)
LEMMA ReceivesBooks ==
  ASSUME Basic, Books, Running, package = "mm", opnum <= Len(trace),
         trace[opnum].type # "FREE",
         NEW p \in Pointers, NEW rs, NEW intact, NEW old,
         NEW g, g = [given EXCEPT ![trace[opnum].index] = Nothing],
         Checking /\ NoneFreedByRealloc => Recorded(g, rs),
         Checking /\ correct /\ trace[opnum].size > 0 =>
           ~ LosesData(trace[opnum].size, intact, old),
         HandsOut(trace[opnum].index, trace[opnum].size, p),
         Receives(trace[opnum].index, p, trace[opnum].size, rs, intact, old),
         UNCHANGED arguments
  PROVE  Books'
<1> DEFINE x == trace[opnum].index
           size == trace[opnum].size
           n == Granted(size)
<1>1. x \in Ids /\ size \in Int /\ opnum \in Nat \ {0}
  BY RequestFacts
<1>2. /\ given \in [Ids -> Given] /\ blocks \in [Ids -> Nat]
      /\ block_sizes \in [Ids -> Nat] /\ brk \in Nat /\ MemoryOK
  BY MemoryAssumption DEF Basic, MemoryOK, mem_max_addr
<1>3. /\ p \in Nat /\ p # NULL /\ n \in Nat /\ brk' \in Nat
  <2>1. /\ p \in Nat /\ p # NULL /\ n \in Nat
        /\ brk' \in mem_start_brk .. mem_max_addr
    BY <1>1, <1>2, HandsOutTyped
  <2> QED
    BY <2>1, MemoryAssumption DEF mem_max_addr
<1>4. /\ size # 0 /\ given' = [given EXCEPT ![x] = Piece(p, n)] /\ brk' >= brk
  BY DEF HandsOut, Piece
<1>5. correct => /\ p % ALIGNMENT = 0 /\ mem_start_brk <= p /\ p + n <= brk'
                 /\ \A i \in Ids : i # x /\ given[i] # Nothing =>
                      p + n <= given[i].ptr \/ given[i].ptr + given[i].size <= p
  BY DEF HandsOut, Contract!Fits, Contract!Held, Contract!Disjoint, Nothing
<1>6. correct' = correct
  BY DEF arguments
<1>7. g \in [Ids -> Given] /\ g[x] = Nothing
      /\ \A i \in Ids : i # x => g[i] = given[i]
  BY <1>1, <1>2, NothingTyped
<1>8. given' = [g EXCEPT ![x] = Piece(p, n)]
  BY <1>1, <1>2, <1>4
<1>9. Allocates(trace[opnum])
  BY <1>4 DEF Allocates
<1>10. Checking => \A i \in Ids : g[i] # Nothing => g[i].size > 0
  BY <1>7 DEF Books, Booked
<1>11. Receives(x, p, size, rs, intact, old)
  OBVIOUS
<1>12. range_asserts(size) => size > 0 /\ n = size
  BY <1>1 DEF range_asserts, Granted
<1>13. NoReallocToZero /\ correct /\ Checking /\ range_asserts(size) =>
         /\ range_is_fine(rs, brk', p, size)
         /\ ~ LosesData(size, intact, old)
  <2> SUFFICES ASSUME NoReallocToZero, correct, Checking, range_asserts(size)
               PROVE  /\ range_is_fine(rs, brk', p, size)
                      /\ ~ LosesData(size, intact, old)
    OBVIOUS
  <2>1. Recorded(g, rs)
    BY NoneFreed
  <2>2. \A i \in Ids : g[i] # Nothing =>
          p + n <= g[i].ptr \/ g[i].ptr + g[i].size <= p
    BY <1>5, <1>7
  <2> HIDE DEF x, size, n
  <2>3. range_is_fine(rs, brk', p, n)
    BY <1>3, <1>5, <1>7, <1>10, <1>12, <2>1, <2>2, PlacedFine
  <2> QED
    BY <1>12, <2>3 DEF size
<1> HIDE DEF x, size, n
<1>14. ASSUME Records(x, p, size), Proceeds
       PROVE  /\ Points(blocks, given, trace, opnum)'
              /\ OnlyLive(given, trace, opnum)'
  <2>1. blocks' = [blocks EXCEPT ![x] = p] /\ trace' = trace /\ opnum' = opnum + 1
    BY <1>14 DEF Records, Proceeds, progress
  <2>2. Points(blocks, given, trace, opnum) /\ OnlyLive(given, trace, opnum)
    BY DEF Books
  <2>3. Points(blocks', given', trace, opnum + 1)
        /\ OnlyLive(given', trace, opnum + 1)
    BY <1>1, <1>2, <1>3, <1>4, <1>9, <2>1, <2>2, GivePoints DEF x
  <2> QED
    BY <2>1, <2>3
<1>15. CASE /\ pass = "speed" /\ Records(x, p, size) /\ Fills(size)
            /\ UNCHANGED <<ranges, totals>>
  <2>1. CASE Proceeds
    <3>1. pass' = "speed" /\ errors' = errors
      BY <1>15, <2>1 DEF Proceeds
    <3> QED
      BY <1>6, <1>14, <1>15, <2>1, <3>1 DEF Books, Checking
  <2>2. CASE Stops("wild")
    BY <1>6, <2>2, IdleBooks DEF Stops, Books
  <2> QED
    BY <1>15, <2>1, <2>2 DEF Fills
<1>16. CASE pass # "speed" /\ Stops("abort")
  BY <1>6, <1>16, IdleBooks DEF Stops, Books
<1>17. CASE /\ pass # "speed" /\ range_asserts(size)
            /\ range_is_fine(rs, brk', p, size)
            /\ ranges' = add_range(rs, p, size) /\ Records(x, p, size)
            /\ Fills(size)
  <2>1. Checking /\ size > 0 /\ n = size
    BY <1>12, <1>17 DEF Checking, Running
  <2>2. Proceeds
    BY <1>1, <1>17, <2>1 DEF Fills, size
  <2>3. /\ pass' = pass /\ errors' = errors /\ opnum' = opnum + 1
        /\ trace' = trace /\ package' = package
    BY <2>2 DEF Proceeds, progress
  <2>4. Booked(given', block_sizes')
    <3>1. block_sizes' = [block_sizes EXCEPT ![x] = size]
      BY <1>17 DEF Records
    <3>2. /\ Piece(p, n).size = n /\ Piece(p, n).kept = n
      BY DEF Piece
    <3>3. /\ given'[x] = Piece(p, n) /\ block_sizes'[x] = size
          /\ \A i \in Ids : i # x =>
               given'[i] = given[i] /\ block_sizes'[i] = block_sizes[i]
      BY <1>1, <1>2, <1>4, <3>1 DEF x
    <3>4. Booked(given, block_sizes)
      BY <2>1 DEF Books
    <3> QED
      BY <2>1, <3>2, <3>3, <3>4 DEF Booked
  <2>5. NoneFreedByRealloc' => Recorded(given', ranges')
    <3> SUFFICES ASSUME NoneFreedByRealloc' PROVE Recorded(given', ranges')
      OBVIOUS
    <3>1. NoneFreedByRealloc
      BY <1>1, <2>3 DEF NoneFreedByRealloc
    <3>2. x \in Ids
      BY <1>1 DEF x
    <3>3. Recorded(g, rs)
      BY <2>1, <3>1
    <3> QED
      BY <1>3, <1>7, <1>8, <1>10, <1>17, <2>1, <3>2, <3>3, GiveRecorded
  <2>6. correct => Placed(given', brk')
    <3> SUFFICES ASSUME correct PROVE Placed(given', brk')
      OBVIOUS
    <3>1. Placed(given, brk) /\ x \in Ids /\ brk <= brk'
      BY <1>1, <1>2, <1>3, <1>4, <2>1 DEF Books, x
    <3> QED
      BY <1>2, <1>3, <1>4, <1>5, <3>1, GivePlaced
  <2> QED
    BY <1>6, <1>14, <1>17, <2>2, <2>3, <2>4, <2>5, <2>6 DEF Books, Running
<1>18. CASE /\ pass # "speed" /\ range_asserts(size)
            /\ LosesData(size, intact, old) /\ Blames("data")
  <2>1. Checking /\ pass' \in {"read", "cut_short"}
    BY <1>18 DEF Checking, Running, Blames
  <2>2. ~ (NoReallocToZero /\ correct)
    BY <1>13, <1>18, <2>1
  <2> QED
    BY <1>6, <2>1, <2>2, IdleBooks
<1>19. CASE /\ pass # "speed" /\ range_asserts(size)
            /\ ~ range_is_fine(rs, brk', p, size) /\ Blames("range")
  <2>1. Checking /\ pass' \in {"read", "cut_short"}
    BY <1>19 DEF Checking, Running, Blames
  <2>2. ~ (NoReallocToZero /\ correct)
    BY <1>13, <1>19, <2>1
  <2> QED
    BY <1>6, <2>1, <2>2, IdleBooks
<1> QED
  BY <1>11, <1>15, <1>16, <1>17, <1>18, <1>19 DEF Receives

(* What is released was booked like the rest.                              *)
LEMMA DropBooked ==
  ASSUME NEW g \in [Ids -> Given], NEW x \in Ids,
         NEW h, h = [g EXCEPT ![x] = Nothing], NEW sizes, NEW top
  PROVE  /\ Booked(g, sizes) => Booked(h, sizes)
         /\ Placed(g, top) => Placed(h, top)
<1>1. h[x] = Nothing /\ \A i \in Ids : i # x => h[i] = g[i]
  OBVIOUS
<1>2. \A i \in Ids : h[i] # Nothing => h[i] = g[i]
  BY <1>1
<1>3. ASSUME Booked(g, sizes) PROVE Booked(h, sizes)
  BY <1>2, <1>3 DEF Booked
<1>4. ASSUME Placed(g, top) PROVE Placed(h, top)
  BY <1>2, <1>4 DEF Placed
<1> QED
  BY <1>3, <1>4

(* A request that goes well and hands out nothing.                         *)
LEMMA ProceedsBooks ==
  ASSUME Basic, Books, Running, Proceeds, UNCHANGED <<arguments, recorded, brk>>,
         Points(blocks, given', trace, opnum + 1),
         package = "mm" => OnlyLive(given', trace, opnum + 1),
         Checking => Booked(given', block_sizes),
         Checking /\ NoneFreedByRealloc' => Recorded(given', ranges'),
         Checking /\ correct => Placed(given', brk)
  PROVE  Books'
<1>1. /\ pass' = pass /\ opnum' = opnum + 1 /\ errors' = errors
      /\ trace' = trace /\ package' = package /\ correct' = correct
      /\ blocks' = blocks /\ block_sizes' = block_sizes /\ brk' = brk
  BY DEF Proceeds, progress, arguments, recorded
<1>2. Checking' <=> Checking
  BY <1>1 DEF Checking
<1> QED
  BY <1>1, <1>2 DEF Books, Running

(* NULL for want of memory.                                                *)
LEMMA FailedBooks ==
  ASSUME Books, UNCHANGED arguments, NEW size, ReceivesNull(size),
         pass = "speed" \/ size # 0
  PROVE  Books'
<1>1. correct' = correct
  BY DEF arguments
<1>2. CASE pass = "valid" /\ Blames("failed")
  BY <1>1, <1>2, IdleBooks DEF Blames, Books
<1>3. CASE Stops("exit")
  BY <1>1, <1>3, IdleBooks DEF Stops, Books
<1> QED
  BY <1>2, <1>3 DEF ReceivesNull

(* The pointer of what the program has may be passed.                      *)
LEMMA HasMayPass ==
  ASSUME Basic, Books, ProgramFiles, Running, opnum <= Len(trace),
         trace[opnum].type # "ALLOC"
  PROVE  LET x == trace[opnum].index
         IN  /\ MayPass(x, blocks[x])
             /\ given[x] # Nothing /\ blocks[x] = given[x].ptr /\ blocks[x] # NULL
<1> DEFINE x == trace[opnum].index
<1>1. opnum \in DOMAIN trace /\ x \in Ids
  BY RequestFacts
<1>2. Has(trace, opnum, x)
  BY <1>1, ProgramTrace DEF Running, Evaluating
<1>3. given[x] # Nothing /\ blocks[x] = given[x].ptr /\ blocks[x] # NULL
  BY <1>1, <1>2 DEF Books, Points
<1> QED
  BY <1>1, <1>3 DEF MayPass, Held, Contract!Held, Nothing

(* A request that was not to be released has not been.                     *)
LEMMA StillNoneFreed ==
  ASSUME Basic, Running, Proceeds, NoneFreedByRealloc'
  PROVE  NoneFreedByRealloc /\
         ~ (trace[opnum].type = "REALLOC" /\ trace[opnum].size = 0)
<1>1. opnum \in Nat \ {0}
  BY DEF Basic, PlaceOK
<1>2. trace' = trace /\ opnum' = opnum + 1
  BY DEF Proceeds, progress
<1> QED
  BY <1>1, <1>2 DEF NoneFreedByRealloc

(* mm_malloc: ALLOC.                                                       *)
LEMMA AllocBooks ==
  ASSUME Basic, Books, ProgramFiles, Alloc PROVE Books'
<1> DEFINE x == trace[opnum].index
           size == trace[opnum].size
<1>1. /\ Running /\ package = "mm" /\ opnum <= Len(trace)
      /\ trace[opnum].type = "ALLOC" /\ UNCHANGED arguments
  BY DEF Alloc, Requested
<1>2. x \in Ids /\ size \in Int /\ opnum \in DOMAIN trace /\ opnum \in Nat \ {0}
  BY <1>1, RequestFacts
<1>3. given[x] = Nothing
  <2>1. ~ Has(trace, opnum, x)
    BY <1>1, <1>2, ProgramTrace DEF Running, Evaluating
  <2> QED
    BY <1>1, <1>2, <2>1 DEF Books, OnlyLive
<1>4. CASE ReceivesNull(size) /\ UNCHANGED given
  <2>1. CASE pass # "speed" /\ size = 0
    <3>1. Proceeds /\ UNCHANGED <<recorded, ranges, brk>>
      BY <1>4, <2>1 DEF ReceivesNull
    <3>2. ~ Releases(trace[opnum]) /\ ~ Allocates(trace[opnum])
      BY <1>1, <2>1 DEF Releases, Allocates
    <3>3. Points(blocks, given, trace, opnum) /\ OnlyLive(given, trace, opnum)
      BY <1>1 DEF Books
    <3>4. Points(blocks, given, trace, opnum + 1)
          /\ OnlyLive(given, trace, opnum + 1)
      BY <1>2, <3>2, <3>3, NullPoints
    <3>5. NoneFreedByRealloc' => NoneFreedByRealloc
      BY <1>1, <3>1, StillNoneFreed
    <3> QED
      BY <1>1, <1>4, <3>1, <3>4, <3>5, ProceedsBooks DEF Books
  <2> QED
    BY <1>1, <1>4, <2>1, FailedBooks
<1>5. ASSUME NEW p \in Pointers, HandsOut(x, size, p),
             Receives(x, p, size, ranges, 0, 0)
      PROVE  Books'
  <2>1. given = [given EXCEPT ![x] = Nothing]
    BY <1>2, <1>3 DEF Basic, MemoryOK
  <2>2. size > 0 => ~ LosesData(size, 0, 0)
    BY <1>2 DEF LosesData, Smaller
  <2>3. Checking /\ NoneFreedByRealloc => Recorded(given, ranges)
    BY DEF Books
  <2> QED
    BY <1>1, <1>5, <2>1, <2>2, <2>3, ReceivesBooks
<1> QED
  BY <1>4, <1>5 DEF Alloc

(* mm_realloc: REALLOC.                                                    *)
LEMMA ReallocBooks ==
  ASSUME Basic, Books, ProgramFiles, Realloc PROVE Books'
<1> DEFINE x == trace[opnum].index
           size == trace[opnum].size
           oldp == blocks[x]
           g == [given EXCEPT ![x] = Nothing]
<1>1. /\ Running /\ package = "mm" /\ opnum <= Len(trace)
      /\ trace[opnum].type = "REALLOC" /\ UNCHANGED arguments
  BY DEF Realloc, Requested
<1>2. x \in Ids /\ size \in Int /\ opnum \in DOMAIN trace /\ opnum \in Nat \ {0}
      /\ given \in [Ids -> Given]
  BY <1>1, RequestFacts DEF Basic, MemoryOK
<1>3. /\ MayPass(x, oldp) /\ given[x] # Nothing /\ oldp = given[x].ptr
  BY <1>1, HasMayPass
<1>4. CASE /\ ReceivesNull(size)
           /\ given' = IF size = 0 THEN g ELSE given
  <2>1. CASE pass # "speed" /\ size = 0
    <3>1. Proceeds /\ UNCHANGED <<recorded, ranges, brk>> /\ given' = g
      BY <1>4, <2>1 DEF ReceivesNull
    <3>2. Releases(trace[opnum]) /\ ~ Allocates(trace[opnum])
      BY <1>1, <2>1 DEF Releases, Allocates
    <3>3. Points(blocks, given, trace, opnum) /\ OnlyLive(given, trace, opnum)
      BY <1>1 DEF Books
    <3>4. Points(blocks, given', trace, opnum + 1)
          /\ OnlyLive(given', trace, opnum + 1)
      BY <1>2, <3>1, <3>2, <3>3, DropPoints
    <3>5. ~ NoneFreedByRealloc'
      BY <1>1, <2>1, <3>1, StillNoneFreed
    <3>6. /\ Checking => Booked(given', block_sizes)
          /\ Checking /\ correct => Placed(given', brk)
      BY <1>2, <3>1, DropBooked, ZenonT(60) DEF Books
    <3> QED
      BY <1>1, <3>1, <3>4, <3>5, <3>6, ProceedsBooks
  <2> QED
    BY <1>1, <1>4, <2>1, FailedBooks
<1>5. ASSUME NEW p \in Pointers, NEW intact \in Intact(x, size),
             HandsOut(x, size, p),
             Receives(x, p, size, remove_range(ranges, oldp), intact,
                      block_sizes[x])
      PROVE  Books'
  <2> DEFINE rs == remove_range(ranges, oldp)
             old == block_sizes[x]
  <2>1. Checking /\ NoneFreedByRealloc => Recorded(g, rs)
    BY <1>2, <1>3, DropRecorded DEF Books
  <2>2. Checking /\ correct /\ size > 0 => ~ LosesData(size, intact, old)
    <3> SUFFICES ASSUME Checking, correct, size > 0
                 PROVE  ~ LosesData(size, intact, old)
      OBVIOUS
    <3>1. given[x].kept = given[x].size /\ old = given[x].size
      BY <1>2, <1>3 DEF Books, Booked
    <3>2. given[x].size \in Nat
      BY <1>2 DEF Given
    <3>3. Granted(size) = size
      BY <1>2 DEF Granted
    <3>4. intact \in Smaller(given[x].kept, size) .. size
      BY <1>5, <3>3 DEF Intact
    <3>5. intact \in Int /\ Smaller(old, size) <= intact /\ Smaller(old, size) \in Int
      BY <1>2, <3>1, <3>2, <3>4 DEF Smaller
    <3> HIDE DEF old, size
    <3> QED
      BY <3>5 DEF LosesData
  <2> HIDE DEF rs, old, g
  <2>3. Receives(x, p, size, rs, intact, old)
    BY <1>5 DEF rs, old
  <2> QED
    BY <1>1, <1>5, <2>1, <2>2, <2>3, ReceivesBooks DEF g
<1> QED
  BY <1>3, <1>4, <1>5 DEF Realloc

(* mm_free: FREE.                                                          *)
LEMMA FreeBooks ==
  ASSUME Basic, Books, ProgramFiles, Free PROVE Books'
<1> DEFINE x == trace[opnum].index
           p == blocks[x]
<1>1. /\ Running /\ package = "mm" /\ opnum <= Len(trace)
      /\ trace[opnum].type = "FREE" /\ UNCHANGED arguments
  BY DEF Free, Requested
<1>2. x \in Ids /\ opnum \in Nat \ {0} /\ given \in [Ids -> Given]
  BY <1>1, RequestFacts DEF Basic, MemoryOK
<1>3. /\ MayPass(x, p) /\ given[x] # Nothing /\ p = given[x].ptr
  BY <1>1, HasMayPass
<1>4. /\ given' = [given EXCEPT ![x] = Nothing]
      /\ ranges' = IF pass = "speed" THEN ranges ELSE remove_range(ranges, p)
      /\ Proceeds /\ UNCHANGED <<recorded, brk>>
  BY <1>3 DEF Free
<1>5. Releases(trace[opnum]) /\ ~ Allocates(trace[opnum])
  BY <1>1 DEF Releases, Allocates
<1>6. Points(blocks, given, trace, opnum) /\ OnlyLive(given, trace, opnum)
  BY <1>1 DEF Books
<1>7. Points(blocks, given', trace, opnum + 1)
      /\ OnlyLive(given', trace, opnum + 1)
  BY <1>2, <1>4, <1>5, <1>6, DropPoints
<1>8. /\ Checking => Booked(given', block_sizes)
      /\ Checking /\ correct => Placed(given', brk)
  BY <1>2, <1>4, DropBooked, ZenonT(60) DEF Books
<1>9. Checking /\ NoneFreedByRealloc' => Recorded(given', ranges')
  <2> SUFFICES ASSUME Checking, NoneFreedByRealloc'
               PROVE  Recorded(given', ranges')
    OBVIOUS
  <2>1. NoneFreedByRealloc
    BY <1>1, <1>4, StillNoneFreed
  <2>2. Recorded(given, ranges)
    BY <2>1 DEF Books
  <2>3. ranges' = remove_range(ranges, given[x].ptr)
    BY <1>3, <1>4 DEF Checking
  <2> QED
    BY <1>2, <1>3, <1>4, <2>2, <2>3, DropRecorded
<1> QED
  BY <1>1, <1>4, <1>7, <1>8, <1>9, ProceedsBooks

(* A request of libc's malloc.                                             *)
LEMMA LibcBooks ==
  ASSUME Basic, Books, ProgramFiles, LibcRequest PROVE Books'
<1> DEFINE op == trace[opnum]
           x == op.index
           oldp == blocks[x]
           used == op.type = "ALLOC" \/ MayPass(x, oldp)
           sized == op.type # "FREE"
           never == op.size < 0 \/ (op.type = "REALLOC" /\ op.size = 0)
<1>1. Running /\ package = "libc" /\ opnum <= Len(trace)
  BY DEF LibcRequest
<1>2. UNCHANGED <<arguments, ranges, brk>>
  BY DEF LibcRequest
<1>3. x \in Ids /\ given \in [Ids -> Given] /\ blocks \in [Ids -> Nat]
      /\ op.size \in Int /\ opnum \in Nat \ {0} /\ op.type \in
           {"ALLOC", "REALLOC", "FREE", "bogus"}
  BY <1>1, RequestFacts DEF Basic, MemoryOK, Op
<1>4. used
  BY <1>1, HasMayPass
<1>5. ~ Checking
  BY <1>1 DEF Checking
<1>6. Points(blocks, given, trace, opnum)
  BY <1>1 DEF Books
<1>7. CASE Stops("exit")
  BY <1>2, <1>7, IdleBooks DEF Stops, Books, arguments
<1>8. ASSUME ~ never, NEW p \in Elsewhere,
             given' = [given EXCEPT ![x] =
                         [ptr |-> p, size |-> op.size, kept |-> op.size]],
             blocks' = [blocks EXCEPT ![x] = p],
             Proceeds, UNCHANGED block_sizes
      PROVE  Books'
  <2>1. p \in Nat /\ p # NULL /\ op.size \in Nat
    BY <1>3, <1>8, DriverAssumption
  <2>2. Points(blocks', given', trace, opnum + 1)
    BY <1>3, <1>6, <1>8, <2>1, GivePoints DEF Piece
  <2>3. /\ pass' = pass /\ opnum' = opnum + 1 /\ errors' = errors
        /\ trace' = trace /\ package' = package /\ correct' = correct
    BY <1>2, <1>8 DEF Proceeds, progress, arguments
  <2> QED
    BY <1>1, <2>2, <2>3 DEF Books, Running, Checking
<1>9. CASE /\ ~ sized /\ given' = [given EXCEPT ![x] = Nothing]
           /\ Proceeds /\ UNCHANGED recorded
  <2>1. Releases(op) /\ ~ Allocates(op)
    BY <1>9 DEF Releases, Allocates
  <2>2. Points(blocks, given', trace, opnum + 1)
    BY <1>3, <1>6, <1>9, <2>1, DropPoints
  <2> QED
    BY <1>1, <1>2, <1>5, <1>9, <2>2, ProceedsBooks
<1> QED
  BY <1>4, <1>7, <1>8, <1>9 DEF LibcRequest

(* A pass begins with nothing allocated by mm.c, whatever blocks has left   *)
(* from the last one.                                                       *)
LEMMA EntersBooks ==
  ASSUME Books, NEW p \in {"valid", "util", "speed"}, Enters(p) \/ InitFails(p),
         UNCHANGED <<correct, package>>
  PROVE  Books'
<1>1. CASE InitFails(p)
  <2>1. pass' \in {"read", "exit"} /\ errors' \subseteq errors \cup {"failed"}
    BY <1>1 DEF InitFails
  <2> QED
    BY <2>1, IdleBooks DEF Books
<1>2. CASE Enters(p)
  <2>1. /\ pass' = p /\ opnum' = 1 /\ errors' = errors
        /\ package = "mm" => given' = [j \in Ids |-> Nothing]
        /\ p # "speed" => ranges' = clear_ranges
    BY <1>2 DEF Enters
  <2>2. Points(blocks', given', trace', 1)
    BY HasFirst DEF Points
  <2>3. package = "mm" => /\ OnlyLive(given', trace', 1)
                          /\ Booked(given', block_sizes')
                          /\ Placed(given', brk')
                          /\ p # "speed" => Recorded(given', ranges')
    <3> SUFFICES ASSUME package = "mm"
                 PROVE  /\ OnlyLive(given', trace', 1)
                        /\ Booked(given', block_sizes')
                        /\ Placed(given', brk')
                        /\ p # "speed" => Recorded(given', ranges')
      OBVIOUS
    <3>1. \A i \in Ids : given'[i] = Nothing
      BY <2>1
    <3>2. Extents(given') = {}
      BY <3>1 DEF Extents
    <3>3. p # "speed" => Lists(ranges', Extents(given'))
      BY <2>1, <3>2, ListsNone
    <3> QED
      BY <3>1, <3>3 DEF OnlyLive, Booked, Placed, Recorded
  <2> QED
    BY <2>1, <2>2, <2>3 DEF Books, Checking
<1> QED
  BY <1>1, <1>2

(* read_trace: blocks and block_sizes hold garbage, which nothing refers to.*)
LEMMA ReadBooks ==
  ASSUME Books, read_trace PROVE Books'
<1>1. UNCHANGED <<correct, package>>
  BY DEF read_trace, arguments
<1>2. CASE Enters("valid") \/ InitFails("valid")
  BY <1>1, <1>2, EntersBooks
<1>3. CASE pass' \in {"exit", "abort", "overrun"} /\ UNCHANGED errors
  BY <1>1, <1>3, IdleBooks DEF Books
<1> QED
  BY <1>2, <1>3 DEF read_trace

(* A pass ends.                                                            *)
LEMMA PassEndsBooks ==
  ASSUME Books, PassEnds PROVE Books'
<1>1. UNCHANGED <<correct, package>>
  BY DEF PassEnds, arguments
<1>2. ASSUME NEW p \in {"util", "speed"}, Enters(p) \/ InitFails(p) PROVE Books'
  BY <1>1, <1>2, EntersBooks
<1>3. CASE pass' = "read" /\ UNCHANGED errors
  BY <1>1, <1>3, IdleBooks DEF Books
<1> QED
  BY <1>2, <1>3 DEF PassEnds

(* Every step of the driver keeps the books of a program's trace.          *)
LEMMA StepBooks ==
  ASSUME ProgramFiles
  PROVE  Basic /\ Books /\ [Next]_vars => Books'
<1> SUFFICES ASSUME Basic, Books, [Next]_vars PROVE Books'
  OBVIOUS
<1>1. CASE LibcEnds
  <2>1. pass' = "read" /\ errors' = errors /\ correct' = correct
    BY <1>1 DEF LibcEnds, arguments
  <2> QED
    BY <2>1, IdleBooks DEF Books
<1>2. CASE UNCHANGED vars
  <2>1. UNCHANGED <<correct, pass, opnum, package, trace, blocks, block_sizes,
                    ranges, errors, given, brk>>
    BY <1>2 DEF vars, arguments, progress, recorded
  <2> QED
    BY <2>1 DEF Books, Running, Checking, NoneFreedByRealloc
<1> QED
  BY <1>1, <1>2, AllocBooks, ReallocBooks, FreeBooks, LibcBooks, ReadBooks,
     PassEndsBooks DEF Next

(* The invariant of programs' traces.                                      *)
LEMMA BooksInvariance ==
  ASSUME ProgramFiles
  PROVE  Spec => [](Basic /\ Books)
<1>1. Init => Basic /\ Books
  <2>1. Init => Books
    BY DEF Init, Books, Running, Checking
  <2> QED
    BY <2>1, InitBasic
<1>2. (Basic /\ Books) /\ [Next]_vars => (Basic /\ Books)'
  BY StepBasic, StepBooks
<1> QED
  BY <1>1, <1>2, PTL DEF Spec

-----------------------------------------------------------------------------
(* The theorems about programs' traces                                     *)

(* On the trace of a program, free and realloc are called with the pointers *)
(* handed out for the id and not given back, in every pass, for mm.c and    *)
(* for libc: the pointers of the last pass and the garbage that blocks is   *)
(* allocated with are overwritten before they are used.                     *)
THEOREM ContractKept ==
  ASSUME ProgramFiles
  PROVE  Spec => []CallsKeepContract
<1>1. Basic /\ Books => CallsKeepContract
  BY DEF Books, CallsKeepContract
<1> QED
  BY <1>1, BooksInvariance, PTL

(* A correct allocator is blamed for nothing but having no memory left, on  *)
(* the traces of programs that do not reallocate to size 0: add_range finds *)
(* nothing wrong and eval_mm_valid all of the data.                         *)
THEOREM CorrectNeverBlamed ==
  ASSUME ProgramFiles, NoReallocToZero
  PROVE  Spec => []NeverBlamed
<1>1. Basic /\ Books => NeverBlamed
  BY DEF Books, NeverBlamed
<1> QED
  BY <1>1, BooksInvariance, PTL

(* On the trace of a program, until it reallocates to size 0, the range     *)
(* list has one record for each payload allocated and no other, whatever    *)
(* the allocator answers.                                                   *)
THEOREM RangesStayExact ==
  ASSUME ProgramFiles
  PROVE  Spec => []RangesExactTillThen
<1>1. Basic /\ Books => RangesExactTillThen
  <2> SUFFICES ASSUME Basic, Books, Checking, NoneFreedByRealloc
               PROVE  ExactRanges
    BY DEF RangesExactTillThen
  <2>1. Recorded(given, ranges)
    BY DEF Books
  <2>2. Held = {j \in Ids : given[j] # Nothing}
    BY DEF Held, Contract!Held, Nothing
  <2> DEFINE f == [j \in Held |-> range(given[j].ptr, given[j].size)]
  <2>3. f \in Bijection(Held, Extents(given))
    <3>1. f \in [Held -> Extents(given)]
      BY <2>2 DEF Extents
    <3>2. \A i, j \in Held : f[i] = f[j] => i = j
      BY <2>1, <2>2 DEF Recorded, range
    <3>3. \A e \in Extents(given) : \E j \in Held : f[j] = e
      BY <2>2 DEF Extents
    <3> QED
      BY <3>1, <3>2, <3>3 DEF Bijection, Injection, Surjection, IsInjective
  <2>4. Len(ranges) = Cardinality(Held)
    BY <2>1, <2>3, ListsCount DEF Recorded
  <2>5. DOMAIN ranges = 1 .. Len(ranges)
    BY <2>1, LenProperties DEF Recorded, Lists
  <2>6. \A j \in Held : \E k \in 1 .. Len(ranges) :
          ranges[k] = range(given[j].ptr, given[j].size)
    BY <2>1, <2>2 DEF Recorded, Lists, Extents
  <2> QED
    BY <2>4, <2>5, <2>6 DEF ExactRanges
<1> QED
  BY <1>1, BooksInvariance, PTL

-----------------------------------------------------------------------------
(* The header                                                              *)

(* max_index is the largest index of the lines that are no FREE.           *)
LEMMA MaxIndex ==
  ASSUME NEW lines \in Seq(Line), NEW k \in 1 .. Len(lines),
         lines[k].type # "FREE"
  PROVE  lines[k].index <= max_index(lines) /\ max_index(lines) \in Nat
<1> DEFINE T(n) == {0} \cup {lines[j].index : j \in
                             {j \in 1 .. n : lines[j].type # "FREE"}}
           Good(n) == \E m \in T(n) : \A y \in T(n) : m >= y
           Bad == {n \in 0 .. Len(lines) : ~ Good(n)}
<1>1. Len(lines) \in Nat /\ DOMAIN lines = 1 .. Len(lines)
      /\ \A j \in 1 .. Len(lines) : lines[j].index \in Nat
  <2>1. \A j \in 1 .. Len(lines) : lines[j] \in Line
    BY ElementOfSeq
  <2>2. \A i \in Ids : i \in Nat
    BY DriverAssumption
  <2> QED
    BY <2>1, <2>2, LenProperties DEF Line
<1>2. \A n \in 0 .. Len(lines) : \A y \in T(n) : y \in Nat
  BY <1>1
<1>3. Bad = {}
  <2> SUFFICES ASSUME Bad # {} PROVE FALSE
    OBVIOUS
  <2>1. Bad \subseteq Nat
    BY <1>1
  <2> DEFINE n == Min(Bad)
  <2>2. n \in Bad /\ \A j \in Bad : n <= j
    BY <2>1, FirstIndex
  <2> HIDE DEF n
  <2>3. n # 0
    <3>1. T(0) = {0}
      OBVIOUS
    <3> QED
      BY <2>2, <3>1
  <2>4. n \in 1 .. Len(lines) /\ n - 1 \in 0 .. Len(lines) /\ n - 1 \notin Bad
    <3> HIDE DEF Good
    <3> QED
      BY <1>1, <2>2, <2>3
  <2>5. PICK m \in T(n - 1) : \A y \in T(n - 1) : m >= y
    BY <2>4
  <2>6. m \in Nat /\ lines[n].index \in Nat
    BY <1>1, <1>2, <2>4, <2>5
  <2>7. T(n) = IF lines[n].type # "FREE" THEN T(n - 1) \cup {lines[n].index}
               ELSE T(n - 1)
    <3>1. 1 .. n = (1 .. n - 1) \cup {n}
      BY <2>4
    <3> QED
      BY <3>1
  <2>8. \A y \in T(n - 1) : y \in Nat
    BY <1>2, <2>4
  <2> HIDE DEF T
  <2>9. \E q \in T(n) : \A y \in T(n) : q >= y
    <3>1. CASE lines[n].type = "FREE"
      BY <2>5, <2>7, <3>1
    <3>2. CASE lines[n].type # "FREE" /\ lines[n].index >= m
      <4>1. lines[n].index \in T(n)
        BY <2>7, <3>2
      <4>2. \A y \in T(n) : lines[n].index >= y
        BY <2>5, <2>6, <2>7, <2>8, <3>2
      <4> QED
        BY <4>1, <4>2
    <3>3. CASE lines[n].type # "FREE" /\ lines[n].index < m
      <4>1. m \in T(n)
        BY <2>5, <2>7, <3>3
      <4>2. \A y \in T(n) : m >= y
        BY <2>5, <2>6, <2>7, <2>8, <3>3
      <4> QED
        BY <4>1, <4>2
    <3> QED
      BY <2>6, <3>1, <3>2, <3>3
  <2> QED
    BY <2>2, <2>9
<1> DEFINE S == T(Len(lines))
<1>4. \E m \in S : \A y \in S : m >= y
  <2>1. Good(Len(lines))
    <3> HIDE DEF Good
    <3> QED
      BY <1>1, <1>3
  <2> QED
    BY <2>1
<1>5. max_index(lines) = Max(S)
  BY <1>1 DEF max_index
<1>6. lines[k].index \in S /\ \A y \in S : y \in Nat
  BY <1>1, <1>2
<1> HIDE DEF S
<1>7. Max(S) \in S /\ \A y \in S : Max(S) >= y
  BY <1>4 DEF Max
<1> QED
  BY <1>5, <1>6, <1>7

(* On the trace of a program the passes index ops, blocks and block_sizes   *)
(* within the lengths the header declared for them: what read_trace asserts *)
(* of the ALLOC and REALLOC lines covers the FREE lines too.               *)
THEOREM ArraysSuffice ==
  ASSUME ProgramFiles
  PROVE  Spec => []ArraysLargeEnough
<1>1. Basic => ArraysLargeEnough
  <2> SUFFICES ASSUME Basic, Running
               PROVE  /\ Len(trace) = files[tracenum].num_ops
                      /\ \A k \in DOMAIN trace :
                           trace[k].index < files[tracenum].num_ids
    BY DEF ArraysLargeEnough
  <2> DEFINE file == files[tracenum]
             lines == file.lines
  <2>1. /\ correct \in Allocators /\ file \in Files[correct] /\ trace = Ops(file)
        /\ header_asserts(file)
    BY DEF Basic, ArgumentsOK, Loaded, Running, Evaluating
  <2>2. /\ Len(trace) = Len(lines) /\ Len(lines) \in Nat
        /\ \A k \in 1 .. Len(lines) :
                /\ trace[k].type = lines[k].type
                /\ trace[k].index = lines[k].index
                /\ trace[k].index \in Ids
    BY <2>1, OpsFacts
  <2>3. DOMAIN trace = 1 .. Len(lines)
    BY <2>2, LenProperties DEF Basic, PlaceOK
  <2>4. file \in File
    BY <2>1, DriverAssumption
  <2>5. lines \in Seq(Line) /\ file.num_ids \in Nat
    BY <2>4 DEF File
  <2>6. max_index(lines) = file.num_ids - 1 /\ Len(lines) = file.num_ops
    BY <2>1 DEF header_asserts
  <2>7. \A i \in Ids : i \in Nat
    BY DriverAssumption
  <2>8. \A k \in 1 .. Len(lines) :
          lines[k].type # "FREE" => lines[k].index < file.num_ids
    <3> SUFFICES ASSUME NEW k \in 1 .. Len(lines), lines[k].type # "FREE"
                 PROVE  lines[k].index < file.num_ids
      OBVIOUS
    <3>1. lines[k].index <= max_index(lines)
      BY <2>5, MaxIndex
    <3>2. lines[k].index \in Nat
      BY <2>2, <2>7
    <3> HIDE DEF lines, file
    <3> QED
      BY <2>5, <2>6, <3>1, <3>2
  <2>9. ASSUME NEW k \in DOMAIN trace PROVE trace[k].index < file.num_ids
    <3>1. CASE trace[k].type # "FREE"
      BY <2>2, <2>3, <2>8, <3>1
    <3>2. CASE trace[k].type = "FREE"
      <4>1. Has(trace, k, trace[k].index)
        BY <3>2, ProgramTrace DEF Running, Evaluating
      <4>2. PICK j \in 1 .. k - 1 :
              trace[j].index = trace[k].index /\ trace[j].type # "FREE"
        BY <4>1 DEF Has, Allocates
      <4>3. j \in 1 .. Len(lines)
        BY <2>2, <2>3, <4>2
      <4> QED
        BY <2>2, <2>8, <4>2, <4>3
    <3> QED
      BY <3>1, <3>2
  <2> QED
    BY <2>2, <2>6, <2>9
<1> QED
  BY <1>1, BasicInvariance, PTL
-----------------------------------------------------------------------------
(* The totals                                                              *)

Live(g) == {j \in Ids : g[j] # Nothing}

(* What eval_mm_util has counted.  A REALLOC to size 0 frees a payload that *)
(* stays in the total.                                                      *)
Totals ==
  /\ total_size \in Nat /\ max_total_size \in Nat
  /\ pass = "util" =>
       /\ package = "mm"
       /\ SizeSum(given, Live(given)) <= total_size
       /\ NoneFreedByRealloc => total_size = SizeSum(given, Live(given))
       /\ correct /\ NoReallocToZero => max_total_size <= brk - mem_start_brk

(* Only as many payloads are allocated as requests were made.              *)
LEMMA LiveFinite ==
  ASSUME NEW g, NEW t, NEW k \in Nat, OnlyLive(g, t, k)
  PROVE  IsFiniteSet(Live(g))
<1> DEFINE J == 1 .. k - 1
           f == [j \in J |-> t[j].index]
           I == {t[j].index : j \in J}
<1>1. IsFiniteSet(J)
  BY FS_Interval
<1>2. f \in Surjection(J, I)
  BY DEF Surjection
<1>3. IsFiniteSet(I)
  <2> HIDE DEF f, I, J
  <2> QED
    BY <1>1, <1>2, FS_Surjection
<1>4. Live(g) \in SUBSET I
  BY DEF Live, OnlyLive, Has
<1> QED
  BY <1>3, <1>4, FS_Subset

(* When one payload is replaced by another, or by none, the sum changes by  *)
(* the difference of their sizes.                                           *)
LEMMA LiveSum ==
  ASSUME NEW g \in [Ids -> Given], IsFiniteSet(Live(g)), NEW x \in Ids,
         NEW h \in [Ids -> Given], \A i \in Ids : i # x => h[i] = g[i]
  PROVE  /\ SizeSum(g, Live(g)) \in Nat /\ SizeSum(h, Live(h)) \in Nat
         /\ IsFiniteSet(Live(h))
         /\ SizeSum(h, Live(h)) = SizeSum(g, Live(g)) - g[x].size + h[x].size
<1> DEFINE R == Live(g) \ {x}
<1>1. \A i \in Ids : i # x => h[i] = g[i]
  OBVIOUS
<1>2. R = Live(h) \ {x}
  BY DEF Live
<1>0. IsFiniteSet(R)
  BY FS_RemoveElement
<1>3. IsFiniteSet(Live(h))
  <2>1. Live(h) \in SUBSET (R \cup {x})
    BY <1>2
  <2> HIDE DEF R
  <2>2. IsFiniteSet(R \cup {x})
    BY <1>0, FS_AddElement
  <2> QED
    BY <2>1, <2>2, FS_Subset
<1>4. ASSUME NEW k \in [Ids -> Given], IsFiniteSet(Live(k))
      PROVE  /\ SizeSum(k, Live(k)) \in Nat /\ k[x].size \in Nat
             /\ SizeSum(k, Live(k)) = k[x].size + SizeSum(k, Live(k) \ {x})
  <2>1. \A i \in Ids : k[i].size \in Nat
    BY DEF Given
  <2>2. \A i \in Live(k) : k[i].size \in Nat
    BY <2>1 DEF Live
  <2>3. SizeSum(k, Live(k)) \in Nat
    BY <1>4, <2>2, SumNat
  <2>4. CASE x \in Live(k)
    <3> DEFINE S == Live(k)
    <3>1. IsFiniteSet(S) /\ x \in S /\ \A i \in S : k[i].size \in Nat
      BY <1>4, <2>2, <2>4
    <3> HIDE DEF S
    <3>2. SizeSum(k, S) = k[x].size + SizeSum(k, S \ {x})
      BY <3>1, SumWithout
    <3> QED
      BY <2>1, <2>3, <3>2 DEF S
  <2>5. CASE x \notin Live(k)
    <3>1. Live(k) \ {x} = Live(k)
      BY <2>5
    <3>2. k[x] = Nothing /\ Nothing.size = 0
      BY <2>5 DEF Live, Nothing, Contract!None
    <3>3. SizeSum(k, Live(k) \ {x}) = SizeSum(k, Live(k))
      BY <3>1, Zenon
    <3> QED
      BY <2>3, <3>2, <3>3
  <2> QED
    BY <2>4, <2>5
<1>5. /\ SizeSum(g, Live(g)) \in Nat /\ g[x].size \in Nat
      /\ SizeSum(g, Live(g)) = g[x].size + SizeSum(g, R)
  BY <1>4
<1>6. /\ SizeSum(h, Live(h)) \in Nat /\ h[x].size \in Nat
      /\ SizeSum(h, Live(h)) = h[x].size + SizeSum(h, R)
  BY <1>2, <1>3, <1>4
<1>7. SizeSum(g, R) = SizeSum(h, R)
  <2>1. \A i \in R : g[i].size = h[i].size
    BY <1>1 DEF Live
  <2> HIDE DEF R
  <2> QED
    BY <1>0, <2>1, SumSame
<1>8. SizeSum(g, R) \in Nat
  <2>1. \A i \in R : g[i].size \in Nat
    BY DEF Live, Given
  <2> HIDE DEF R
  <2> QED
    BY <1>0, <2>1, SumNat
<1> HIDE DEF R
<1> QED
  BY <1>3, <1>5, <1>6, <1>7, <1>8

(* A correct allocator's payloads fit in its heap.                         *)
LEMMA LiveFits ==
  ASSUME NEW g \in [Ids -> Given], IsFiniteSet(Live(g)), NEW sizes,
         Booked(g, sizes), NEW top \in Nat, mem_start_brk <= top, Placed(g, top)
  PROVE  SizeSum(g, Live(g)) <= top - mem_start_brk
<1>1. mem_start_brk \in Nat
  BY MemoryAssumption
<1>2. \A i \in Live(g) :
        /\ g[i].ptr \in Nat /\ g[i].size \in Nat /\ g[i].size > 0
        /\ mem_start_brk <= g[i].ptr /\ g[i].ptr + g[i].size <= top
  BY DEF Live, Given, Booked, Placed
<1>3. \A i, j \in Live(g) : i # j =>
        \/ g[i].ptr + g[i].size <= g[j].ptr
        \/ g[j].ptr + g[j].size <= g[i].ptr
  BY DEF Live, Placed
<1> QED
  BY <1>1, <1>2, <1>3, SumFits

(* Outside of eval_mm_util the totals are left alone.                      *)
LEMMA IdleTotals ==
  ASSUME Totals, pass' # "util",
         UNCHANGED totals \/ (total_size' = 0 /\ max_total_size' = 0)
  PROVE  Totals'
BY DEF Totals, totals

(* A request that changes nothing they depend on.                          *)
LEMMA SameTotals ==
  ASSUME Totals, UNCHANGED <<pass, package, correct, given, totals, brk>>,
         NoneFreedByRealloc' => NoneFreedByRealloc
  PROVE  Totals'
<1>1. UNCHANGED <<total_size, max_total_size>>
  BY DEF totals
<1> QED
  BY <1>1 DEF Totals

(* A request of eval_mm_util that replaces the payload of x by w.          *)
LEMMA CountsTotals ==
  ASSUME Basic, Books, Totals, Books', pass = "util", NEW x \in Ids,
         NEW w \in Given, given' = [given EXCEPT ![x] = w],
         Counts(w.size - given[x].size),
         UNCHANGED <<pass, package, correct>>,
         NoneFreedByRealloc' => NoneFreedByRealloc,
         brk' \in mem_start_brk .. mem_max_addr, brk' >= brk
  PROVE  Totals'
<1>1. given \in [Ids -> Given] /\ opnum \in Nat /\ brk \in Nat /\ brk' \in Nat
      /\ mem_start_brk \in Nat /\ mem_start_brk <= brk'
  BY MemoryAssumption DEF Basic, PlaceOK, MemoryOK, mem_max_addr
<1>2. package = "mm" /\ OnlyLive(given, trace, opnum)
  BY DEF Totals, Books, Running
<1> DEFINE a == SizeSum(given, Live(given))
           b == SizeSum(given', Live(given'))
<1>3. a \in Nat /\ b \in Nat /\ b = a - given[x].size + w.size
      /\ IsFiniteSet(Live(given'))
  <2>1. IsFiniteSet(Live(given))
    BY <1>1, <1>2, LiveFinite
  <2>2. /\ given' \in [Ids -> Given] /\ given'[x] = w
        /\ \A i \in Ids : i # x => given'[i] = given[i]
    BY <1>1
  <2> QED
    BY <1>1, <2>1, <2>2, LiveSum, ZenonT(60)
<1>4. given[x].size \in Nat /\ w.size \in Nat
  BY <1>1 DEF Given
<1>5. /\ total_size' = total_size + (w.size - given[x].size)
      /\ max_total_size' = Larger(max_total_size, total_size')
  BY DEF Counts
<1>6. /\ total_size \in Nat /\ max_total_size \in Nat /\ a <= total_size
      /\ NoneFreedByRealloc => total_size = a
      /\ correct /\ NoReallocToZero => max_total_size <= brk - mem_start_brk
  BY DEF Totals
<1>7. correct /\ NoReallocToZero => b <= brk' - mem_start_brk
  <2> SUFFICES ASSUME correct PROVE b <= brk' - mem_start_brk
    OBVIOUS
  <2>1. Booked(given', block_sizes') /\ Placed(given', brk')
    BY <1>2 DEF Books, Checking
  <2>2. given' \in [Ids -> Given]
    BY <1>1
  <2> QED
    BY <1>1, <1>3, <2>1, <2>2, LiveFits
<1> HIDE DEF a, b
<1>8. total_size' \in Nat /\ b <= total_size' /\ max_total_size' \in Nat
  BY <1>3, <1>4, <1>5, <1>6 DEF Larger
<1>9. NoneFreedByRealloc => total_size' = b
  BY <1>3, <1>4, <1>5, <1>6
<1>10. correct /\ NoReallocToZero => max_total_size' <= brk' - mem_start_brk
  <2> SUFFICES ASSUME correct, NoReallocToZero
               PROVE  max_total_size' <= brk' - mem_start_brk
    OBVIOUS
  <2>1. NoneFreedByRealloc
    BY NoneFreed DEF Running
  <2> QED
    BY <1>1, <1>5, <1>6, <1>7, <1>8, <1>9, <2>1 DEF Larger
<1> QED
  BY <1>2, <1>8, <1>9, <1>10 DEF Totals, b

(* An ALLOC or REALLOC that is answered: what was counted for the id before *)
(* is what it had.                                                          *)
LEMMA ReceivesTotals ==
  ASSUME Basic, Books, Totals, Books', Running, package = "mm",
         opnum <= Len(trace),
         NEW p \in Pointers, NEW rs, NEW intact, NEW old,
         pass = "util" => old = given[trace[opnum].index].size,
         HandsOut(trace[opnum].index, trace[opnum].size, p),
         Receives(trace[opnum].index, p, trace[opnum].size, rs, intact, old),
         UNCHANGED arguments
  PROVE  Totals'
<1> DEFINE x == trace[opnum].index
           size == trace[opnum].size
<1>1. x \in Ids /\ size \in Int /\ UNCHANGED correct
  BY RequestFacts DEF arguments
<1>2. p \in Nat /\ Granted(size) \in Nat /\ brk' \in mem_start_brk .. mem_max_addr
  BY <1>1, HandsOutTyped DEF Basic
<1>3. brk' >= brk /\ given' = [given EXCEPT ![x] = Piece(p, Granted(size))]
  BY DEF HandsOut, Piece
<1>4. CASE pass' # "util" /\ UNCHANGED totals
  BY <1>4, IdleTotals
<1>5. CASE /\ pass # "speed" /\ range_asserts(size) /\ Counts(size - old)
           /\ Fills(size)
  <2>1. Proceeds /\ Granted(size) = size
    BY <1>1, <1>5 DEF range_asserts, Fills, Granted
  <2>2. UNCHANGED <<pass, package>>
    BY <2>1 DEF Proceeds, progress
  <2>3. CASE pass = "valid"
    BY <1>5, <2>2, <2>3, IdleTotals DEF Counts
  <2>4. CASE pass = "util"
    <3> DEFINE w == Piece(p, Granted(size))
    <3>1. w \in Given /\ w.size = size
      BY <1>2, <2>1 DEF Piece, Given
    <3>2. NoneFreedByRealloc' => NoneFreedByRealloc
      BY <2>1, StillNoneFreed
    <3>3. Counts(w.size - given[x].size)
      BY <1>5, <2>4, <3>1
    <3> HIDE DEF w
    <3>4. given' = [given EXCEPT ![x] = w]
      BY <1>3 DEF w
    <3> HIDE DEF x
    <3> QED
      BY <1>1, <1>2, <1>3, <2>2, <2>4, <3>1, <3>2, <3>3, <3>4, CountsTotals
  <2> QED
    BY <1>5, <2>3, <2>4 DEF Running
<1>6. Receives(x, p, size, rs, intact, old)
  OBVIOUS
<1> HIDE DEF x, size
<1>7. \/ pass' # "util" /\ UNCHANGED totals
      \/ /\ pass # "speed" /\ range_asserts(size) /\ Counts(size - old)
         /\ Fills(size)
  BY <1>6 DEF Receives, Stops, Blames, Fills, Proceeds
<1> QED
  BY <1>4, <1>5, <1>7 DEF size

(* NULL, when the id keeps what it has.                                    *)
LEMMA NullTotals ==
  ASSUME Basic, Totals, Running, NEW size, ReceivesNull(size),
         UNCHANGED given, UNCHANGED arguments
  PROVE  Totals'
<1>1. UNCHANGED <<totals, brk, correct>>
  BY DEF ReceivesNull, arguments
<1>2. CASE Proceeds
  <2>1. UNCHANGED <<pass, package>>
    BY <1>2 DEF Proceeds, progress
  <2>2. NoneFreedByRealloc' => NoneFreedByRealloc
    BY <1>2, StillNoneFreed
  <2> QED
    BY <1>1, <2>1, <2>2, SameTotals
<1>3. CASE pass' # "util"
  BY <1>1, <1>3, IdleTotals
<1> QED
  BY <1>2, <1>3 DEF ReceivesNull, Blames, Stops

(* mm_malloc: ALLOC.                                                       *)
LEMMA AllocTotals ==
  ASSUME Basic, Books, Totals, ProgramFiles, Alloc, Books' PROVE Totals'
<1> DEFINE x == trace[opnum].index
           size == trace[opnum].size
<1>1. /\ Running /\ package = "mm" /\ opnum <= Len(trace)
      /\ trace[opnum].type = "ALLOC" /\ UNCHANGED arguments
  BY DEF Alloc, Requested
<1>2. x \in Ids /\ opnum \in DOMAIN trace
  BY <1>1, RequestFacts
<1>3. given[x] = Nothing
  <2>1. ~ Has(trace, opnum, x)
    BY <1>1, <1>2, ProgramTrace DEF Running, Evaluating
  <2> QED
    BY <1>1, <1>2, <2>1 DEF Books, OnlyLive
<1>4. given[x].size = 0
  BY <1>3 DEF Nothing, Contract!None
<1>5. CASE ReceivesNull(size) /\ UNCHANGED given
  BY <1>1, <1>5, NullTotals
<1>6. ASSUME NEW p \in Pointers, HandsOut(x, size, p),
             Receives(x, p, size, ranges, 0, 0)
      PROVE  Totals'
  BY <1>1, <1>4, <1>6, ReceivesTotals
<1> QED
  BY <1>5, <1>6 DEF Alloc

(* mm_realloc: REALLOC.  To size 0, less is allocated and as much counted.  *)
LEMMA ReallocTotals ==
  ASSUME Basic, Books, Totals, ProgramFiles, Realloc, Books' PROVE Totals'
<1> DEFINE x == trace[opnum].index
           size == trace[opnum].size
<1>1. /\ Running /\ package = "mm" /\ opnum <= Len(trace)
      /\ trace[opnum].type = "REALLOC" /\ UNCHANGED arguments
  BY DEF Realloc, Requested
<1>2. x \in Ids /\ given \in [Ids -> Given]
  BY <1>1, RequestFacts DEF Basic, MemoryOK
<1>3. MayPass(x, blocks[x]) /\ given[x] # Nothing
  BY <1>1, HasMayPass
<1>4. CASE /\ ReceivesNull(size)
           /\ given' = IF size = 0 THEN [given EXCEPT ![x] = Nothing] ELSE given
  <2>1. CASE size # 0
    BY <1>1, <1>4, <2>1, NullTotals
  <2>2. CASE size = 0 /\ pass = "util"
    <3>1. /\ Proceeds /\ UNCHANGED <<totals, brk, correct>>
          /\ given' = [given EXCEPT ![x] = Nothing]
      BY <1>1, <1>4, <2>2 DEF ReceivesNull, arguments
    <3>2. UNCHANGED <<pass, package, total_size, max_total_size>>
      BY <3>1 DEF Proceeds, progress, totals
    <3>3. ~ NoneFreedByRealloc'
      BY <1>1, <2>2, <3>1, StillNoneFreed
    <3>4. /\ given' \in [Ids -> Given] /\ given'[x] = Nothing
          /\ \A i \in Ids : i # x => given'[i] = given[i]
      BY <1>2, <3>1, NothingTyped
    <3>5. IsFiniteSet(Live(given))
      <4>1. OnlyLive(given, trace, opnum) /\ opnum \in Nat
        BY <1>1 DEF Books, Basic, PlaceOK
      <4> QED
        BY <4>1, LiveFinite
    <3> HIDE DEF x
    <3>6. /\ SizeSum(given, Live(given)) \in Nat
          /\ SizeSum(given', Live(given')) \in Nat
          /\ SizeSum(given', Live(given'))
             = SizeSum(given, Live(given)) - given[x].size + given'[x].size
      BY <1>2, <3>4, <3>5, LiveSum
    <3>7. given'[x].size = 0 /\ given[x].size \in Nat
      BY <1>2, <3>4 DEF Nothing, Contract!None, Given
    <3>8. total_size \in Nat /\ SizeSum(given, Live(given)) <= total_size
      BY <2>2 DEF Totals
    <3>9. SizeSum(given', Live(given')) <= total_size
      BY <3>6, <3>7, <3>8
    <3> QED
      BY <2>2, <3>1, <3>2, <3>3, <3>9 DEF Totals
  <2>3. CASE pass # "util"
    <3>1. pass' # "util" /\ UNCHANGED totals
      BY <1>4, <2>3 DEF ReceivesNull, Proceeds, Blames, Stops
    <3> QED
      BY <3>1, IdleTotals
  <2> QED
    BY <2>1, <2>2, <2>3
<1>5. ASSUME NEW p \in Pointers, NEW intact, HandsOut(x, size, p),
             Receives(x, p, size, remove_range(ranges, blocks[x]), intact,
                      block_sizes[x])
      PROVE  Totals'
  <2>1. pass = "util" => block_sizes[x] = given[x].size
    BY <1>1, <1>2, <1>3 DEF Books, Booked, Checking
  <2> QED
    BY <1>1, <1>5, <2>1, ReceivesTotals
<1> QED
  BY <1>3, <1>4, <1>5 DEF Realloc

(* mm_free: FREE.                                                          *)
LEMMA FreeTotals ==
  ASSUME Basic, Books, Totals, ProgramFiles, Free, Books' PROVE Totals'
<1> DEFINE x == trace[opnum].index
<1>1. /\ Running /\ package = "mm" /\ opnum <= Len(trace)
      /\ UNCHANGED correct /\ trace[opnum].type = "FREE"
  BY DEF Free, Requested, arguments
<1>2. x \in Ids /\ given \in [Ids -> Given] /\ brk \in mem_start_brk .. mem_max_addr
  BY <1>1, RequestFacts DEF Basic, MemoryOK
<1>3. MayPass(x, blocks[x]) /\ given[x] # Nothing
  BY <1>1, HasMayPass
<1>4. /\ given' = [given EXCEPT ![x] = Nothing] /\ Counts(- block_sizes[x])
      /\ Proceeds /\ UNCHANGED brk
  BY <1>3 DEF Free
<1>5. UNCHANGED <<pass, package>>
  BY <1>4 DEF Proceeds, progress
<1>6. CASE pass = "util"
  <2>1. block_sizes[x] = given[x].size /\ given[x].size \in Nat
    BY <1>1, <1>2, <1>3, <1>6 DEF Books, Booked, Checking, Given
  <2>2. Nothing.size = 0 /\ Nothing \in Given
    BY NothingTyped DEF Nothing, Contract!None
  <2>3. Counts(Nothing.size - given[x].size)
    <3>1. - block_sizes[x] = Nothing.size - given[x].size
      BY <2>1, <2>2
    <3> QED
      BY <1>4, <3>1
  <2>4. NoneFreedByRealloc' => NoneFreedByRealloc
    BY <1>1, <1>4, StillNoneFreed
  <2>5. brk' \in mem_start_brk .. mem_max_addr /\ brk' >= brk
    BY <1>2, <1>4, MemoryAssumption DEF mem_max_addr
  <2> HIDE DEF x
  <2> QED
    BY <1>1, <1>2, <1>4, <1>5, <1>6, <2>2, <2>3, <2>4, <2>5, CountsTotals
<1>7. CASE pass # "util"
  BY <1>4, <1>5, <1>7, IdleTotals DEF Counts
<1> QED
  BY <1>6, <1>7

(* eval_mm_util begins with nothing allocated and nothing counted.         *)
LEMMA EntersTotals ==
  ASSUME Totals, NEW p \in {"valid", "util", "speed"}, Enters(p) \/ InitFails(p),
         p = "util" => package = "mm", UNCHANGED package
  PROVE  Totals'
<1>1. CASE pass' # "util"
  BY <1>1, IdleTotals DEF Enters, InitFails
<1>2. CASE pass' = "util"
  <2>1. Enters("util") /\ package = "mm"
    BY <1>2 DEF Enters, InitFails
  <2>2. /\ total_size' = 0 /\ max_total_size' = 0 /\ brk' = mem_start_brk
        /\ given' = [j \in Ids |-> Nothing]
    BY <2>1 DEF Enters
  <2>3. Live(given') = {}
    BY <2>2 DEF Live
  <2>4. SizeSum(given', {}) = 0
    BY SumFirst, FS_EmptySet
  <2>5. SizeSum(given', Live(given')) = 0
    BY <2>3, <2>4
  <2> QED
    BY <2>1, <2>2, <2>5, MemoryAssumption DEF Totals
<1> QED
  BY <1>1, <1>2

(* Every step of the driver keeps the totals of a program's trace.         *)
LEMMA StepTotals ==
  ASSUME ProgramFiles
  PROVE  Basic /\ Books /\ Totals /\ [Next]_vars => Totals'
<1> SUFFICES ASSUME Basic, Books, Totals, [Next]_vars PROVE Totals'
  OBVIOUS
<1>1. Books'
  BY StepBooks
<1>2. CASE LibcRequest
  <2>1. pass' # "util" /\ UNCHANGED totals
    <3>1. pass # "util"
      BY <1>2 DEF LibcRequest, Totals
    <3> QED
      BY <1>2, <3>1 DEF LibcRequest, Misuses, Stops, Proceeds
  <2> QED
    BY <2>1, IdleTotals
<1>3. CASE read_trace
  <2>1. CASE Enters("valid") \/ InitFails("valid")
    BY <1>3, <2>1, EntersTotals DEF read_trace
  <2>2. CASE pass' \in {"exit", "abort", "overrun"} /\ UNCHANGED totals
    BY <2>2, IdleTotals
  <2> QED
    BY <1>3, <2>1, <2>2 DEF read_trace
<1>4. CASE PassEnds
  <2>1. UNCHANGED package
    BY <1>4 DEF PassEnds
  <2>2. CASE package = "mm" /\ (Enters("util") \/ InitFails("util"))
    BY <2>1, <2>2, EntersTotals
  <2>3. CASE Enters("speed") \/ InitFails("speed")
    BY <2>1, <2>3, EntersTotals
  <2>4. CASE pass' = "read" /\ UNCHANGED totals
    BY <2>4, IdleTotals
  <2> QED
    BY <1>4, <2>2, <2>3, <2>4 DEF PassEnds
<1>5. CASE LibcEnds
  BY <1>5, IdleTotals DEF LibcEnds
<1>6. CASE UNCHANGED vars
  <2>1. UNCHANGED <<pass, package, correct, given, totals, brk, opnum, trace>>
    BY <1>6 DEF vars, arguments, progress
  <2>2. NoneFreedByRealloc' => NoneFreedByRealloc
    BY <2>1 DEF NoneFreedByRealloc
  <2> QED
    BY <2>1, <2>2, SameTotals
<1> QED
  BY <1>1, <1>2, <1>3, <1>4, <1>5, <1>6, AllocTotals, ReallocTotals, FreeTotals
     DEF Next

(* The totals of programs' traces.                                         *)
LEMMA TotalsInvariance ==
  ASSUME ProgramFiles
  PROVE  Spec => [](Basic /\ Books /\ Totals)
<1>1. Init => Totals
  BY DEF Init, Totals
<1>2. Basic /\ Books /\ Totals /\ [Next]_vars => Totals'
  BY StepTotals
<1> QED
  BY <1>1, <1>2, BooksInvariance, PTL DEF Spec

(* On the traces of programs the driver's records have the types of their   *)
(* declarations; total_size, from which sizes are subtracted that were read *)
(* back from block_sizes, never goes below zero.                            *)
THEOREM DriverTyped ==
  ASSUME ProgramFiles
  PROVE  Spec => []DriverTypeOK
<1>1. Basic /\ Books /\ Totals => DriverTypeOK
  <2> SUFFICES ASSUME Basic, Totals PROVE DriverTypeOK
    OBVIOUS
  <2>1. \A k \in DOMAIN trace : trace[k].index \in Ids /\ trace[k].size \in Int
    <3>1. trace \in Seq(Op)
      BY DEF Basic, PlaceOK
    <3>2. DOMAIN trace = 1 .. Len(trace) /\ \A k \in 1 .. Len(trace) : trace[k] \in Op
      BY <3>1, LenProperties, ElementOfSeq
    <3> QED
      BY <3>2 DEF Op
  <2>2. given \in [Ids -> [ptr : Nat, size : Nat, kept : Nat]]
    BY DEF Basic, MemoryOK, Given
  <2> QED
    BY <2>1, <2>2 DEF DriverTypeOK, Basic, PlaceOK, MemoryOK, Sound, Totals
<1> QED
  BY <1>1, TotalsInvariance, PTL

(* On the traces of programs, until a REALLOC to size 0, eval_mm_util's     *)
(* total_size is the number of payload bytes allocated, whatever the        *)
(* allocator answers and however often a payload is resized.                *)
THEOREM TotalStaysLive ==
  ASSUME ProgramFiles
  PROVE  Spec => []TotalIsLive
<1>1. Basic /\ Books /\ Totals => TotalIsLive
  <2>1. Held = Live(given)
    BY DEF Held, Contract!Held, Nothing, Live
  <2> QED
    BY <2>1 DEF Totals, TotalIsLive, SizeSum
<1> QED
  BY <1>1, TotalsInvariance, PTL

(* On the traces of programs that do not reallocate to size 0, the high     *)
(* water mark of the payloads fits in the heap of a correct allocator, so   *)
(* that the utilization it is credited with is at most 1.                   *)
THEOREM UtilNeverAboveOne ==
  ASSUME ProgramFiles, NoReallocToZero
  PROVE  Spec => []UtilAtMostOne
<1>1. Basic /\ Books /\ Totals => UtilAtMostOne
  BY DEF Totals, UtilAtMostOne, mem_heapsize
<1> QED
  BY <1>1, TotalsInvariance, PTL
=============================================================================

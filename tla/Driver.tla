------------------------------- MODULE Driver -------------------------------
(***************************************************************************)
(* mdriver.c evaluating an allocator: main's loops over the trace files,   *)
(* first with libc's malloc if asked to (-l) and then with mm.c, and the   *)
(* passes over each trace: eval_libc_valid and eval_libc_speed, then       *)
(* eval_mm_valid, eval_mm_util and eval_mm_speed.                          *)
(*                                                                         *)
(* The allocator is the program under test, so it is an environment here:  *)
(* a correct one keeps the contract MallocSpec states (module MM is one),  *)
(* any other answers what it likes.  given is what it has handed out; the  *)
(* rest is the driver's own bookkeeping, which the driver has to keep in   *)
(* step with given without seeing it.                                      *)
(*                                                                         *)
(* Reading a trace file is one step, and so is a request of the trace: the *)
(* call, the driver's checks of its result, and the memset that fills the  *)
(* payload.                                                                *)
(***************************************************************************)
EXTENDS Ranges

CONSTANTS
  Ids,        \* the ids of a trace, from 0 on
  Sizes,      \* the sizes its lines ask for, unsigned
  Files,      \* the trace files for a correct and for another allocator
  Pointers,   \* the addresses an allocator may answer ...
  Elsewhere,  \* ... and libc's malloc may
  Breaks,     \* where mem_sbrk may have left the break
  Garbage,    \* what trace->blocks and block_sizes may hold when malloced
  MaxTraces,  \* how many trace files main is given
  SpeedRuns,  \* how often fsecs repeats eval_mm_speed (10 in the build)
  Allocators, \* does the allocator keep the contract?  A set of answers
  MayFail,    \* may it run out of memory?
  Libc        \* may -l be given?

(* A line of a trace file; the size of a FREE is not there. *)
Line == [type : {"ALLOC", "REALLOC", "FREE", "bogus"}, index : Ids,
         size : Sizes \cup {0}]

File == [num_ids : Nat, num_ops : Nat, lines : Seq(Line)]

ASSUME DriverAssumption ==
  /\ Ids \subseteq Nat /\ Sizes \subseteq 0 .. INT_SPAN - 1
  /\ Allocators \subseteq BOOLEAN
  /\ DOMAIN Files = Allocators
  /\ \A c \in Allocators : Files[c] \subseteq File
  /\ Pointers \subseteq Nat \ {NULL} /\ Elsewhere \subseteq Nat \ {NULL}
  /\ Garbage \subseteq Nat
  /\ Breaks \subseteq mem_start_brk .. mem_max_addr
  /\ MaxTraces \in Nat /\ SpeedRuns \in Nat \ {0}
  /\ MayFail \in BOOLEAN /\ Libc \in BOOLEAN

VARIABLES
  correct,         \* does the allocator keep the contract?
  files,           \* tracefiles
  package,         \* what is evaluated: "libc" or "mm"
  pass,            \* where main is: a pass, between traces, or stopped
  tracenum,        \* trace files read so far
  trace,           \* trace->ops
  opnum,           \* the request to be made next
  runs,            \* speed passes over this trace so far
  blocks,          \* trace->blocks: the pointer recorded for each id
  block_sizes,     \* trace->block_sizes
  ranges,          \* main's range list
  errors,          \* the kinds of error reported so far
  total_size,      \* eval_mm_util: payload bytes allocated now ...
  max_total_size,  \* ... and at most so far
  given,           \* the allocator: what it has handed out
  brk              \* the heap's break

arguments == <<correct, files>>
progress  == <<package, tracenum, trace, runs>>
recorded  == <<blocks, block_sizes>>
totals    == <<total_size, max_total_size>>
vars      == <<arguments, pass, opnum, progress, recorded, ranges, errors,
               totals, given, brk>>

Contract == INSTANCE MallocSpec WITH
  Lo <- mem_start_brk, Hi <- mem_max_addr, Align <- ALIGNMENT

Held == Contract!Held
Nothing == Contract!None

-----------------------------------------------------------------------------
(* The allocator                                                            *)

Smaller(a, b) == IF a < b THEN a ELSE b
Larger(a, b) == IF a > b THEN a ELSE b

(* What mm_malloc grants: for a negative size, the smallest block there is. *)
Granted(size) == IF size < 0 THEN MINBLOCKSIZE - TAGS_SIZE ELSE size

(* It hands out a payload at p under index, moving the break if it likes.   *)
HandsOut(index, size, p) ==
  LET n == Granted(size)
  IN  /\ size # 0
      /\ brk' \in Breaks \cup {brk} /\ brk' >= brk
      /\ correct => (Contract!Fits(index, p, n) /\ p + n <= brk')
      /\ given' = [given EXCEPT ![index] = [ptr |-> p, size |-> n, kept |-> n]]

(* How many of the first bytes of what mm_realloc answers may be intact.    *)
Intact(index, size) ==
  LET n == Granted(size)
  IN  IF correct THEN Smaller(given[index].kept, n) .. n ELSE 0 .. n

(* May the driver pass p to mm_free or mm_realloc for index? *)
MayPass(index, p) == p = NULL \/ (index \in Held /\ p = given[index].ptr)

Misuses == pass' = "undefined" /\ UNCHANGED <<arguments, opnum, progress,
  recorded, ranges, errors, totals, given, brk>>

-----------------------------------------------------------------------------
(* What the passes do with the result of a request                          *)

Running == pass \in {"valid", "util", "speed"}

Requested(type) == Running /\ package = "mm" /\ opnum <= Len(trace)
                 /\ trace[opnum].type = type

Proceeds == opnum' = opnum + 1 /\ UNCHANGED <<pass, progress, errors>>

(* app_error, unix_error, a failed assert and a memset gone wild. *)
Stops(how) == pass' = how /\ UNCHANGED <<opnum, progress, errors>>

(* memset takes its length as unsigned: a negative one overruns everything. *)
Fills(size) == IF size < 0 THEN Stops("wild") ELSE Proceeds

(* malloc_error: eval_mm_valid says 0 and the trace is done with, while      *)
(* eval_mm_util says 0.0 and main goes on to eval_mm_speed.                  *)
Blames(error) ==
  /\ errors' = errors \cup {error}
  /\ pass' = IF pass = "valid" THEN "read" ELSE "cut_short"
  /\ UNCHANGED <<opnum, progress>>

(* Mutant: what a smaller realloc or a free gives back is not subtracted.   *)
Counts_only_growth(bytes) ==
  IF pass = "util"
    THEN /\ total_size' = total_size + Larger(bytes, 0)
         /\ max_total_size' = Larger(max_total_size, total_size')
    ELSE UNCHANGED totals

(* eval_mm_util's arithmetic: bytes more, or fewer, are allocated now.       *)
Counts(bytes) ==
  IF pass = "util"
    THEN /\ total_size' = total_size + bytes
         /\ max_total_size' = Larger(max_total_size, total_size')
    ELSE UNCHANGED totals

(* Mutants: mm_realloc's new size is not recorded, ... *)
Records_keeps_size(index, p, size) ==
  /\ blocks' = [blocks EXCEPT ![index] = p]
  /\ block_sizes' = IF trace[opnum].type = "REALLOC" THEN block_sizes
                    ELSE [block_sizes EXCEPT ![index] = size]

(* ... and eval_mm_speed relies on the pointers of the pass before it.       *)
Records_before_speed(index, p, size) ==
  IF pass = "speed" THEN UNCHANGED recorded
  ELSE /\ blocks' = [blocks EXCEPT ![index] = p]
       /\ block_sizes' = [block_sizes EXCEPT ![index] = size]

(* "Remember region"; eval_mm_speed has no use for the size.                 *)
Records(index, p, size) ==
  /\ blocks' = [blocks EXCEPT ![index] = p]
  /\ block_sizes' = IF pass = "speed" THEN block_sizes
                    ELSE [block_sizes EXCEPT ![index] = size]

(* Mutant: a shrunk block is compared beyond its end. *)
LosesData_unclipped(size, intact, old) == pass = "valid" /\ intact < old

(* eval_mm_valid compares as much of the old payload as the new one has.     *)
LosesData(size, intact, old) == pass = "valid" /\ intact < Smaller(old, size)

(* p, with its first intact bytes as they were, is checked against the       *)
(* ranges rs, filled and recorded.  old of its bytes were counted before.    *)
Receives(index, p, size, rs, intact, old) ==
  LET fine == range_is_fine(rs, brk', p, size)
      lost == LosesData(size, intact, old)
  IN  \/ /\ pass = "speed"
         /\ Records(index, p, size)
         /\ Fills(size)
         /\ UNCHANGED <<ranges, totals>>
      \/ /\ pass # "speed" /\ ~ range_asserts(size)
         /\ ranges' = rs
         /\ Stops("abort")
         /\ UNCHANGED <<recorded, totals>>
      \/ /\ pass # "speed" /\ range_asserts(size) /\ fine /\ ~ lost
         /\ ranges' = add_range(rs, p, size)
         /\ Records(index, p, size)
         /\ Counts(size - old)
         /\ Fills(size)
      \/ /\ pass # "speed" /\ range_asserts(size) /\ fine /\ lost
         /\ ranges' = add_range(rs, p, size)
         /\ Blames("data")
         /\ UNCHANGED <<recorded, totals>>
      \/ /\ pass # "speed" /\ range_asserts(size) /\ ~ fine
         /\ ranges' = rs
         /\ Blames("range")
         /\ UNCHANGED <<recorded, totals>>

(* NULL: what size 0 must return, and anything else may.                     *)
ReceivesNull(size) ==
  /\ size = 0 \/ MayFail
  /\ \/ pass # "speed" /\ size = 0 /\ Proceeds
     \/ pass = "valid" /\ size # 0 /\ Blames("failed")
     \/ pass = "util" /\ size # 0 /\ Stops("exit")
     \/ pass = "speed" /\ Stops("exit")
  /\ UNCHANGED <<recorded, ranges, totals, brk>>

-----------------------------------------------------------------------------
(* The requests                                                             *)

Alloc ==
  LET index == trace[opnum].index
      size  == trace[opnum].size
  IN  /\ Requested("ALLOC")
      /\ \/ ReceivesNull(size) /\ UNCHANGED given
         \/ \E p \in Pointers :
              /\ HandsOut(index, size, p)
              /\ Receives(index, p, size, ranges, 0, 0)
      /\ UNCHANGED arguments

Realloc ==
  LET index == trace[opnum].index
      size  == trace[opnum].size
      oldp  == blocks[index]
  IN  /\ Requested("REALLOC")
      /\ \/ ~ MayPass(index, oldp) /\ Misuses
         \/ /\ MayPass(index, oldp)
            /\ ReceivesNull(size)
            /\ given' = IF size = 0 THEN [given EXCEPT ![index] = Nothing]
                        ELSE given
         \/ /\ MayPass(index, oldp)
            /\ \E p \in Pointers, intact \in Intact(index, size) :
                 /\ HandsOut(index, size, p)
                 /\ Receives(index, p, size, remove_range(ranges, oldp),
                             intact, block_sizes[index])
      /\ UNCHANGED arguments

Free ==
  LET index == trace[opnum].index
      p     == blocks[index]
  IN  /\ Requested("FREE")
      /\ \/ ~ MayPass(index, p) /\ Misuses
         \/ /\ MayPass(index, p)
            /\ given' = [given EXCEPT ![index] = Nothing]
            /\ ranges' = IF pass = "speed" THEN ranges
                         ELSE remove_range(ranges, p)
            /\ Counts(- block_sizes[index])
            /\ Proceeds
            /\ UNCHANGED <<recorded, brk>>
      /\ UNCHANGED arguments

(* A request of eval_libc_valid or eval_libc_speed, which check nothing but  *)
(* that there is a result.  libc frees on a realloc to size 0 and answers    *)
(* NULL, as it does to a negative size, taken for a large one.               *)
LibcRequest ==
  LET op    == trace[opnum]
      index == op.index
      oldp  == blocks[index]
      used  == op.type = "ALLOC" \/ MayPass(index, oldp)
      sized == op.type # "FREE"
      never == op.size < 0 \/ (op.type = "REALLOC" /\ op.size = 0)
  IN  /\ Running /\ package = "libc" /\ opnum <= Len(trace)
      /\ \/ ~ used /\ Misuses
         \/ /\ used /\ sized /\ (never \/ MayFail)
            /\ Stops("exit")
            /\ UNCHANGED <<recorded, given>>
         \/ /\ used /\ sized /\ ~ never
            /\ \E p \in Elsewhere \ {given[j].ptr : j \in Ids \ {index}} :
                 /\ given' = [given EXCEPT ![index] =
                      [ptr |-> p, size |-> op.size, kept |-> op.size]]
                 /\ blocks' = [blocks EXCEPT ![index] = p]
            /\ Proceeds /\ UNCHANGED block_sizes
         \/ /\ used /\ ~ sized
            /\ given' = [given EXCEPT ![index] = Nothing]
            /\ Proceeds /\ UNCHANGED recorded
      /\ UNCHANGED <<arguments, ranges, totals, brk>>

-----------------------------------------------------------------------------
(* Passes and traces                                                        *)

(* A pass over the trace begins: mem_reset_brk, clear_ranges and mm_init.    *)
(* eval_mm_speed keeps the ranges, and what libc's malloc handed out stays.  *)
Enters(p) ==
  /\ pass' = p /\ opnum' = 1
  /\ brk' = mem_start_brk
  /\ given' = IF package = "libc" THEN given ELSE [j \in Ids |-> Nothing]
  /\ ranges' = IF p = "speed" THEN ranges ELSE clear_ranges
  /\ total_size' = 0 /\ max_total_size' = 0
  /\ UNCHANGED errors

(* mm_init returned -1. *)
InitFails(p) ==
  /\ MayFail /\ package = "mm"
  /\ IF p = "valid"
       THEN pass' = "read" /\ errors' = errors \cup {"failed"}
       ELSE pass' = "exit" /\ UNCHANGED errors
  /\ opnum' = 1
  /\ UNCHANGED <<ranges, totals, given, brk>>

max_index(lines) ==
  Max({0} \cup {lines[k].index : k \in
                {k \in DOMAIN lines : lines[k].type # "FREE"}})

(* Mutant: an id more than the arrays have room for gets through. *)
header_asserts_at_most(file) ==
  /\ max_index(file.lines) <= file.num_ids
  /\ Len(file.lines) = file.num_ops

(* What read_trace asserts when it has read, and stored, every line. *)
header_asserts(file) ==
  /\ max_index(file.lines) = file.num_ids - 1
  /\ Len(file.lines) = file.num_ops

(* ops has room for num_ops lines, and that many is only asserted once all   *)
(* are stored, up to a bogus one: storing more is undefined behaviour.       *)
overruns(file) ==
  \E k \in DOMAIN file.lines :
    k > file.num_ops /\ \A j \in 1 .. k : file.lines[j].type # "bogus"

(* The next file is read.  A size is read as unsigned and stored as an int;  *)
(* blocks and block_sizes are left as malloc returned them.                  *)
read_trace ==
  LET file == files[tracenum']
      bad  == \E k \in DOMAIN file.lines : file.lines[k].type = "bogus"
      stop == IF bad THEN "exit" ELSE "abort"
  IN  /\ pass = "read" /\ tracenum < MaxTraces
      /\ tracenum' = tracenum + 1
      /\ trace' = [k \in DOMAIN file.lines |->
                     [file.lines[k] EXCEPT !.size = ToInt(@)]]
      /\ \E junk \in Garbage : /\ blocks' = [j \in Ids |-> junk]
                               /\ block_sizes' = [j \in Ids |-> junk]
      /\ runs' = 0
      /\ \/ /\ ~ bad /\ header_asserts(file)
            /\ Enters("valid") \/ InitFails("valid")
         \/ /\ bad \/ ~ header_asserts(file)
            /\ pass' = stop \/ (overruns(file) /\ pass' = "overrun")
            /\ UNCHANGED <<opnum, ranges, errors, totals, given, brk>>
      /\ UNCHANGED <<arguments, package>>

(* The pass has made its last request: on to the next pass, or free_trace.   *)
PassEnds ==
  /\ \/ Running /\ opnum > Len(trace)
     \/ pass = "cut_short"
  /\ \/ /\ pass = "valid" /\ package = "mm"
        /\ Enters("util") \/ InitFails("util")
        /\ UNCHANGED runs
     \/ /\ \/ pass = "valid" /\ package = "libc"
           \/ pass \in {"util", "cut_short"}
           \/ runs \in 1 .. SpeedRuns - 1
        /\ Enters("speed") \/ InitFails("speed")
        /\ runs' = runs + 1
     \/ /\ pass = "speed" /\ runs = SpeedRuns
        /\ pass' = "read"
        /\ UNCHANGED <<opnum, runs, ranges, errors, totals, given, brk>>
  /\ UNCHANGED <<arguments, package, tracenum, trace, recorded>>

(* libc is done with, and the same files are read again for mm.c, whose      *)
(* memory mem_init obtains.                                                  *)
LibcEnds ==
  /\ package = "libc" /\ pass = "read" /\ tracenum = MaxTraces
  /\ package' = "mm" /\ tracenum' = 0
  /\ given' = [j \in Ids |-> Nothing]
  /\ UNCHANGED <<arguments, pass, opnum, trace, runs, recorded, ranges,
                 errors, totals, brk>>

Init ==
  /\ correct \in Allocators
  /\ files \in [1 .. MaxTraces -> Files[correct]]
  /\ package \in {"mm"} \cup {l \in {"libc"} : Libc}
  /\ pass = "read" /\ opnum = 1 /\ tracenum = 0 /\ trace = <<>> /\ runs = 0
  /\ blocks = [j \in Ids |-> NULL] /\ block_sizes = [j \in Ids |-> 0]
  /\ ranges = clear_ranges /\ errors = {}
  /\ total_size = 0 /\ max_total_size = 0
  /\ given = [j \in Ids |-> Nothing] /\ brk = mem_start_brk

Next ==
  Alloc \/ Realloc \/ Free \/ LibcRequest \/ read_trace \/ PassEnds \/ LibcEnds

Spec == Init /\ [][Next]_vars

-----------------------------------------------------------------------------
(* What the trace files are                                                 *)

Allocates(r) == r.type # "FREE" /\ r.size # 0
Releases(r) == r.type = "FREE" \/ (r.type = "REALLOC" /\ r.size = 0)

(* Before request k of t the program has something under index. *)
Has(t, k, index) ==
  \E j \in 1 .. k - 1 :
    /\ t[j].index = index /\ Allocates(t[j])
    /\ \A l \in j + 1 .. k - 1 : t[l].index = index => ~ Releases(t[l])

(* They record what programs did, which free and reallocate what they have   *)
(* and allocate what they do not.                                            *)
ProgramFiles ==
  \A c \in Allocators : \A file \in Files[c] :
    (\A k \in DOMAIN file.lines : file.lines[k].type # "bogus") =>
      \A k \in DOMAIN file.lines :
        (file.lines[k].type # "ALLOC") = Has(file.lines, k, file.lines[k].index)

(* Those for a correct allocator have no REALLOC to size 0. *)
NoReallocToZero ==
  \A c \in Allocators : c =>
    \A file \in Files[c] : \A k \in DOMAIN file.lines :
      file.lines[k].type = "REALLOC" => file.lines[k].size # 0

-----------------------------------------------------------------------------
(* What has to hold                                                         *)

(* The driver's records have the types of their declarations, and totals    *)
(* that never go below zero.                                                *)
DriverTypeOK ==
  /\ package \in {"libc", "mm"}
  /\ pass \in {"read", "valid", "util", "cut_short", "speed", "exit", "abort",
              "overrun", "wild", "undefined"}
  /\ opnum \in Nat /\ (Running => opnum \in 1 .. Len(trace) + 1)
  /\ tracenum \in 0 .. MaxTraces
  /\ \A k \in DOMAIN trace : trace[k].index \in Ids /\ trace[k].size \in Int
  /\ runs \in 0 .. SpeedRuns
  /\ blocks \in [Ids -> Nat] /\ block_sizes \in [Ids -> Nat]
  /\ \A k \in DOMAIN ranges : ranges[k] \in [lo : Nat, hi : Nat]
  /\ errors \subseteq {"failed", "range", "data"}
  /\ total_size \in Nat /\ max_total_size \in Nat
  /\ given \in [Ids -> [ptr : Nat, size : Nat, kept : Nat]]
  /\ brk \in mem_start_brk .. mem_max_addr

(* The passes index ops, blocks and block_sizes within the lengths the file  *)
(* declared for them, whatever header stands above the lines of a program's  *)
(* trace.                                                                    *)
ArraysLargeEnough ==
  Running =>
    /\ Len(trace) = files[tracenum].num_ops
    /\ \A k \in DOMAIN trace : trace[k].index < files[tracenum].num_ids

(* No pass fills a payload of negative length: a size above INT_MAX in the   *)
(* file ends the program in eval_mm_valid at the latest, before eval_mm_speed*)
(* would trust it.                                                           *)
NoWildFill == pass # "wild"

Checking == package = "mm" /\ pass \in {"valid", "util"}

(* The range list has every payload now allocated, once, and nothing else.   *)
ExactRanges ==
  /\ Len(ranges) = Cardinality(Held)
  /\ \A j \in Held : \E k \in DOMAIN ranges :
       ranges[k] = range(given[j].ptr, given[j].size)

(* mdriver.c 335-336: the range list "keeps track of the extent of every    *)
(* allocated block payload" while requests are checked.                     *)
RangesExact == Checking => ExactRanges

(* This pass has not yet made a REALLOC to size 0, which mm_realloc takes    *)
(* for a free and the driver does not (the finding driver_realloc_zero).     *)
NoneFreedByRealloc ==
  \A k \in 1 .. opnum - 1 : trace[k].type = "REALLOC" => trace[k].size # 0

(* Until then it does keep track, of whatever an allocator answers.          *)
RangesExactTillThen == Checking /\ NoneFreedByRealloc => ExactRanges

(* A correct allocator is never told that a payload is misplaced or that     *)
(* its data is lost; running out of memory is all it can be blamed for.      *)
NeverBlamed == correct => errors \subseteq {"failed"}

(* The driver calls free and realloc with pointers that the allocator has    *)
(* handed out for that id and that have not been given back: what the client *)
(* of module MM is assumed to do.  The block array survives from one pass    *)
(* into the next, mm.c's heap does not; libc's does.                         *)
CallsKeepContract == pass # "undefined"

(* Till then too, eval_mm_util's total_size is the number of payload bytes   *)
(* now allocated.                                                            *)
TotalIsLive ==
  pass = "util" /\ NoneFreedByRealloc =>
    total_size = MapThenSumSet(LAMBDA j : given[j].size, Held)

(* "Utilization is the ratio hwm/heapsize", which cannot exceed 1: the high  *)
(* water mark of the payloads fits in the heap of a correct allocator.       *)
UtilAtMostOne ==
  correct /\ pass = "util" => max_total_size <= mem_heapsize(brk)

Overlap(p, q) ==
  ~ Contract!Disjoint(p.ptr, p.size, q.ptr, q.size)

(* "The payload must not overlap any other payloads" (373): while an         *)
(* allocator, whatever it answers, passes for correct, no two payloads it    *)
(* has handed out overlap.                                                   *)
HeldDisjoint ==
  Checking => \A j, k \in Held : j # k => ~ Overlap(given[j], given[k])

(* What add_range's comparison of the ends does rule out: two payloads that  *)
(* overlap without the newer one reaching out on both sides of the older.    *)
OverlapsOnlyByContaining ==
  Checking => Apart(ranges)

(* "secs and util are only defined if valid is true" (86), and then they     *)
(* are: with memory enough, a trace that passed eval_mm_valid, so that it is *)
(* timed, does not make eval_mm_speed give up.                               *)
ValidTracesAreTimed == package = "mm" /\ runs > 0 => pass # "exit"
=============================================================================

-------------------------------- MODULE Fcyc --------------------------------
(***************************************************************************)
(* fcyc.c: the time of a function by the K-best scheme.  The function is   *)
(* run and timed until the K smallest times lie within epsilon of each     *)
(* other, or maxsamples times; the smallest is the result.                 *)
(*                                                                         *)
(* The steps are the stretches between two readings of a clock.  Cycles    *)
(* are whole numbers and epsilon is in percent.                            *)
(***************************************************************************)
EXTENDS Clock, SequencesExt

CONSTANTS
  Durations,  \* cycles the function may take
  Settings    \* the values each parameter of the package may be set to

Parameters == {"kbest", "maxsamples", "epsilon", "compensate", "clear_cache",
               "cache_bytes", "cache_block"}

(* Parameters are ints: each has a greatest setting.  K is not 0:            *)
(* has_converged would look at values[-1].  A cache block holds at least an  *)
(* int: clear would walk on the spot for ever.                               *)
ASSUME FcycAssumption ==
  /\ Durations \subseteq Nat \ {0}
  /\ \A d \in Durations, c \in TickCosts : d + c <= PERIOD
  /\ Settings \in [Parameters -> SUBSET Nat]
  /\ \A p \in Parameters :
       \E most \in Settings[p] : \A v \in Settings[p] : v <= most
  /\ 0 \notin Settings["kbest"] /\ Settings["compensate"] \subseteq {0, 1}
  /\ Settings["clear_cache"] \subseteq {0, 1}
  /\ \A b \in Settings["cache_block"] : b >= 4

VARIABLES
  pc,           \* what the program does next
  set,          \* the parameters
  cache_buf,    \* bytes of the buffer that clear walks through, 0: no buffer
  values,       \* the best samples so far, kbest of them
  samplecount,  \* samples taken by this call
  cal,          \* callibrate: events seen, oldt and newt
  count,        \* what get_counter returned
  samples,      \* auxiliary: every sample of this call ...
  elapsed,      \* ... the cycles the function really took ...
  real          \* ... and what the last sample should have been

NoEvents == [e |-> 0, oldt |-> 0, newt |-> 0]

sampler == <<values, samplecount, samples, elapsed, real>>
config  == <<cyc_per_tick, set, cache_buf>>

-----------------------------------------------------------------------------
(* The samples                                                              *)

(* Mutant: the sampler still counts the samples of the call before. *)
init_sampler_keeps_count ==
  /\ values' = [k \in 1 .. set.kbest |-> 0]
  /\ samples' = <<>>
  /\ UNCHANGED samplecount

init_sampler ==
  /\ values' = [k \in 1 .. set.kbest |-> 0]
  /\ samplecount' = 0
  /\ samples' = <<>>

(* Mutant: one exchange instead of an insertion. *)
Inserted_once(vs, pos) ==
  IF pos > 1 /\ vs[pos - 1] > vs[pos]
    THEN [vs EXCEPT ![pos - 1] = vs[pos], ![pos] = vs[pos - 1]] ELSE vs

(* The loop that moves values[pos] down to its place in a sorted array.      *)
Inserted(vs, pos) ==
  LET val   == vs[pos]
      below == {k \in 1 .. pos - 1 : vs[k] > val}
      to    == pos - Cardinality(below)
  IN  [k \in DOMAIN vs |-> IF k = to THEN val
                           ELSE IF to < k /\ k <= pos THEN vs[k - 1] ELSE vs[k]]

(* values after add_sample(val). *)
Added(val) ==
  LET last == set.kbest
  IN  IF samplecount < last
        THEN Inserted([values EXCEPT ![samplecount + 1] = val], samplecount + 1)
      ELSE IF val < values[last]
        THEN Inserted([values EXCEPT ![last] = val], last)
      ELSE values

has_converged(vs, taken) ==
  /\ taken >= set.kbest
  /\ (100 + set.epsilon) * vs[1] >= 100 * vs[set.kbest]

(* Mutant: a sample is only counted if it is one of the best. *)
add_sample_counts_best(val) ==
  LET best == samplecount < set.kbest \/ val < values[set.kbest]
  IN  /\ values' = Added(val)
      /\ samplecount' = IF best THEN samplecount + 1 ELSE samplecount
      /\ samples' = IF best THEN Append(samples, val) ELSE samples
      /\ pc' = IF \/ has_converged(values', samplecount')
                  \/ samplecount' >= set.maxsamples
               THEN "return" ELSE "sample"

(* add_sample, and the test of the loop it ends. *)
add_sample(val) ==
  /\ values' = Added(val)
  /\ samplecount' = samplecount + 1
  /\ samples' = Append(samples, val)
  /\ pc' = IF \/ has_converged(values', samplecount')
              \/ samplecount' >= set.maxsamples
           THEN "return" ELSE "sample"

-----------------------------------------------------------------------------
(* fcyc                                                                     *)

fcyc ==
  /\ pc = "fcyc"
  /\ init_sampler
  /\ pc' = "sample"
  /\ UNCHANGED <<clocks, config, cal, count, elapsed, real>>

(* clear, which gets its buffer when it first needs one, or dies trying.     *)
(* Reading past the end of the buffer is undefined.                          *)
clear ==
  \/ /\ cache_buf = 0
     /\ pc' = "exit" /\ UNCHANGED cache_buf
  \/ /\ cache_buf' = IF cache_buf = 0 THEN set.cache_bytes ELSE cache_buf
     /\ pc' = IF set.cache_bytes <= cache_buf' THEN "start" ELSE "undefined"

Prepares ==
  /\ pc = "sample"
  /\ IF set.clear_cache = 1 THEN clear ELSE pc' = "start" /\ UNCHANGED cache_buf
  /\ UNCHANGED <<clocks, cyc_per_tick, set, cal, count, sampler>>

Starts ==
  /\ pc = "start"
  /\ pc' = IF set.compensate = 0 THEN "start_counter"
           ELSE IF cyc_per_tick = 0 THEN "callibrate" ELSE "start_tick"
  /\ UNCHANGED <<clocks, config, cal, count, sampler>>

(* Mutant: start_tick is only ever read once. *)
StartsTick_stale ==
  /\ pc = "start_tick"
  /\ Passes(1, IF samplecount = 0 THEN {"ticks"} ELSE {})
  /\ pc' = "start_counter"
  /\ UNCHANGED <<config, cal, count, sampler>>

(* start_comp_counter reads the user time first, the counter afterwards.     *)
StartsTick ==
  /\ pc = "start_tick"
  /\ Passes(1, {"ticks"})
  /\ pc' = "start_counter"
  /\ UNCHANGED <<config, cal, count, sampler>>

(* start_counter.  Without compensation no reading of the user time is kept  *)
(* that a later one would be compared with.                                  *)
StartsCounter ==
  /\ pc = "start_counter"
  /\ Passes(1, {"counter"} \cup {k \in {"ticks"} : set.compensate = 0})
  /\ pc' = "run"
  /\ UNCHANGED <<config, cal, count, sampler>>

(* f(argp), up to the reading of the counter behind it. *)
Runs ==
  /\ pc = "run"
  /\ \E d \in Durations, c \in TickCosts :
       /\ PassesWith(d, c, {})
       /\ elapsed' = d + Interrupts(d) * c
       /\ real' = elapsed' - Interrupts(d) * cyc_per_tick
  /\ count' = get_counter(now')
  /\ pc' = "stop"
  /\ UNCHANGED <<config, cal, values, samplecount, samples>>

(* The rest of get_comp_counter, if it was that; the loop goes on or ends.   *)
Stops ==
  /\ pc = "stop"
  /\ \/ set.compensate = 1 /\ Passes(1, {})
        /\ add_sample(count - ticks' * cyc_per_tick)
     \/ set.compensate = 0 /\ add_sample(count) /\ UNCHANGED clocks
  /\ UNCHANGED <<config, cal, count, elapsed, real>>

-----------------------------------------------------------------------------
(* callibrate                                                               *)

(* The first readings of the user time and, twice, of the counter. *)
Callibrates ==
  /\ \/ pc = "callibrate" /\ pc' = "callibrate_counter"
        /\ Passes(1, {"ticks"}) /\ cal' = NoEvents
     \/ pc = "callibrate_counter" /\ pc' = "callibrate_oldt"
        /\ Passes(1, {"counter"}) /\ cal' = NoEvents
     \/ pc = "callibrate_oldt" /\ pc' = "read"
        /\ Passes(1, {}) /\ cal' = [NoEvents EXCEPT !.oldt = get_counter(now')]
  /\ UNCHANGED <<config, count, sampler>>

(* The loop looks at the counter until it has gone on by THRESHOLD ...       *)
ReadsCounter ==
  /\ pc = "read"
  /\ Passes(1, {})
  /\ cal' = [cal EXCEPT !.newt = get_counter(now')]
  /\ pc' = IF cal'.newt - cal.oldt >= THRESHOLD THEN "times" ELSE "read"
  /\ UNCHANGED <<config, count, sampler>>

(* ... and then at the user time.  An interrupt that falls between the two   *)
(* is charged to cycles that do not hold it.                                 *)
ReadsTicks ==
  LET t == ticks + Interrupts(1)
      e == IF t > 0 THEN cal.e + 1 ELSE cal.e
  IN  /\ pc = "times"
      /\ Passes(1, IF t > 0 THEN {"ticks"} ELSE {})
      /\ cyc_per_tick' = IF t = 0 THEN cyc_per_tick
                         ELSE lower_cyc_per_tick(cal.newt - cal.oldt, t)
      /\ cal' = [cal EXCEPT !.e = e, !.oldt = cal.newt]
      /\ pc' = IF e < NEVENT THEN "read" ELSE "start_tick"
      /\ UNCHANGED <<set, cache_buf, count, sampler>>

-----------------------------------------------------------------------------
(* The parameters                                                           *)

(* Mutant: a buffer of the old size is kept. *)
set_fcyc_keeps_buffer(name, v) ==
  /\ set' = [set EXCEPT ![name] = v]
  /\ UNCHANGED cache_buf

(* set_fcyc_k, set_fcyc_maxsamples, ...; a cache of another size needs a new *)
(* buffer.                                                                   *)
set_fcyc(name, v) ==
  /\ set' = [set EXCEPT ![name] = v]
  /\ cache_buf' = IF name = "cache_bytes" /\ v # set.cache_bytes THEN 0
                  ELSE cache_buf

FcycStep == fcyc \/ Prepares \/ Starts \/ StartsTick \/ StartsCounter \/ Runs
            \/ Stops \/ Callibrates \/ ReadsCounter \/ ReadsTicks

-----------------------------------------------------------------------------
(* What has to hold                                                         *)

(* get_counter counts the cycles since start_counter, also when the low     *)
(* word, or the whole counter, wraps around in between.                     *)
CounterExact == pc = "stop" => count = elapsed

(* vs begins with m of ss in ascending order, and no other one of ss is      *)
(* smaller than any of them.                                                 *)
Best(vs, m, ss) ==
  /\ \A i, j \in 1 .. m : i < j => vs[i] <= vs[j]
  /\ \E at \in Injection(1 .. m, DOMAIN ss) :
       /\ \A i \in 1 .. m : vs[i] = ss[at[i]]
       /\ \A k \in DOMAIN ss \ Range(at) : \A i \in 1 .. m : vs[i] <= ss[k]

(* "K-best": whatever the order the samples come in, values holds the K      *)
(* smallest of this call in ascending order, and zeros until there are K.    *)
KBestExact ==
  pc \in {"sample", "run", "return"} =>
    LET best == IF samplecount < set.kbest THEN samplecount ELSE set.kbest
    IN  /\ samplecount = Len(samples)
        /\ Best(values, best, samples)
        /\ \A k \in best + 1 .. set.kbest : values[k] = 0

(* get_comp_counter takes off cyc_per_tick for every interrupt whose cycles  *)
(* it has counted, and for no more than two that it has not: one that fell   *)
(* between the readings before the function ran, and one behind it.          *)
CompensatesEnough ==
  pc \in {"sample", "return"} /\ set.compensate = 1 /\ samples # <<>> =>
    /\ Last(samples) <= real
    /\ Last(samples) >= real - 2 * cyc_per_tick

(* clear never reads behind the end of its buffer, whatever sizes are set    *)
(* between two calls.                                                        *)
CacheWalkInBounds == pc # "undefined"
=============================================================================

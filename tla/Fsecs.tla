------------------------------- MODULE Fsecs --------------------------------
(***************************************************************************)
(* fsecs.c and ftimer.c: the running time of a function in seconds, by the *)
(* clock that config.h has chosen for the build: the cycle counter (Fcyc), *)
(* the interval timer (as the repository does) or the time of day.         *)
(***************************************************************************)
EXTENDS Fcyc

CONSTANTS
  Builds,     \* timers and platforms: see Build
  StartTimes, \* where the cycle counter may stand at the start
  RATE,       \* cycles per second
  SLEEP,      \* seconds mhz sleeps: 2
  REPEATS,    \* times ftimer_itimer and ftimer_gettod run f: 10
  USEC,       \* microseconds per second, 10^6
  MAX_ETIME,  \* seconds the interval timer is set to: 86400
  MaxCalls,   \* calls of fsecs ...
  MaxSets     \* ... and of set_fcyc_..., at most

(* clock.c has a counter for i386 only; see the README for Alpha. *)
Build == [use : {"FCYC", "ITIMER", "GETTOD"}, counter : BOOLEAN]

ASSUME FsecsAssumption ==
  /\ Builds \subseteq Build /\ StartTimes \subseteq 0 .. WORD * WORD - 1
  /\ {RATE, SLEEP, REPEATS, USEC, MAX_ETIME} \subseteq Nat \ {0}
  /\ (SLEEP + 1) * RATE < WORD * WORD
  /\ MaxCalls \in Nat /\ MaxSets \in Nat

VARIABLES
  build,   \* what was compiled
  Mhz,     \* cycles counted in SLEEP seconds
  left,    \* microseconds left on ITIMER_REAL, 0: not armed
  tod,     \* the time of day, in microseconds
  began,   \* the reading the timer started from
  n,       \* runs of f so far
  spent,   \* auxiliary: microseconds they took
  result,  \* what fsecs returned: a fraction
  calls, sets  \* how many there were

ftimer == <<left, tod, began, n, spent>>
fcycs  == <<clocks, config, cal, count, sampler>>
vars   == <<pc, fcycs, build, Mhz, ftimer, result, calls, sets>>

(* The defaults of fcyc.c: K, MAXSAMPLES, EPSILON, ... *)
Defaults == [p \in Parameters |-> Min(Settings[p])]

Init ==
  /\ build \in Builds /\ pc = "init"
  /\ now \in StartTimes /\ phase \in 0 .. PERIOD - 1 /\ ticks = 0
  /\ cyc = access_counter(0) /\ cyc_per_tick = 0
  /\ set = Defaults /\ cache_buf = 0
  /\ values = <<>> /\ samplecount = 0 /\ samples = <<>>
  /\ elapsed = 0 /\ real = 0
  /\ cal = NoEvents /\ count = 0
  /\ Mhz = 0 /\ left = 0 /\ tod \in {0, USEC - 1}
  /\ began = 0 /\ n = 0 /\ spent = 0
  /\ result = <<0, 1>> /\ calls = 0 /\ sets = 0

-----------------------------------------------------------------------------
(* The cycle counter                                                        *)

(* What init_fsecs sets the package to, and mhz, which counts the cycles of  *)
(* SLEEP seconds or, where there is no counter, ends the program.  With the  *)
(* other timers there is nothing to initialise.                              *)
init_fsecs ==
  /\ \/ pc = "init" /\ build.use # "FCYC"
        /\ pc' = "idle" /\ UNCHANGED <<set, now, cyc, Mhz>>
     \/ pc = "init" /\ build.use = "FCYC" /\ ~ build.counter
        /\ pc' = "exit" /\ UNCHANGED <<set, now, cyc, Mhz>>
     \/ pc = "init" /\ build.use = "FCYC" /\ build.counter
        /\ set' = [p \in Parameters |-> IF p \in {"cache_bytes", "cache_block"}
                                     THEN set[p] ELSE Max(Settings[p])]
        /\ cyc' = access_counter(now)
        /\ pc' = "sleep" /\ UNCHANGED <<now, Mhz>>
     \/ pc = "sleep"
        /\ now' = (now + SLEEP * RATE) % (WORD * WORD)
        /\ Mhz' = get_counter(now')
        /\ pc' = "idle" /\ UNCHANGED <<set, cyc>>
  /\ UNCHANGED <<phase, ticks, cyc_per_tick, cache_buf, cal,
                 count, sampler, build, ftimer, result, calls, sets>>

Sets ==
  /\ pc = "idle" /\ build.use = "FCYC" /\ sets < MaxSets
  /\ \E name \in Parameters : \E v \in Settings[name] : set_fcyc(name, v)
  /\ sets' = sets + 1
  /\ UNCHANGED <<clocks, cyc_per_tick, pc, cal, count, sampler, build, Mhz,
                 ftimer, result, calls>>

Fcycs ==
  /\ FcycStep
  /\ UNCHANGED <<build, Mhz, ftimer, result, calls, sets>>

(* fcyc returns the best value; fsecs makes seconds of it.  What was local   *)
(* is forgotten.                                                             *)
FcycReturns ==
  /\ pc = "return"
  /\ result' = <<values[1] * SLEEP, Mhz>>
  /\ pc' = "idle"
  /\ count' = 0 /\ cal' = NoEvents /\ elapsed' = 0 /\ real' = 0
  /\ UNCHANGED <<clocks, config, values, samplecount, samples, build, Mhz,
                 ftimer, calls, sets>>

-----------------------------------------------------------------------------
(* The interval timer and the time of day                                   *)

timeval(usecs) == [tv_sec |-> usecs \div USEC, tv_usec |-> usecs % USEC]

(* Mutant: the microseconds are not allowed to be negative. *)
Difference_unsigned(a, b) ==
  USEC * (a.tv_sec - b.tv_sec)
    + (IF a.tv_usec < b.tv_usec THEN b.tv_usec - a.tv_usec
       ELSE a.tv_usec - b.tv_usec)

Difference(a, b) == USEC * (a.tv_sec - b.tv_sec) + (a.tv_usec - b.tv_usec)

first == timeval(MAX_ETIME * USEC)

(* Microseconds since init_etime, with r left on the timer. *)
get_etime(r) == Difference(first, timeval(r))

(* Mutant: the timer is armed for the first call only. *)
init_etime_once == left' = IF left = 0 THEN MAX_ETIME * USEC ELSE left

(* The timer of real time is armed; those of virtual and of processor time   *)
(* run no faster, so that this one is the first to run out.                  *)
init_etime == left' = MAX_ETIME * USEC

(* fsecs is called: fcyc, or the first reading of the timer. *)
fsecs ==
  /\ pc = "idle" /\ calls < MaxCalls
  /\ calls' = calls + 1 /\ n' = 0 /\ spent' = 0 /\ result' = <<0, 1>>
  /\ \/ build.use = "FCYC" /\ pc' = "fcyc" /\ UNCHANGED <<left, began>>
     \/ build.use = "ITIMER" /\ pc' = "timed"
        /\ init_etime /\ began' = get_etime(left')
     \/ build.use = "GETTOD" /\ pc' = "timed"
        /\ began' = tod /\ UNCHANGED left
  /\ UNCHANGED <<fcycs, build, Mhz, tod, sets>>

(* f(argp) once more.  When the interval timer runs out its signal, which    *)
(* nobody handles, ends the process.                                         *)
TimedRun ==
  /\ pc = "timed" /\ n < REPEATS
  /\ \E d \in Durations :
       /\ tod' = tod + d /\ spent' = spent + d
       /\ \/ build.use = "ITIMER" /\ d >= left /\ pc' = "killed" /\ left' = 0
          \/ build.use = "ITIMER" /\ d < left /\ pc' = pc /\ left' = left - d
          \/ build.use = "GETTOD" /\ UNCHANGED <<pc, left>>
  /\ n' = n + 1
  /\ UNCHANGED <<fcycs, build, Mhz, began, result, calls, sets>>

(* The second reading, and the average: ftimer_itimer's, ftimer_gettod's.    *)
TimerReturns ==
  /\ pc = "timed" /\ n = REPEATS
  /\ result' = << IF build.use = "ITIMER" THEN get_etime(left) - began
                  ELSE Difference(timeval(tod), timeval(began)), REPEATS >>
  /\ pc' = "idle"
  /\ UNCHANGED <<fcycs, build, Mhz, ftimer, calls, sets>>

Step == init_fsecs \/ Fcycs \/ FcycReturns \/ TimedRun \/ TimerReturns

Next == fsecs \/ Sets \/ Step

(* One process runs all of it, and only blocks in sleep, which ends.         *)
Spec == Init /\ [][Next]_vars /\ WF_vars(Step)

-----------------------------------------------------------------------------
(* What has to hold                                                         *)

(* The variables of the timing package hold what they are declared to hold;  *)
(* a compensated sample may be negative.                                     *)
TimingTypeOK ==
  /\ now \in 0 .. WORD * WORD - 1 /\ phase \in 0 .. PERIOD - 1
  /\ ticks \in Nat /\ cyc \in [hi : 0 .. WORD - 1, lo : 0 .. WORD - 1]
  /\ cyc_per_tick \in Nat /\ count \in Nat /\ Mhz \in Nat
  /\ \A p \in Parameters : set[p] \in Settings[p]
  /\ \A k \in DOMAIN values : values[k] \in Int
  /\ samplecount \in 0 .. Max(Settings["maxsamples"] \cup {1}) /\ n \in 0 .. REPEATS
  /\ left \in 0 .. MAX_ETIME * USEC /\ tod \in Nat
  /\ calls \in 0 .. MaxCalls /\ sets \in 0 .. MaxSets

(* fsecs returns the smallest sample in seconds, or "the average of n runs"  *)
(* (ftimer.c 18 and 33) to the microsecond, wherever in a second the runs    *)
(* begin and end.                                                            *)
SecondsExact ==
  pc = "idle" /\ calls > 0 =>
    result = IF build.use = "FCYC"
               THEN <<Min(Range(samples)) * SLEEP, SLEEP * RATE>>
               ELSE <<spent, REPEATS>>

(* Every call of fsecs comes to an end: samples that never converge stop at  *)
(* maxsamples, and callibrate sees its events because interrupts go on.      *)
FsecsEnds ==
  pc \in {"fcyc", "timed"} ~> pc \in {"idle", "exit", "killed"}

(* The signal of the interval timer, which nobody handles, ends the driver   *)
(* only when the runs of one measurement took MAX_ETIME seconds, however     *)
(* many measurements there were before it.                                   *)
KilledOnlyByOneCall == pc = "killed" => spent >= MAX_ETIME * USEC
=============================================================================

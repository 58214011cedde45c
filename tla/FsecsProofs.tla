---------------------------- MODULE FsecsProofs -----------------------------
(***************************************************************************)
(* What the timing package knows, for every width of the counter's words,  *)
(* every rate and cost of interrupts, every setting of its parameters and  *)
(* every length of the function that is timed.                             *)
(***************************************************************************)
EXTENDS Fsecs, FiniteSetTheorems, SequenceTheorems, WellFoundedInduction, TLAPS

-----------------------------------------------------------------------------
(* The counter                                                             *)

Cycles == WORD * WORD

(* Division and remainder of the counter's words and of timevals.          *)
LEMMA DivMod ==
  ASSUME NEW a \in Int, NEW b \in Nat \ {0}
  PROVE  /\ a \div b \in Int /\ a % b \in 0 .. b - 1
         /\ a = b * (a \div b) + (a % b)
OBVIOUS

(* A remainder that is small enough is the remainder.                      *)
LEMMA DivModUnique ==
  ASSUME NEW a \in Int, NEW b \in Nat \ {0}, NEW q \in Int,
         NEW r \in 0 .. b - 1, a = b * q + r
  PROVE  a \div b = q /\ a % b = r
<1> DEFINE p == a \div b
           s == a % b
<1>1. p \in Int /\ s \in 0 .. b - 1 /\ a = b * p + s
  BY DivMod
<1> HIDE DEF p, s
<1>2. b * (p - q) = r - s
  BY <1>1
<1>3. CASE p > q
  <2>1. b * (p - q) >= b * 1
    BY <1>1, <1>3
  <2> QED
    BY <1>1, <1>2, <2>1
<1>4. CASE p < q
  <2>1. b * (q - p) >= b * 1
    BY <1>1, <1>4
  <2>2. b * (q - p) = s - r
    BY <1>1
  <2> QED
    BY <1>1, <2>1, <2>2
<1>5. CASE p = q
  BY <1>1, <1>5 DEF p, s
<1> QED
  BY <1>1, <1>3, <1>4, <1>5

(* The counter of clock.c is wide enough for any step of the program.      *)
LEMMA Wide ==
  /\ WORD \in Nat \ {0} /\ Cycles \in Nat \ {0}
  /\ PERIOD \in Nat /\ PERIOD > 1 /\ PERIOD < Cycles
<1>1. WORD \in Nat /\ PERIOD \in Nat /\ NEVENT \in Nat \ {0} /\ PERIOD > 1
      /\ (NEVENT + 2) * PERIOD < WORD * WORD
  BY ClockAssumption
<1>2. (NEVENT + 2) * PERIOD >= 1 * PERIOD
  BY <1>1
<1>3. WORD # 0
  BY <1>1, <1>2
<1>4. WORD * WORD \in Nat
  BY <1>1
<1> QED
  BY <1>1, <1>2, <1>3, <1>4 DEF Cycles

(* access_counter splits the counter into its two words.                   *)
LEMMA Words ==
  ASSUME NEW m \in 0 .. Cycles - 1
  PROVE  /\ access_counter(m) \in [hi : 0 .. WORD - 1, lo : 0 .. WORD - 1]
         /\ m = WORD * access_counter(m).hi + access_counter(m).lo
<1> DEFINE h == m \div WORD
           l == m % WORD
<1>1. h \in Int /\ l \in 0 .. WORD - 1 /\ m = WORD * h + l
  BY DivMod, Wide
<1> HIDE DEF h, l
<1>2. m \in Int /\ 0 <= m /\ m < WORD * WORD /\ WORD \in Nat \ {0}
  BY Wide DEF Cycles
<1>3. h >= 0
  <2>1. SUFFICES ASSUME h <= -1 PROVE FALSE
    BY <1>1
  <2>2. WORD * h <= WORD * (-1)
    BY <1>1, <1>2, <2>1
  <2> QED
    BY <1>1, <1>2, <2>2
<1>4. h < WORD
  <2>1. SUFFICES ASSUME h >= WORD PROVE FALSE
    BY <1>1, <1>2
  <2>2. WORD * h >= WORD * WORD
    BY <1>1, <1>2, <2>1
  <2> QED
    BY <1>1, <1>2, <2>2
<1>5. access_counter(m) = [hi |-> h, lo |-> l]
  BY DEF access_counter, h, l
<1> QED
  BY <1>1, <1>2, <1>3, <1>4, <1>5

(* get_counter: a subtraction by words with a borrow gives the cycles      *)
(* since start_counter recorded the counter, although each of the words    *)
(* and the whole counter may have wrapped around.                          *)
LEMMA CounterCounts ==
  ASSUME NEW m \in 0 .. Cycles - 1, NEW s \in 0 .. Cycles - 1,
         cyc = access_counter(m)
  PROVE  get_counter((m + s) % Cycles) = s
<1> DEFINE e == (m + s) % Cycles
           q == (m + s) \div Cycles
           a == access_counter(m)
           b == access_counter(e)
<1>1. /\ q \in Int /\ e \in 0 .. Cycles - 1 /\ m + s = Cycles * q + e
      /\ Cycles \in Nat \ {0} /\ WORD \in Nat \ {0} /\ Cycles = WORD * WORD
  <2>1. Cycles \in Nat \ {0} /\ WORD \in Nat \ {0} /\ Cycles = WORD * WORD
    BY Wide DEF Cycles
  <2>2. m + s \in Int
    BY <2>1
  <2>3. q \in Int /\ e \in 0 .. Cycles - 1 /\ m + s = Cycles * q + e
    BY <2>1, <2>2, DivMod
  <2> QED
    BY <2>1, <2>3
<1> HIDE DEF e, q
<1>2. /\ a \in [hi : 0 .. WORD - 1, lo : 0 .. WORD - 1]
      /\ m = WORD * a.hi + a.lo
  BY Words
<1>3. /\ b \in [hi : 0 .. WORD - 1, lo : 0 .. WORD - 1]
      /\ e = WORD * b.hi + b.lo
  BY <1>1, Words
<1> HIDE DEF a, b
<1> DEFINE lo == (b.lo - a.lo) % WORD
           borrow == IF lo > b.lo THEN 1 ELSE 0
           hi == (b.hi - a.hi - borrow) % WORD
<1>4. get_counter(e) = hi * WORD + lo
  BY DEF get_counter, a, b
<1> DEFINE under == IF b.lo < a.lo THEN 1 ELSE 0
           x == b.lo - a.lo + WORD * under
<1>5. /\ a.lo \in 0 .. WORD - 1 /\ b.lo \in 0 .. WORD - 1
      /\ a.hi \in 0 .. WORD - 1 /\ b.hi \in 0 .. WORD - 1
  BY <1>2, <1>3
<1>6. /\ under \in {0, 1} /\ x \in 0 .. WORD - 1
      /\ b.lo - a.lo = WORD * (- under) + x
  BY <1>1, <1>5
<1>7. lo = x
  <2>1. b.lo - a.lo \in Int /\ - under \in Int
    BY <1>5, <1>6
  <2> HIDE DEF x, under
  <2> QED
    BY <1>1, <1>6, <2>1, DivModUnique
<1>8. borrow = under
  <2> HIDE DEF lo
  <2>1. CASE b.lo < a.lo
    BY <1>1, <1>5, <1>7, <2>1
  <2>2. CASE ~ (b.lo < a.lo)
    BY <1>1, <1>5, <1>7, <2>2
  <2> QED
    BY <2>1, <2>2
<1> DEFINE y == b.hi - a.hi - under + WORD * q
<1>9. y \in Int
  BY <1>1, <1>5, <1>6
<1> HIDE DEF lo, hi, borrow, under, x
<1>10. s = WORD * y + x
  <2>1. s = WORD * WORD * q + WORD * b.hi + b.lo - WORD * a.hi - a.lo
    <3>1. Cycles * q = WORD * WORD * q
      BY <1>1
    <3> QED
      BY <1>1, <1>2, <1>3, <1>5, <3>1, SMTT(30)
  <2>2. WORD * y = WORD * b.hi - WORD * a.hi - WORD * under + WORD * WORD * q
    BY <1>1, <1>5, <1>6
  <2>3. b.lo - a.lo = x - WORD * under
    BY <1>1, <1>6
  <2>4. WORD * WORD * q \in Int /\ WORD * b.hi \in Int /\ WORD * a.hi \in Int
        /\ WORD * under \in Int
    BY <1>1, <1>5, <1>6
  <2> HIDE DEF y
  <2> QED
    BY <1>5, <1>6, <1>9, <2>1, <2>2, <2>3, <2>4
<1> HIDE DEF y
<1>11. y \in 0 .. WORD - 1
  <2>1. SUFFICES ASSUME y <= -1 \/ y >= WORD PROVE FALSE
    BY <1>1, <1>9
  <2>2. CASE y <= -1
    <3>1. WORD * y <= WORD * (-1)
      BY <1>1, <1>9, <2>2
    <3> QED
      BY <1>1, <1>6, <1>9, <1>10, <3>1
  <2>3. CASE y >= WORD
    <3>1. WORD * y >= WORD * WORD
      BY <1>1, <1>9, <2>3
    <3> QED
      BY <1>1, <1>6, <1>9, <1>10, <3>1
  <2> QED
    BY <2>1, <2>2, <2>3
<1>12. hi = y
  <2>1. b.hi - a.hi - under = WORD * (- q) + y
    BY <1>1, <1>5, <1>6 DEF y
  <2>2. b.hi - a.hi - under \in Int /\ - q \in Int
    BY <1>1, <1>5, <1>6
  <2> QED
    BY <1>1, <1>8, <1>11, <2>1, <2>2, DivModUnique DEF hi
<1> QED
  BY <1>1, <1>4, <1>6, <1>7, <1>9, <1>10, <1>12 DEF e

(* A reading of the counter is never negative.                             *)
LEMMA CounterNat ==
  ASSUME NEW m \in 0 .. Cycles - 1,
         cyc \in [hi : 0 .. WORD - 1, lo : 0 .. WORD - 1]
  PROVE  get_counter(m) \in Nat
<1> DEFINE b == access_counter(m)
           lo == (b.lo - cyc.lo) % WORD
           borrow == IF lo > b.lo THEN 1 ELSE 0
           hi == (b.hi - cyc.hi - borrow) % WORD
<1>1. b \in [hi : 0 .. WORD - 1, lo : 0 .. WORD - 1] /\ WORD \in Nat \ {0}
  BY Words, Wide
<1> HIDE DEF b
<1>2. b.lo \in Int /\ b.hi \in Int /\ cyc.lo \in Int /\ cyc.hi \in Int
  BY <1>1
<1>3. lo \in Nat
  <2>1. b.lo - cyc.lo \in Int
    BY <1>2
  <2> QED
    BY <1>1, <2>1, DivMod
<1> HIDE DEF lo
<1>4. borrow \in Int
  OBVIOUS
<1> HIDE DEF borrow
<1>5. hi \in Nat
  <2>1. b.hi - cyc.hi - borrow \in Int
    BY <1>2, <1>4
  <2> QED
    BY <1>1, <2>1, DivMod
<1>6. get_counter(m) = hi * WORD + lo
  BY DEF get_counter, b, lo, borrow
<1> HIDE DEF hi
<1> QED
  BY <1>1, <1>3, <1>5, <1>6

(* ftimer.c's difference of two timevals is that of their microseconds,    *)
(* with or without a borrow.                                               *)
LEMMA DifferenceExact ==
  ASSUME NEW a \in Int, NEW b \in Int
  PROVE  Difference(timeval(a), timeval(b)) = a - b
<1> DEFINE p == a \div USEC
           q == b \div USEC
           r == a % USEC
           s == b % USEC
<1>1. USEC \in Nat \ {0}
  BY FsecsAssumption
<1>2. p \in Int /\ r \in Int /\ a = USEC * p + r
  BY <1>1, DivMod
<1>3. q \in Int /\ s \in Int /\ b = USEC * q + s
  BY <1>1, DivMod
<1>4. Difference(timeval(a), timeval(b)) = USEC * (p - q) + (r - s)
  BY DEF Difference, timeval
<1> HIDE DEF p, q, r, s
<1> QED
  BY <1>1, <1>2, <1>3, <1>4

-----------------------------------------------------------------------------
(* Time                                                                    *)

Reading == [hi : 0 .. WORD - 1, lo : 0 .. WORD - 1]

ClockOK ==
  /\ now \in 0 .. Cycles - 1 /\ phase \in 0 .. PERIOD - 1
  /\ ticks \in Nat /\ cyc \in Reading

(* What a stretch of d cycles of the program does to the clocks, if it is  *)
(* short enough for no more than one interrupt.                            *)
LEMMA TimePasses ==
  ASSUME ClockOK, NEW d \in Nat \ {0}, NEW c \in TickCosts, d + c <= PERIOD,
         NEW kept, PassesWith(d, c, kept)
  PROVE  /\ ClockOK'
         /\ Interrupts(d) \in {0, 1}
         /\ d + Interrupts(d) * c \in 0 .. Cycles - 1
         /\ now' = (now + (d + Interrupts(d) * c)) % Cycles
         /\ ticks' = IF "ticks" \in kept THEN 0 ELSE ticks + Interrupts(d)
         /\ cyc' = IF "counter" \in kept THEN access_counter(now') ELSE cyc
<1> DEFINE tick == Interrupts(d)
           took == d + tick * c
<1>1. /\ PERIOD \in Nat /\ Cycles \in Nat \ {0} /\ PERIOD < Cycles /\ c \in Nat
      /\ c <= PERIOD - 2
  BY Wide, ClockAssumption
<1>2. /\ tick \in {0, 1} /\ (tick = 1 <=> phase + d >= PERIOD)
  BY <1>1 DEF Interrupts
<1> HIDE DEF tick
<1>3. took \in Nat /\ took <= PERIOD /\ took = IF tick = 1 THEN d + c ELSE d
  <2>1. CASE tick = 1
    BY <1>1, <2>1
  <2>2. CASE tick = 0
    BY <1>1, <2>2, 1 # 0
  <2> QED
    BY <1>2, <2>1, <2>2
<1>4. /\ now' = (now + took) % Cycles
      /\ phase' = phase + took - tick * PERIOD
      /\ ticks' = IF "ticks" \in kept THEN 0 ELSE ticks + tick
      /\ cyc' = IF "counter" \in kept THEN access_counter(now') ELSE cyc
  BY DEF PassesWith, Cycles, tick
<1> HIDE DEF took
<1>5. now' \in 0 .. Cycles - 1
  <2>1. now + took \in Int
    BY <1>1, <1>3 DEF ClockOK
  <2> QED
    BY <1>1, <1>4, <2>1, DivMod
<1>6. phase' \in 0 .. PERIOD - 1
  <2>1. phase \in Nat /\ phase <= PERIOD - 1
    BY <1>1 DEF ClockOK
  <2>2. CASE tick = 1
    BY <1>1, <1>2, <1>3, <1>4, <2>1, <2>2
  <2>3. CASE tick = 0
    BY <1>1, <1>2, <1>3, <1>4, <2>1, <2>3
  <2> QED
    BY <1>2, <2>2, <2>3
<1>7. ticks' \in Nat
  BY <1>2, <1>4 DEF ClockOK
<1>8. cyc' \in Reading
  BY <1>4, <1>5, Words DEF ClockOK, Reading
<1>9. took \in 0 .. Cycles - 1
  BY <1>1, <1>3
<1> QED
  BY <1>2, <1>4, <1>5, <1>6, <1>7, <1>8, <1>9 DEF ClockOK, tick, took

(* The stretch between two readings of a clock.                            *)
LEMMA CyclePasses ==
  ASSUME ClockOK, NEW kept, Passes(1, kept)
  PROVE  /\ ClockOK'
         /\ Interrupts(1) \in {0, 1}
         /\ ticks' = IF "ticks" \in kept THEN 0 ELSE ticks + Interrupts(1)
         /\ cyc' = IF "counter" \in kept THEN access_counter(now') ELSE cyc
<1>1. PICK c \in TickCosts : PassesWith(1, c, kept)
  BY DEF Passes
<1>2. 1 + c <= PERIOD
  BY ClockAssumption
<1> QED
  BY <1>1, <1>2, TimePasses

(* The stretch in which the function runs: get_counter then finds exactly  *)
(* the cycles it took, those of an interrupt included.                     *)
LEMMA FunctionRuns ==
  ASSUME ClockOK, NEW d \in Durations, NEW c \in TickCosts,
         PassesWith(d, c, {})
  PROVE  /\ ClockOK' /\ Interrupts(d) \in {0, 1}
         /\ d + Interrupts(d) * c \in Nat
         /\ ticks' = ticks + Interrupts(d)
         /\ cyc = access_counter(now) =>
              get_counter(now') = d + Interrupts(d) * c
<1>1. d \in Nat \ {0} /\ d + c <= PERIOD
  BY FcycAssumption
<1>2. /\ ClockOK' /\ Interrupts(d) \in {0, 1}
      /\ d + Interrupts(d) * c \in 0 .. Cycles - 1
      /\ now' = (now + (d + Interrupts(d) * c)) % Cycles
      /\ ticks' = ticks + Interrupts(d)
  BY <1>1, TimePasses
<1>3. cyc = access_counter(now) => get_counter(now') = d + Interrupts(d) * c
  BY <1>2, CounterCounts DEF ClockOK
<1> QED
  BY <1>2, <1>3

-----------------------------------------------------------------------------
(* The parameters of fcyc.c                                                *)

Less == {pair \in Nat \X Nat : pair[1] < pair[2]}

(* Numbers do not descend for ever, so a set of them has a least one: the  *)
(* defaults of fcyc.c are among the settings.                              *)
LEMMA LeastNumber ==
  ASSUME NEW T, T \subseteq Nat, T # {}
  PROVE  \E least \in T : \A k \in T : least <= k
<1>1. IsWellFoundedOn(Less, Nat)
  BY NatLessThanWellFounded, Zenon DEF OpToRel, Less
<1>2. PICK least \in T : \A y \in T : ~ (<<y, least>> \in Less)
  BY <1>1, WFMin
<1>3. \A y \in T : y \in Nat /\ ~ (y < least)
  BY <1>2 DEF Less
<1> QED
  BY <1>3

(* Whatever the parameters are set to is a setting.                        *)
LEMMA SettingsOK ==
  ASSUME NEW p \in Parameters
  PROVE  /\ Settings[p] \subseteq Nat
         /\ Min(Settings[p]) \in Settings[p]
         /\ Max(Settings[p]) \in Settings[p]
         /\ \A v \in Settings[p] : v <= Max(Settings[p])
<1>1. Settings[p] \subseteq Nat
  BY FcycAssumption
<1>2. PICK most \in Settings[p] : \A v \in Settings[p] : v <= most
  BY FcycAssumption
<1>3. \A v \in Settings[p] : most >= v
  BY <1>1, <1>2
<1>4. \E x \in Settings[p] : \A y \in Settings[p] : x >= y
  BY <1>3
<1>5. /\ Max(Settings[p]) \in Settings[p]
      /\ \A y \in Settings[p] : Max(Settings[p]) >= y
  BY <1>4, Zenon DEF Max
<1>6. \E x \in Settings[p] : \A y \in Settings[p] : x <= y
  BY <1>1, <1>2, LeastNumber
<1>7. Min(Settings[p]) \in Settings[p]
  BY <1>6, Zenon DEF Min
<1> QED
  BY <1>1, <1>5, <1>7

-----------------------------------------------------------------------------
(* Types, and where the program is                                         *)

(* The steps of a call of fcyc. *)
FcycPlaces ==
  {"fcyc", "sample", "start", "callibrate", "callibrate_counter",
   "callibrate_oldt", "read", "times", "start_tick", "start_counter", "run",
   "stop", "return"}

Places ==
  /\ pc \in FcycPlaces \cup {"init", "sleep", "idle", "timed", "killed", "exit"}
  /\ build \in Build
  /\ pc \in FcycPlaces \cup {"sleep"} => build.use = "FCYC"
  /\ pc \in {"timed", "killed"} => build.use # "FCYC"

(* There is no buffer, or it is as large as the parameter says. *)
ConfigOK ==
  /\ set \in [Parameters -> Nat]
  /\ \A p \in Parameters : set[p] \in Settings[p]
  /\ cache_buf \in {0, set.cache_bytes}

NumbersOK ==
  /\ cyc_per_tick \in Nat /\ count \in Nat /\ Mhz \in Nat
  /\ cal \in [e : Nat, oldt : Int, newt : Int]
  /\ elapsed \in Nat /\ real \in Int
  /\ calls \in 0 .. MaxCalls /\ sets \in 0 .. MaxSets

Basic == ClockOK /\ Places /\ ConfigOK /\ NumbersOK

Others == <<build, Mhz, ftimer, result, calls, sets>>

(* The program starts so: fcyc.c's parameters have their defaults.         *)
LEMMA InitBasic == Init => Basic
<1> SUFFICES ASSUME Init PROVE Basic
  OBVIOUS
<1>1. ClockOK
  <2>1. 0 \in 0 .. Cycles - 1
    BY Wide
  <2>2. access_counter(0) \in Reading
    BY <2>1, Words DEF Reading
  <2>3. now \in 0 .. Cycles - 1
    BY FsecsAssumption DEF Init, Cycles
  <2> QED
    BY <2>2, <2>3 DEF Init, ClockOK
<1>2. Places
  BY FsecsAssumption DEF Init, Places, FcycPlaces
<1>3. ConfigOK
  <2>1. set = [p \in Parameters |-> Min(Settings[p])] /\ cache_buf = 0
    BY DEF Init, Defaults
  <2>2. \A p \in Parameters : set[p] \in Settings[p] /\ set[p] \in Nat
    BY <2>1, SettingsOK
  <2> QED
    BY <2>1, <2>2 DEF ConfigOK
<1>4. NumbersOK
  BY FsecsAssumption DEF Init, NumbersOK, NoEvents
<1> QED
  BY <1>1, <1>2, <1>3, <1>4 DEF Basic

(* A measurement by the cycle counter keeps them, with the steps of        *)
(* callibrate among its own.                                               *)
LEMMA FcycBasic ==
  ASSUME Basic, FcycStep, UNCHANGED Others
  PROVE  Basic'
<1> USE DEF Basic
<1>0. /\ build' = build /\ Mhz' = Mhz /\ calls' = calls /\ sets' = sets
  BY DEF Others
<1>1. ASSUME fcyc PROVE Basic'
  BY <1>0, <1>1
     DEF fcyc, clocks, config, ClockOK, Places, ConfigOK, NumbersOK, FcycPlaces
<1>2. ASSUME Prepares PROVE Basic'
  <2>1. ClockOK' /\ NumbersOK'
    BY <1>0, <1>2 DEF Prepares, clocks, sampler, ClockOK, NumbersOK
  <2>2. set' = set /\ pc = "sample"
    BY <1>2 DEF Prepares
  <2>3. CASE set.clear_cache # 1
    BY <1>0, <1>2, <2>1, <2>2, <2>3 DEF Prepares, Places, ConfigOK, FcycPlaces
  <2>4. CASE set.clear_cache = 1
    <3>1. clear
      BY <1>2, <2>4 DEF Prepares
    <3>2. set.cache_bytes \in Nat
      BY DEF ConfigOK, Parameters
    <3>3. CASE cache_buf = 0 /\ pc' = "exit" /\ UNCHANGED cache_buf
      BY <1>0, <2>1, <2>2, <3>3 DEF Places, ConfigOK, FcycPlaces
    <3>4. CASE /\ cache_buf' = IF cache_buf = 0 THEN set.cache_bytes ELSE cache_buf
               /\ pc' = IF set.cache_bytes <= cache_buf' THEN "start" ELSE "undefined"
      <4>1. cache_buf' = set.cache_bytes
        BY <3>4 DEF ConfigOK
      <4>2. pc' = "start"
        BY <3>2, <3>4, <4>1
      <4> QED
        BY <1>0, <2>1, <2>2, <4>1, <4>2 DEF Places, ConfigOK, FcycPlaces
    <3> QED
      BY <3>1, <3>3, <3>4 DEF clear
  <2> QED
    BY <2>3, <2>4
<1>3. ASSUME Starts PROVE Basic'
  BY <1>0, <1>3 DEF Starts, clocks, config, sampler, ClockOK, Places, ConfigOK,
                    NumbersOK, FcycPlaces
<1>4. ASSUME StartsTick PROVE Basic'
  <2>1. ClockOK'
    BY <1>4, CyclePasses DEF StartsTick
  <2> QED
    BY <1>0, <1>4, <2>1 DEF StartsTick, config, sampler, Places, ConfigOK,
                            NumbersOK, FcycPlaces
<1>5. ASSUME StartsCounter PROVE Basic'
  <2>1. ClockOK'
    BY <1>5, CyclePasses DEF StartsCounter
  <2> QED
    BY <1>0, <1>5, <2>1 DEF StartsCounter, config, sampler, Places, ConfigOK,
                            NumbersOK, FcycPlaces
<1>6. ASSUME Runs PROVE Basic'
  <2>1. PICK d \in Durations, c \in TickCosts :
          /\ PassesWith(d, c, {})
          /\ elapsed' = d + Interrupts(d) * c
          /\ real' = elapsed' - Interrupts(d) * cyc_per_tick
    BY <1>6 DEF Runs
  <2>2. /\ ClockOK' /\ Interrupts(d) \in {0, 1}
        /\ d + Interrupts(d) * c \in Nat
    BY <2>1, FunctionRuns
  <2>3. get_counter(now') \in Nat
    <3>1. cyc' = cyc
      BY <2>1 DEF PassesWith
    <3> QED
      BY <2>2, CounterNat DEF ClockOK, Reading
  <2>4. elapsed' \in Nat /\ real' \in Int
    BY <2>1, <2>2 DEF NumbersOK
  <2> QED
    BY <1>0, <1>6, <2>2, <2>3, <2>4
       DEF Runs, config, Places, ConfigOK, NumbersOK, FcycPlaces
<1>7. ASSUME Stops PROVE Basic'
  <2>1. ClockOK'
    BY <1>7, CyclePasses DEF Stops, clocks, ClockOK
  <2>2. pc' \in {"return", "sample"}
    BY <1>7, Zenon DEF Stops, add_sample
  <2> QED
    BY <1>0, <1>7, <2>1, <2>2 DEF Stops, config, Places, ConfigOK, NumbersOK,
                                  FcycPlaces
<1>8. ASSUME Callibrates PROVE Basic'
  <2>1. PICK kept : Passes(1, kept)
    BY <1>8 DEF Callibrates
  <2>2. ClockOK'
    BY <2>1, CyclePasses
  <2>3. get_counter(now') \in Int \/ cal' = NoEvents
    <3>1. pc = "callibrate_oldt" => cyc' = cyc
      BY <1>8, CyclePasses DEF Callibrates
    <3>2. pc = "callibrate_oldt" => get_counter(now') \in Nat
      BY <2>2, <3>1, CounterNat DEF ClockOK, Reading
    <3> QED
      BY <1>8, <3>2 DEF Callibrates
  <2>4. cal' \in [e : Nat, oldt : Int, newt : Int]
    BY <1>8, <2>3 DEF Callibrates, NoEvents
  <2>5. pc' \in {"callibrate_counter", "callibrate_oldt", "read"}
        /\ pc \in FcycPlaces
    BY <1>8 DEF Callibrates, FcycPlaces
  <2> QED
    BY <1>0, <1>8, <2>2, <2>4, <2>5 DEF Callibrates, config, sampler, Places,
                                        ConfigOK, NumbersOK, FcycPlaces
<1>9. ASSUME ReadsCounter PROVE Basic'
  <2>1. ClockOK' /\ cyc' = cyc
    BY <1>9, CyclePasses DEF ReadsCounter
  <2>2. get_counter(now') \in Nat
    BY <2>1, CounterNat DEF ClockOK, Reading
  <2>3. pc' \in {"times", "read"}
    BY <1>9, Zenon DEF ReadsCounter
  <2> QED
    BY <1>0, <1>9, <2>1, <2>2, <2>3 DEF ReadsCounter, config, sampler, Places,
                                        ConfigOK, NumbersOK, FcycPlaces
<1>10. ASSUME ReadsTicks PROVE Basic'
  <2> DEFINE t == ticks + Interrupts(1)
             e == IF t > 0 THEN cal.e + 1 ELSE cal.e
  <2>1. ClockOK' /\ Interrupts(1) \in {0, 1}
    <3>1. PICK kept : Passes(1, kept)
      BY <1>10 DEF ReadsTicks
    <3> QED
      BY <3>1, CyclePasses
  <2>2. t \in Nat
    BY <2>1 DEF ClockOK
  <2>3. /\ cyc_per_tick' = IF t = 0 THEN cyc_per_tick
                           ELSE lower_cyc_per_tick(cal.newt - cal.oldt, t)
        /\ cal' = [cal EXCEPT !.e = e, !.oldt = cal.newt]
        /\ pc' = (IF e < NEVENT THEN "read" ELSE "start_tick") /\ pc = "times"
        /\ UNCHANGED <<set, cache_buf, count, sampler>>
    BY <1>10 DEF ReadsTicks
  <2> HIDE DEF t
  <2>4. cyc_per_tick' \in Nat
    <3>1. ASSUME t # 0 PROVE lower_cyc_per_tick(cal.newt - cal.oldt, t) \in Nat
      <4>1. cal.newt - cal.oldt \in Int /\ t \in Nat \ {0}
        BY <2>2, <3>1 DEF NumbersOK
      <4>2. (cal.newt - cal.oldt) \div t \in Int
        BY <4>1, DivMod
      <4>3. RECORDTHRESH \in Nat
        BY ClockAssumption
      <4> QED
        BY <4>2, <4>3 DEF lower_cyc_per_tick, NumbersOK
    <3> QED
      BY <2>3, <3>1 DEF NumbersOK
  <2>5. e \in Nat /\ cal.newt \in Int
    BY <2>2 DEF NumbersOK
  <2>6. cal' \in [e : Nat, oldt : Int, newt : Int]
    BY <2>3, <2>5 DEF NumbersOK
  <2>7. pc' \in {"read", "start_tick"}
    BY <2>3, Zenon
  <2> QED
    BY <1>0, <2>1, <2>3, <2>4, <2>6, <2>7
       DEF sampler, Places, ConfigOK, NumbersOK, FcycPlaces
<1> QED
  BY <1>1, <1>2, <1>3, <1>4, <1>5, <1>6, <1>7, <1>8, <1>9, <1>10 DEF FcycStep

(* Every step keeps the types, and the program where its timer sends it.   *)
LEMMA StepBasic ==
  ASSUME Basic, Next
  PROVE  Basic'
<1> USE DEF Basic
<1>1. ASSUME init_fsecs PROVE Basic'
  <2>1. /\ phase' = phase /\ ticks' = ticks /\ cache_buf' = cache_buf
        /\ cyc_per_tick' = cyc_per_tick /\ cal' = cal /\ count' = count
        /\ elapsed' = elapsed /\ real' = real /\ build' = build
        /\ calls' = calls /\ sets' = sets
    BY <1>1 DEF init_fsecs, sampler
  <2>2. CASE pc = "init" /\ ~ (build.use = "FCYC" /\ build.counter)
    <3>1. UNCHANGED <<set, now, cyc, Mhz>> /\ pc' \in {"idle", "exit"}
      BY <1>1, <2>2 DEF init_fsecs
    <3> QED
      BY <2>1, <2>2, <3>1
         DEF ClockOK, Places, ConfigOK, NumbersOK, FcycPlaces
  <2>3. CASE pc = "init" /\ build.use = "FCYC" /\ build.counter
    <3>1. /\ set' = [p \in Parameters |-> IF p \in {"cache_bytes", "cache_block"}
                                     THEN set[p] ELSE Max(Settings[p])]
          /\ cyc' = access_counter(now)
          /\ pc' = "sleep" /\ UNCHANGED <<now, Mhz>>
      BY <1>1, <2>3 DEF init_fsecs
    <3>2. ClockOK'
      BY <2>1, <3>1, Words DEF ClockOK, Reading
    <3>3. \A p \in Parameters : set'[p] \in Settings[p] /\ set'[p] \in Nat
      BY <3>1, SettingsOK DEF ConfigOK
    <3>4. set'["cache_bytes"] = set["cache_bytes"]
      BY <3>1 DEF Parameters
    <3>5. ConfigOK'
      BY <2>1, <3>1, <3>3, <3>4 DEF ConfigOK
    <3> QED
      BY <2>1, <2>3, <3>1, <3>2, <3>5 DEF Places, NumbersOK, FcycPlaces
  <2>4. CASE pc = "sleep"
    <3>1. /\ now' = (now + SLEEP * RATE) % Cycles
          /\ Mhz' = get_counter(now')
          /\ pc' = "idle" /\ UNCHANGED <<set, cyc>>
      BY <1>1, <2>4 DEF init_fsecs, Cycles
    <3>2. now + SLEEP * RATE \in Int /\ Cycles \in Nat \ {0}
      BY Wide, FsecsAssumption DEF ClockOK
    <3>3. now' \in 0 .. Cycles - 1
      BY <3>1, <3>2, DivMod
    <3>4. Mhz' \in Nat
      BY <3>1, <3>3, CounterNat DEF ClockOK, Reading
    <3> QED
      BY <2>1, <2>4, <3>1, <3>3, <3>4
         DEF ClockOK, Places, ConfigOK, NumbersOK, FcycPlaces
  <2> QED
    BY <1>1, <2>2, <2>3, <2>4 DEF init_fsecs
<1>2. ASSUME Sets PROVE Basic'
  <2>0. PICK name \in Parameters : \E v \in Settings[name] : set_fcyc(name, v)
    BY <1>2 DEF Sets
  <2>1. PICK v \in Settings[name] : set_fcyc(name, v)
    BY <2>0
  <2>2. v \in Nat
    BY SettingsOK
  <2>3. /\ set' = [set EXCEPT ![name] = v]
        /\ cache_buf' = IF name = "cache_bytes" /\ v # set.cache_bytes THEN 0
                        ELSE cache_buf
    BY <2>1 DEF set_fcyc
  <2>4. ConfigOK'
    <3>1. set' \in [Parameters -> Nat]
      BY <2>2, <2>3 DEF ConfigOK
    <3>2. \A p \in Parameters : set'[p] \in Settings[p]
      BY <2>3 DEF ConfigOK
    <3>3. cache_buf' \in {0, set'["cache_bytes"]}
      BY <2>3 DEF ConfigOK
    <3> QED
      BY <3>1, <3>2, <3>3 DEF ConfigOK
  <2>5. sets' \in 0 .. MaxSets
    BY <1>2, FsecsAssumption DEF Sets, NumbersOK
  <2> QED
    BY <1>2, <2>4, <2>5 DEF Sets, clocks, sampler, ClockOK, Places, NumbersOK
<1>3. ASSUME Fcycs PROVE Basic'
  BY <1>3, FcycBasic DEF Fcycs, Others
<1>4. ASSUME FcycReturns PROVE Basic'
  BY <1>4 DEF FcycReturns, clocks, config, ClockOK, Places, ConfigOK, NumbersOK,
              NoEvents, FcycPlaces
<1>5. ASSUME fsecs PROVE Basic'
  <2>1. calls' \in 0 .. MaxCalls
    BY <1>5, FsecsAssumption DEF fsecs, NumbersOK
  <2>2. UNCHANGED <<fcycs, build, Mhz, sets>>
    BY <1>5 DEF fsecs
  <2>3. \/ pc' = "fcyc" /\ build.use = "FCYC"
        \/ pc' = "timed" /\ build.use # "FCYC"
    BY <1>5 DEF fsecs
  <2> QED
    BY <2>1, <2>2, <2>3 DEF fcycs, clocks, config, sampler, ClockOK, Places,
                            ConfigOK, NumbersOK, FcycPlaces
<1>6. ASSUME TimedRun PROVE Basic'
  <2>1. UNCHANGED <<fcycs, build, Mhz, calls, sets>>
        /\ pc = "timed" /\ pc' \in {"timed", "killed"}
    BY <1>6 DEF TimedRun
  <2> QED
    BY <2>1 DEF fcycs, clocks, config, sampler, ClockOK, Places,
                ConfigOK, NumbersOK, FcycPlaces
<1>7. ASSUME TimerReturns PROVE Basic'
  <2>1. UNCHANGED <<fcycs, build, Mhz, calls, sets>>
        /\ pc = "timed" /\ pc' = "idle"
    BY <1>7 DEF TimerReturns
  <2> QED
    BY <2>1 DEF fcycs, clocks, config, sampler, ClockOK, Places,
                ConfigOK, NumbersOK, FcycPlaces
<1> QED
  BY <1>1, <1>2, <1>3, <1>4, <1>5, <1>6, <1>7 DEF Next, Step

(* Nothing but the clocks and the program's own variables are read: where  *)
(* none of them changes, nothing is lost.                                  *)
LEMMA StutterBasic ==
  ASSUME Basic, UNCHANGED vars
  PROVE  Basic'
BY DEF Basic, vars, fcycs, clocks, config, sampler, ftimer, ClockOK, Places,
       ConfigOK, NumbersOK

(* Types of the timing package, and the places the program can be at.      *)
LEMMA BasicInvariance == Spec => []Basic
<1>1. Basic /\ [Next]_vars => Basic'
  BY StepBasic, StutterBasic
<1> QED
  BY <1>1, InitBasic, PTL DEF Spec

(* clear never reads behind the end of its buffer (fcyc.c): set_fcyc_cache *)
(* drops the buffer whenever the size changes, so that it is as large as   *)
(* the parameter says or not there.                                        *)
THEOREM WalksInBounds == Spec => []CacheWalkInBounds
<1>1. Basic => CacheWalkInBounds
  BY DEF Basic, Places, FcycPlaces, CacheWalkInBounds
<1> QED
  BY <1>1, BasicInvariance, PTL

-----------------------------------------------------------------------------
(* What the counter says                                                   *)

Counts ==
  /\ pc \in {"sleep", "run"} => cyc = access_counter(now)
  /\ pc = "stop" => count = elapsed
  /\ build.use = "FCYC" /\ pc \notin {"init", "sleep", "exit"} =>
       Mhz = SLEEP * RATE

(* A step of fcyc leaves the counter recorded where it will be compared.   *)
LEMMA StepCounts ==
  ASSUME Basic, Counts, Next
  PROVE  Counts'
<1>0. Basic'
  BY StepBasic
<1>1. ASSUME init_fsecs PROVE Counts'
  <2>1. build' = build
    BY <1>1 DEF init_fsecs
  <2>2. CASE pc = "init"
    BY <1>1, <2>1, <2>2 DEF init_fsecs, Counts
  <2>3. CASE pc = "sleep"
    <3>1. /\ now' = (now + SLEEP * RATE) % Cycles
          /\ Mhz' = get_counter(now') /\ pc' = "idle"
      BY <1>1, <2>3 DEF init_fsecs, Cycles
    <3>2. SLEEP * RATE \in 0 .. Cycles - 1
      <4>1. SLEEP \in Nat \ {0} /\ RATE \in Nat \ {0} /\ (SLEEP + 1) * RATE < Cycles
        BY FsecsAssumption DEF Cycles
      <4>2. (SLEEP + 1) * RATE = SLEEP * RATE + RATE /\ SLEEP * RATE \in Nat
        BY <4>1
      <4> QED
        BY <4>1, <4>2, Wide
    <3>3. get_counter((now + SLEEP * RATE) % Cycles) = SLEEP * RATE
      BY <2>3, <3>2, CounterCounts DEF Counts, Basic, ClockOK
    <3> QED
      BY <3>1, <3>3 DEF Counts
  <2> QED
    BY <1>1, <2>2, <2>3 DEF init_fsecs
<1>2. ASSUME Fcycs PROVE Counts'
  <2>0. Mhz' = Mhz /\ build' = build /\ FcycStep
    BY <1>2 DEF Fcycs
  <2>1. pc \in FcycPlaces
    BY <2>0 DEF FcycStep, fcyc, Prepares, Starts, StartsTick, StartsCounter, Runs,
                Stops, Callibrates, ReadsCounter, ReadsTicks, FcycPlaces
  <2>2. Mhz' = SLEEP * RATE
    BY <2>0, <2>1 DEF Counts, FcycPlaces, Basic, Places
  <2>3. CASE StartsCounter
    <3>1. cyc' = access_counter(now') /\ pc' = "run"
      BY <2>3, CyclePasses DEF StartsCounter, Basic
    <3> QED
      BY <2>2, <3>1 DEF Counts
  <2>4. CASE Runs
    <3>1. PICK d \in Durations, c \in TickCosts :
            /\ PassesWith(d, c, {})
            /\ elapsed' = d + Interrupts(d) * c
      BY <2>4 DEF Runs
    <3>2. get_counter(now') = d + Interrupts(d) * c
      BY <2>4, <3>1, FunctionRuns DEF Runs, Counts, Basic
    <3>3. count' = get_counter(now') /\ pc' = "stop"
      BY <2>4 DEF Runs
    <3> QED
      BY <2>2, <3>1, <3>2, <3>3 DEF Counts
  <2>5. CASE ~ StartsCounter /\ ~ Runs
    <3>1. pc' \notin {"sleep", "run", "stop"}
      <4>1. Stops => pc' \in {"return", "sample"}
        BY Zenon DEF Stops, add_sample
      <4>2. ReadsCounter => pc' \in {"times", "read"}
        BY Zenon DEF ReadsCounter
      <4>3. ReadsTicks => pc' \in {"read", "start_tick"}
        BY Zenon DEF ReadsTicks
      <4> QED
        BY <2>0, <2>5, <4>1, <4>2, <4>3
           DEF FcycStep, fcyc, Prepares, clear, Starts, StartsTick, Callibrates
    <3> QED
      BY <2>2, <3>1 DEF Counts
  <2> QED
    BY <2>3, <2>4, <2>5
<1>3. ASSUME Sets \/ FcycReturns \/ fsecs \/ TimedRun \/ TimerReturns
      PROVE  Counts'
  <2>1. /\ Mhz' = Mhz /\ build' = build
        /\ pc \notin {"init", "sleep", "exit"}
        /\ pc' \notin {"sleep", "run", "stop"}
    BY <1>3 DEF Sets, FcycReturns, fsecs, TimedRun, TimerReturns
  <2> QED
    BY <2>1 DEF Counts
<1> QED
  BY <1>1, <1>2, <1>3 DEF Next, Step

(* get_counter counts exactly, wherever the counter stood.                 *)
LEMMA CountsInvariance == Spec => []Counts
<1>1. Init => Counts
  BY DEF Init, Counts
<1>2. Basic /\ Counts /\ [Next]_vars => Counts'
  <2>1. ASSUME Counts, UNCHANGED vars PROVE Counts'
    BY <2>1 DEF Counts, vars, fcycs, clocks, sampler
  <2> QED
    BY <2>1, StepCounts
<1> QED
  BY <1>1, <1>2, BasicInvariance, PTL DEF Spec

(* get_counter (clock.c) returns the cycles that went by since             *)
(* start_counter, for every width of the two words and every start: also   *)
(* when the low word, or the whole counter, wraps around in between.       *)
THEOREM CounterAlwaysExact == Spec => []CounterExact
<1>1. Counts => CounterExact
  BY DEF Counts, CounterExact
<1> QED
  BY <1>1, CountsInvariance, PTL

-----------------------------------------------------------------------------
(* The K best samples                                                      *)

Ascending(vs, m) == \A i, j \in 1 .. m : i < j => vs[i] <= vs[j]

(* values[pos] moves to a place below, and what is larger up by one.       *)
MovesTo(K, vs, pos, to) ==
  /\ \A k \in 1 .. to - 1 : vs[k] <= vs[pos]
  /\ \A k \in to .. pos - 1 : vs[k] > vs[pos]
  /\ Inserted(vs, pos) =
       [k \in 1 .. K |-> IF k = to THEN vs[pos]
                         ELSE IF to < k /\ k <= pos THEN vs[k - 1]
                         ELSE vs[k]]

(* The loop of add_sample moves values[pos] behind the last one that is    *)
(* not larger.                                                             *)
LEMMA Insertion ==
  ASSUME NEW K \in Nat, NEW vs \in [1 .. K -> Int], NEW pos \in 1 .. K,
         Ascending(vs, pos - 1)
  PROVE  \E to \in 1 .. pos : MovesTo(K, vs, pos, to)
<1> DEFINE below == {k \in 1 .. pos - 1 : vs[k] > vs[pos]}
<1>1. PICK to \in below \cup {pos} : \A k \in below \cup {pos} : to <= k
  <2>1. below \cup {pos} \subseteq Nat /\ below \cup {pos} # {}
    OBVIOUS
  <2> QED
    BY <2>1, LeastNumber
<1>2. to \in 1 .. pos /\ pos \in Int
  BY <1>1
<1>3. \A k \in 1 .. to - 1 : vs[k] <= vs[pos]
  <2> TAKE k \in 1 .. to - 1
  <2>1. k \in 1 .. pos - 1 /\ k \notin below
    BY <1>1, <1>2
  <2>2. vs[k] \in Int /\ vs[pos] \in Int
    BY <2>1
  <2> QED
    BY <2>1, <2>2
<1>4. \A k \in to .. pos - 1 : vs[k] > vs[pos]
  <2> TAKE k \in to .. pos - 1
  <2>1. to \in 1 .. pos - 1 /\ k \in 1 .. pos - 1 /\ to <= k
    BY <1>2
  <2>2. vs[to] > vs[pos]
    BY <1>1, <2>1
  <2>3. vs[to] <= vs[k]
    <3>1. vs[to] \in Int
      BY <2>1
    <3> QED
      BY <2>1, <3>1 DEF Ascending
  <2>4. vs[k] \in Int /\ vs[pos] \in Int /\ vs[to] \in Int
    BY <2>1
  <2> QED
    BY <2>2, <2>3, <2>4
<1>5. below = to .. pos - 1
  <2>1. \A k \in below : k \in to .. pos - 1
    BY <1>1, <1>2
  <2>2. \A k \in to .. pos - 1 : k \in below
    BY <1>2, <1>4
  <2> QED
    BY <2>1, <2>2
<1> HIDE DEF below
<1>6. pos - Cardinality(below) = to
  <2>1. Cardinality(to .. pos - 1) =
          IF to > pos - 1 THEN 0 ELSE pos - 1 - to + 1
    <3>1. to \in Int /\ pos - 1 \in Int
      BY <1>2
    <3> QED
      BY <3>1, FS_Interval
  <2> QED
    BY <1>2, <1>5, <2>1
<1>7. Inserted(vs, pos) =
        [k \in DOMAIN vs |-> IF k = pos - Cardinality(below) THEN vs[pos]
                             ELSE IF pos - Cardinality(below) < k /\ k <= pos
                             THEN vs[k - 1] ELSE vs[k]]
  BY DEF Inserted, below
<1>8. MovesTo(K, vs, pos, to)
  BY <1>3, <1>4, <1>6, <1>7 DEF MovesTo
<1> QED
  BY <1>2, <1>8

(* at tells which samples the first m of vs are. *)
BestAt(vs, m, ss, at) ==
  /\ at \in Injection(1 .. m, DOMAIN ss)
  /\ \A i \in 1 .. m : vs[i] = ss[at[i]]
  /\ \A k \in DOMAIN ss \ Range(at) : \A i \in 1 .. m : vs[i] <= ss[k]

LEMMA BestIs ==
  ASSUME NEW vs, NEW m, NEW ss
  PROVE  Best(vs, m, ss) <=> Ascending(vs, m) /\ \E at : BestAt(vs, m, ss, at)
BY DEF Best, BestAt, Ascending

(* A sample that is put behind the best ones, and is no larger than the    *)
(* others, is moved to its place.                                          *)
LEMMA BestInserted ==
  ASSUME NEW K \in Nat, NEW vs \in [1 .. K -> Int], NEW pos \in 1 .. K,
         NEW ss \in Seq(Int), NEW at, Ascending(vs, pos - 1),
         BestAt(vs, pos - 1, ss, at),
         \A k \in DOMAIN ss \ Range(at) : vs[pos] <= ss[k]
  PROVE  /\ Inserted(vs, pos) \in [1 .. K -> Int]
         /\ \A k \in pos + 1 .. K : Inserted(vs, pos)[k] = vs[k]
         /\ Best(Inserted(vs, pos), pos, Append(ss, vs[pos]))
<1> DEFINE ws == Inserted(vs, pos)
           ts == Append(ss, vs[pos])
<1>1. PICK to \in 1 .. pos :
        /\ \A k \in 1 .. to - 1 : vs[k] <= vs[pos]
        /\ \A k \in to .. pos - 1 : vs[k] > vs[pos]
        /\ ws = [k \in 1 .. K |-> IF k = to THEN vs[pos]
                                  ELSE IF to < k /\ k <= pos THEN vs[k - 1]
                                  ELSE vs[k]]
  <2>1. PICK to \in 1 .. pos : MovesTo(K, vs, pos, to)
    BY Insertion
  <2> QED
    BY <2>1 DEF MovesTo
<1> HIDE DEF ws
<1>2. /\ to \in Nat /\ pos \in Nat /\ 1 <= to /\ to <= pos /\ pos <= K
      /\ vs[pos] \in Int
  OBVIOUS
<1>3. ws \in [1 .. K -> Int]
  BY <1>1, <1>2
<1>4. \A k \in pos + 1 .. K : ws[k] = vs[k]
  BY <1>1, <1>2
<1>5. /\ ts \in Seq(Int) /\ Len(ts) = Len(ss) + 1
      /\ \A k \in 1 .. Len(ss) : ts[k] = ss[k]
      /\ ts[Len(ss) + 1] = vs[pos] /\ DOMAIN ts = 1 .. Len(ss) + 1
      /\ DOMAIN ss = 1 .. Len(ss) /\ Len(ss) \in Nat
  BY <1>2, AppendProperties
<1> HIDE DEF ts
<1>6. /\ at \in [1 .. pos - 1 -> 1 .. Len(ss)]
      /\ \A i, j \in 1 .. pos - 1 : at[i] = at[j] => i = j
      /\ \A i \in 1 .. pos - 1 : vs[i] = ss[at[i]]
  BY <1>5 DEF BestAt, Injection, IsInjective
<1>7. \A k \in 1 .. pos :
        ws[k] = IF k = to THEN vs[pos] ELSE IF to < k THEN vs[k - 1] ELSE vs[k]
  BY <1>1, <1>2
<1>8. Ascending(ws, pos)
  <2> SUFFICES ASSUME NEW i \in 1 .. pos, NEW j \in 1 .. pos, i < j
               PROVE  ws[i] <= ws[j]
    BY DEF Ascending
  <2>1. \A k \in 1 .. pos : vs[k] \in Int
    BY <1>2
  <2>2. \A k, l \in 1 .. pos - 1 : k <= l => vs[k] <= vs[l]
    <3> TAKE k, l \in 1 .. pos - 1
    <3>1. CASE k = l
      BY <1>2, <2>1, <3>1
    <3>2. CASE k < l
      BY <3>2 DEF Ascending
    <3> QED
      BY <3>1, <3>2
  <2>3. CASE j < to
    BY <1>2, <1>7, <2>2, <2>3
  <2>4. CASE j = to
    BY <1>1, <1>2, <1>7, <2>4
  <2>5. CASE j > to /\ i < to
    <3>1. i \in 1 .. pos - 1 /\ j - 1 \in 1 .. pos - 1 /\ i <= j - 1
      BY <1>2, <2>5
    <3>2. ws[i] = vs[i] /\ ws[j] = vs[j - 1]
      BY <1>2, <1>7, <2>5
    <3> QED
      BY <2>2, <3>1, <3>2
  <2>6. CASE j > to /\ i = to
    <3>1. j - 1 \in to .. pos - 1
      BY <1>2, <2>6
    <3>2. vs[j - 1] > vs[pos] /\ vs[j - 1] \in Int
      BY <1>1, <1>2, <2>1, <3>1
    <3> QED
      BY <1>2, <1>7, <2>6, <3>2
  <2>7. CASE j > to /\ i > to
    <3>1. i - 1 \in 1 .. pos - 1 /\ j - 1 \in 1 .. pos - 1 /\ i - 1 <= j - 1
      BY <1>2, <2>7
    <3>2. ws[i] = vs[i - 1] /\ ws[j] = vs[j - 1]
      BY <1>2, <1>7, <2>7
    <3> QED
      BY <2>2, <3>1, <3>2
  <2> QED
    BY <1>2, <2>3, <2>4, <2>5, <2>6, <2>7
<1> DEFINE new == [k \in 1 .. pos |->
                     IF k = to THEN Len(ss) + 1
                     ELSE IF to < k THEN at[k - 1] ELSE at[k]]
<1>9. new \in [1 .. pos -> 1 .. Len(ss) + 1]
  <2>1. \A k \in 1 .. pos - 1 : at[k] \in 1 .. Len(ss) + 1
    BY <1>5, <1>6, SMTT(30)
  <2> QED
    BY <1>2, <1>5, <2>1, SMTT(30)
<1>10. \A i, j \in 1 .. pos : new[i] = new[j] => i = j
  <2> TAKE i, j \in 1 .. pos
  <2>1. \A k \in 1 .. pos - 1 : at[k] # Len(ss) + 1
    BY <1>5, <1>6
  <2>2. CASE i = to \/ j = to
    BY <1>2, <2>1, <2>2
  <2>3. CASE i # to /\ j # to
    <3> DEFINE p == IF to < i THEN i - 1 ELSE i
               q == IF to < j THEN j - 1 ELSE j
    <3>1. p \in 1 .. pos - 1 /\ q \in 1 .. pos - 1
      BY <1>2, <2>3
    <3>2. new[i] = at[p] /\ new[j] = at[q]
      BY <2>3
    <3>3. p = q => i = j
      BY <1>2, <2>3
    <3> QED
      BY <1>6, <3>1, <3>2, <3>3, SMTT(30)
  <2> QED
    BY <2>2, <2>3
<1>11. \A i \in 1 .. pos : ws[i] = ts[new[i]]
  <2> TAKE i \in 1 .. pos
  <2>1. CASE i = to
    BY <1>5, <1>7, <2>1
  <2>2. CASE i > to
    <3>1. i - 1 \in 1 .. pos - 1
      BY <1>2, <2>2
    <3>2. ws[i] = vs[i - 1] /\ new[i] = at[i - 1]
      BY <1>2, <1>7, <2>2
    <3>3. vs[i - 1] = ss[at[i - 1]] /\ at[i - 1] \in 1 .. Len(ss)
      BY <1>6, <3>1
    <3> QED
      BY <1>5, <3>2, <3>3
  <2>3. CASE i < to
    <3>1. i \in 1 .. pos - 1
      BY <1>2, <2>3
    <3>2. ws[i] = vs[i] /\ new[i] = at[i]
      BY <1>2, <1>7, <2>3
    <3> QED
      BY <1>5, <1>6, <3>1, <3>2, SMTT(30)
  <2> QED
    BY <1>2, <2>1, <2>2, <2>3
<1>12. \A k \in DOMAIN ts \ Range(new) : \A i \in 1 .. pos : ws[i] <= ts[k]
  <2> TAKE k \in DOMAIN ts \ Range(new)
  <2>1. k # Len(ss) + 1
    <3>1. new[to] = Len(ss) + 1 /\ to \in DOMAIN new
      OBVIOUS
    <3> QED
      BY <3>1 DEF Range
  <2>2. k \in DOMAIN ss /\ ts[k] = ss[k]
    BY <1>5, <2>1, SMTT(30)
  <2>3. k \notin Range(at)
    <3>1. SUFFICES ASSUME NEW j \in 1 .. pos - 1, at[j] = k PROVE FALSE
      BY <1>6 DEF Range
    <3>2. CASE j < to
      <4>1. j \in DOMAIN new /\ new[j] = k
        BY <1>2, <3>1, <3>2
      <4> QED
        BY <4>1 DEF Range
    <3>3. CASE j >= to
      <4>1. j + 1 \in 1 .. pos /\ j + 1 > to /\ j + 1 # to /\ (j + 1) - 1 = j
        BY <1>2, <3>3, SMTT(30)
      <4>2. j + 1 \in DOMAIN new /\ new[j + 1] = k
        BY <3>1, <4>1
      <4> QED
        BY <4>2 DEF Range
    <3> QED
      BY <1>2, <3>2, <3>3
  <2>4. vs[pos] <= ss[k] /\ \A i \in 1 .. pos - 1 : vs[i] <= ss[k]
    BY <2>2, <2>3 DEF BestAt
  <2> TAKE i \in 1 .. pos
  <2>5. ws[i] = vs[pos] \/ \E j \in 1 .. pos - 1 : ws[i] = vs[j]
    <3>1. CASE i = to
      BY <1>7, <3>1
    <3>2. CASE i > to
      <4>1. i - 1 \in 1 .. pos - 1 /\ ws[i] = vs[i - 1]
        BY <1>2, <1>7, <3>2
      <4> QED
        BY <4>1
    <3>3. CASE i < to
      <4>1. i \in 1 .. pos - 1 /\ ws[i] = vs[i]
        BY <1>2, <1>7, <3>3
      <4> QED
        BY <4>1
    <3> QED
      BY <1>2, <3>1, <3>2, <3>3
  <2> QED
    BY <2>2, <2>4, <2>5
<1> HIDE DEF new
<1>13. BestAt(ws, pos, ts, new)
  BY <1>5, <1>9, <1>10, <1>11, <1>12, ZenonT(60) DEF BestAt, Injection, IsInjective
<1>14. Best(ws, pos, ts)
  BY <1>8, <1>13, BestIs
<1> QED
  BY <1>3, <1>4, <1>14 DEF ws, ts

(* The first samples, until there are K, are all among the best.           *)
LEMMA BestAll ==
  ASSUME NEW ss \in Seq(Int), NEW at \in Injection(1 .. Len(ss), DOMAIN ss)
  PROVE  DOMAIN ss \ Range(at) = {}
<1>1. Len(ss) \in Nat /\ DOMAIN ss = 1 .. Len(ss)
  OBVIOUS
<1>2. IsFiniteSet(1 .. Len(ss))
  BY <1>1, FS_Interval
<1>3. at \in Surjection(1 .. Len(ss), 1 .. Len(ss))
  BY <1>1, <1>2, FS_Injection
<1>4. at \in [1 .. Len(ss) -> 1 .. Len(ss)]
      /\ \A t \in 1 .. Len(ss) : \E k \in 1 .. Len(ss) : at[k] = t
  BY <1>3 DEF Surjection
<1> QED
  BY <1>1, <1>4 DEF Range

(* How many of the samples are kept. *)
Held(taken, K) == IF taken < K THEN taken ELSE K

(* What add_sample (fcyc.c) keeps of the array when it has taken ss.       *)
KeepsBest(vs, K, ss) ==
  /\ vs \in [1 .. K -> Int] /\ ss \in Seq(Int)
  /\ Best(vs, Held(Len(ss), K), ss)
  /\ \A k \in Held(Len(ss), K) + 1 .. K : vs[k] = 0

(* One more sample, before there are K, after, or when it is too large.    *)
LEMMA AddedBest ==
  ASSUME set.kbest \in Nat \ {0}, samplecount = Len(samples),
         KeepsBest(values, set.kbest, samples), NEW val \in Int
  PROVE  KeepsBest(Added(val), set.kbest, Append(samples, val))
<1> DEFINE K == set.kbest
           ts == Append(samples, val)
<1>1. /\ K \in Nat \ {0} /\ values \in [1 .. K -> Int] /\ samples \in Seq(Int)
      /\ Len(samples) \in Nat /\ DOMAIN samples = 1 .. Len(samples)
  BY DEF KeepsBest
<1>2. /\ ts \in Seq(Int) /\ Len(ts) = Len(samples) + 1
      /\ \A k \in 1 .. Len(samples) : ts[k] = samples[k]
      /\ ts[Len(samples) + 1] = val /\ DOMAIN ts = 1 .. Len(samples) + 1
  BY <1>1, AppendProperties
<1>3. CASE samplecount < K
  <2> DEFINE pos == samplecount + 1
             vs == [values EXCEPT ![pos] = val]
  <2>1. /\ pos \in 1 .. K /\ pos - 1 = Len(samples)
        /\ Held(Len(samples), K) = Len(samples) /\ Held(Len(ts), K) = pos
    BY <1>1, <1>2, <1>3 DEF Held
  <2>2. PICK at : BestAt(values, pos - 1, samples, at)
    BY <2>1, BestIs DEF KeepsBest
  <2>3. Ascending(values, pos - 1)
    BY <2>1, BestIs DEF KeepsBest
  <2>4. /\ vs \in [1 .. K -> Int] /\ vs[pos] = val
        /\ \A k \in 1 .. K : k # pos => vs[k] = values[k]
    BY <1>1, <2>1
  <2> HIDE DEF vs
  <2>5. \A k \in 1 .. pos - 1 : vs[k] = values[k]
    BY <2>1, <2>4
  <2>6. Ascending(vs, pos - 1)
    BY <2>3, <2>5 DEF Ascending
  <2>7. BestAt(vs, pos - 1, samples, at)
    BY <2>2, <2>5 DEF BestAt
  <2>8. DOMAIN samples \ Range(at) = {}
    BY <1>1, <2>1, <2>2, BestAll DEF BestAt
  <2>9. /\ Inserted(vs, pos) \in [1 .. K -> Int]
        /\ \A k \in pos + 1 .. K : Inserted(vs, pos)[k] = vs[k]
        /\ Best(Inserted(vs, pos), pos, Append(samples, vs[pos]))
    BY <1>1, <2>1, <2>4, <2>6, <2>7, <2>8, BestInserted
  <2>10. Added(val) = Inserted(vs, pos)
    BY <1>3 DEF Added, vs
  <2>11. \A k \in pos + 1 .. K : vs[k] = 0
    <3> TAKE k \in pos + 1 .. K
    <3>1. k \in Held(Len(samples), K) + 1 .. K /\ k \in 1 .. K /\ k # pos
      BY <1>1, <2>1
    <3> QED
      BY <2>4, <3>1 DEF KeepsBest
  <2> QED
    BY <1>2, <2>1, <2>4, <2>9, <2>10, <2>11 DEF KeepsBest
<1>4. CASE ~ (samplecount < K)
  <2>1. /\ Held(Len(samples), K) = K /\ Held(Len(ts), K) = K
        /\ K \in 1 .. K /\ K - 1 \in Nat /\ K \in Nat
    BY <1>1, <1>2, <1>4 DEF Held
  <2>2. PICK at : BestAt(values, K, samples, at)
    BY <2>1, BestIs DEF KeepsBest
  <2>3. Ascending(values, K)
    BY <2>1, BestIs DEF KeepsBest
  <2>4. /\ at \in [1 .. K -> 1 .. Len(samples)]
        /\ \A i, j \in 1 .. K : at[i] = at[j] => i = j
        /\ \A i \in 1 .. K : values[i] = samples[at[i]]
        /\ \A k \in DOMAIN samples \ Range(at) :
             \A i \in 1 .. K : values[i] <= samples[k]
    BY <1>1, <2>2 DEF BestAt, Injection, IsInjective
  <2>5. CASE val < values[K]
    <3> DEFINE vs == [values EXCEPT ![K] = val]
               less == [i \in 1 .. K - 1 |-> at[i]]
    <3>1. /\ vs \in [1 .. K -> Int] /\ vs[K] = val
          /\ \A k \in 1 .. K - 1 : vs[k] = values[k]
      BY <1>1, <2>1
    <3> HIDE DEF vs
    <3>2. Ascending(vs, K - 1)
      BY <1>1, <2>3, <3>1 DEF Ascending
    <3>3. less \in Injection(1 .. K - 1, DOMAIN samples)
      <4>1. less \in [1 .. K - 1 -> DOMAIN samples]
        BY <1>1, <2>1, <2>4
      <4>2. \A i, j \in 1 .. K - 1 : less[i] = less[j] => i = j
        BY <2>1, <2>4
      <4> QED
        BY <4>1, <4>2 DEF Injection, IsInjective
    <3>4. \A k \in DOMAIN samples \ Range(less) : values[K] <= samples[k]
      <4> TAKE k \in DOMAIN samples \ Range(less)
      <4>1. CASE k \notin Range(at)
        BY <2>1, <2>4, <4>1
      <4>2. CASE k \in Range(at)
        <5>1. PICK i \in 1 .. K : at[i] = k
          BY <2>4, <4>2 DEF Range
        <5>2. i \notin 1 .. K - 1
          BY <5>1 DEF Range
        <5>3. i = K
          BY <2>1, <5>2
        <5>4. values[K] = samples[k] /\ values[K] \in Int
          BY <1>1, <2>1, <2>4, <5>1, <5>3
        <5> QED
          BY <5>4
      <4> QED
        BY <4>1, <4>2
    <3>5. \A i \in 1 .. K - 1 : values[i] <= values[K]
      BY <2>1, <2>3 DEF Ascending
    <3>6. \A k \in 1 .. K : values[k] \in Int
      BY <1>1
    <3>7. \A k \in DOMAIN samples : samples[k] \in Int
      BY <1>1
    <3>8. \A k \in DOMAIN samples \ Range(less) :
            vs[K] <= samples[k] /\ \A i \in 1 .. K - 1 : vs[i] <= samples[k]
      <4> TAKE k \in DOMAIN samples \ Range(less)
      <4>1. values[K] <= samples[k] /\ values[K] \in Int /\ samples[k] \in Int
        BY <2>1, <3>4, <3>6, <3>7
      <4>2. vs[K] <= samples[k]
        BY <2>5, <3>1, <4>1
      <4>3. \A i \in 1 .. K - 1 : vs[i] <= samples[k]
        <5> TAKE i \in 1 .. K - 1
        <5>1. values[i] \in Int /\ vs[i] = values[i] /\ values[i] <= values[K]
          BY <2>1, <3>1, <3>5, <3>6
        <5> QED
          BY <4>1, <5>1
      <4> QED
        BY <4>2, <4>3
    <3>9. \A i \in 1 .. K - 1 : vs[i] = samples[less[i]]
      BY <2>1, <2>4, <3>1
    <3> HIDE DEF less
    <3>10. BestAt(vs, K - 1, samples, less)
      BY <3>3, <3>8, <3>9 DEF BestAt
    <3>11. /\ Inserted(vs, K) \in [1 .. K -> Int]
           /\ Best(Inserted(vs, K), K, Append(samples, vs[K]))
      BY <1>1, <2>1, <3>1, <3>2, <3>8, <3>10, BestInserted, ZenonT(60)
    <3>12. Added(val) = Inserted(vs, K)
      BY <1>4, <2>5 DEF Added, vs
    <3>13. \A k \in K + 1 .. K : Added(val)[k] = 0
      BY <2>1
    <3> QED
      BY <1>2, <2>1, <3>1, <3>11, <3>12, <3>13 DEF KeepsBest
  <2>6. CASE ~ (val < values[K])
    <3>1. Added(val) = values
      BY <1>4, <2>6 DEF Added
    <3>2. \A i \in 1 .. K : values[i] <= val
      <4> TAKE i \in 1 .. K
      <4>1. values[i] \in Int /\ values[K] \in Int
        BY <1>1, <2>1
      <4>2. i = K \/ values[i] <= values[K]
        BY <2>1, <2>3 DEF Ascending
      <4> QED
        BY <2>6, <4>1, <4>2
    <3>3. \A i \in 1 .. K : values[i] = ts[at[i]]
      BY <1>2, <2>4
    <3>4. \A k \in DOMAIN ts \ Range(at) : \A i \in 1 .. K : values[i] <= ts[k]
      <4> TAKE k \in DOMAIN ts \ Range(at)
      <4>1. CASE k = Len(samples) + 1
        BY <1>2, <3>2, <4>1
      <4>2. CASE k # Len(samples) + 1
        <5>1. k \in DOMAIN samples /\ ts[k] = samples[k]
          BY <1>1, <1>2, <4>2
        <5> QED
          BY <2>4, <5>1
      <4> QED
        BY <4>1, <4>2
    <3>5. at \in [1 .. K -> DOMAIN ts]
      BY <1>1, <1>2, <2>4
    <3>6. BestAt(values, K, ts, at)
      BY <2>4, <3>3, <3>4, <3>5 DEF BestAt, Injection, IsInjective
    <3>7. Best(values, K, ts)
      BY <2>3, <3>6, BestIs
    <3> HIDE DEF ts
    <3>8. \A k \in K + 1 .. K : values[k] = 0
      BY <2>1
    <3>9. KeepsBest(values, K, ts)
      BY <1>1, <1>2, <2>1, <3>7, <3>8 DEF KeepsBest
    <3> QED
      BY <3>1, <3>9 DEF ts
  <2> QED
    BY <2>5, <2>6
<1> QED
  BY <1>3, <1>4

(* The first of the values is the least sample.                            *)
LEMMA FirstIsLeast ==
  ASSUME NEW vs, NEW K \in Nat \ {0}, NEW ss, KeepsBest(vs, K, ss), ss # <<>>
  PROVE  vs[1] = Min(Range(ss))
<1> DEFINE m == Held(Len(ss), K)
<1>1. /\ vs \in [1 .. K -> Int] /\ ss \in Seq(Int) /\ Len(ss) \in Nat \ {0}
      /\ DOMAIN ss = 1 .. Len(ss)
  BY DEF KeepsBest
<1>2. m \in Nat \ {0} /\ m <= K /\ 1 \in 1 .. m
  BY <1>1 DEF Held
<1>3. Best(vs, m, ss)
  BY DEF KeepsBest
<1> HIDE DEF m
<1>4. PICK at : BestAt(vs, m, ss, at)
  BY <1>3, BestIs
<1>5. Ascending(vs, m)
  BY <1>3, BestIs
<1>6. at \in [1 .. m -> DOMAIN ss] /\ \A i \in 1 .. m : vs[i] = ss[at[i]]
  BY <1>4 DEF BestAt, Injection
<1>7. vs[1] \in Range(ss) /\ vs[1] \in Int
  <2>1. at[1] \in DOMAIN ss /\ vs[1] = ss[at[1]]
    BY <1>2, <1>6
  <2> QED
    BY <1>1, <2>1 DEF Range
<1>8. \A k \in DOMAIN ss : vs[1] <= ss[k]
  <2> TAKE k \in DOMAIN ss
  <2>1. CASE k \notin Range(at)
    BY <1>2, <1>4, <2>1 DEF BestAt
  <2>2. CASE k \in Range(at)
    <3>1. PICK i \in 1 .. m : at[i] = k
      BY <1>6, <2>2 DEF Range
    <3>2. i = 1 \/ vs[1] <= vs[i]
      BY <1>2, <1>5 DEF Ascending
    <3> QED
      BY <1>6, <1>7, <3>1, <3>2
  <2> QED
    BY <2>1, <2>2
<1>9. \A y \in Range(ss) : vs[1] <= y /\ y \in Int
  BY <1>1, <1>8 DEF Range
<1>10. \A x \in Range(ss) : (\A y \in Range(ss) : x <= y) => x = vs[1]
  BY <1>7, <1>9
<1>11. /\ Min(Range(ss)) \in Range(ss)
       /\ \A y \in Range(ss) : Min(Range(ss)) <= y
  BY <1>7, <1>9, Zenon DEF Min
<1> QED
  BY <1>10, <1>11

-----------------------------------------------------------------------------
(* The samples of a call                                                   *)

Most == Max(Settings["maxsamples"] \cup {1})

(* The loop of fcyc takes one sample, whatever maxsamples is, and then no  *)
(* more than that.                                                         *)
Sampled ==
  /\ samplecount \in 0 .. Most
  /\ \A k \in DOMAIN values : values[k] \in Int
  /\ pc \in FcycPlaces \ {"fcyc"} =>
       /\ samplecount = Len(samples)
       /\ KeepsBest(values, set.kbest, samples)
       /\ pc # "return" => samplecount = 0 \/ samplecount < set.maxsamples
  /\ pc = "return" => samples # <<>>

(* There is a greatest number of samples.                                  *)
LEMMA MostOK ==
  Most \in Nat /\ 1 <= Most /\ \A v \in Settings["maxsamples"] : v <= Most
<1> DEFINE S == Settings["maxsamples"] \cup {1}
<1>1. /\ Settings["maxsamples"] \subseteq Nat
      /\ Max(Settings["maxsamples"]) \in Settings["maxsamples"]
      /\ \A v \in Settings["maxsamples"] : v <= Max(Settings["maxsamples"])
  BY SettingsOK DEF Parameters
<1>2. \E x \in S : \A y \in S : x >= y
  <2>1. PICK t \in Settings["maxsamples"] : \A v \in Settings["maxsamples"] : v <= t
    BY <1>1
  <2>2. t \in Nat
    BY <1>1
  <2>3. CASE t >= 1
    <3>1. \A y \in S : t >= y
      BY <1>1, <2>1, <2>2, <2>3
    <3> QED
      BY <3>1
  <2>4. CASE t < 1
    <3>1. \A y \in S : 1 >= y
      BY <1>1, <2>1, <2>2, <2>4
    <3> QED
      BY <3>1
  <2> QED
    BY <2>2, <2>3, <2>4
<1>3. Most \in S /\ \A y \in S : Most >= y
  BY <1>2, Zenon DEF Max, Most
<1>4. S \subseteq Nat
  BY <1>1
<1> QED
  BY <1>3, <1>4

(* No samples, and K zeros.                                                *)
LEMMA KeepsNone ==
  ASSUME NEW K \in Nat
  PROVE  KeepsBest([k \in 1 .. K |-> 0], K, <<>>)
<1> DEFINE vs == [k \in 1 .. K |-> 0]
           at == [k \in 1 .. 0 |-> 0]
<1>1. vs \in [1 .. K -> Int] /\ Held(Len(<<>>), K) = 0 /\ <<>> \in Seq(Int)
  BY DEF Held
<1>2. BestAt(vs, 0, <<>>, at)
  BY DEF BestAt, Injection, IsInjective
<1>3. Ascending(vs, 0)
  BY DEF Ascending
<1>4. Best(vs, 0, <<>>)
  BY <1>2, <1>3, BestIs
<1> QED
  BY <1>1, <1>4 DEF KeepsBest

(* K is never zero.                                                        *)
LEMMA SomeBest ==
  ASSUME Basic
  PROVE  /\ set.kbest \in Nat \ {0}
         /\ set.maxsamples \in Settings["maxsamples"] /\ set.maxsamples \in Nat
<1>1. "kbest" \in Parameters /\ "maxsamples" \in Parameters
  BY DEF Parameters
<1> QED
  BY <1>1, FcycAssumption DEF Basic, ConfigOK

(* add_sample keeps the best and ends the loop in time.                    *)
LEMMA AddSampleSampled ==
  ASSUME Basic, Sampled, pc = "stop", set' = set, NEW val \in Int,
         add_sample(val)
  PROVE  Sampled'
<1>1. /\ set.kbest \in Nat \ {0} /\ set.maxsamples \in Nat
      /\ set.maxsamples <= Most /\ Most \in Nat /\ 1 <= Most
  BY SomeBest, MostOK
<1>2. /\ samplecount = Len(samples) /\ KeepsBest(values, set.kbest, samples)
      /\ samplecount = 0 \/ samplecount < set.maxsamples
      /\ samplecount \in Nat
  BY DEF Sampled, FcycPlaces
<1>3. /\ values' = Added(val) /\ samplecount' = samplecount + 1
      /\ samples' = Append(samples, val)
      /\ pc' \in {"return", "sample"}
      /\ pc' = "sample" => ~ (samplecount' >= set.maxsamples)
  <2>1. pc' = IF \/ has_converged(values', samplecount')
                 \/ samplecount' >= set.maxsamples
              THEN "return" ELSE "sample"
    BY DEF add_sample
  <2>2. "return" # "sample"
    OBVIOUS
  <2> QED
    BY <2>1, <2>2, Zenon DEF add_sample
<1>4. KeepsBest(values', set.kbest, samples')
  BY <1>1, <1>2, <1>3, AddedBest
<1>5. /\ samples' # <<>> /\ Len(samples') = samplecount'
  BY <1>2, <1>3, AppendProperties DEF KeepsBest
<1>6. samplecount' \in 0 .. Most
  BY <1>1, <1>2, <1>3
<1>7. \A k \in DOMAIN values' : values'[k] \in Int
  BY <1>4 DEF KeepsBest
<1>8. pc' = "sample" => samplecount' < set.maxsamples
  BY <1>1, <1>2, <1>3
<1> QED
  BY <1>3, <1>4, <1>5, <1>6, <1>7, <1>8 DEF Sampled

(* Nobody else touches the samples of a call.                              *)
LEMMA StepSampled ==
  ASSUME Basic, Sampled, Next
  PROVE  Sampled'
<1>1. ASSUME fcyc, UNCHANGED Others PROVE Sampled'
  <2>1. /\ values' = [k \in 1 .. set.kbest |-> 0] /\ samplecount' = 0
        /\ samples' = <<>> /\ pc' = "sample" /\ set' = set
    BY <1>1 DEF fcyc, init_sampler, config
  <2>2. KeepsBest(values', set.kbest, <<>>)
    BY <2>1, SomeBest, KeepsNone
  <2>3. 0 \in 0 .. Most
    BY MostOK
  <2>4. \A k \in DOMAIN values' : values'[k] \in Int
    BY <2>1
  <2> QED
    BY <2>1, <2>2, <2>3, <2>4 DEF Sampled
<1>2. ASSUME Stops PROVE Sampled'
  <2>1. pc = "stop" /\ set' = set
    BY <1>2 DEF Stops, config
  <2>2. CASE set.compensate = 0 /\ add_sample(count)
    <3>1. count \in Int
      BY DEF Basic, NumbersOK
    <3> QED
      BY <2>1, <2>2, <3>1, AddSampleSampled
  <2>3. CASE Passes(1, {}) /\ add_sample(count - ticks' * cyc_per_tick)
    <3>1. ClockOK'
      BY <2>3, CyclePasses DEF Basic
    <3>2. count - ticks' * cyc_per_tick \in Int
      BY <3>1 DEF Basic, NumbersOK, ClockOK
    <3> QED
      BY <2>1, <2>3, <3>2, AddSampleSampled
  <2> QED
    BY <1>2, <2>2, <2>3 DEF Stops
<1>3. ASSUME FcycStep, ~ fcyc, ~ Stops PROVE Sampled'
  <2>1. UNCHANGED <<values, samplecount, samples, set>>
    BY <1>3 DEF FcycStep, Prepares, Starts, StartsTick, StartsCounter, Runs,
                Callibrates, ReadsCounter, ReadsTicks, sampler, config
  <2>2. pc \in FcycPlaces \ {"fcyc", "return"}
    BY <1>3 DEF FcycStep, Prepares, Starts, StartsTick, StartsCounter, Runs,
                Callibrates, ReadsCounter, ReadsTicks, FcycPlaces
  <2>3. pc' # "return"
    <3>1. ReadsCounter => pc' \in {"times", "read"}
      BY Zenon DEF ReadsCounter
    <3>2. ReadsTicks => pc' \in {"read", "start_tick"}
      BY Zenon DEF ReadsTicks
    <3>3. Starts => pc' \in {"start_counter", "callibrate", "start_tick"}
      BY Zenon DEF Starts
    <3>4. Prepares => pc' \in {"exit", "start", "undefined"}
      BY Zenon DEF Prepares, clear
    <3> QED
      BY <1>3, <3>1, <3>2, <3>3, <3>4
         DEF FcycStep, StartsTick, StartsCounter, Runs, Callibrates
  <2> QED
    BY <2>1, <2>2, <2>3 DEF Sampled
<1>4. ASSUME init_fsecs \/ Sets \/ FcycReturns \/ fsecs \/ TimedRun \/ TimerReturns
      PROVE  Sampled'
  <2>1. UNCHANGED <<values, samplecount, samples>>
    BY <1>4 DEF init_fsecs, Sets, FcycReturns, fsecs, TimedRun, TimerReturns,
                fcycs, sampler
  <2>2. pc' \notin FcycPlaces \ {"fcyc"}
    BY <1>4 DEF init_fsecs, Sets, FcycReturns, fsecs, TimedRun, TimerReturns,
                FcycPlaces
  <2> QED
    BY <2>1, <2>2 DEF Sampled, FcycPlaces
<1> QED
  BY <1>1, <1>2, <1>3, <1>4 DEF Next, Step, Fcycs, Others

(* At every place of a call, values are the best of its samples.           *)
LEMMA SampledInvariance == Spec => []Sampled
<1>1. Init => Sampled
  BY MostOK DEF Init, Sampled, FcycPlaces
<1>2. Basic /\ Sampled /\ [Next]_vars => Sampled'
  <2>1. ASSUME Sampled, UNCHANGED vars PROVE Sampled'
    BY <2>1 DEF Sampled, vars, fcycs, config, sampler
  <2> QED
    BY <2>1, StepSampled
<1> QED
  BY <1>1, <1>2, BasicInvariance, PTL DEF Spec

(* add_sample (fcyc.c) keeps the K smallest samples of the call in         *)
(* ascending order, in whatever order they come, for every K; the loop     *)
(* that puts a new one in its place loses none.                            *)
THEOREM KBestAlwaysExact == Spec => []KBestExact
<1>1. Basic /\ Sampled => KBestExact
  <2> SUFFICES ASSUME Basic, Sampled, pc \in {"sample", "run", "return"}
               PROVE  /\ samplecount = Len(samples)
                      /\ Best(values, Held(samplecount, set.kbest), samples)
                      /\ \A k \in Held(samplecount, set.kbest) + 1 .. set.kbest :
                           values[k] = 0
    BY DEF KBestExact, Held
  <2> QED
    BY DEF Sampled, KeepsBest, FcycPlaces
<1> QED
  BY <1>1, BasicInvariance, SampledInvariance, PTL

-----------------------------------------------------------------------------
(* The cost of interrupts                                                  *)

(* The interrupts counted are those since start_tick was read: the one     *)
(* that may fall before start_counter, the function's, and the one that    *)
(* may fall behind the counter's last reading.                             *)
Compensated ==
  set.compensate = 1 =>
    /\ pc = "start_counter" => ticks = 0
    /\ pc = "run" => ticks \in {0, 1}
    /\ pc = "stop" =>
         count - ticks * cyc_per_tick \in {real, real - cyc_per_tick}
    /\ CompensatesEnough

(* get_comp_counter takes off one more interrupt at most than it knew of   *)
(* when the function had run.                                              *)
LEMMA StopsCompensated ==
  ASSUME Basic, Sampled, Compensated, Stops
  PROVE  Compensated'
<1>1. /\ pc = "stop" /\ set' = set /\ cyc_per_tick' = cyc_per_tick /\ real' = real
  BY DEF Stops, config
<1>2. SUFFICES ASSUME set.compensate = 1 PROVE Compensated'
  BY <1>1 DEF Compensated
<1> DEFINE val == count - ticks' * cyc_per_tick
<1>3. Passes(1, {}) /\ add_sample(val)
  BY <1>2 DEF Stops
<1>4. /\ ticks' = ticks + Interrupts(1) /\ Interrupts(1) \in {0, 1}
      /\ ticks \in Nat /\ count \in Nat /\ cyc_per_tick \in Nat /\ real \in Int
  BY <1>3, CyclePasses DEF Basic, NumbersOK, ClockOK
<1>5. ticks' * cyc_per_tick \in
        {ticks * cyc_per_tick, ticks * cyc_per_tick + cyc_per_tick}
  <2>1. CASE Interrupts(1) = 0
    <3>1. ticks' = ticks
      BY <1>4, <2>1
    <3> QED
      BY <1>4, <3>1
  <2>2. CASE Interrupts(1) = 1
    <3>1. ticks' = ticks + 1
      BY <1>4, <2>2
    <3> QED
      BY <1>4, <3>1
  <2> QED
    BY <1>4, <2>1, <2>2
<1>6. count - ticks * cyc_per_tick \in {real, real - cyc_per_tick}
      /\ ticks * cyc_per_tick \in Int
  BY <1>1, <1>2, <1>4 DEF Compensated
<1>7. val \in Int /\ val <= real /\ val >= real - 2 * cyc_per_tick
  BY <1>4, <1>5, <1>6
<1> HIDE DEF val
<1>8. samples' = Append(samples, val) /\ samples \in Seq(Int)
  BY <1>1, <1>3 DEF add_sample, Sampled, KeepsBest, FcycPlaces
<1>9. Last(samples') = val
  BY <1>7, <1>8, AppendProperties DEF Last
<1>10. pc' \in {"return", "sample"}
  BY <1>3, Zenon DEF add_sample
<1> QED
  BY <1>1, <1>7, <1>9, <1>10 DEF Compensated, CompensatesEnough

(* The interrupts of every other step are accounted for where it is.       *)
LEMMA StepCompensated ==
  ASSUME Basic, Counts, Sampled, Compensated, Next
  PROVE  Compensated'
<1>1. ASSUME StartsTick PROVE Compensated'
  <2>1. ticks' = 0 /\ pc' = "start_counter"
    BY <1>1, CyclePasses DEF StartsTick, Basic
  <2> QED
    BY <2>1 DEF Compensated, CompensatesEnough
<1>2. ASSUME StartsCounter PROVE Compensated'
  <2>1. set' = set /\ pc = "start_counter" /\ pc' = "run"
    BY <1>2 DEF StartsCounter, config
  <2>2. set.compensate = 1 => ticks' = ticks + Interrupts(1)
    <3>1. Passes(1, {"counter"} \cup {k \in {"ticks"} : set.compensate = 0})
      BY <1>2 DEF StartsCounter
    <3>2. set.compensate = 1 =>
            "ticks" \notin {"counter"} \cup {k \in {"ticks"} : set.compensate = 0}
      OBVIOUS
    <3> QED
      BY <3>1, <3>2, CyclePasses DEF Basic
  <2>3. Interrupts(1) \in {0, 1}
    BY <1>2, CyclePasses DEF StartsCounter, Basic
  <2> QED
    BY <2>1, <2>2, <2>3 DEF Compensated, CompensatesEnough
<1>3. ASSUME Runs PROVE Compensated'
  <2>1. PICK d \in Durations, c \in TickCosts :
          /\ PassesWith(d, c, {})
          /\ elapsed' = d + Interrupts(d) * c
          /\ real' = elapsed' - Interrupts(d) * cyc_per_tick
    BY <1>3 DEF Runs
  <2>2. /\ pc = "run" /\ pc' = "stop" /\ set' = set /\ count' = get_counter(now')
        /\ cyc_per_tick' = cyc_per_tick
    BY <1>3 DEF Runs, config
  <2>3. /\ Interrupts(d) \in {0, 1} /\ ticks' = ticks + Interrupts(d)
        /\ count' = elapsed' /\ elapsed' \in Nat
    BY <2>1, <2>2, FunctionRuns DEF Basic, Counts
  <2>4. cyc_per_tick \in Nat
    BY DEF Basic, NumbersOK
  <2>5. ASSUME set.compensate = 1
        PROVE  count' - ticks' * cyc_per_tick \in {real', real' - cyc_per_tick}
    <3>1. ticks \in {0, 1}
      BY <2>2, <2>5 DEF Compensated
    <3>2. ticks' * cyc_per_tick =
            Interrupts(d) * cyc_per_tick + (IF ticks = 1 THEN cyc_per_tick ELSE 0)
      <4>1. CASE ticks = 0
        BY <2>3, <2>4, <4>1
      <4>2. CASE ticks = 1
        BY <2>3, <2>4, <4>2
      <4> QED
        BY <3>1, <4>1, <4>2
    <3>3. Interrupts(d) * cyc_per_tick \in Int
      BY <2>3, <2>4
    <3> QED
      BY <2>1, <2>3, <2>4, <3>1, <3>2, <3>3
  <2> QED
    BY <2>2, <2>5 DEF Compensated, CompensatesEnough
<1>4. ASSUME FcycStep, ~ StartsTick, ~ StartsCounter, ~ Runs, ~ Stops
      PROVE  Compensated'
  <2>1. set' = set
    BY <1>4 DEF FcycStep, fcyc, Prepares, Starts, Callibrates, ReadsCounter,
                ReadsTicks, config
  <2>2. CASE set.compensate = 1
    <3>1. pc' \notin {"start_counter", "run", "stop", "return"}
      <4>1. ReadsCounter => pc' \in {"times", "read"}
        BY Zenon DEF ReadsCounter
      <4>2. ReadsTicks => pc' \in {"read", "start_tick"}
        BY Zenon DEF ReadsTicks
      <4>3. Starts => pc' \in {"callibrate", "start_tick"}
        <5>1. 1 # 0
          OBVIOUS
        <5> QED
          BY <2>2, <5>1, Zenon DEF Starts
      <4>4. Prepares => pc' \in {"exit", "start", "undefined"}
        BY Zenon DEF Prepares, clear
      <4> QED
        BY <1>4, <4>1, <4>2, <4>3, <4>4 DEF FcycStep, fcyc, Callibrates
    <3>2. pc' = "sample" => samples' = <<>>
      <4>1. pc' = "sample" => fcyc
        BY <1>4, Zenon DEF FcycStep, Prepares, clear, Starts, Callibrates,
                           ReadsCounter, ReadsTicks
      <4> QED
        BY <4>1 DEF fcyc, init_sampler
    <3> QED
      BY <3>1, <3>2 DEF Compensated, CompensatesEnough
  <2> QED
    BY <2>1, <2>2 DEF Compensated
<1>5. ASSUME init_fsecs \/ Sets \/ FcycReturns \/ fsecs \/ TimedRun \/ TimerReturns
      PROVE  Compensated'
  <2>1. pc' \notin {"start_counter", "run", "stop", "sample", "return"}
    BY <1>5 DEF init_fsecs, Sets, FcycReturns, fsecs, TimedRun, TimerReturns
  <2>2. CompensatesEnough'
    BY <2>1 DEF CompensatesEnough
  <2> QED
    BY <2>1, <2>2 DEF Compensated
<1> QED
  BY <1>1, <1>2, <1>3, <1>4, <1>5, StopsCompensated DEF Next, Step, Fcycs

(* While a function is timed, the interrupts since the readings are known. *)
LEMMA CompensatedInvariance == Spec => []Compensated
<1>1. Init => Compensated
  BY DEF Init, Compensated, CompensatesEnough
<1>2. Basic /\ Counts /\ Sampled /\ Compensated /\ [Next]_vars => Compensated'
  <2>1. ASSUME Compensated, UNCHANGED vars PROVE Compensated'
    BY <2>1 DEF Compensated, CompensatesEnough, vars, fcycs, clocks, config, sampler
  <2> QED
    BY <2>1, StepCompensated
<1> QED
  BY <1>1, <1>2, BasicInvariance, CountsInvariance, SampledInvariance, PTL DEF Spec

(* get_comp_counter (clock.c) takes off the cost of every interrupt whose  *)
(* cycles it has counted, and of no more than two that it has not.         *)
THEOREM AlwaysCompensatesEnough == Spec => []CompensatesEnough
<1>1. Compensated => CompensatesEnough
  <2>1. Compensated /\ set.compensate = 1 => CompensatesEnough
    BY DEF Compensated
  <2>2. set.compensate # 1 => CompensatesEnough
    BY DEF CompensatesEnough
  <2> QED
    BY <2>1, <2>2
<1> QED
  BY <1>1, CompensatedInvariance, PTL

-----------------------------------------------------------------------------
(* The results of fsecs                                                    *)

Whole == MAX_ETIME * USEC

(* The runs since the first reading are what the second one will show.     *)
Timed ==
  /\ left \in 0 .. Whole /\ tod \in Nat /\ began \in Int /\ spent \in Nat
  /\ n \in 0 .. REPEATS
  /\ pc = "timed" /\ build.use = "ITIMER" => began = 0 /\ left = Whole - spent
  /\ pc = "timed" /\ build.use = "GETTOD" => tod = began + spent
  /\ pc \in {"init", "sleep"} => calls = 0
  /\ KilledOnlyByOneCall
  /\ SecondsExact

(* get_etime: what has gone of the whole interval.                         *)
LEMMA Etime ==
  ASSUME NEW r \in Int
  PROVE  get_etime(r) = Whole - r /\ Whole \in Nat \ {0}
<1>1. MAX_ETIME \in Nat \ {0} /\ USEC \in Nat \ {0}
  BY FsecsAssumption
<1>2. Whole \in Nat \ {0}
  BY <1>1 DEF Whole
<1> QED
  BY <1>2, DifferenceExact DEF get_etime, first, Whole

(* A call of fsecs reads its timer, runs the function, and reads it again. *)
LEMMA StepTimed ==
  ASSUME Basic, Counts, Sampled, Timed, Next
  PROVE  Timed'
<1>0. /\ build \in Build /\ REPEATS \in Nat \ {0} /\ Whole \in Nat \ {0}
      /\ left \in 0 .. Whole /\ tod \in Nat /\ began \in Int /\ spent \in Nat
      /\ n \in 0 .. REPEATS
  BY Etime, FsecsAssumption DEF Basic, Places, Timed
<1>1. ASSUME init_fsecs PROVE Timed'
  <2>1. UNCHANGED <<ftimer, result, build, samples, calls>>
        /\ pc \in {"init", "sleep"} /\ pc' \in {"idle", "exit", "sleep"}
    BY <1>1 DEF init_fsecs, sampler
  <2> QED
    BY <2>1 DEF Timed, ftimer, KilledOnlyByOneCall, SecondsExact
<1>2. ASSUME Sets PROVE Timed'
  <2>1. UNCHANGED <<ftimer, result, build, samples, calls, pc>>
    BY <1>2 DEF Sets, sampler
  <2> QED
    BY <2>1 DEF Timed, ftimer, KilledOnlyByOneCall, SecondsExact
<1>3. ASSUME Fcycs PROVE Timed'
  <2>1. UNCHANGED <<ftimer, result, build, calls>> /\ FcycStep
    BY <1>3 DEF Fcycs
  <2>2. pc' \notin {"init", "sleep", "idle", "timed", "killed"}
    <3>1. Stops => pc' \in {"return", "sample"}
      BY Zenon DEF Stops, add_sample
    <3>2. ReadsCounter => pc' \in {"times", "read"}
      BY Zenon DEF ReadsCounter
    <3>3. ReadsTicks => pc' \in {"read", "start_tick"}
      BY Zenon DEF ReadsTicks
    <3>4. Starts => pc' \in {"start_counter", "callibrate", "start_tick"}
      BY Zenon DEF Starts
    <3>5. Prepares => pc' \in {"exit", "start", "undefined"}
      BY Zenon DEF Prepares, clear
    <3> QED
      BY <2>1, <3>1, <3>2, <3>3, <3>4, <3>5
         DEF FcycStep, fcyc, StartsTick, StartsCounter, Runs, Callibrates
  <2> QED
    BY <2>1, <2>2 DEF Timed, ftimer, KilledOnlyByOneCall, SecondsExact
<1>4. ASSUME FcycReturns PROVE Timed'
  <2>1. /\ result' = <<values[1] * SLEEP, Mhz>> /\ samples' = samples
        /\ UNCHANGED <<build, ftimer, calls>> /\ pc = "return" /\ pc' = "idle"
    BY <1>4 DEF FcycReturns
  <2>2. build.use = "FCYC" /\ Mhz = SLEEP * RATE
    BY <2>1 DEF Basic, Places, Counts, FcycPlaces
  <2>3. values[1] = Min(Range(samples))
    <3>1. KeepsBest(values, set.kbest, samples) /\ samples # <<>>
      BY <2>1 DEF Sampled, FcycPlaces
    <3> QED
      BY <3>1, SomeBest, FirstIsLeast
  <2> QED
    BY <2>1, <2>2, <2>3 DEF Timed, ftimer, KilledOnlyByOneCall, SecondsExact
<1>5. ASSUME fsecs PROVE Timed'
  <2>1. /\ n' = 0 /\ spent' = 0 /\ UNCHANGED <<build, tod>> /\ pc' \in {"fcyc", "timed"}
    BY <1>5 DEF fsecs
  <2>2. CASE build.use = "FCYC"
    <3>1. UNCHANGED <<left, began>> /\ pc' = "fcyc"
      BY <1>5, <2>2 DEF fsecs
    <3> QED
      BY <1>0, <2>1, <3>1 DEF Timed, KilledOnlyByOneCall, SecondsExact
  <2>3. CASE build.use = "ITIMER"
    <3>1. left' = Whole /\ began' = get_etime(left') /\ pc' = "timed"
      BY <1>5, <2>3 DEF fsecs, init_etime, Whole
    <3>2. began' = 0
      BY <1>0, <3>1, Etime
    <3> QED
      BY <1>0, <2>1, <2>3, <3>1, <3>2 DEF Timed, KilledOnlyByOneCall, SecondsExact
  <2>4. CASE build.use = "GETTOD"
    <3>1. left' = left /\ began' = tod /\ pc' = "timed"
      BY <1>5, <2>4 DEF fsecs
    <3> QED
      BY <1>0, <2>1, <2>4, <3>1 DEF Timed, KilledOnlyByOneCall, SecondsExact
  <2> QED
    BY <1>0, <2>2, <2>3, <2>4 DEF Build
<1>6. ASSUME TimedRun PROVE Timed'
  <2>1. PICK d \in Durations :
          /\ tod' = tod + d /\ spent' = spent + d
          /\ \/ build.use = "ITIMER" /\ d >= left /\ pc' = "killed" /\ left' = 0
             \/ build.use = "ITIMER" /\ d < left /\ pc' = pc /\ left' = left - d
             \/ build.use = "GETTOD" /\ UNCHANGED <<pc, left>>
    BY <1>6 DEF TimedRun
  <2>2. /\ pc = "timed" /\ n < REPEATS /\ n' = n + 1 /\ began' = began
        /\ build' = build
    BY <1>6 DEF TimedRun
  <2>3. d \in Nat
    BY FcycAssumption
  <2>4. n' \in 0 .. REPEATS
    BY <1>0, <2>2
  <2>5. CASE build.use = "ITIMER" /\ d >= left /\ pc' = "killed" /\ left' = 0
    <3>1. spent' >= Whole
      BY <1>0, <2>1, <2>2, <2>3, <2>5 DEF Timed
    <3> QED
      BY <1>0, <2>1, <2>2, <2>3, <2>4, <2>5, <3>1
         DEF Timed, KilledOnlyByOneCall, SecondsExact, Whole
  <2>6. CASE build.use = "ITIMER" /\ d < left /\ pc' = pc /\ left' = left - d
    BY <1>0, <2>1, <2>2, <2>3, <2>4, <2>6 DEF Timed, KilledOnlyByOneCall, SecondsExact
  <2>7. CASE build.use = "GETTOD" /\ UNCHANGED <<pc, left>>
    BY <1>0, <2>1, <2>2, <2>3, <2>4, <2>7 DEF Timed, KilledOnlyByOneCall, SecondsExact
  <2> QED
    BY <2>1, <2>5, <2>6, <2>7
<1>7. ASSUME TimerReturns PROVE Timed'
  <2>1. /\ result' = << IF build.use = "ITIMER" THEN get_etime(left) - began
                        ELSE Difference(timeval(tod), timeval(began)), REPEATS >>
        /\ pc = "timed" /\ pc' = "idle" /\ UNCHANGED <<build, ftimer, calls>>
    BY <1>7 DEF TimerReturns
  <2>2. build.use # "FCYC"
    BY <2>1 DEF Basic, Places
  <2>3. result' = <<spent, REPEATS>>
    <3>1. CASE build.use = "ITIMER"
      <4>1. get_etime(left) - began = spent
        BY <1>0, <2>1, <3>1, Etime DEF Timed
      <4> QED
        BY <2>1, <3>1, <4>1
    <3>2. CASE build.use = "GETTOD"
      <4>1. Difference(timeval(tod), timeval(began)) = spent
        BY <1>0, <2>1, <3>2, DifferenceExact DEF Timed
      <4> QED
        BY <2>1, <3>2, <4>1
    <3> QED
      BY <1>0, <2>2, <3>1, <3>2 DEF Build
  <2> QED
    BY <2>1, <2>2, <2>3 DEF Timed, ftimer, KilledOnlyByOneCall, SecondsExact
<1> QED
  BY <1>1, <1>2, <1>3, <1>4, <1>5, <1>6, <1>7 DEF Next, Step

(* What the timers and the time of day have in common with the time spent. *)
LEMMA TimedInvariance == Spec => []Timed
<1>1. Init => Timed
  <2>1. Whole \in Nat \ {0} /\ USEC \in Nat \ {0} /\ REPEATS \in Nat
    BY Etime, FsecsAssumption
  <2> QED
    BY <2>1 DEF Init, Timed, KilledOnlyByOneCall, SecondsExact
<1>2. Basic /\ Counts /\ Sampled /\ Timed /\ [Next]_vars => Timed'
  <2>1. ASSUME Timed, UNCHANGED vars PROVE Timed'
    BY <2>1 DEF Timed, vars, fcycs, ftimer, sampler, KilledOnlyByOneCall, SecondsExact
  <2> QED
    BY <2>1, StepTimed
<1> QED
  BY <1>1, <1>2, BasicInvariance, CountsInvariance, SampledInvariance, PTL DEF Spec

(* fsecs returns the smallest sample in seconds, or "the average of n      *)
(* runs" (ftimer.c) to the microsecond, wherever in a second they begin    *)
(* and end.                                                                *)
THEOREM SecondsAlwaysExact == Spec => []SecondsExact
<1>1. Timed => SecondsExact
  BY DEF Timed
<1> QED
  BY <1>1, TimedInvariance, PTL

(* The signal of the interval timer (ftimer.c), which nobody handles, ends *)
(* the program only in a measurement that took all of MAX_ETIME: each call *)
(* arms it anew.                                                           *)
THEOREM KilledOnlyWhenLate == Spec => []KilledOnlyByOneCall
<1>1. Timed => KilledOnlyByOneCall
  BY DEF Timed
<1> QED
  BY <1>1, TimedInvariance, PTL

(* Type correctness of the timing package.  No counter is negative; there  *)
(* are no more samples than maxsamples, but for the one that is always     *)
(* taken.                                                                  *)
THEOREM TimingTyped == Spec => []TimingTypeOK
<1>1. Basic /\ Sampled /\ Timed => TimingTypeOK
  BY DEF Basic, ClockOK, ConfigOK, NumbersOK, Sampled, Timed, TimingTypeOK, Cycles,
         Reading, Most, Whole
<1> QED
  BY <1>1, BasicInvariance, SampledInvariance, TimedInvariance, PTL
=============================================================================

------------------------------- MODULE Clock --------------------------------
(***************************************************************************)
(* clock.c: the processor's cycle counter, and counters that take off what *)
(* the timer interrupts have cost.                                         *)
(*                                                                         *)
(* Time is an environment.  Every step of the program takes cycles of its  *)
(* own; whenever PERIOD cycles have gone by the timer interrupts it, which *)
(* adds one to the process's user time and takes some more cycles.  Where  *)
(* in a period the program starts is not known, so an interrupt can fall   *)
(* between any two readings of the counter and of the user time.           *)
(*                                                                         *)
(* User time is counted from the reading the code keeps (oldc, start_tick):*)
(* only differences to that reading are ever used.                         *)
(***************************************************************************)
EXTENDS Integers

CONSTANTS
  WORD,          \* values of an unsigned, 2^32: the counter has two words
  PERIOD,        \* cycles from one timer interrupt to the next
  TickCosts,     \* cycles an interrupt may take
  NEVENT, THRESHOLD, RECORDTHRESH  \* callibrate's: 100, 1000 and 3000

ASSUME ClockAssumption ==
  /\ WORD \in Nat /\ PERIOD \in Nat
  /\ TickCosts \subseteq 0 .. PERIOD - 2
  /\ NEVENT \in Nat \ {0} /\ THRESHOLD \in Nat \ {0} /\ RECORDTHRESH \in Nat
  /\ PERIOD > 1 /\ THRESHOLD < PERIOD
  /\ (NEVENT + 2) * PERIOD < WORD * WORD

VARIABLES
  now,           \* the cycle counter
  phase,         \* cycles since the last timer interrupt
  ticks,         \* user time since the reading that was kept
  cyc,           \* cyc_hi and cyc_lo, recorded by start_counter
  cyc_per_tick   \* what an interrupt is taken to cost, 0: not known

clocks == <<now, phase, ticks, cyc>>

access_counter(n) == [hi |-> n \div WORD, lo |-> n % WORD]

(* Does the timer interrupt the program in its next d cycles? *)
Interrupts(d) == IF phase + d >= PERIOD THEN 1 ELSE 0

(* d cycles of the program pass, and c more if it is interrupted.  Then the *)
(* clocks in kept are read and the readings kept: "ticks" by times(),       *)
(* "counter" by start_counter.                                              *)
PassesWith(d, c, kept) ==
  LET tick  == Interrupts(d)
      spent == d + tick * c
  IN  /\ now' = (now + spent) % (WORD * WORD)
      /\ phase' = phase + spent - tick * PERIOD
      /\ ticks' = IF "ticks" \in kept THEN 0 ELSE ticks + tick
      /\ cyc' = IF "counter" \in kept THEN access_counter(now') ELSE cyc

Passes(d, kept) == \E c \in TickCosts : PassesWith(d, c, kept)

-----------------------------------------------------------------------------

(* Mutant: the borrow of the low word is forgotten. *)
get_counter_no_borrow(n) ==
  LET ncyc == access_counter(n)
      lo   == (ncyc.lo - cyc.lo) % WORD
      hi   == (ncyc.hi - cyc.hi) % WORD
  IN  hi * WORD + lo

(* What get_counter returns when the counter stands at n: a subtraction by   *)
(* words, unsigned, with a borrow.                                           *)
get_counter(n) ==
  LET ncyc   == access_counter(n)
      lo     == (ncyc.lo - cyc.lo) % WORD
      borrow == IF lo > ncyc.lo THEN 1 ELSE 0
      hi     == (ncyc.hi - cyc.hi - borrow) % WORD
  IN  hi * WORD + lo

(* What d cycles with t timer ticks, t > 0, say of the cost of one.  (t is 1 *)
(* unless interrupts take nearly all of the time; the code divides doubles.) *)
lower_cyc_per_tick(d, t) ==
  LET cpt == d \div t
  IN  IF (cyc_per_tick = 0 \/ cyc_per_tick > cpt) /\ cpt > RECORDTHRESH
        THEN cpt ELSE cyc_per_tick
=============================================================================

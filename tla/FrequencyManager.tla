-------------------------- MODULE FrequencyManager --------------------------
(***************************************************************************)
(* The pacing of a kernel: FrequencyManager::setFrequency while the kernel *)
(* is set up, then FrequencyManager::adjust at the end of every run(),     *)
(* which sleeps for what is left of the period.  All its times are 32-bit  *)
(* counts of microseconds, which wrap every 71 minutes, taken from a clock *)
(* that the system may set forward or back; sleep_for is not affected by   *)
(* that.                                                                   *)
(***************************************************************************)
EXTENDS Integers

CONSTANTS
  W,              \* the values of a uint32_t, 2^32 in the code
  Second,         \* clock ticks in a second, 1000000 in the code
  DefaultPeriod,  \* the period of frequency 0, 5000 in the code
  Frequencies,    \* the frequencies a recipe may ask for
  Offsets,        \* how far the system clock may be from the steady one
  MaxNow          \* bound: the time at which the model stops

ASSUME WidthAssumption == W \in Nat \ {0} /\ DefaultPeriod \in 0..(W - 1)
ASSUME ClockAssumption ==
  /\ Second \in Nat /\ Frequencies \subseteq Int
  /\ Offsets \subseteq Int /\ 0 \in Offsets /\ MaxNow \in Nat

VARIABLES
  pc,        \* "setup", "run", or "sleep" inside adjust
  now,       \* the time that has really passed
  offset,    \* the system clock shows now + offset
  periodUs,
  lastTs,    \* the clock when the last period ended, as a uint32_t
  wake,      \* when the sleep is over
  last,      \* history: the real time when lastTs was read
  steady     \* history: the clock was not set since then

vars == <<pc, now, offset, periodUs, lastTs, wake, last, steady>>

(* A definition marked as a mutant is a changed form of the one after it.  *)

getTsUs == now + offset

(* int division truncates towards zero; the cast wraps what is negative.   *)
Period(f) == IF f = 0 THEN DefaultPeriod
             ELSE IF f > 0 THEN (Second \div f) % W ELSE (-(Second \div (-f))) % W

StampByPeriod ==   \* mutant: the schedule is kept, not the distance
  /\ lastTs' = (lastTs + periodUs) % W
  /\ last' = now /\ steady' = TRUE

StampUnwrapped ==   \* mutant: the time stored with all its bits
  /\ lastTs' = getTsUs
  /\ last' = now /\ steady' = TRUE

Stamp == /\ lastTs' = getTsUs % W
         /\ last' = now /\ steady' = TRUE

(* Called by the constructor, by the kernel's and by the deployer.         *)
SetFrequency ==
  /\ pc = "setup"
  /\ \E f \in Frequencies : periodUs' = Period(f)
  /\ Stamp
  /\ UNCHANGED <<pc, now, offset, wake>>

Deployed ==
  /\ pc = "setup" /\ pc' = "run"
  /\ UNCHANGED <<now, offset, periodUs, lastTs, wake, last, steady>>

ElapsedSigned == getTsUs - lastTs   \* mutant: the difference kept in 64 bits

(* exePeriod, the unsigned distance from lastTs to the clock.              *)
Elapsed == (getTsUs - lastTs) % W

(* adjust up to the sleep, of zero when the period is over already.        *)
Measure ==
  /\ pc = "run" /\ pc' = "sleep"
  /\ wake' = IF Elapsed < periodUs THEN now + (periodUs - Elapsed) ELSE now
  /\ UNCHANGED <<now, offset, periodUs, lastTs, last, steady>>

(* The sleep is over: adjust starts the next period at the present time.   *)
Wake ==
  /\ pc = "sleep" /\ now >= wake /\ pc' = "run"
  /\ Stamp
  /\ UNCHANGED <<now, offset, periodUs, wake>>

(* Time passes, for as long as run() takes or the sleep lasts.             *)
Tick ==
  /\ now < MaxNow /\ now' = now + 1
  /\ UNCHANGED <<pc, offset, periodUs, lastTs, wake, last, steady>>

(* External: the system clock is set.                                      *)
SetClock ==
  /\ \E o \in Offsets : o # offset /\ offset' = o
  /\ steady' = FALSE
  /\ UNCHANGED <<pc, now, periodUs, lastTs, wake, last>>

Init ==
  /\ pc = "setup" /\ now = 0 /\ offset = 0
  /\ periodUs \in { Period(f) : f \in Frequencies } /\ lastTs = 0
  /\ wake = 0 /\ last = 0 /\ steady = TRUE

Next == SetFrequency \/ Deployed \/ Measure \/ Wake \/ Tick \/ SetClock

Spec == Init /\ [][Next]_vars
-----------------------------------------------------------------------------
(* Every variable stays in its range, the 32-bit ones in 32 bits.          *)
TypeOK ==
  /\ pc \in {"setup", "run", "sleep"}
  /\ now \in Nat /\ last \in Nat /\ wake \in Nat
  /\ offset \in Offsets
  /\ periodUs \in 0..(W - 1) /\ lastTs \in 0..(W - 1)
  /\ steady \in BOOLEAN

(* A kernel never starts a period sooner than periodUs after the one       *)
(* before, however long its run() took (the 32-bit times may have wrapped  *)
(* meanwhile, more than once), unless the clock was set in between.        *)
Paced == [][pc = "sleep" /\ pc' = "run" /\ steady => now - last >= periodUs]_vars

(* Setting the clock, and the wrap of the times, never make a kernel sleep *)
(* for longer than one period.                                             *)
SleepBounded == pc = "sleep" => wake - now <= periodUs
=============================================================================

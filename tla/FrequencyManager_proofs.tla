----------------------- MODULE FrequencyManager_proofs -----------------------
(***************************************************************************)
(* The pacing of a kernel for every width of the times, every frequency    *)
(* and every run time.                                                     *)
(***************************************************************************)
EXTENDS FrequencyManager, TLAPS

LEMMA ModRange == ASSUME NEW x \in Int PROVE x % W \in 0..(W - 1)
BY WidthAssumption

LEMMA ModQuotient ==
  ASSUME NEW x \in Int
  PROVE  \E q \in Int : x = W * q + (x % W)
<1>1. x = W * (x \div W) + (x % W) /\ x \div W \in Int
  BY WidthAssumption
<1>. QED  BY <1>1

(* The distance between two 32-bit times is at most the real one: it is    *)
(* short by the wraps in between.                                          *)
LEMMA ElapsedAtMost ==
  ASSUME NEW a \in Int, NEW b \in Int, b <= a
  PROVE  (a - (b % W)) % W <= a - b
<1>. DEFINE r == (a - (b % W)) % W
<1>1. W \in Int /\ W > 0 /\ b % W \in Int /\ r \in Int /\ r < W
  BY ModRange, WidthAssumption
<1>2. PICK q \in Int : b = W * q + (b % W)
  BY ModQuotient
<1>3. PICK k \in Int : a - (b % W) = W * k + r
  BY <1>1, ModQuotient
<1>. HIDE DEF r
<1>4. r = (a - b) - W * (k - q) /\ k - q \in Int
  <2>1. W * (k - q) = W * k - W * q
    BY <1>1
  <2>. QED  BY <1>1, <1>2, <1>3, <2>1
<1>5. CASE k - q >= 0
  <2>1. W * (k - q) >= 0
    BY <1>1, <1>4, <1>5
  <2>2. W * (k - q) \in Int
    BY <1>1, <1>4
  <2>. QED  BY <1>1, <1>4, <2>1, <2>2 DEF r
<1>6. CASE k - q <= -1
  <2>1. W * (k - q) <= -W
    BY <1>1, <1>4, <1>6
  <2>2. W * (k - q) \in Int
    BY <1>1, <1>4
  <2>. QED  BY <1>1, <1>4, <2>1, <2>2
<1>. QED  BY <1>4, <1>5, <1>6
-----------------------------------------------------------------------------
(* While it runs, the kernel knows when its period began, in 32 bits of    *)
(* the clock as it was; while it sleeps, the sleep ends after the period   *)
(* has passed but within one period.                                       *)
IInv ==
  /\ TypeOK
  /\ last <= now
  /\ steady => lastTs = (last + offset) % W
  /\ SleepBounded
  /\ pc = "sleep" /\ steady => wake - last >= periodUs

LEMMA PeriodRange == ASSUME NEW f \in Frequencies PROVE Period(f) \in 0..(W - 1)
<1>1. f \in Int
  BY ClockAssumption
<1>2. CASE f = 0
  BY <1>2, WidthAssumption DEF Period
<1>3. CASE f > 0
  <2>1. Second \div f \in Int
    BY <1>1, <1>3, ClockAssumption
  <2>. QED  BY <1>3, <2>1, ModRange DEF Period
<1>4. CASE f < 0
  <2>1. -(Second \div (-f)) \in Int
    BY <1>1, <1>4, ClockAssumption
  <2>. QED  BY <1>1, <1>4, <2>1, ModRange DEF Period
<1>. QED  BY <1>1, <1>2, <1>3, <1>4

LEMMA Initially == Init => IInv
<1>. SUFFICES ASSUME Init PROVE IInv
  OBVIOUS
<1>1. 0 % W = 0 /\ 0 \in 0..(W - 1)
  BY WidthAssumption
<1>2. periodUs \in 0..(W - 1)
  BY PeriodRange DEF Init
<1>. QED  BY <1>1, <1>2, ClockAssumption DEF Init, IInv, TypeOK, SleepBounded

LEMMA StampInvariant ==
  ASSUME IInv, Stamp, UNCHANGED <<now, offset>>
  PROVE  /\ lastTs' \in 0..(W - 1) /\ lastTs' = (last' + offset') % W
         /\ last' \in Nat /\ last' <= now' /\ steady' = TRUE
<1>1. now + offset \in Int
  BY ClockAssumption DEF IInv, TypeOK
<1>2. (now + offset) % W \in 0..(W - 1)
  BY <1>1, ModRange
<1>. QED  BY <1>2 DEF IInv, TypeOK, Stamp, getTsUs

LEMMA Inductive == IInv /\ [Next]_vars => IInv'
<1>. SUFFICES ASSUME IInv, [Next]_vars PROVE IInv'
  OBVIOUS
<1>1. CASE SetFrequency
  <2>1. periodUs' \in 0..(W - 1)
    BY <1>1, PeriodRange DEF SetFrequency
  <2>. QED  BY <1>1, <2>1, StampInvariant DEF SetFrequency, IInv, TypeOK, SleepBounded
<1>2. CASE Deployed
  BY <1>2 DEF Deployed, IInv, TypeOK, SleepBounded
<1>3. CASE Measure
  <2>1. now \in Int /\ offset \in Int /\ lastTs \in Int /\ last \in Int
    BY ClockAssumption, WidthAssumption DEF IInv, TypeOK
  <2>2. Elapsed \in 0..(W - 1)
    BY <2>1, ModRange DEF Elapsed, getTsUs
  <2>3. steady => Elapsed <= now - last
    <3>1. SUFFICES ASSUME steady PROVE Elapsed <= now - last
      OBVIOUS
    <3>2. lastTs = (last + offset) % W /\ last <= now
      BY <3>1 DEF IInv
    <3>3. ((now + offset) - ((last + offset) % W)) % W <= (now + offset) - (last + offset)
      BY <2>1, <3>2, ElapsedAtMost
    <3>. QED  BY <2>1, <3>2, <3>3 DEF Elapsed, getTsUs
  <2>4. wake' = IF Elapsed < periodUs THEN now + (periodUs - Elapsed) ELSE now
    BY <1>3 DEF Measure
  <2>. HIDE DEF Elapsed
  <2>5. wake' \in Nat /\ wake' - now <= periodUs
    BY <2>2, <2>4, WidthAssumption DEF IInv, TypeOK
  <2>6. steady => wake' - last >= periodUs
    BY <2>1, <2>2, <2>3, <2>4, WidthAssumption DEF IInv, TypeOK
  <2>. QED  BY <1>3, <2>5, <2>6 DEF Measure, IInv, TypeOK, SleepBounded
<1>4. CASE Wake
  BY <1>4, StampInvariant DEF Wake, IInv, TypeOK, SleepBounded
<1>5. CASE Tick
  BY <1>5 DEF Tick, IInv, TypeOK, SleepBounded
<1>6. CASE SetClock
  BY <1>6, ClockAssumption DEF SetClock, IInv, TypeOK, SleepBounded
<1>7. CASE UNCHANGED vars
  BY <1>7 DEF vars, IInv, TypeOK, SleepBounded
<1>. QED  BY <1>1, <1>2, <1>3, <1>4, <1>5, <1>6, <1>7 DEF Next

(* The 32-bit times stay in 32 bits whatever the frequency.                *)
THEOREM TimesInRange == Spec => []TypeOK
<1>1. IInv => TypeOK
  BY DEF IInv
<1>. QED  BY <1>1, Initially, Inductive, PTL DEF Spec

(* A kernel sleeps for at most one period, whatever becomes of the clock.  *)
THEOREM NeverOversleeps == Spec => []SleepBounded
<1>1. IInv => SleepBounded
  BY DEF IInv
<1>. QED  BY <1>1, Initially, Inductive, PTL DEF Spec

(* While the clock is left alone two periods begin at least periodUs       *)
(* apart, for every width of the times and every run time.                 *)
THEOREM PacedAlways == Spec => Paced
<1>1. IInv /\ [Next]_vars =>
        [pc = "sleep" /\ pc' = "run" /\ steady => now - last >= periodUs]_vars
  <2>. SUFFICES ASSUME IInv, Next, pc = "sleep", pc' = "run", steady
                PROVE  now - last >= periodUs
    BY Zenon
  <2>1. Wake
    BY DEF Next, SetFrequency, Deployed, Measure, Tick, SetClock
  <2>. QED  BY <2>1, WidthAssumption DEF Wake, IInv, TypeOK
<1>. QED  BY <1>1, Initially, Inductive, PTL DEF Spec, Paced
=============================================================================

------------------------------ MODULE led_proofs ------------------------------
(***************************************************************************)
(* Proofs, for words, periods and bounds of any size, of the properties of *)
(* led: the program keeps time, and serves every deadline as long as the   *)
(* core executes.                                                          *)
(***************************************************************************)
EXTENDS led, Integers, TLAPS

\* The time the compare register is for, while it is not being written.
Deadline == read_at + served * PERIOD
Compare == cmph * Radix + cmpl

Setting == {"full", "sethigh", "setlow"}
Handling == {"button", "color", "blink", "getcmp"}

Types ==
  /\ mtime \in 0..MaxTime
  /\ cmpl \in 0..Full /\ cmph \in 0..Full
  /\ led \in Nat /\ ticks \in Nat
  /\ pc \in {"start", "high", "low", "again", "wfi"} \cup Setting \cup Handling
  /\ mtimeh \in Nat /\ mtimel \in Nat /\ mtimecmp \in Nat
  /\ read_at \in 0..mtime /\ served \in Nat

\* The high word was read no later than the low one, so that it is no later.
Reads ==
  /\ pc \in {"start", "high", "low", "again"} => served = 0
  /\ pc = "low" => mtimeh <= mtime \div Radix
  /\ pc = "again" => mtimeh <= read_at \div Radix /\ mtimel = read_at % Radix

\* The handler runs at its deadline or later, and adds one period to it.
Deadlines ==
  /\ pc \in Setting => mtimecmp = Deadline + PERIOD
  /\ pc \in Setting \cup Handling => Deadline <= mtime
  /\ pc \in {"wfi"} \cup Handling => Compare = Deadline
  /\ pc = "setlow" => cmph = High(mtimecmp)

\* led and ticks after n ticks.
Counted(n) == led = (n \div TICKS) % 16 /\ ticks = n % TICKS

Counts ==
  /\ pc \in {"high", "low", "again"} => led = 0
  /\ pc \in {"start", "high", "low", "again"} => ticks = 0
  /\ pc \in Setting \cup {"getcmp"} => Counted(served)
  /\ pc \in {"wfi", "button", "color", "blink"} => served # 0 /\ Counted(served - 1)

IInv == Types /\ Reads /\ Deadlines /\ Counts

-----------------------------------------------------------------------------
(* Quotient and remainder *)

LEMMA Quotient ==
  ASSUME NEW n \in Nat, NEW m \in Nat \ {0}
  PROVE  /\ n \div m \in Nat /\ n % m \in 0..m - 1
         /\ n = (n \div m) * m + (n % m)
  OBVIOUS

\* A multiple that is smaller than a higher multiple has a smaller factor.
LEMMA Factors ==
  ASSUME NEW p \in Int, NEW q \in Int, NEW m \in Nat \ {0}, p * m < (q + 1) * m
  PROVE  p <= q
  <1> SUFFICES ASSUME p >= q + 1 PROVE FALSE
    OBVIOUS
  <1> DEFINE k == p - (q + 1)
  <1>1. k \in Nat /\ k * m >= 0
    OBVIOUS
  <1>2. p * m = (q + 1) * m + k * m
    OBVIOUS
  <1> QED
    BY <1>1, <1>2

LEMMA QuotientUnique ==
  ASSUME NEW n \in Nat, NEW m \in Nat \ {0}, NEW q \in Nat, NEW r \in 0..m - 1,
         n = q * m + r
  PROVE  n \div m = q /\ n % m = r
  <1> DEFINE d == n \div m
             e == n % m
  <1>1. d \in Nat /\ e \in 0..m - 1 /\ n = d * m + e
    BY Quotient
  <1> HIDE DEF d, e
  <1>2. d * m < (q + 1) * m /\ q * m < (d + 1) * m
    BY <1>1
  <1>3. d = q
    BY <1>1, <1>2, Factors
  <1> QED
    BY <1>1, <1>3 DEF d, e

LEMMA QuotientMonotone ==
  ASSUME NEW a \in Nat, NEW b \in Nat, a <= b, NEW m \in Nat \ {0}
  PROVE  a \div m <= b \div m
  <1> DEFINE p == a \div m
             q == b \div m
  <1>1. /\ p \in Nat /\ a % m \in 0..m - 1 /\ a = p * m + (a % m)
        /\ q \in Nat /\ b % m \in 0..m - 1 /\ b = q * m + (b % m)
    BY Quotient
  <1> HIDE DEF p, q
  <1>2. p * m < (q + 1) * m
    BY <1>1
  <1>3. p <= q
    BY <1>1, <1>2, Factors
  <1> QED
    BY <1>3 DEF p, q

LEMMA QuotientOfNext ==
  ASSUME NEW n \in Nat, NEW m \in Nat \ {0}
  PROVE  /\ (n % m) + 1 = m => (n + 1) \div m = n \div m + 1 /\ (n + 1) % m = 0
         /\ (n % m) + 1 # m => (n + 1) \div m = n \div m /\ (n + 1) % m = (n % m) + 1
  <1> DEFINE q == n \div m
             r == n % m
  <1>1. q \in Nat /\ r \in 0..m - 1 /\ n = q * m + r
    BY Quotient
  <1> HIDE DEF q, r
  <1>2. CASE r + 1 = m
    <2>1. n + 1 = (q + 1) * m + 0
      BY <1>1, <1>2
    <2>2. (n + 1) \div m = q + 1 /\ (n + 1) % m = 0
      BY <1>1, <2>1, QuotientUnique
    <2> QED
      BY <1>2, <2>2 DEF q, r
  <1>3. CASE r + 1 # m
    <2> DEFINE s == r + 1
    <2>1. n + 1 = q * m + s /\ s \in 0..m - 1
      BY <1>1, <1>3
    <2> HIDE DEF s
    <2>2. (n + 1) \div m = q /\ (n + 1) % m = s
      BY <1>1, <2>1, QuotientUnique
    <2> QED
      BY <1>3, <2>2 DEF q, r, s
  <1> QED
    BY <1>2, <1>3

\* Below the wrap of the counter the high word is the quotient, and the two
\* words make up the time.
LEMMA Words ==
  ASSUME NEW t \in Nat, t <= MaxTime + PERIOD
  PROVE  /\ High(t) = t \div Radix /\ High(t) \in 0..Full
         /\ Low(t) \in 0..Full
         /\ t = High(t) * Radix + Low(t)
  <1> DEFINE q == t \div Radix
             r == t % Radix
  <1>1. /\ Radix \in Nat \ {0} /\ Radix \in Nat /\ PERIOD \in Nat /\ MaxTime \in Nat
        /\ MaxTime + PERIOD < Radix * Radix
    BY LedAssumption
  <1>2. q \in Nat /\ r \in 0..Radix - 1 /\ t = q * Radix + r
    BY <1>1, Quotient
  <1> HIDE DEF q, r
  <1>3. q * Radix < Radix * Radix
    BY <1>1, <1>2
  <1>4. q * Radix < ((Radix - 1) + 1) * Radix
    BY <1>1, <1>3
  <1>5. q <= Radix - 1
    BY <1>1, <1>2, <1>4, Factors
  <1>6. q = 0 * Radix + q
    BY <1>1, <1>2
  <1>7. q % Radix = q
    BY <1>1, <1>2, <1>5, <1>6, QuotientUnique
  <1> QED
    BY <1>1, <1>2, <1>5, <1>7 DEF q, r, High, Low, Full

-----------------------------------------------------------------------------
(* The inductive invariant: one lemma per step of the program *)

LEMMA ConstantFacts ==
  /\ Radix \in Nat \ {0} /\ Full \in Nat /\ PERIOD \in Nat \ {0} /\ TICKS \in Nat \ {0}
  /\ MaxTime \in Nat
  BY LedAssumption DEF Full

LEMMA InitIInv == Init => IInv
  BY ConstantFacts DEF Init, IInv, Types, Reads, Deadlines, Counts, Setting, Handling

\* What a step leaves alone keeps its meaning.
LEMMA SameDeadline ==
  ASSUME UNCHANGED <<read_at, served>>
  PROVE  Deadline' = Deadline
  BY DEF Deadline

LEMMA SameCompare ==
  ASSUME UNCHANGED <<cmpl, cmph>>
  PROVE  Compare' = Compare
  BY DEF Compare

LEMMA SameCount ==
  ASSUME UNCHANGED <<led, ticks>>, NEW n
  PROVE  Counted(n)' <=> Counted(n)
  BY DEF Counted

LEMMA PassStep == IInv /\ Pass => IInv'
  <1> SUFFICES ASSUME IInv, Pass PROVE IInv'
    OBVIOUS
  <1>1. mtime' = mtime + 1 /\ mtime' \in 0..MaxTime /\ mtime \in Nat
    BY ConstantFacts DEF IInv, Types, Pass
  <1>2. UNCHANGED <<cmpl, cmph, led, pc, mtimeh, mtimel, mtimecmp, ticks, read_at, served>>
    BY DEF Pass, leds, time, history
  <1>3. Deadline' = Deadline /\ Compare' = Compare
    BY <1>2, SameDeadline, SameCompare
  <1>4. mtime \div Radix <= mtime' \div Radix /\ mtime \div Radix \in Nat
        /\ mtime' \div Radix \in Nat
    BY <1>1, ConstantFacts, QuotientMonotone, Quotient
  <1>5. Types'
    BY <1>1, <1>2 DEF IInv, Types
  <1>6. Reads'
    BY <1>2, <1>4 DEF IInv, Types, Reads
  <1>7. Deadline \in Int
    BY ConstantFacts DEF Deadline, IInv, Types
  <1>8. Deadlines'
    BY <1>1, <1>2, <1>3, <1>7 DEF IInv, Deadlines, High
  <1>9. Counts'
    BY <1>2 DEF IInv, Counts, Counted
  <1> QED
    BY <1>5, <1>6, <1>8, <1>9 DEF IInv

\* Main reads the words of the counter.
LEMMA ReadStep == IInv /\ (ClearLeds \/ ReadHigh \/ ReadLow) => IInv'
  <1> SUFFICES ASSUME IInv, ClearLeds \/ ReadHigh \/ ReadLow PROVE IInv'
    OBVIOUS
  <1>1. /\ UNCHANGED <<mtime, cmpl, cmph, mtimecmp, ticks, served>>
        /\ pc \in {"start", "high", "low"} /\ pc' \in {"high", "low", "again"}
    BY DEF ClearLeds, ReadHigh, ReadLow, Step, time, history
  <1>2. mtime \in Nat /\ mtime <= MaxTime + PERIOD
    BY ConstantFacts DEF IInv, Types
  <1>3. High(mtime) = mtime \div Radix /\ High(mtime) \in Nat
    BY <1>2, Words, ConstantFacts, Quotient
  <1>4. Low(mtime) = mtime % Radix /\ Low(mtime) \in Nat
    BY <1>2, Quotient, ConstantFacts DEF Low
  <1>5. CASE ClearLeds
    BY <1>1, <1>5 DEF ClearLeds, Step, time, history, IInv, Types, Reads, Deadlines, Counts,
       Setting, Handling
  <1>6. CASE ReadHigh
    BY <1>1, <1>3, <1>6 DEF ReadHigh, Step, leds, history, IInv, Types, Reads, Deadlines,
       Counts, Setting, Handling
  <1>7. CASE ReadLow
    BY <1>1, <1>2, <1>4, <1>7 DEF ReadLow, Step, leds, IInv, Types, Reads, Deadlines, Counts,
       Setting, Handling
  <1> QED
    BY <1>5, <1>6, <1>7

\* Main puts the time together, or reads once more.  The high word that is
\* there before and after the low one is that of the low one.
LEMMA ReadHighAgainStep == IInv /\ ReadHighAgain => IInv'
  <1> SUFFICES ASSUME IInv, ReadHighAgain PROVE IInv'
    OBVIOUS
  <1>1. /\ UNCHANGED <<mtime, cmpl, cmph, led, mtimeh, mtimel, ticks, read_at, served>>
        /\ pc = "again" /\ served = 0 /\ led = 0 /\ ticks = 0
        /\ mtimeh <= read_at \div Radix /\ mtimel = read_at % Radix
    BY DEF ReadHighAgain, leds, history, IInv, Reads, Counts
  <1>2. /\ mtime \in Nat /\ mtime <= MaxTime + PERIOD /\ read_at \in Nat /\ read_at <= mtime
        /\ mtimeh \in Nat /\ mtimel \in Nat
    BY ConstantFacts DEF IInv, Types
  <1>3. CASE High(mtime) # mtimeh
    <2>1. pc' = "high" /\ mtimecmp' = mtimecmp
      BY <1>3 DEF ReadHighAgain
    <2> QED
      BY <1>1, <2>1 DEF IInv, Types, Reads, Deadlines, Counts, Setting, Handling
  <1>4. CASE High(mtime) = mtimeh
    <2>1. pc' = "full" /\ mtimecmp' = mtimeh * Radix + mtimel + PERIOD
      BY <1>4 DEF ReadHighAgain
    <2>2. /\ read_at \div Radix <= mtime \div Radix /\ read_at \div Radix \in Nat
          /\ High(mtime) = mtime \div Radix
          /\ read_at = (read_at \div Radix) * Radix + (read_at % Radix)
      BY <1>2, QuotientMonotone, Quotient, Words, ConstantFacts
    <2>3. mtimeh = read_at \div Radix
      BY <1>1, <1>2, <1>4, <2>2, ConstantFacts
    <2>4. mtimecmp' = read_at + PERIOD /\ mtimecmp' \in Nat
      BY <1>1, <1>2, <2>1, <2>2, <2>3, ConstantFacts
    <2>5. Deadline' = read_at
      BY <1>1, <1>2, ConstantFacts DEF Deadline
    <2>6. Counted(served)'
      <3>1. 0 \div TICKS = 0 /\ 0 % TICKS = 0
        <4>1. 0 = 0 * TICKS + 0 /\ 0 \in 0..TICKS - 1
          BY ConstantFacts
        <4> QED
          BY <4>1, ConstantFacts, QuotientUnique
      <3> QED
        BY <1>1, <3>1 DEF Counted
    <2>7. Types'
      BY <1>1, <2>1, <2>4 DEF IInv, Types, Setting
    <2>8. Deadlines'
      BY <1>1, <1>2, <2>1, <2>4, <2>5 DEF Deadlines, Setting, Handling
    <2> QED
      BY <1>1, <2>1, <2>6, <2>7, <2>8 DEF IInv, Reads, Counts, Setting
  <1> QED
    BY <1>3, <1>4

\* The first two writes of a deadline.
LEMMA SetStep == IInv /\ (SetFull \/ SetHigh) => IInv'
  <1> SUFFICES ASSUME IInv, SetFull \/ SetHigh PROVE IInv'
    OBVIOUS
  <1>1. /\ UNCHANGED <<mtime, led, mtimeh, mtimel, mtimecmp, ticks, read_at, served>>
        /\ pc \in Setting /\ pc' \in {"sethigh", "setlow"}
        /\ cmpl' \in {cmpl, Full}
        /\ \/ cmph' = cmph /\ pc' = "sethigh"
           \/ cmph' = High(mtimecmp) /\ pc' = "setlow"
    BY DEF SetFull, SetHigh, Step, leds, time, history, Setting
  <1>2. mtimecmp = Deadline + PERIOD /\ Deadline <= mtime /\ Deadline' = Deadline
    BY <1>1, SameDeadline DEF IInv, Deadlines
  <1>3. Deadline \in Nat /\ mtime \in 0..MaxTime
    BY ConstantFacts DEF Deadline, IInv, Types
  <1>4. mtimecmp \in Nat /\ mtimecmp <= MaxTime + PERIOD
    BY <1>2, <1>3, ConstantFacts
  <1>5. High(mtimecmp) \in 0..Full
    BY <1>4, Words
  <1>6. Types'
    BY <1>1, <1>5, ConstantFacts DEF IInv, Types, Setting
  <1>7. Deadlines'
    BY <1>1, <1>2 DEF Deadlines, Setting, Handling, High
  <1>8. Counts'
    BY <1>1 DEF IInv, Counts, Counted, Setting
  <1> QED
    BY <1>1, <1>6, <1>7, <1>8 DEF IInv, Reads

\* The last one: the compare register is the deadline, which is now the next.
LEMMA SetLowStep == IInv /\ SetLow => IInv'
  <1> SUFFICES ASSUME IInv, SetLow PROVE IInv'
    OBVIOUS
  <1>1. /\ UNCHANGED <<mtime, cmph, led, mtimeh, mtimel, mtimecmp, ticks, read_at>>
        /\ pc = "setlow" /\ pc' = "wfi" /\ served' = served + 1
        /\ cmpl' = Low(mtimecmp) /\ served \in Nat
    BY DEF SetLow, Step, leds, time, IInv, Types
  <1>2. /\ mtimecmp = Deadline + PERIOD /\ Deadline <= mtime
        /\ cmph = High(mtimecmp)
    BY <1>1 DEF IInv, Deadlines, Setting
  <1>3. Deadline \in Nat /\ mtime \in 0..MaxTime
    BY ConstantFacts DEF Deadline, IInv, Types
  <1>4. mtimecmp \in Nat /\ mtimecmp <= MaxTime + PERIOD
    BY <1>2, <1>3, ConstantFacts
  <1>5. Low(mtimecmp) \in 0..Full /\ mtimecmp = High(mtimecmp) * Radix + Low(mtimecmp)
    BY <1>4, Words
  <1>6. Compare' = mtimecmp
    BY <1>1, <1>2, <1>5 DEF Compare
  <1>7. Deadline' = Deadline + PERIOD
    BY <1>1, ConstantFacts DEF Deadline, IInv, Types
  <1>8. Types'
    BY <1>1, <1>5 DEF IInv, Types
  <1>9. Deadlines'
    BY <1>1, <1>2, <1>6, <1>7 DEF Deadlines, Setting, Handling
  <1>10. Counts'
    <2>1. served' - 1 = served /\ served' # 0
      BY <1>1
    <2>2. Counted(served)
      BY <1>1 DEF IInv, Counts, Setting
    <2> QED
      BY <1>1, <2>1, <2>2 DEF Counts, Counted, Setting
  <1> QED
    BY <1>1, <1>8, <1>9, <1>10 DEF IInv, Reads

\* The interrupt, and the accesses to the switches, buttons and RGB LEDs.
LEMMA HandlerStep == IInv /\ (Interrupt \/ ReadButtons \/ Light) => IInv'
  <1> SUFFICES ASSUME IInv, Interrupt \/ ReadButtons \/ Light PROVE IInv'
    OBVIOUS
  <1>1. /\ UNCHANGED <<mtime, cmpl, cmph, led, mtimeh, mtimel, mtimecmp, ticks, read_at, served>>
        /\ pc \in {"wfi", "button", "color"} /\ pc' \in {"button", "color", "blink"}
        /\ pc = "wfi" => irq
    BY DEF Interrupt, ReadButtons, Light, Step, leds, time, history
  <1>2. Deadline' = Deadline /\ Compare' = Compare
    BY <1>1, SameDeadline, SameCompare
  <1>3. Compare = Deadline /\ Deadline <= mtime
    BY <1>1 DEF IInv, Deadlines, irq, Compare, Handling
  <1>4. Types'
    BY <1>1 DEF IInv, Types, Handling
  <1>5. Deadlines'
    BY <1>1, <1>2, <1>3 DEF Deadlines, Setting, Handling
  <1>6. Counts'
    BY <1>1 DEF IInv, Counts, Counted, Setting
  <1> QED
    BY <1>1, <1>4, <1>5, <1>6 DEF IInv, Reads

\* One more tick: of the LEDs, when as many as TICKS have come.
LEMMA BlinkStep == IInv /\ Blink => IInv'
  <1> SUFFICES ASSUME IInv, Blink PROVE IInv'
    OBVIOUS
  <1>1. /\ UNCHANGED <<mtime, cmpl, cmph, mtimeh, mtimel, mtimecmp, read_at, served>>
        /\ pc = "blink" /\ pc' = "getcmp"
        /\ \/ ticks + 1 = TICKS /\ ticks' = 0 /\ led' = (led + 1) % 16
           \/ ticks + 1 # TICKS /\ ticks' = ticks + 1 /\ led' = led
    BY DEF Blink, Step, time, history
  <1>2. Deadline' = Deadline /\ Compare' = Compare
    BY <1>1, SameDeadline, SameCompare
  <1>3. Compare = Deadline /\ Deadline <= mtime
    BY <1>1 DEF IInv, Deadlines, Handling
  <1> DEFINE n == served - 1
  <1>4. n \in Nat /\ n + 1 = served /\ Counted(n)
    BY <1>1 DEF IInv, Types, Counts
  <1> HIDE DEF n
  <1>5. /\ n \div TICKS \in Nat
        /\ (n % TICKS) + 1 = TICKS => served \div TICKS = n \div TICKS + 1 /\ served % TICKS = 0
        /\ (n % TICKS) + 1 # TICKS => served \div TICKS = n \div TICKS /\ served % TICKS = (n % TICKS) + 1
    BY <1>4, ConstantFacts, Quotient, QuotientOfNext
  <1>6. Counted(served)'
    <2>1. ticks' = served % TICKS
      BY <1>1, <1>4, <1>5 DEF Counted
    <2>2. led' = (served \div TICKS) % 16
      <3> DEFINE q == n \div TICKS
      <3>1. q \in Nat /\ led = q % 16
        BY <1>4, <1>5 DEF Counted
      <3>2. ((q % 16) + 1) % 16 = (q + 1) % 16
        BY <3>1
      <3> QED
        BY <1>1, <1>4, <1>5, <3>1, <3>2 DEF Counted
    <2> QED
      BY <1>1, <2>1, <2>2 DEF Counted
  <1>7. Types'
    <2>1. led' \in Nat /\ ticks' \in Nat
      BY <1>1 DEF IInv, Types
    <2> QED
      BY <1>1, <2>1 DEF IInv, Types, Handling
  <1>8. Deadlines'
    BY <1>1, <1>2, <1>3 DEF Deadlines, Setting, Handling
  <1> QED
    BY <1>1, <1>6, <1>7, <1>8 DEF IInv, Reads, Counts, Setting

\* The handler adds a period to the deadline that it reads back.
LEMMA GetCompareStep == IInv /\ GetCompare => IInv'
  <1> SUFFICES ASSUME IInv, GetCompare PROVE IInv'
    OBVIOUS
  <1>1. /\ UNCHANGED <<mtime, cmpl, cmph, led, mtimeh, mtimel, ticks, read_at, served>>
        /\ pc = "getcmp" /\ pc' = "full" /\ mtimecmp' = Compare + PERIOD
    BY DEF GetCompare, Step, leds, history, Compare
  <1>2. Deadline' = Deadline
    BY <1>1, SameDeadline
  <1>3. Compare = Deadline /\ Deadline <= mtime
    BY <1>1 DEF IInv, Deadlines, Handling
  <1>4. Deadline \in Nat
    BY ConstantFacts DEF Deadline, IInv, Types
  <1>5. Types'
    BY <1>1, <1>3, <1>4, ConstantFacts DEF IInv, Types, Setting
  <1>6. Deadlines'
    BY <1>1, <1>2, <1>3 DEF Deadlines, Setting, Handling
  <1>7. Counts'
    BY <1>1 DEF IInv, Counts, Counted, Setting
  <1> QED
    BY <1>1, <1>5, <1>6, <1>7 DEF IInv, Reads

LEMMA NextIInv == IInv /\ [Next]_vars => IInv'
  <1> SUFFICES ASSUME IInv, [Next]_vars PROVE IInv'
    OBVIOUS
  <1>1. CASE UNCHANGED vars
    BY <1>1 DEF vars, timer, leds, time, history, IInv, Types, Reads, Deadlines, Counts,
       Counted, Deadline, Compare, High
  <1>2. CASE TimeIsUp
    BY <1>1, <1>2 DEF TimeIsUp
  <1> QED
    BY <1>1, <1>2, PassStep, ReadStep, ReadHighAgainStep, SetStep, SetLowStep, HandlerStep,
       BlinkStep, GetCompareStep DEF Next, Program

LEMMA Invariance == Spec => []IInv
  BY InitIInv, NextIInv, PTL DEF Spec

-----------------------------------------------------------------------------
\* The two words that main puts together are those of one instant.
THEOREM TimeIsOneInstant == Spec => []TimeIsExact
  <1>1. IInv => TimeIsExact
    BY ConstantFacts DEF IInv, Types, Deadlines, Deadline, Setting, TimeIsExact
  <1> QED
    BY <1>1, Invariance, PTL

\* Deadlines keep the rhythm of the start, however late the handlers run.
THEOREM NoDriftEver == Spec => []NoDrift
  <1>1. IInv => NoDrift
    BY DEF IInv, Deadlines, Compare, Deadline, NoDrift
  <1> QED
    BY <1>1, Invariance, PTL

\* The LEDs count.
THEOREM LedsCountAlways == Spec => []LedsCount
  <1>1. IInv => LedsCount
    BY DEF IInv, Counts, Counted, LedsCount
  <1> QED
    BY <1>1, Invariance, PTL

\* No interrupt is taken before the deadline it is for.
THEOREM NeverTooEarly == Spec => NeverEarly
  <1>1. IInv /\ Interrupt => mtime >= read_at + served * PERIOD
    <2> SUFFICES ASSUME IInv, Interrupt PROVE mtime >= Deadline
      BY DEF Deadline
    <2>1. pc = "wfi" /\ mtime >= Compare
      BY DEF Interrupt, Step, irq, Compare
    <2> QED
      BY <2>1 DEF IInv, Deadlines
  <1> QED
    BY <1>1, Invariance, PTL DEF Spec, NeverEarly

-----------------------------------------------------------------------------
(* Progress *)

\* The core executes as long as it can: always, but for the wait for an
\* interrupt that is not there.
ProgramRuns == <>[](pc # "wfi" \/ irq) => []<><<Program>>_vars

\* What separates this from the fairness that the run assumes, WF_vars(Program),
\* is that a step of the program is possible then.
LEMMA ProgramRunsIfItCan ==
  LiveSpec /\ [](pc # "wfi" \/ irq => ENABLED <<Program>>_vars) => Spec /\ ProgramRuns
  BY PTL DEF LiveSpec, ProgramRuns

\* The program after n deadlines, at one of its accesses; and waiting, with
\* the next deadline over.
At(place, n) == pc = place /\ served = n
Due(n) == At("wfi", n) /\ mtime >= read_at + n * PERIOD

\* The order of the accesses of the handler.
LEMMA ProgramMoves ==
  ASSUME Program
  PROVE  /\ pc = "wfi" => pc' \in {"button", "blink"}
         /\ pc = "button" => pc' = "color"
         /\ pc = "color" => pc' = "blink"
         /\ pc = "blink" => pc' = "getcmp"
         /\ pc = "getcmp" => pc' = "full"
         /\ pc = "full" => pc' = "sethigh"
         /\ pc = "sethigh" => pc' = "setlow"
         /\ pc = "setlow" => pc' = "wfi"
         /\ served' = IF pc = "setlow" THEN served + 1 ELSE served
  BY DEF Program, ClearLeds, ReadHigh, ReadLow, ReadHighAgain, SetFull, SetHigh, SetLow,
     Interrupt, ReadButtons, Light, Blink, GetCompare, Step, history

\* The rest of the world moves the time only.
LEMMA OthersWait ==
  ASSUME IInv, [Next]_vars
  PROVE  \/ Program
         \/ UNCHANGED <<pc, served, read_at>> /\ mtime' >= mtime /\ mtime' \in Nat
  BY DEF Next, Pass, TimeIsUp, IInv, Types, vars, timer, history

\* A deadline that is over has raised the interrupt.
LEMMA DueInterrupts ==
  ASSUME IInv, NEW n, Due(n)
  PROVE  irq
  BY DEF IInv, Deadlines, Deadline, Compare, Due, At, irq

\* Each access of the handler is followed by the next one: the program stays
\* or goes on, and goes on when it makes a step.
LEMMA NextAccess ==
  ASSUME NEW n \in Nat, NEW from, NEW to,
         <<from, to>> \in {<<"button", "color">>, <<"color", "blink">>, <<"blink", "getcmp">>,
                           <<"getcmp", "full">>, <<"full", "sethigh">>, <<"sethigh", "setlow">>}
  PROVE  /\ IInv /\ [Next]_vars /\ At(from, n) => At(from, n)' \/ At(to, n)'
         /\ <<Program>>_vars /\ At(from, n) => At(to, n)'
         /\ At(from, n) => pc # "wfi" \/ irq
  <1>1. from \notin {"wfi", "setlow"} /\ (Program /\ pc = from => pc' = to)
    BY ProgramMoves
  <1> QED
    BY <1>1, OthersWait, ProgramMoves DEF At

\* From the interrupt through the accesses of the handler to the next deadline.
LEMMA EachDeadline ==
  ASSUME NEW n \in Nat \ {0}
  PROVE  Spec /\ ProgramRuns =>
           (served = n /\ mtime >= read_at + n * PERIOD ~> served = n + 1)
  <1> DEFINE Late == served = n /\ mtime >= read_at + n * PERIOD
             Done == served = n + 1
             Goes(from, to) ==
               /\ IInv /\ [Next]_vars /\ At(from, n) => At(from, n)' \/ At(to, n)'
               /\ <<Program>>_vars /\ At(from, n) => At(to, n)'
               /\ At(from, n) => pc # "wfi" \/ irq
  <1>1. IInv /\ [Next]_vars /\ Due(n) => Due(n)' \/ At("button", n)' \/ At("blink", n)'
    <2> SUFFICES ASSUME IInv, [Next]_vars, Due(n)
                 PROVE  Due(n)' \/ At("button", n)' \/ At("blink", n)'
      OBVIOUS
    <2>1. n * PERIOD \in Nat /\ read_at \in Nat /\ mtime \in Nat
      BY ConstantFacts DEF IInv, Types
    <2> QED
      BY <2>1, OthersWait, ProgramMoves DEF Due, At
  <1>2. <<Program>>_vars /\ Due(n) => At("button", n)' \/ At("blink", n)'
    BY ProgramMoves DEF Due, At
  <1>3. IInv /\ Due(n) => pc # "wfi" \/ irq
    BY DueInterrupts
  <1>4. IInv /\ [Next]_vars /\ At("setlow", n) => At("setlow", n)' \/ Done'
    BY OthersWait, ProgramMoves DEF At
  <1>5. <<Program>>_vars /\ At("setlow", n) => Done'
    BY ProgramMoves DEF At
  <1>6. At("setlow", n) => pc # "wfi" \/ irq
    BY DEF At
  <1>7. IInv /\ Late =>
          \/ Due(n) \/ At("button", n) \/ At("color", n) \/ At("blink", n)
          \/ At("getcmp", n) \/ At("full", n) \/ At("sethigh", n) \/ At("setlow", n)
    BY DEF IInv, Types, Reads, Setting, Handling, Due, At
  <1>8. /\ Goes("button", "color") /\ Goes("color", "blink") /\ Goes("blink", "getcmp")
        /\ Goes("getcmp", "full") /\ Goes("full", "sethigh") /\ Goes("sethigh", "setlow")
    BY NextAccess
  <1> HIDE DEF Late, Done
  <1>9. Spec /\ ProgramRuns => (Late ~> Done)
    BY <1>1, <1>2, <1>3, <1>4, <1>5, <1>6, <1>7, <1>8, Invariance, PTL DEF Spec, ProgramRuns
  <1> QED
    BY <1>9 DEF Late, Done

\* As long as the core executes, every deadline is served, at whatever access
\* of the handler and however late the deadline passes.
THEOREM EveryDeadlineServed == Spec /\ ProgramRuns => DeadlineServed
  <1>1. ASSUME NEW n \in 1..(MaxTime \div PERIOD)
        PROVE  Spec /\ ProgramRuns =>
                 (served = n /\ mtime >= read_at + n * PERIOD ~> served = n + 1)
    BY EachDeadline
  <1> QED
    BY <1>1 DEF DeadlineServed

=============================================================================

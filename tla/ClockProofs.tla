---------------------------- MODULE ClockProofs -----------------------------
(***************************************************************************)
(* Proofs about module Clock, for every period, rounding and number of     *)
(* ticks.                                                                  *)
(***************************************************************************)
EXTENDS Clock, TLAPS

-----------------------------------------------------------------------------
(* The inductive invariant.                                                *)

ClockTypes ==
  /\ source \in {"lapic", "pit"}
  /\ ticks \in Nat /\ lost \in Nat /\ taken \in Nat
  /\ pending \in BOOLEAN /\ intOn \in BOOLEAN
  /\ latch \in Nat /\ latch <= HwPeriod
  /\ result \in Nat
  /\ source = "lapic" => latch = 0

(* The periods that have ended: each was taken, lost or is pending. *)
Waiting == IF pending THEN 1 ELSE 0
Periods == taken + lost + Waiting

PeriodInv ==
  /\ HwPeriod * Periods <= ticks
  /\ ticks < HwPeriod * (Periods + 1)

(* An interrupt is taken once, and the PIT's test on last_time never keeps *)
(* one from being counted.                                                 *)
ElapsedInv ==
  /\ elapsed = taken * NanoReset
  /\ lastTime = elapsed

(* What nsec() may have given so far. *)
ResultInv ==
  result <= Real + Drift + IF source = "pit" THEN HwPeriod * Unit ELSE 0

ClockInv == ClockTypes /\ PeriodInv /\ ElapsedInv /\ ResultInv

-----------------------------------------------------------------------------
(* Facts about arithmetic and about the constants.                         *)

(* Products keep the order. *)
LEMMA TimesMonotonic ==
  ASSUME NEW a \in Nat, NEW b \in Int, NEW c \in Int, b <= c
  PROVE  a * b <= a * c
<1>1. c - b \in Nat
  OBVIOUS
<1>2. a * (c - b) >= 0
  BY <1>1
<1>3. a * (c - b) = a * c - a * b
  OBVIOUS
<1>. QED
  BY <1>2, <1>3

(* A quotient and what is left. *)
LEMMA Division ==
  ASSUME NEW n \in Nat, NEW h \in Nat \ {0}
  PROVE  /\ n \div h \in Nat /\ n % h \in 0 .. h - 1
         /\ n = h * (n \div h) + (n % h)
OBVIOUS

(* The multiple of h below n is the only one. *)
LEMMA Remainder ==
  ASSUME NEW n \in Nat, NEW h \in Nat \ {0}, NEW k \in Nat,
         h * k <= n, n < h * (k + 1)
  PROVE  n % h = n - h * k
<1>. DEFINE q == n \div h
<1>1. q \in Nat /\ n % h \in 0 .. h - 1 /\ n = h * q + (n % h)
  BY Division
<1>. HIDE DEF q
<1>2. ~ (q <= k - 1)
  <2>. SUFFICES ASSUME q + 1 <= k PROVE FALSE
    BY <1>1
  <2>1. h * (q + 1) <= h * k
    BY <1>1, TimesMonotonic
  <2>2. h * (q + 1) = h * q + h
    BY <1>1
  <2>. QED
    BY <1>1, <2>1, <2>2
<1>3. ~ (k + 1 <= q)
  <2>. SUFFICES ASSUME k + 1 <= q PROVE FALSE
    OBVIOUS
  <2>1. h * (k + 1) <= h * q
    BY <1>1, TimesMonotonic
  <2>. QED
    BY <1>1, <2>1
<1>4. q = k
  BY <1>1, <1>2, <1>3
<1>. QED
  BY <1>1, <1>4

(* The period of the hardware is not zero, and the handler adds no less    *)
(* than it: the count of the local APIC is rounded down (init_timer).      *)
LEMMA Period ==
  ASSUME source \in {"lapic", "pit"}
  PROVE  /\ HwPeriod \in Nat \ {0} /\ Unit \in Nat \ {0} /\ NanoReset \in Nat
         /\ HwPeriod * Unit <= NanoReset
<1>1. CASE source = "lapic"
  <2>. DEFINE q == TIMER_PERIOD \div NsecPerTick
  <2>1. /\ TIMER_PERIOD \in Nat /\ NsecPerTick \in Nat \ {0} /\ NsecPerTick <= TIMER_PERIOD
    BY ClockConstants
  <2>2. /\ q \in Nat /\ TIMER_PERIOD % NsecPerTick \in 0 .. NsecPerTick - 1
        /\ TIMER_PERIOD = NsecPerTick * q + (TIMER_PERIOD % NsecPerTick)
    BY <2>1, Division
  <2>3. HwPeriod = q /\ Unit = NsecPerTick /\ NanoReset = TIMER_PERIOD
    BY <1>1 DEF HwPeriod, LapicCount, Unit, NanoReset
  <2>. HIDE DEF q
  <2>4. q # 0
    BY <2>1, <2>2
  <2>5. q * NsecPerTick <= TIMER_PERIOD
    BY <2>1, <2>2
  <2>. QED
    BY <2>1, <2>2, <2>3, <2>4, <2>5
<1>2. CASE source = "pit"
  <2>1. HwPeriod = Reset /\ Unit = NANOSEC_PER_CLOCK /\ NanoReset = NANOSEC_PER_CLOCK * Reset
    BY <1>2 DEF HwPeriod, Unit, NanoReset
  <2>2. Reset \in Nat \ {0} /\ NANOSEC_PER_CLOCK \in Nat \ {0}
    BY ClockConstants
  <2>3. NANOSEC_PER_CLOCK * Reset \in Nat /\ Reset * NANOSEC_PER_CLOCK <= NANOSEC_PER_CLOCK * Reset
    BY <2>2
  <2>. QED
    BY <2>1, <2>2, <2>3
<1>. QED
  BY <1>1, <1>2

-----------------------------------------------------------------------------
(* What the counter says, and what the time is.                            *)

(* The arithmetic of the time: the ticks since the last multiple of the    *)
(* period, the periods whose interrupt was not taken, and those taken.     *)
LEMMA Summed ==
  ASSUME NEW h \in Nat, NEW u \in Nat, NEW m \in Nat, NEW k \in Nat, NEW l \in Nat,
         NEW n \in Nat
  PROVE  n * u + k * (m - h * u) = k * m + u * (h * l) + u * (n - h * (k + l))
<1>1. k * (m - h * u) = k * m - k * (h * u)
  OBVIOUS
<1>2. h * (k + l) = h * k + h * l
  OBVIOUS
<1>3. u * (n - h * (k + l)) = u * n - u * (h * k) - u * (h * l)
  BY <1>2
<1>4. u * (h * k) = k * (h * u)
  OBVIOUS
<1>. QED
  BY <1>1, <1>3, <1>4

(* How far the time of the hardware is ahead of elapsed_time. *)
LEMMA Ahead ==
  ASSUME ClockInv
  PROVE  /\ ticks % HwPeriod \in 0 .. HwPeriod - 1
         /\ ticks % HwPeriod = ticks - HwPeriod * Periods
         /\ Real + Drift = elapsed + Unit * (HwPeriod * (lost + Waiting)) + Unit * (ticks % HwPeriod)
         /\ elapsed \in Nat /\ Real \in Nat /\ Drift \in Nat
<1>. DEFINE h == HwPeriod
            u == Unit
            m == NanoReset
            l == lost + Waiting
<1>1. /\ h \in Nat \ {0} /\ u \in Nat \ {0} /\ m \in Nat /\ h * u <= m
      /\ ticks \in Nat /\ taken \in Nat /\ l \in Nat
  BY Period DEF ClockInv, ClockTypes, Waiting
<1>2. Periods = taken + l /\ Periods \in Nat
  BY DEF ClockInv, ClockTypes, Periods, Waiting
<1>3. /\ h * Periods <= ticks /\ ticks < h * (Periods + 1)
      /\ elapsed = taken * m
      /\ Real = ticks * u /\ Drift = taken * (m - h * u)
  BY DEF ClockInv, PeriodInv, ElapsedInv, Real, Drift
<1>. HIDE DEF h, u, m, l
<1>4. ticks % h = ticks - h * Periods /\ ticks % h \in 0 .. h - 1
  <2>. DEFINE k == Periods
  <2>1. /\ ticks \in Nat /\ h \in Nat \ {0} /\ k \in Nat
        /\ h * k <= ticks /\ ticks < h * (k + 1)
    BY <1>1, <1>2, <1>3
  <2>. HIDE DEF k
  <2>2. ticks % h = ticks - h * k
    BY ONLY <2>1, Remainder
  <2>3. ticks % h \in 0 .. h - 1
    BY ONLY <2>1, Division
  <2>. QED
    BY <2>2, <2>3 DEF k
<1>5. Real + Drift = elapsed + u * (h * l) + u * (ticks % h)
  BY <1>1, <1>2, <1>3, <1>4, Summed
<1>6. elapsed \in Nat /\ Real \in Nat
  BY <1>1, <1>3
<1>7. Drift \in Nat
  <2>1. m - h * u \in Nat
    BY <1>1
  <2>. HIDE DEF Drift
  <2>. DEFINE d == m - h * u
  <2>2. Drift = taken * d /\ d \in Nat
    BY <1>3, <2>1
  <2>. HIDE DEF d
  <2>. QED
    BY <1>1, <2>2
<1>. QED
  BY <1>4, <1>5, <1>6, <1>7 DEF h, u, m, l

(* The invariant is about how far the time is known, so it implies what    *)
(* the property says of it.                                                *)
LEMMA AccurateFromInv ==
  ASSUME ClockInv
  PROVE  Accurate
<1>. DEFINE h == HwPeriod
            u == Unit
            l == lost + Waiting
            r == ticks % HwPeriod
<1>1. /\ h \in Nat \ {0} /\ u \in Nat \ {0} /\ l \in Nat
  BY Period DEF ClockInv, ClockTypes, Waiting
<1>2. /\ r \in 0 .. h - 1
      /\ Real + Drift = elapsed + u * (h * l) + u * r
      /\ elapsed \in Nat /\ Real \in Nat /\ Drift \in Nat
  BY Ahead
<1>. HIDE DEF h, u, l, r
<1>3. u * (h * l) \in Nat /\ u * r \in Nat
  BY <1>1, <1>2
<1>4. elapsed <= Real + Drift
  BY <1>2, <1>3
<1>5. Real - elapsed < (1 + l) * h * u
  <2>1. u * r < u * h
    <3>1. u * (r + 1) <= u * h
      BY <1>1, <1>2, TimesMonotonic
    <3>2. u * (r + 1) = u * r + u
      BY <1>1, <1>2
    <3>. QED
      BY <1>1, <1>3, <3>1, <3>2
  <2>2. (1 + l) * h * u = u * h + u * (h * l)
    BY <1>1
  <2>. QED
    BY <1>1, <1>2, <1>3, <2>1, <2>2
<1>6. (1 + lost + IF pending THEN 1 ELSE 0) = 1 + l
  BY DEF ClockInv, ClockTypes, l, Waiting
<1>7. ResultInv
  BY DEF ClockInv
<1>. QED
  BY <1>4, <1>5, <1>6, <1>7 DEF Accurate, ResultInv, h, u

-----------------------------------------------------------------------------
(* The steps.                                                              *)

(* The timer a processor uses never changes. *)
LEMMA SamePeriod ==
  ASSUME source' = source
  PROVE  HwPeriod' = HwPeriod /\ Unit' = Unit /\ NanoReset' = NanoReset
BY DEF HwPeriod, Unit, NanoReset

(* A period ends with the tick that makes the count a multiple of it. *)
LEMMA PeriodEnds ==
  ASSUME NEW n \in Nat, NEW h \in Nat \ {0}, NEW k \in Nat, h * k <= n, n < h * (k + 1)
  PROVE  /\ (n + 1) % h = 0 => h * (k + 1) <= n + 1 /\ n + 1 < h * (k + 1 + 1)
         /\ (n + 1) % h # 0 => h * k <= n + 1 /\ n + 1 < h * (k + 1)
<1>. DEFINE x == n + 1
            j == k + 1
<1>1. /\ h * (j + 1) = h * j + h /\ h * j \in Nat /\ h * k \in Nat
      /\ x \in Nat /\ j \in Nat /\ h * k < x /\ x <= h * j
  OBVIOUS
<1>. SUFFICES /\ x % h = 0 => h * j <= x /\ x < h * (j + 1)
              /\ x % h # 0 => h * k <= x /\ x < h * j
  OBVIOUS
<1>2. x % h = 0 => x = h * j
  <2>. SUFFICES ASSUME x < h * (k + 1) PROVE x % h # 0
    BY <1>1
  <2>0. x \in Nat /\ h * k <= x /\ h * k < x
    BY <1>1
  <2>. HIDE DEF x
  <2>1. x % h = x - h * k
    BY <2>0, Remainder
  <2>. QED
    BY <1>1, <2>1
<1>. HIDE DEF x, j
<1>3. x = h * j => x % h = 0
  <2>. SUFFICES ASSUME x = h * j PROVE x % h = 0
    OBVIOUS
  <2>1. x % h = x - h * j
    BY <1>1, Remainder
  <2>. QED
    BY <1>1, <2>1
<1>. QED
  BY <1>1, <1>2, <1>3

(* A tick of the hardware. *)
LEMMA HardwareStep ==
  ASSUME ClockInv, Hardware
  PROVE  ClockInv'
<1>. DEFINE h == HwPeriod
            u == Unit
            k == Periods
<1>1. /\ h \in Nat \ {0} /\ u \in Nat \ {0} /\ k \in Nat /\ ticks \in Nat
      /\ h * k <= ticks /\ ticks < h * (k + 1)
  BY Period DEF ClockInv, ClockTypes, PeriodInv, Periods, Waiting
<1>2. /\ ticks' = ticks + 1
      /\ UNCHANGED <<source, elapsed, lastTime, intOn, taken, latch, result>>
  BY DEF Hardware
<1>3. HwPeriod' = h /\ Unit' = u /\ NanoReset' = NanoReset
  BY <1>2, SamePeriod
<1>4. /\ pending' = (pending \/ ticks' % HwPeriod' = 0)
      /\ lost' = IF ticks' % HwPeriod' = 0 /\ pending THEN lost + 1 ELSE lost
  BY <1>3 DEF Hardware
<1>5. /\ lost' \in Nat /\ pending' \in BOOLEAN
      /\ ticks' % h = 0 => Periods' = k + 1
      /\ ticks' % h # 0 => Periods' = k
  <2>1. /\ lost \in Nat /\ taken \in Nat /\ pending \in BOOLEAN /\ taken' = taken
    BY <1>2 DEF ClockInv, ClockTypes
  <2>. DEFINE over == ticks' % h = 0
  <2>2. /\ pending' = (pending \/ over) /\ over \in BOOLEAN
        /\ lost' = IF over /\ pending THEN lost + 1 ELSE lost
    BY <1>3, <1>4
  <2>. HIDE DEF over, h
  <2>3. lost' \in Nat /\ pending' \in BOOLEAN
    BY <2>1, <2>2
  <2>4. Waiting \in {0, 1} /\ Waiting' \in {0, 1}
    BY DEF Waiting
  <2>5. over => Periods' = k + 1
    <3>1. CASE pending /\ over
      <4>1. lost' = lost + 1 /\ pending'
        BY <2>2, <3>1
      <4>. QED
        BY <2>1, <3>1, <4>1 DEF Periods, Waiting, k
    <3>2. CASE ~pending /\ over
      <4>1. lost' = lost /\ pending'
        BY <2>2, <3>2
      <4>. QED
        BY <2>1, <3>2, <4>1 DEF Periods, Waiting, k
    <3>. QED
      BY <3>1, <3>2
  <2>6. ~over => Periods' = k
    <3>. SUFFICES ASSUME ~over PROVE Periods' = k
      OBVIOUS
    <3>1. lost' = lost /\ pending' = pending
      BY <2>1, <2>2
    <3>. QED
      BY <2>1, <3>1 DEF Periods, Waiting, k
  <2>. QED
    BY <2>3, <2>5, <2>6 DEF over
<1>. HIDE DEF h, u, k
<1>6. ClockTypes'
  BY <1>1, <1>2, <1>3, <1>5 DEF ClockInv, ClockTypes, h
<1>7. h * Periods' <= ticks' /\ ticks' < h * (Periods' + 1)
  BY <1>1, <1>2, <1>5, PeriodEnds
<1>8. PeriodInv'
  BY <1>3, <1>7 DEF PeriodInv
<1>9. ElapsedInv'
  BY <1>2, <1>3 DEF ClockInv, ElapsedInv
<1>10. Real' = Real + u /\ Drift' = Drift /\ Real \in Nat /\ Drift \in Nat
  <2>1. Real = ticks * u /\ Real' = (ticks + 1) * u
    BY <1>2, <1>3 DEF Real, u
  <2>2. (ticks + 1) * u = ticks * u + u
    BY <1>1
  <2>3. Drift' = Drift
    BY <1>2, <1>3 DEF Drift, h, u
  <2>. QED
    BY <2>1, <2>2, <2>3, Ahead
<1>11. ResultInv'
  <2>1. result \in Nat /\ h * u \in Nat
    BY <1>1 DEF ClockInv, ClockTypes
  <2>2. result <= Real + Drift + IF source = "pit" THEN h * u ELSE 0
    BY DEF ClockInv, ResultInv, h, u
  <2>3. result' <= Real' + Drift' + IF source = "pit" THEN h * u ELSE 0
    BY <1>1, <1>2, <1>10, <2>1, <2>2
  <2>. QED
    BY <1>2, <1>3, <2>3 DEF ResultInv
<1>. QED
  BY <1>6, <1>8, <1>9, <1>11 DEF ClockInv

(* The handler of the timer. *)
LEMMA TickStep ==
  ASSUME ClockInv, Tick
  PROVE  ClockInv'
<1>. DEFINE h == HwPeriod
            u == Unit
            m == NanoReset
<1>1. /\ h \in Nat \ {0} /\ u \in Nat \ {0} /\ m \in Nat /\ h * u <= m
      /\ taken \in Nat /\ elapsed = taken * m
  BY Period DEF ClockInv, ClockTypes, ElapsedInv
<1>2. /\ pending /\ pending' = FALSE /\ taken' = taken + 1
      /\ elapsed' = elapsed + m /\ lastTime' = elapsed'
      /\ UNCHANGED <<source, ticks, intOn, lost, latch, result>>
  BY DEF Tick, ClockInv, ElapsedInv
<1>3. HwPeriod' = h /\ Unit' = u /\ NanoReset' = m
  BY <1>2, SamePeriod
<1>4. Periods' = Periods
  BY <1>2 DEF ClockInv, ClockTypes, Periods, Waiting
<1>. HIDE DEF h, u, m
<1>5. ClockTypes'
  <2>1. /\ ClockTypes /\ taken + 1 \in Nat /\ FALSE \in BOOLEAN
    BY <1>1 DEF ClockInv
  <2>. QED
    BY <1>2, <1>3, <2>1 DEF ClockTypes, h
<1>6. PeriodInv'
  BY <1>2, <1>3, <1>4 DEF ClockInv, PeriodInv, h
<1>7. ElapsedInv'
  <2>1. (taken + 1) * m = taken * m + m
    BY <1>1
  <2>. QED
    BY <1>1, <1>2, <1>3, <2>1 DEF ElapsedInv
<1>8. Real' = Real /\ Drift' = Drift + (m - h * u) /\ Real \in Nat /\ Drift \in Nat
  <2>1. Real' = Real
    BY <1>2, <1>3 DEF Real, u
  <2>2. Drift = taken * (m - h * u) /\ Drift' = (taken + 1) * (m - h * u)
    BY <1>2, <1>3 DEF Drift, h, u, m
  <2>3. m - h * u \in Int
    BY <1>1
  <2>4. (taken + 1) * (m - h * u) = taken * (m - h * u) + (m - h * u)
    BY <1>1, <2>3
  <2>. QED
    BY <2>1, <2>2, <2>4, Ahead
<1>9. ResultInv'
  <2>1. result \in Nat /\ h * u \in Nat
    BY <1>1 DEF ClockInv, ClockTypes
  <2>2. result <= Real + Drift + IF source = "pit" THEN h * u ELSE 0
    BY DEF ClockInv, ResultInv, h, u
  <2>3. result' <= Real' + Drift' + IF source = "pit" THEN h * u ELSE 0
    BY <1>1, <1>2, <1>8, <2>1, <2>2
  <2>. QED
    BY <1>2, <1>3, <2>3 DEF ResultInv
<1>. QED
  BY <1>5, <1>6, <1>7, <1>9 DEF ClockInv

(* What nsec() reads from the counter. *)
LEMMA CounterRead ==
  ASSUME ClockInv
  PROVE  /\ Counter \in Nat /\ Counter <= HwPeriod
         /\ SinceReset(Counter) = Unit * (ticks % HwPeriod)
         /\ \A c \in Nat : c <= HwPeriod =>
              SinceReset(c) \in Nat /\ SinceReset(c) <= HwPeriod * Unit
<1>. DEFINE h == HwPeriod
            u == Unit
            r == ticks % HwPeriod
<1>1. h \in Nat \ {0} /\ u \in Nat \ {0} /\ r \in 0 .. h - 1
  BY Period, Ahead DEF ClockInv, ClockTypes
<1>2. Counter = h - r /\ \A c : SinceReset(c) = u * (h - c)
  BY DEF Counter, SinceReset
<1>. HIDE DEF h, u, r
<1>3. h - (h - r) = r
  BY <1>1
<1>4. ASSUME NEW c \in Nat, c <= h PROVE u * (h - c) \in Nat /\ u * (h - c) <= h * u
  <2>1. h - c \in Nat /\ h - c <= h
    BY <1>1, <1>4
  <2>2. u * (h - c) \in Nat
    BY <1>1, <2>1
  <2>3. u * (h - c) <= u * h
    BY <1>1, <2>1, TimesMonotonic
  <2>. QED
    BY <1>1, <2>2, <2>3
<1>. QED
  BY <1>1, <1>2, <1>3, <1>4 DEF h, u, r

(* What nsec() of the local APIC gives. *)
LEMMA NsecLapicStep ==
  ASSUME ClockInv, NsecLapic
  PROVE  /\ ClockInv'
         /\ pending \/ lost > 0 \/ result' >= result
<1>. DEFINE h == HwPeriod
            u == Unit
            l == lost + Waiting
            r == ticks % HwPeriod
<1>1. /\ h \in Nat \ {0} /\ u \in Nat \ {0} /\ l \in Nat /\ r \in 0 .. h - 1
      /\ elapsed \in Nat /\ Real \in Nat /\ Drift \in Nat
      /\ Real + Drift = elapsed + u * (h * l) + u * r
  BY Period, Ahead DEF ClockInv, ClockTypes, Waiting
<1>2. /\ source = "lapic" /\ result' = elapsed + u * r
      /\ UNCHANGED <<source, ticks, elapsed, lastTime, pending, intOn, lost, taken, latch>>
  BY CounterRead DEF NsecLapic
<1>3. HwPeriod' = HwPeriod /\ Unit' = Unit /\ NanoReset' = NanoReset
  BY <1>2, SamePeriod
<1>4. result \in Nat /\ result <= Real + Drift
  BY <1>1, <1>2 DEF ClockInv, ClockTypes, ResultInv
<1>5. ~ pending /\ ~ (lost > 0) => l = 0
  BY DEF ClockInv, ClockTypes, Waiting
<1>. HIDE DEF h, u, l, r
<1>6. u * (h * l) \in Nat /\ u * r \in Nat /\ (l = 0 => u * (h * l) = 0)
  BY <1>1
<1>7. result' \in Nat /\ result' <= Real + Drift /\ (l = 0 => result' >= result)
  BY <1>1, <1>2, <1>4, <1>6
<1>8. Real' = Real /\ Drift' = Drift /\ Periods' = Periods
  BY <1>2, <1>3 DEF Real, Drift, Periods, Waiting
<1>9. ClockTypes' /\ PeriodInv' /\ ElapsedInv'
  BY <1>2, <1>3, <1>7, <1>8 DEF ClockInv, ClockTypes, PeriodInv, ElapsedInv
<1>10. ResultInv'
  BY <1>1, <1>2, <1>7, <1>8 DEF ResultInv
<1>. QED
  BY <1>5, <1>7, <1>9, <1>10 DEF ClockInv

(* The two halves of nsec() of the PIT, or elapsed_time alone. *)
LEMMA NsecPitStep ==
  ASSUME ClockInv, NsecLatch \/ NsecPit \/ NsecNoLatch
  PROVE  ClockInv' /\ source = "pit"
<1>. DEFINE f == HwPeriod * Unit
<1>1. /\ source' = source /\ source = "pit"
      /\ UNCHANGED <<ticks, elapsed, lastTime, pending, intOn, lost, taken>>
  BY DEF NsecLatch, NsecPit, NsecNoLatch, ClockInv, ClockTypes
<1>2. HwPeriod' = HwPeriod /\ Unit' = Unit /\ NanoReset' = NanoReset
  BY <1>1, SamePeriod
<1>3. Real' = Real /\ Drift' = Drift /\ Periods' = Periods
  BY <1>1, <1>2 DEF Real, Drift, Periods, Waiting
<1>4. /\ elapsed \in Nat /\ Real \in Nat /\ Drift \in Nat /\ elapsed <= Real + Drift
      /\ result <= Real + Drift + f /\ result \in Nat
  BY <1>1, Ahead, AccurateFromInv DEF Accurate, ClockInv, ClockTypes, ResultInv
<1>5. latch' \in Nat /\ latch' <= HwPeriod
  BY CounterRead, Period DEF NsecLatch, NsecPit, NsecNoLatch, ClockInv, ClockTypes
<1>6. result' \in Nat /\ result' <= Real + Drift + f
  <2>1. CASE NsecLatch
    BY <1>4, <2>1 DEF NsecLatch
  <2>2. CASE NsecPit
    <3>1. SinceReset(latch) \in Nat /\ SinceReset(latch) <= f
      BY CounterRead DEF ClockInv, ClockTypes
    <3>2. result' = elapsed + SinceReset(latch)
      BY <2>2 DEF NsecPit
    <3>3. f \in Nat
      BY Period DEF ClockInv, ClockTypes
    <3>. HIDE DEF f
    <3>. QED
      BY <1>4, <3>1, <3>2, <3>3
  <2>3. CASE NsecNoLatch
    <3>1. result' = elapsed /\ f \in Nat
      BY <2>3, Period DEF NsecNoLatch, ClockInv, ClockTypes
    <3>. HIDE DEF f
    <3>. QED
      BY <1>4, <3>1
  <2>. QED
    BY <2>1, <2>2, <2>3
<1>7. ClockTypes' /\ PeriodInv' /\ ElapsedInv'
  BY <1>1, <1>2, <1>3, <1>5, <1>6 DEF ClockInv, ClockTypes, PeriodInv, ElapsedInv
<1>8. ResultInv'
  BY <1>1, <1>2, <1>3, <1>6 DEF ResultInv
<1>. QED
  BY <1>1, <1>7, <1>8 DEF ClockInv

(* A step that leaves the clock alone. *)
LEMMA ClockStutter ==
  ASSUME ClockInv, intOn' \in BOOLEAN,
         UNCHANGED <<source, ticks, elapsed, lastTime, pending, lost, taken, latch, result>>
  PROVE  ClockInv'
<1>1. HwPeriod' = HwPeriod /\ Unit' = Unit /\ NanoReset' = NanoReset
  BY SamePeriod
<1>. QED
  BY <1>1 DEF ClockInv, ClockTypes, PeriodInv, Periods, Waiting, ElapsedInv, ResultInv, Real, Drift

-----------------------------------------------------------------------------
(* The theorems.                                                           *)

(* The timer has just been set. *)
LEMMA ClockStart ==
  ASSUME ClockInit
  PROVE  ClockInv
<1>1. HwPeriod \in Nat \ {0} /\ Unit \in Nat \ {0} /\ NanoReset \in Nat
  BY Period DEF ClockInit
<1>2. HwPeriod * Unit \in Nat /\ 0 * Unit = 0 /\ 0 * NanoReset = 0
      /\ 0 * (NanoReset - HwPeriod * Unit) = 0 /\ HwPeriod * 0 = 0 /\ HwPeriod * 1 = HwPeriod
  BY <1>1
<1>3. Periods = 0 /\ Real = 0 /\ Drift = 0
  BY <1>2 DEF ClockInit, Periods, Waiting, Real, Drift
<1>4. ClockTypes
  <2>1. 0 <= HwPeriod /\ FALSE \in BOOLEAN
    BY <1>1
  <2>2. /\ source \in {"lapic", "pit"} /\ ticks = 0 /\ lost = 0 /\ taken = 0 /\ latch = 0
        /\ result = 0 /\ pending = FALSE /\ intOn = FALSE
    BY DEF ClockInit
  <2>. QED
    BY <2>1, <2>2 DEF ClockTypes
<1>5. ElapsedInv
  BY <1>2 DEF ClockInit, ElapsedInv
<1>6. PeriodInv
  BY <1>1, <1>2, <1>3 DEF ClockInit, PeriodInv
<1>7. ResultInv
  BY <1>1, <1>2, <1>3 DEF ClockInit, ResultInv
<1>. QED
  BY <1>4, <1>5, <1>6, <1>7 DEF ClockInv

(* Each step keeps the invariant, and none lets the time of a local APIC   *)
(* fall unless an interrupt is pending or was lost.                        *)
LEMMA ClockStep ==
  ASSUME ClockInv, [ClockNext]_clockVars
  PROVE  /\ ClockInv'
         /\ \/ result' = result
            \/ source = "lapic" => result' >= result \/ pending \/ lost > 0
<1>1. CASE Hardware
  BY <1>1, HardwareStep DEF Hardware
<1>2. CASE Tick
  BY <1>2, TickStep DEF Tick
<1>3. CASE NsecLapic
  BY <1>3, NsecLapicStep
<1>4. CASE NsecLatch \/ NsecPit \/ NsecNoLatch
  BY <1>4, NsecPitStep
<1>5. ASSUME NEW on \in BOOLEAN, Interrupts(on) PROVE ClockInv' /\ result' = result
  BY <1>5, ClockStutter DEF Interrupts
<1>6. CASE UNCHANGED clockVars
  BY <1>6, ClockStutter DEF clockVars, ClockInv, ClockTypes
<1>. QED
  BY <1>1, <1>2, <1>3, <1>4, <1>5, <1>6 DEF ClockNext

(* The invariant, for every behaviour. *)
THEOREM ClockCorrect == ClockSpec => []ClockInv
<1>1. ClockInit => ClockInv
  BY ClockStart
<1>2. ClockInv /\ [ClockNext]_clockVars => ClockInv'
  BY ClockStep
<1>. QED
  BY <1>1, <1>2, PTL DEF ClockSpec

(* elapsed_time is never ahead of the hardware by more than the rounding,  *)
(* and behind it by a period for each interrupt not taken (LocalApic::tick *)
(* and Pit::tick), for every period, rounding and length of time with      *)
(* interrupts off.                                                         *)
THEOREM TimeAccurate == ClockSpec => []Accurate
<1>1. ClockInv => Accurate
  BY AccurateFromInv
<1>. QED
  BY <1>1, ClockCorrect, PTL

(* What nsec() of a local APIC gives only falls while an interrupt of the  *)
(* timer is pending or after one was lost.                                 *)
THEOREM TimeForward == ClockSpec => ForwardOnly
<1>1. ClockInv /\ [ClockNext]_clockVars
        => [source = "lapic" => result' >= result \/ pending \/ lost > 0]_result
  BY ClockStep
<1>. QED
  BY <1>1, ClockCorrect, PTL DEF ClockSpec, ForwardOnly
=============================================================================

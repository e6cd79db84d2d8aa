------------------------------- MODULE Clock --------------------------------
(***************************************************************************)
(* The time of a processor: the timer of its local APIC (lapic.rs) or, on  *)
(* a machine without one, the PIT (time/pit.rs).                           *)
(*                                                                         *)
(* The hardware counts ticks; after each period it interrupts, and the     *)
(* handler adds the period to elapsed_time.  nsec() adds what the counter  *)
(* says.  Interrupts may be off for any time.                              *)
(***************************************************************************)
EXTENDS Integers

CONSTANTS TIMER_PERIOD,       \* nanoseconds
          NsecPerTick,        \* what nanosec_per_timer_tick returned
          Reset,              \* ticks of the PIT per interrupt
          NANOSEC_PER_CLOCK,
          MaxTicks            \* bound: ticks of the hardware

ASSUME ClockConstants ==
  /\ TIMER_PERIOD \in Nat /\ NsecPerTick \in 1 .. TIMER_PERIOD
  /\ Reset \in Nat \ {0} /\ NANOSEC_PER_CLOCK \in Nat \ {0} /\ MaxTicks \in Nat

VARIABLES source,     \* timer(): "lapic" or "pit"
          ticks,      \* of the hardware since the timer was set
          elapsed,    \* elapsed_time
          lastTime,   \* cpud().last_time, of the PIT
          pending,    \* an interrupt waits
          intOn,
          lost,       \* history: periods whose interrupt was never taken
          taken,      \* history: interrupts taken
          latch,      \* a reader of the PIT between latch and elapsed_time
          result      \* the last value nsec() gave

clockVars == <<source, ticks, elapsed, lastTime, pending, intOn, lost, taken, latch, result>>

(* init_timer                                                              *)
LapicCount == TIMER_PERIOD \div NsecPerTick

HwPeriod == IF source = "lapic" THEN LapicCount ELSE Reset
Unit == IF source = "lapic" THEN NsecPerTick ELSE NANOSEC_PER_CLOCK
NanoReset == IF source = "lapic" THEN TIMER_PERIOD ELSE NANOSEC_PER_CLOCK * Reset

(* TIMER_COUNT of the local APIC and channel 0 of the PIT count down.      *)
Counter == HwPeriod - (ticks % HwPeriod)

Hardware ==
  /\ ticks < MaxTicks /\ ticks' = ticks + 1
  /\ LET over == ticks' % HwPeriod = 0
     IN /\ pending' = (pending \/ over)
        /\ lost' = IF over /\ pending THEN lost + 1 ELSE lost
  /\ UNCHANGED <<source, elapsed, lastTime, intOn, taken, latch, result>>

Interrupts(on) ==
  /\ intOn = ~on /\ intOn' = on
  /\ UNCHANGED <<source, ticks, elapsed, lastTime, pending, lost, taken, latch, result>>

(* LocalApic::tick and Pit::tick                                           *)
Tick ==
  /\ intOn /\ pending /\ pending' = FALSE /\ taken' = taken + 1
  /\ IF source = "lapic" \/ elapsed = lastTime
     THEN elapsed' = elapsed + NanoReset /\ lastTime' = elapsed'
     ELSE lastTime' = elapsed /\ UNCHANGED elapsed
  /\ UNCHANGED <<source, ticks, intOn, lost, latch, result>>

(* Mutant: the counter is taken to count up.                               *)
SinceResetUp(c) == Unit * c

SinceReset(c) == Unit * (HwPeriod - c)

(* Mutant: nsec() gives elapsed_time alone when it does not get a lock.    *)
NsecLapicTryLock ==
  /\ source = "lapic"
  /\ result' \in {elapsed, elapsed + SinceReset(Counter)}
  /\ UNCHANGED <<source, ticks, elapsed, lastTime, pending, intOn, lost, taken, latch>>

(* nsec() of the local APIC, with interrupts off.                          *)
NsecLapic ==
  /\ source = "lapic"
  /\ result' = elapsed + SinceReset(Counter)
  /\ UNCHANGED <<source, ticks, elapsed, lastTime, pending, intOn, lost, taken, latch>>

(* nsec() of the PIT: the counter is latched and read, then elapsed_time;  *)
(* an interrupt may come between the two.                                  *)
NsecLatch ==
  /\ source = "pit" /\ latch = 0 /\ latch' = Counter
  /\ UNCHANGED <<source, ticks, elapsed, lastTime, pending, intOn, lost, taken, result>>

NsecPit ==
  /\ latch # 0 /\ latch' = 0
  /\ result' = elapsed + SinceReset(latch)
  /\ UNCHANGED <<source, ticks, elapsed, lastTime, pending, intOn, lost, taken>>

(* nsec() when its try_lock fails, because another processor has the lock  *)
(* or the handler runs between the two: nsec_no_latch, elapsed_time alone. *)
NsecNoLatch ==
  /\ source = "pit"
  /\ result' = elapsed
  /\ UNCHANGED <<source, ticks, elapsed, lastTime, pending, intOn, lost, taken, latch>>

ClockInit ==
  /\ source \in {"lapic", "pit"}
  /\ ticks = 0 /\ elapsed = 0 /\ lastTime = 0 /\ pending = FALSE /\ intOn = FALSE
  /\ lost = 0 /\ taken = 0 /\ latch = 0 /\ result = 0

ClockNext ==
  \/ Hardware \/ Tick \/ NsecLapic \/ NsecLatch \/ NsecPit \/ NsecNoLatch
  \/ \E on \in BOOLEAN : Interrupts(on)

ClockSpec == ClockInit /\ [][ClockNext]_clockVars

(***************************************************************************)
(* Properties.                                                             *)
(***************************************************************************)

(* The time the hardware has counted, and what each interrupt of the local *)
(* APIC adds beyond it because the count is rounded.                       *)
Real == ticks * Unit
Drift == taken * (NanoReset - HwPeriod * Unit)

(* elapsed_time counts every interrupt that was taken once and is behind   *)
(* the hardware by less than a period for the running one, a period for    *)
(* the pending interrupt and a period for each one that was lost.          *)
Accurate ==
  /\ elapsed <= Real + Drift
  /\ Real - elapsed < (1 + lost + IF pending THEN 1 ELSE 0) * HwPeriod * Unit
  /\ result <= Real + Drift + IF source = "pit" THEN HwPeriod * Unit ELSE 0

(* What nsec() gives on a processor with a local APIC falls only while an  *)
(* interrupt of the timer is pending or after one was lost.                *)
ForwardOnly ==
  [][source = "lapic" => result' >= result \/ pending \/ lost > 0]_result
=============================================================================

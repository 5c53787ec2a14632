--------------------------------- MODULE Timer ---------------------------------
(***************************************************************************)
(* The tick counter of src/impl/kernel/core/timer.c and a caller of        *)
(* timer_sleep_ms, which tests the counter and halts in two steps that an  *)
(* interrupt may part.  Interrupts are on: kernel_main turns them on       *)
(* before anything that could sleep runs, and nothing turns them off for   *)
(* good but the power commands and a panic.                                *)
(***************************************************************************)
EXTENDS Integers

CONSTANTS
  PitBase,      \* PIT_BASE_FREQ (1193182)
  DivisorMax,   \* largest divisor (65535)
  DefaultHz,    \* frequency used instead of an invalid one (100)
  SecondMs,     \* milliseconds of a second (1000)
  Frequencies,  \* frequencies asked of pit_init
  Sleeps,       \* milliseconds asked of timer_sleep_ms
  TickCap,      \* bound: the count stops there, the interrupts do not
  SleepCap      \* bound: calls of timer_sleep_ms

ASSUME TimerAssumption ==
  /\ PitBase \in Nat \ {0} /\ DivisorMax \in Nat \ {0} /\ SecondMs \in Nat \ {0}
  /\ DefaultHz \in 1 .. PitBase
  /\ Frequencies \subseteq Nat /\ Sleeps \subseteq Nat
  /\ TickCap \in Nat /\ SleepCap \in Nat

VARIABLES
  ticks,        \* g_timer_ticks
  frequency,    \* g_timer_frequency, 0 before pit_init
  divisor,      \* what the PIT counts down from, 0 for what the BIOS left
  sleeper,      \* where the caller is: "out", "test", "hlt" (the next
                \* instruction) or "halted"
  target,       \* target_ticks
  sleeps        \* calls of timer_sleep_ms

tmVars == << ticks, frequency, divisor, sleeper, target, sleeps >>

TmInit ==
  /\ ticks = 0 /\ frequency = 0 /\ divisor = 0
  /\ sleeper = "out" /\ target = 0 /\ sleeps = 0

\* pit_init: an invalid frequency is replaced, a divisor that does not fit cut.
PitInit(hz) ==
  LET asked == IF hz = 0 \/ hz > PitBase THEN DefaultHz ELSE hz
      wide  == PitBase \div asked
  IN /\ frequency = 0
     /\ divisor' = IF wide > DivisorMax THEN DivisorMax ELSE wide
     /\ frequency' = IF wide > DivisorMax THEN PitBase \div DivisorMax ELSE asked
     /\ UNCHANGED << ticks, sleeper, target, sleeps >>

TicksOf(ms) == (ms * frequency) \div SecondMs

\* timer_sleep_ms begins.  With no frequency it only counts in a loop.
TimerSleep(ms) ==
  /\ sleeper = "out" /\ sleeps < SleepCap
  /\ frequency > 0 /\ ticks + TicksOf(ms) <= TickCap
  /\ sleeps' = sleeps + 1
  /\ target' = ticks + TicksOf(ms)
  /\ sleeper' = "test"
  /\ UNCHANGED << ticks, frequency, divisor >>

\* g_timer_ticks < target_ticks, before hlt.
TestTicks ==
  /\ sleeper = "test"
  /\ sleeper' = IF ticks < target THEN "hlt" ELSE "out"
  /\ UNCHANGED << ticks, frequency, divisor, target, sleeps >>

Halt ==
  /\ sleeper = "hlt"
  /\ sleeper' = "halted"
  /\ UNCHANGED << ticks, frequency, divisor, target, sleeps >>

Woken == IF sleeper = "halted" THEN "test" ELSE sleeper

\* Mutant: the handler forgets the tick when it finds the CPU halted.
TimerIrq_Forgets ==
  /\ ticks' = IF sleeper # "halted" /\ ticks < TickCap THEN ticks + 1 ELSE ticks
  /\ sleeper' = Woken
  /\ UNCHANGED << frequency, divisor, target, sleeps >>

\* IRQ0: timer_irq_handler; a halted CPU goes on.
TimerIrq ==
  /\ ticks' = IF ticks < TickCap THEN ticks + 1 ELSE ticks
  /\ sleeper' = Woken
  /\ UNCHANGED << frequency, divisor, target, sleeps >>

\* Another interrupt (IRQ1) makes the CPU go on before its time.
OtherIrq ==
  /\ sleeper = "halted"
  /\ sleeper' = "test"
  /\ UNCHANGED << ticks, frequency, divisor, target, sleeps >>

TmNext ==
  \/ \E hz \in Frequencies : PitInit(hz)
  \/ \E ms \in Sleeps : TimerSleep(ms)
  \/ TestTicks \/ Halt \/ TimerIrq \/ OtherIrq

\* The PIT keeps ticking and the CPU keeps executing.
TmFairness == WF_tmVars(TimerIrq) /\ WF_tmVars(TestTicks) /\ WF_tmVars(Halt)

TmSpec == TmInit /\ [][TmNext]_tmVars /\ TmFairness

-----------------------------------------------------------------------------
(* Properties.                                                             *)

TmTypeOK ==
  /\ ticks \in 0 .. TickCap
  /\ frequency \in Nat
  /\ divisor \in 0 .. DivisorMax
  /\ sleeper \in {"out", "test", "hlt", "halted"}
  /\ target \in Nat /\ sleeps \in 0 .. SleepCap

\* timer_sleep_ms returns: a tick between the test and hlt, which the test
\* has not seen, and interrupts that are no ticks only make it sleep or wake
\* once more.
SleepEnds == sleeper # "out" ~> sleeper = "out"
=============================================================================

----------------------------- MODULE TimerClock ------------------------------
(***************************************************************************)
(* The time of CTimer::Timer (Timer.cpp): how long the counting thread     *)
(* sleeps between two ticks.  CThread::GetTickCount() is an unsigned       *)
(* number that wraps; nTimeToSleep is computed in unsigned arithmetic and  *)
(* stored in an int.  The unit of time is TIMER_PRECISION milliseconds     *)
(* divided by Precision.                                                   *)
(***************************************************************************)
EXTENDS Integers

CONSTANTS
  Half,         \* half the values of an unsigned, 2^31: an int is less
  Precision,    \* TIMER_PRECISION, in units
  MaxLate,      \* bound: how much later than its timeout a wait returns
  MaxWork,      \* bound: how long a tick takes
  MaxElapsed    \* bound: the time modelled

\* An assumption on the constants
ClockAssumption ==
  /\ Half \in Nat /\ Precision \in Nat \ {0}
  /\ MaxLate \in Nat /\ MaxWork \in Nat /\ MaxElapsed \in Nat
  /\ Precision + MaxLate + MaxWork < Half

VARIABLES
  clock,         \* what GetTickCount answers
  nTicks,
  nTimeToSleep,
  pc,            \* "loop", "asleep" or "tick"
  elapsed,       \* auxiliary: the time since the thread began
  ticks          \* auxiliary: how often the timers were counted down

vars == <<clock, nTicks, nTimeToSleep, pc, elapsed, ticks>>

Unsigned(n) == n % (2 * Half)

Signed(n) == IF n < Half THEN n ELSE n - 2 * Half

\* The system may have run for any time.
Init ==
  /\ clock \in 0 .. 2 * Half - 1
  /\ nTicks = 0
  /\ nTimeToSleep = Precision
  /\ pc = "loop"
  /\ elapsed = 0 /\ ticks = 0

Pass(d) ==
  /\ elapsed + d <= MaxElapsed
  /\ elapsed' = elapsed + d
  /\ clock' = Unsigned(clock + d)

\* "nTicks = CThread::GetTickCount()", before the wait
Loop ==
  /\ pc = "loop"
  /\ nTicks' = clock
  /\ pc' = "asleep"
  /\ UNCHANGED <<clock, nTimeToSleep, elapsed, ticks>>

\* m_SleepSemaphore.Wait(nTimeToSleep) times out: its parameter is unsigned.
Wakes(nLate) ==
  /\ pc = "asleep"
  /\ Pass(Unsigned(nTimeToSleep) + nLate)
  /\ pc' = "tick"
  /\ UNCHANGED <<nTicks, nTimeToSleep, ticks>>

\* mutant of TimeToSleep: "if (nTimeToSleep < 0) nTimeToSleep = 0" is forgotten
TimeToSleepUnclamped(now) == Signed(Unsigned(Precision - Unsigned(now - nTicks)))

\* mutant of TimeToSleep: the time that passed is taken twice
TimeToSleepTwice(now) ==
  LET n == Signed(Unsigned(Precision - 2 * Unsigned(now - nTicks))) IN IF n < 0 THEN 0 ELSE n

TimeToSleep(now) ==
  LET n == Signed(Unsigned(Precision - Unsigned(now - nTicks))) IN IF n < 0 THEN 0 ELSE n

Tick(nWork) ==
  /\ pc = "tick"
  /\ ticks' = ticks + 1
  /\ Pass(nWork)
  /\ nTimeToSleep' = TimeToSleep(clock')
  /\ pc' = "loop"
  /\ UNCHANGED nTicks

Next ==
  \/ Loop
  \/ \E nLate \in 0 .. MaxLate : Wakes(nLate)
  \/ \E nWork \in 0 .. MaxWork : Tick(nWork)

Spec == Init /\ [][Next]_vars

-----------------------------------------------------------------------------
\* Properties

\* The thread is never told to sleep for longer than TIMER_PRECISION, also when the
\* clock wraps between its two readings: no destructor waits longer for it.
SleepBounded == nTimeToSleep \in 0 .. Precision

\* Any two ticks in a row take at least TIMER_PRECISION: a timer set to nSeconds
\* expires after nSeconds / 2 at the earliest, wherever the clock stands.
AtMostTwicePerSecond == ticks * Precision <= 2 * elapsed
=============================================================================

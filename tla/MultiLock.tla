------------------------------ MODULE MultiLock ------------------------------
(***************************************************************************)
(* CMultiLock (Lockable.h, Lockable.cpp): a mutex with one condition.      *)
(*                                                                         *)
(* Wait() is written twice, once per platform:                             *)
(*   win32  a manual-reset event; SignalObjectAndWait leaves the mutex and *)
(*          waits for the event, SetEvent wakes every thread waiting on it *)
(*          and stays set until a woken thread resets it;                  *)
(*   linux  a condition variable and the predicate m_eState # "eNone".     *)
(* The operators below are the pieces of Lock, Unlock, Wait, Pulse and     *)
(* PulseAll.  They constrain the variables of this module only; the module *)
(* of a client (Queue) conjoins them with its own updates.                 *)
(***************************************************************************)
EXTENDS Naturals, FiniteSets

CONSTANTS
  Threads,             \* the threads that share the object
  Nobody,              \* m_Mutex is free
  Platform,            \* which branch of the #ifdefs is built
  SplitSignalAndWait   \* win32: may another thread run between the two
                       \* halves of SignalObjectAndWait?

ASSUME MultiLockAssumption ==
  /\ IsFiniteSet(Threads)
  /\ Nobody \notin Threads
  /\ Platform \in {"win32", "linux"}
  /\ SplitSignalAndWait \in BOOLEAN

VARIABLES
  m_hLock,     \* owner of m_Mutex
  m_eState,    \* the last pulse: "eNone", "ePulse", "ePulseAll"
  m_nWaiters,  \* threads inside Wait
  m_hEvent,    \* win32: is the event set?  linux: unused, FALSE
  waiting      \* where each thread is inside Wait

lockVars == <<m_hLock, m_eState, m_nWaiters, m_hEvent, waiting>>

\* "out"    not in Wait
\* "begin"  owns the mutex: linux at the test of m_eState, win32 at the call
\*          of SignalObjectAndWait
\* "gap"    win32: has released the mutex, is not yet waiting for the event
\* "asleep" waits for the event or the condition variable
\* "woken"  was woken, competes for the mutex
Stages == {"out", "begin", "gap", "asleep", "woken"}

EStates == {"eNone", "ePulse", "ePulseAll"}

MultiLockTypeOK ==
  /\ m_hLock \in Threads \cup {Nobody}
  /\ m_eState \in EStates
  /\ m_nWaiters \in Nat
  /\ m_hEvent \in BOOLEAN
  /\ waiting \in [Threads -> Stages]

MultiLockInit ==
  /\ m_hLock = Nobody
  /\ m_eState = "eNone"
  /\ m_nWaiters = 0
  /\ m_hEvent = FALSE
  /\ waiting = [t \in Threads |-> "out"]

-----------------------------------------------------------------------------
\* Lock, Unlock: the mutex alone

Lock(t) ==
  /\ m_hLock = Nobody
  /\ m_hLock' = t

Unlock(t) ==
  /\ m_hLock = t
  /\ m_hLock' = Nobody

Holds(t) == m_hLock = t /\ waiting[t] = "out"

-----------------------------------------------------------------------------
\* Pulse, PulseAll: the owner of the mutex calls them

Sleepers == {u \in Threads : waiting[u] = "asleep"}

Wake(S) == waiting' = [u \in Threads |-> IF u \in S THEN "woken" ELSE waiting[u]]

\* SetEvent on a manual-reset event releases every thread waiting for it.
SetEvent ==
  /\ m_hEvent' = TRUE
  /\ Wake(Sleepers)

\* pthread_cond_signal wakes one waiter if there is one.
CondSignal ==
  /\ \/ \E u \in Sleepers : Wake({u})
     \/ Sleepers = {} /\ UNCHANGED waiting
  /\ UNCHANGED m_hEvent

CondBroadcast ==
  /\ Wake(Sleepers)
  /\ UNCHANGED m_hEvent

\* mutant of Pulse: the state is not set
PulseStateless ==
  /\ UNCHANGED m_eState
  /\ IF Platform = "win32" THEN SetEvent ELSE CondSignal

Pulse ==
  /\ m_eState' = "ePulse"
  /\ IF Platform = "win32" THEN SetEvent ELSE CondSignal

PulseAll ==
  /\ m_eState' = "ePulseAll"
  /\ IF Platform = "win32" THEN SetEvent ELSE CondBroadcast

-----------------------------------------------------------------------------
\* Wait

\* m_nWaiters++ on entry; the mutex stays with t
WaitBegin(t) ==
  /\ m_nWaiters' = m_nWaiters + 1
  /\ waiting' = [waiting EXCEPT ![t] = "begin"]
  /\ UNCHANGED <<m_hLock, m_eState, m_hEvent>>

\* A wait for the event ends at once if the event is set.
EventWait == IF m_hEvent THEN "woken" ELSE "asleep"

\* win32: SignalObjectAndWait releases the mutex and waits.  The system does
\* not promise that the two are one step.
SignalObjectAndWait(t) ==
  /\ Platform = "win32"
  /\ waiting[t] = "begin"
  /\ Unlock(t)
  /\ waiting' = [waiting EXCEPT ![t] = IF SplitSignalAndWait THEN "gap" ELSE EventWait]
  /\ UNCHANGED <<m_eState, m_nWaiters, m_hEvent>>

\* win32: the second half of a split SignalObjectAndWait
WaitForEvent(t) ==
  /\ waiting[t] = "gap"
  /\ waiting' = [waiting EXCEPT ![t] = EventWait]
  /\ UNCHANGED <<m_hLock, m_eState, m_nWaiters, m_hEvent>>

\* linux: m_eState is eNone, so pthread_cond_wait releases the mutex and sleeps
CondWait(t) ==
  /\ Platform = "linux"
  /\ waiting[t] = "begin"
  /\ m_eState = "eNone"
  /\ Unlock(t)
  /\ waiting' = [waiting EXCEPT ![t] = "asleep"]
  /\ UNCHANGED <<m_eState, m_nWaiters, m_hEvent>>

\* A sleeper wakes although nobody pulsed: a spurious wake-up of the condition
\* variable on linux, the timeout of the call on win32.  On linux a timeout
\* never happens: the test "nTimeout = INFINITE" assigns, so every Wait takes
\* the branch without a timeout.
WakeUnpulsed(t, bTimed) ==
  /\ waiting[t] = "asleep"
  /\ Platform = "linux" \/ bTimed
  /\ waiting' = [waiting EXCEPT ![t] = "woken"]
  /\ UNCHANGED <<m_hLock, m_eState, m_nWaiters, m_hEvent>>

\* linux: pthread_cond_wait takes the mutex back and returns to the test
CondRelock(t) ==
  /\ Platform = "linux"
  /\ waiting[t] = "woken"
  /\ Lock(t)
  /\ waiting' = [waiting EXCEPT ![t] = "begin"]
  /\ UNCHANGED <<m_eState, m_nWaiters, m_hEvent>>

\* The pulse is taken by the last waiter to leave, or by the first one if it
\* was a Pulse.
TakesPulse == m_nWaiters = 1 \/ m_eState = "ePulse"

\* linux: the test fails because a pulse is pending; Wait returns, owning the
\* mutex
CondDone(t) ==
  /\ Platform = "linux"
  /\ waiting[t] = "begin"
  /\ m_eState # "eNone"
  /\ m_nWaiters' = m_nWaiters - 1
  /\ m_eState' = IF TakesPulse THEN "eNone" ELSE m_eState
  /\ waiting' = [waiting EXCEPT ![t] = "out"]
  /\ UNCHANGED <<m_hLock, m_hEvent>>

\* mutant of EventDone: m_Mutex.Lock() forgotten after SignalObjectAndWait
EventDoneUnlocked(t) ==
  /\ Platform = "win32"
  /\ waiting[t] = "woken"
  /\ m_nWaiters' = m_nWaiters - 1
  /\ m_hEvent' = (m_hEvent /\ ~TakesPulse)
  /\ waiting' = [waiting EXCEPT ![t] = "out"]
  /\ UNCHANGED <<m_hLock, m_eState>>

\* win32: a woken thread takes the mutex back, resets the event when it takes
\* the pulse, and Wait returns.  m_eState is never reset on this platform.
EventDone(t) ==
  /\ Platform = "win32"
  /\ waiting[t] = "woken"
  /\ Lock(t)
  /\ m_nWaiters' = m_nWaiters - 1
  /\ m_hEvent' = (m_hEvent /\ ~TakesPulse)
  /\ waiting' = [waiting EXCEPT ![t] = "out"]
  /\ UNCHANGED m_eState

WaitReturns(t) == CondDone(t) \/ EventDone(t)

\* The steps inside Wait that do not return from it
WaitInternal(t, bTimed) ==
  \/ SignalObjectAndWait(t)
  \/ WaitForEvent(t)
  \/ CondWait(t)
  \/ WakeUnpulsed(t, bTimed)
  \/ CondRelock(t)
=============================================================================

-------------------------------- MODULE Timer --------------------------------
(***************************************************************************)
(* CTimer (Timer.h, Timer.cpp): one thread counts the timers down, the     *)
(* others take commands from a queue, call the callbacks and delete the    *)
(* timers that were dropped.                                               *)
(*                                                                         *)
(* m_vecTimers is used under m_Lock only, and every section under m_Lock   *)
(* is one action.  m_queTimerCommands is an unlimited CQueue: Push never   *)
(* waits and each Push and Pop is one step (module Queue shows that it     *)
(* implements BlockingQueue).  The workers read an STimer without m_Lock,  *)
(* field by field.  The model follows the win32 build, where the timed     *)
(* wait of a CSemaphore returns when it times out (see Semaphore).         *)
(***************************************************************************)
EXTENDS Naturals, FiniteSets, Sequences, SequencesExt

CONSTANTS
  m_vecThreads,  \* the threads made by the constructor, nThreadsCount + 1
  STimers,       \* bound: the addresses an STimer can be allocated at
  IDs,           \* timer identifiers
  Seconds,       \* periods given to Set
  MaxCommands,   \* bound: no tick while this many commands are queued, until ~CTimer
  NoTimer,       \* no timer: the thread handles none
  Free           \* nothing is allocated at the address

STimer == [m_nID : IDs, m_bValid : BOOLEAN, m_nInitialValue : Seconds \cup {0},
           m_nCurrentValue : Nat, m_bAutoRestart : BOOLEAN]

ASSUME TimerAssumption ==
  /\ IsFiniteSet(m_vecThreads) /\ m_vecThreads # {}
  /\ Seconds \subseteq Nat
  /\ NoTimer \notin STimers
  /\ Free \notin STimer

VARIABLES
  m_bTerminating,
  m_nThreadsStarted,
  m_SleepSemaphore,    \* its count
  m_vecTimers,         \* the timers that are set, in order
  m_queTimerCommands,
  heap,                \* what is at each address
  at,                  \* where each thread is
  local,               \* the number it read, or the timer it handles
  destructor,          \* how far ~CTimer has come
  late                 \* auxiliary: calls begun on a timer after its Drop

threadVars == <<at, local>>
vars == <<m_bTerminating, m_nThreadsStarted, m_SleepSemaphore, m_vecTimers,
          m_queTimerCommands, heap, at, local, destructor, late>>

Commands == [m_eCmd : {"eCallback", "eDropTimer"}, m_psTimer : STimers]
              \cup [m_eCmd : {"eStopThread"}, m_psTimer : {NoTimer}]

\* "new"      not yet in Run          "popped"   has taken an eCallback
\* "counted"  has read the counter    "tested"   goes on to read m_bValid
\* "timer"    at the loop of Timer    "valid"    goes on to Call
\* "asleep"   in m_SleepSemaphore     "running"  in the callback
\* "tick"     goes on to the tick     "deleting" has taken an eDropTimer
\* "worker"   in Pop                  "done"     has left Run
\* "killed"   terminated by ~CThread
Places == {"new", "counted", "timer", "asleep", "tick", "worker", "popped", "tested",
           "valid", "running", "deleting", "done", "killed"}

Phases == {"alive", "terminating", "signalled", "dropped", "waiting", "destroyed"}

TimerTypeOK ==
  /\ m_bTerminating \in BOOLEAN
  /\ m_nThreadsStarted \in Nat
  /\ m_SleepSemaphore \in Nat
  /\ m_vecTimers \in Seq(STimers)
  /\ m_queTimerCommands \in Seq(Commands)
  /\ heap \in [STimers -> STimer \cup {Free}]
  /\ at \in [m_vecThreads -> Places]
  /\ local \in [m_vecThreads -> STimers \cup {NoTimer} \cup Nat]
  /\ destructor \in Phases
  /\ late \in [STimers -> Nat]

Init ==
  /\ m_bTerminating = FALSE
  /\ m_nThreadsStarted = 0
  /\ m_SleepSemaphore = 0
  /\ m_vecTimers = <<>>
  /\ m_queTimerCommands = <<>>
  /\ heap = [o \in STimers |-> Free]
  /\ at = [t \in m_vecThreads |-> "new"]
  /\ local = [t \in m_vecThreads |-> NoTimer]
  /\ destructor = "alive"
  /\ late = [o \in STimers |-> 0]

Goto(t, place, value) ==
  /\ at' = [at EXCEPT ![t] = place]
  /\ local' = [local EXCEPT ![t] = value]

Command(cmd, o) == [m_eCmd |-> cmd, m_psTimer |-> o]

-----------------------------------------------------------------------------
\* Set, Drop, Start: a client, or a callback on a worker

MayCall == destructor = "alive" \/ \E t \in m_vecThreads : at[t] = "running"

\* The places of identifier id in m_vecTimers, which never holds two of it
PlacesOf(id) == {i \in DOMAIN m_vecTimers : heap[m_vecTimers[i]].m_nID = id}

GetTimer(id) == {m_vecTimers[i] : i \in PlacesOf(id)}

SetOld(id, nSeconds, bAutoStart, bAutoRestart) ==
  /\ \E o \in GetTimer(id) :
       heap' = [heap EXCEPT ![o].m_nInitialValue = nSeconds,
                            ![o].m_bAutoRestart = bAutoRestart,
                            ![o].m_nCurrentValue = IF bAutoStart THEN nSeconds ELSE 0]
  /\ UNCHANGED <<m_vecTimers, late>>

\* "new STimer(nID, nSeconds, rCallback, bAutoRestart)": the fourth parameter of
\* the constructor is bAutoStart, which chooses m_nInitialValue; the fifth keeps
\* its default, true.
SetNew(id, nSeconds, bAutoStart, bAutoRestart) ==
  /\ GetTimer(id) = {}
  /\ \E o \in STimers :
       /\ heap[o] = Free
       /\ heap' = [heap EXCEPT ![o] =
            [m_nID |-> id, m_bValid |-> TRUE,
             m_nInitialValue |-> IF bAutoRestart THEN nSeconds ELSE 0,
             m_nCurrentValue |-> nSeconds,
             m_bAutoRestart |-> TRUE]]
       /\ m_vecTimers' = Append(m_vecTimers, o)
       /\ late' = [late EXCEPT ![o] = 0]

Set(id, nSeconds, bAutoStart, bAutoRestart) ==
  /\ MayCall
  /\ \/ SetOld(id, nSeconds, bAutoStart, bAutoRestart)
     \/ SetNew(id, nSeconds, bAutoStart, bAutoRestart)
  /\ UNCHANGED <<m_bTerminating, m_nThreadsStarted, m_SleepSemaphore,
                 m_queTimerCommands, threadVars, destructor>>

\* mutant of Drop: the timer stays in m_vecTimers
DropKeepsEntry(id) ==
  /\ MayCall
  /\ \E i \in PlacesOf(id) :
       /\ heap' = [heap EXCEPT ![m_vecTimers[i]].m_bValid = FALSE]
       /\ m_queTimerCommands' = Append(m_queTimerCommands, Command("eDropTimer", m_vecTimers[i]))
  /\ UNCHANGED <<m_bTerminating, m_nThreadsStarted, m_SleepSemaphore, m_vecTimers,
                 threadVars, destructor, late>>

\* mutant of Drop: the timer is deleted at once
DropDeletes(id) ==
  /\ MayCall
  /\ \E i \in PlacesOf(id) :
       /\ heap' = [heap EXCEPT ![m_vecTimers[i]] = Free]
       /\ m_vecTimers' = RemoveAt(m_vecTimers, i)
  /\ UNCHANGED <<m_bTerminating, m_nThreadsStarted, m_SleepSemaphore, m_queTimerCommands,
                 threadVars, destructor, late>>

Drop(id) ==
  /\ MayCall
  /\ \E i \in PlacesOf(id) :
       /\ heap' = [heap EXCEPT ![m_vecTimers[i]].m_bValid = FALSE]
       /\ m_queTimerCommands' = Append(m_queTimerCommands, Command("eDropTimer", m_vecTimers[i]))
       /\ m_vecTimers' = RemoveAt(m_vecTimers, i)
  /\ UNCHANGED <<m_bTerminating, m_nThreadsStarted, m_SleepSemaphore, threadVars,
                 destructor, late>>

Start(id) ==
  /\ MayCall
  /\ \E o \in GetTimer(id) : heap' = [heap EXCEPT ![o].m_nCurrentValue = heap[o].m_nInitialValue]
  /\ UNCHANGED <<m_bTerminating, m_nThreadsStarted, m_SleepSemaphore, m_vecTimers,
                 m_queTimerCommands, threadVars, destructor, late>>

-----------------------------------------------------------------------------
\* Run: "if (!m_nThreadsStarted++) Timer();", a read and a write

CountRead(t) ==
  /\ at[t] = "new"
  /\ Goto(t, "counted", m_nThreadsStarted)
  /\ UNCHANGED <<m_bTerminating, m_nThreadsStarted, m_SleepSemaphore, m_vecTimers,
                 m_queTimerCommands, heap, destructor, late>>

CountWrite(t) ==
  /\ at[t] = "counted"
  /\ m_nThreadsStarted' = local[t] + 1
  /\ Goto(t, IF local[t] = 0 THEN "timer" ELSE "worker", NoTimer)
  /\ UNCHANGED <<m_bTerminating, m_SleepSemaphore, m_vecTimers, m_queTimerCommands,
                 heap, destructor, late>>

-----------------------------------------------------------------------------
\* Timer: the thread that counts

TimerLoop(t) ==
  /\ at[t] = "timer"
  /\ Goto(t, IF m_bTerminating THEN "done" ELSE "asleep", NoTimer)
  /\ UNCHANGED <<m_bTerminating, m_nThreadsStarted, m_SleepSemaphore, m_vecTimers,
                 m_queTimerCommands, heap, destructor, late>>

\* m_SleepSemaphore.Wait(nTimeToSleep) returns, signalled or timed out.
TimerWakes(t, bTimedOut) ==
  /\ at[t] = "asleep"
  /\ IF bTimedOut
       THEN m_SleepSemaphore = 0 /\ UNCHANGED m_SleepSemaphore
       ELSE m_SleepSemaphore > 0 /\ m_SleepSemaphore' = m_SleepSemaphore - 1
  /\ Goto(t, IF m_bTerminating THEN "timer" ELSE "tick", NoTimer)
  /\ UNCHANGED <<m_bTerminating, m_nThreadsStarted, m_vecTimers, m_queTimerCommands,
                 heap, destructor, late>>

\* The places in m_vecTimers of the timers that reach zero in this tick
Expiring == {i \in DOMAIN m_vecTimers : heap[m_vecTimers[i]].m_nCurrentValue = 1}

Counted(r) ==
  [r EXCEPT !.m_nCurrentValue =
     IF r.m_nCurrentValue > 1 THEN r.m_nCurrentValue - 1
     ELSE IF r.m_nCurrentValue = 1 /\ r.m_bAutoRestart THEN r.m_nInitialValue
     ELSE 0]

Tick(t) ==
  /\ at[t] = "tick"
  /\ Len(m_queTimerCommands) < MaxCommands \/ m_bTerminating
  /\ heap' = [o \in STimers |-> IF o \in ToSet(m_vecTimers) THEN Counted(heap[o]) ELSE heap[o]]
  /\ \E expired \in [1 .. Cardinality(Expiring) -> Expiring] :   \* in ascending order
       /\ \A i, j \in DOMAIN expired : i < j => expired[i] < expired[j]
       /\ m_queTimerCommands' = m_queTimerCommands
            \o [i \in DOMAIN expired |-> Command("eCallback", m_vecTimers[expired[i]])]
  /\ Goto(t, "timer", NoTimer)
  /\ UNCHANGED <<m_bTerminating, m_nThreadsStarted, m_SleepSemaphore, m_vecTimers,
                 destructor, late>>

-----------------------------------------------------------------------------
\* Run: the workers

\* mutant of Handles: eDropTimer is not told from a callback that need not run
HandlesNoDrop(cmd) ==
  CASE cmd = "eStopThread" -> "done"
    [] cmd = "eDropTimer"  -> "worker"
    [] cmd = "eCallback"   -> "popped"

Handles(cmd) ==
  CASE cmd = "eStopThread" -> "done"
    [] cmd = "eDropTimer"  -> "deleting"
    [] cmd = "eCallback"   -> "popped"

Pop(t) ==
  /\ at[t] = "worker"
  /\ m_queTimerCommands # <<>>
  /\ LET c == Head(m_queTimerCommands) IN Goto(t, Handles(c.m_eCmd), c.m_psTimer)
  /\ m_queTimerCommands' = Tail(m_queTimerCommands)
  /\ UNCHANGED <<m_bTerminating, m_nThreadsStarted, m_SleepSemaphore, m_vecTimers,
                 heap, destructor, late>>

Delete(t) ==
  /\ at[t] = "deleting"
  /\ heap' = [heap EXCEPT ![local[t]] = Free]
  /\ Goto(t, "worker", NoTimer)
  /\ UNCHANGED <<m_bTerminating, m_nThreadsStarted, m_SleepSemaphore, m_vecTimers,
                 m_queTimerCommands, destructor, late>>

TestTerminating(t) ==
  /\ at[t] = "popped"
  /\ Goto(t, IF m_bTerminating THEN "worker" ELSE "tested", local[t])
  /\ UNCHANGED <<m_bTerminating, m_nThreadsStarted, m_SleepSemaphore, m_vecTimers,
                 m_queTimerCommands, heap, destructor, late>>

\* Reading m_bValid of a deleted timer gives anything.
ReadValid(o) == IF heap[o] = Free THEN BOOLEAN ELSE {heap[o].m_bValid}

\* mutant of TestValid: m_bValid is not tested
TestNothing(t) ==
  /\ at[t] = "tested"
  /\ Goto(t, "valid", local[t])
  /\ UNCHANGED <<m_bTerminating, m_nThreadsStarted, m_SleepSemaphore, m_vecTimers,
                 m_queTimerCommands, heap, destructor, late>>

TestValid(t) ==
  /\ at[t] = "tested"
  /\ \E b \in ReadValid(local[t]) : Goto(t, IF b THEN "valid" ELSE "worker", local[t])
  /\ UNCHANGED <<m_bTerminating, m_nThreadsStarted, m_SleepSemaphore, m_vecTimers,
                 m_queTimerCommands, heap, destructor, late>>

BeginCallback(t) ==
  /\ at[t] = "valid"
  /\ Goto(t, "running", local[t])
  /\ late' = [late EXCEPT ![local[t]] = @ + IF FALSE \in ReadValid(local[t]) THEN 1 ELSE 0]
  /\ UNCHANGED <<m_bTerminating, m_nThreadsStarted, m_SleepSemaphore, m_vecTimers,
                 m_queTimerCommands, heap, destructor>>

EndCallback(t) ==
  /\ at[t] = "running"
  /\ Goto(t, "worker", NoTimer)
  /\ UNCHANGED <<m_bTerminating, m_nThreadsStarted, m_SleepSemaphore, m_vecTimers,
                 m_queTimerCommands, heap, destructor, late>>

-----------------------------------------------------------------------------
\* ~CTimer, after the last call of a client

SetTerminating ==
  /\ destructor = "alive"
  /\ destructor' = "terminating"
  /\ m_bTerminating' = TRUE
  /\ UNCHANGED <<m_nThreadsStarted, m_SleepSemaphore, m_vecTimers, m_queTimerCommands, heap,
                 threadVars, late>>

\* mutant of SignalTimer: m_SleepSemaphore.Signal() is forgotten
SignalTimerForgotten ==
  /\ destructor = "terminating"
  /\ destructor' = "signalled"
  /\ UNCHANGED <<m_bTerminating, m_nThreadsStarted, m_SleepSemaphore, m_vecTimers,
                 m_queTimerCommands, heap, threadVars, late>>

SignalTimer ==
  /\ destructor = "terminating"
  /\ destructor' = "signalled"
  /\ m_SleepSemaphore' = m_SleepSemaphore + 1
  /\ UNCHANGED <<m_bTerminating, m_nThreadsStarted, m_vecTimers, m_queTimerCommands, heap,
                 threadVars, late>>

DropAll ==
  /\ destructor = "signalled"
  /\ destructor' = "dropped"
  /\ heap' = [o \in STimers |->
                IF o \in ToSet(m_vecTimers) THEN [heap[o] EXCEPT !.m_bValid = FALSE] ELSE heap[o]]
  /\ m_queTimerCommands' = m_queTimerCommands
       \o [i \in DOMAIN m_vecTimers |-> Command("eDropTimer", m_vecTimers[i])]
  /\ m_vecTimers' = <<>>
  /\ UNCHANGED <<m_bTerminating, m_nThreadsStarted, m_SleepSemaphore, threadVars, late>>

\* mutant of StopWorkers: one eStopThread too few
StopWorkersOneShort ==
  /\ destructor = "dropped"
  /\ destructor' = "waiting"
  /\ m_queTimerCommands' = m_queTimerCommands
       \o [i \in 1 .. (Cardinality(m_vecThreads) - 2) |-> Command("eStopThread", NoTimer)]
  /\ UNCHANGED <<m_bTerminating, m_nThreadsStarted, m_SleepSemaphore, m_vecTimers, heap,
                 threadVars, late>>

StopWorkers ==
  /\ destructor = "dropped"
  /\ destructor' = "waiting"
  /\ m_queTimerCommands' = m_queTimerCommands
       \o [i \in 1 .. (Cardinality(m_vecThreads) - 1) |-> Command("eStopThread", NoTimer)]
  /\ UNCHANGED <<m_bTerminating, m_nThreadsStarted, m_SleepSemaphore, m_vecTimers, heap,
                 threadVars, late>>

AllDone == \A t \in m_vecThreads : at[t] = "done"

\* WaitForScope returns, after 1000 ms at the latest, and ~CThread terminates
\* the threads that have not left Run.
DeleteThreads(bTimedOut) ==
  /\ destructor = "waiting"
  /\ AllDone \/ bTimedOut
  /\ destructor' = "destroyed"
  /\ at' = [t \in m_vecThreads |-> IF at[t] = "done" THEN "done" ELSE "killed"]
  /\ UNCHANGED <<m_bTerminating, m_nThreadsStarted, m_SleepSemaphore, m_vecTimers,
                 m_queTimerCommands, heap, local, late>>

-----------------------------------------------------------------------------
Client ==
  \E id \in IDs :
    \/ \E nSeconds \in Seconds, bAutoStart, bAutoRestart \in BOOLEAN :
         Set(id, nSeconds, bAutoStart, bAutoRestart)
    \/ Drop(id)
    \/ Start(id)

TimerStep(t) ==
  TimerLoop(t) \/ TimerWakes(t, FALSE) \/ TimerWakes(t, TRUE) \/ Tick(t)

WorkerStep(t) ==
  Pop(t) \/ Delete(t) \/ TestTerminating(t) \/ TestValid(t) \/ BeginCallback(t) \/ EndCallback(t)

ThreadStep(t) == CountRead(t) \/ CountWrite(t) \/ TimerStep(t) \/ WorkerStep(t)

Destructor ==
  SetTerminating \/ SignalTimer \/ DropAll \/ StopWorkers \/ \E b \in BOOLEAN : DeleteThreads(b)

Next == Client \/ (\E t \in m_vecThreads : ThreadStep(t)) \/ Destructor

Spec == Init /\ [][Next]_vars

\* Threads run and callbacks return; the destructor, once called, goes on; the
\* 1000 ms of WaitForScope need not pass.
FairSpec ==
  /\ Spec
  /\ \A t \in m_vecThreads : WF_vars(ThreadStep(t))
  /\ WF_vars(SignalTimer \/ DropAll \/ StopWorkers \/ DeleteThreads(FALSE))

-----------------------------------------------------------------------------
\* Properties

Occurrences(o) == Cardinality({i \in DOMAIN m_vecTimers : m_vecTimers[i] = o})

QueuedDrops(o) ==
  Cardinality({i \in DOMAIN m_queTimerCommands : m_queTimerCommands[i] = Command("eDropTimer", o)})

Deleters(o) == Cardinality({t \in m_vecThreads : at[t] = "deleting" /\ local[t] = o})

\* Until threads are killed, an allocated STimer is in exactly one place that
\* will free it: m_vecTimers, a queued eDropTimer, or the hands of one worker;
\* a freed one is in none.  So nothing leaks and nothing is deleted twice.
OwnedOnce ==
  destructor # "destroyed" =>
    \A o \in STimers :
      Occurrences(o) + QueuedDrops(o) + Deleters(o) = IF heap[o] = Free THEN 0 ELSE 1

\* No worker reads an STimer that was deleted.
NoUseAfterDelete ==
  \A t \in m_vecThreads : at[t] \in {"tested", "valid"} => heap[local[t]] # Free

\* With one worker, a timer's callback is begun at most once after its Drop.
OneLateCallback == \A o \in STimers : late[o] <= 1

\* Nobody lost an increment of m_nThreadsStarted, so one thread counts and all
\* others are workers.
Unraced == m_nThreadsStarted = Cardinality({t \in m_vecThreads : at[t] \notin {"new", "counted"}})

\* The counting thread cannot sleep through the destructor: the signal is still
\* there, and it will see m_bTerminating when it wakes.
ShutdownSignalKept ==
  Unraced /\ destructor \notin {"alive", "terminating"}
    => \A t \in m_vecThreads : at[t] = "asleep" => m_bTerminating /\ m_SleepSemaphore > 0

\* Without a lost increment the destructor returns before the timeout of
\* WaitForScope: the counting thread and every worker are told to stop.
DestructorReturns ==
  []Unraced => (destructor = "waiting" ~> destructor = "destroyed")

Workers == {t \in m_vecThreads : at[t] \in {"worker", "popped", "tested", "valid", "running",
                                            "deleting"}}

\* A dropped timer is deleted, if some worker is there to do it.
DroppedIsDeleted ==
  \A o \in STimers :
    (QueuedDrops(o) = 1 /\ Workers # {} /\ destructor = "alive")
      ~> (heap[o] = Free \/ destructor # "alive")
=============================================================================

------------------------------ MODULE Semaphore ------------------------------
(***************************************************************************)
(* CSemaphore on linux (Lockable.h, Lockable.cpp).  A sem_t counts;        *)
(* WaitForScope waits for all of a set, one after the other, or for any of *)
(* it: then a temporary "common" semaphore is registered with each of the  *)
(* set, and Signal passes a signal on to the first one registered.         *)
(* On win32 the same methods are one call of the system each.              *)
(***************************************************************************)
EXTENDS Integers, Sequences

CONSTANTS
  Threads,
  Sems,          \* the semaphores of the program, as a sequence
  Calls,         \* which methods each thread calls
  Address,       \* where the common semaphore of each thread is allocated
  Nobody,
  Timed,         \* which of "wait", "all", "any" are ever given a timeout
  MaxSignals     \* bound: no Signal is called on a semaphore of this value

Programs == {Sems[i] : i \in DOMAIN Sems}
All == Programs \cup Threads   \* a thread names its common semaphore

ASSUME SemaphoreAssumption ==
  /\ Sems \in Seq(Programs) /\ Sems # <<>>
  /\ Programs \cap Threads = {} /\ Nobody \notin All
  /\ Calls \in [Threads -> SUBSET {"Signal", "Wait", "WaitAll", "WaitAny"}]
  /\ MaxSignals \in Nat
  /\ Address \in [Threads -> Nat]

VARIABLES
  m_hLock,             \* value of each sem_t
  m_nInitialCnt,       \* the count kept beside that of a common semaphore
  m_Mutex,             \* owner of the mutex of each semaphore of the program
  m_setCommonWaiters,  \* the common semaphores registered with it
  allocated,           \* the threads whose common semaphore exists
  pc,
  sem,                 \* the semaphore a thread signals or waits for
  i,                   \* its place in the loops of WaitForScope, or a count it read
  outcome,             \* how its last wait ended
  passed               \* auxiliary: common semaphores a Signal was passed on to

counts == <<m_hLock, m_nInitialCnt>>
scope == <<m_Mutex, m_setCommonWaiters, allocated>>
vars == <<counts, scope, pc, sem, i, outcome, passed>>

Places == {"idle", "post", "lock", "scan", "pass", "read", "write", "unlock",
           "wait", "all", "register", "common", "uncount", "left", "erase", "delete"}

Outcomes == {"none", "true", "false", "throws", "0", "-1"}

\* Type invariant
SemaphoreTypeOK ==
  /\ m_hLock \in [All -> Nat]
  /\ m_nInitialCnt \in [Threads -> Int]
  /\ m_Mutex \in [Programs -> Threads \cup {Nobody}]
  /\ m_setCommonWaiters \in [Programs -> SUBSET Threads]
  /\ allocated \subseteq Threads
  /\ pc \in [Threads -> Places]
  /\ sem \in [Threads -> Programs]
  /\ i \in [Threads -> Int]
  /\ outcome \in [Threads -> Outcomes]
  /\ passed \subseteq Threads

\* sem_init is called with the value 0, whatever the constructor is given.  The
\* m_nInitialCnt of a semaphore of the program is read by nothing but a copy, and
\* left out.
Init ==
  /\ m_hLock = [s \in All |-> 0]
  /\ m_nInitialCnt = [t \in Threads |-> 0]
  /\ m_Mutex = [s \in Programs |-> Nobody]
  /\ m_setCommonWaiters = [s \in Programs |-> {}]
  /\ allocated = {}
  /\ pc = [t \in Threads |-> "idle"]
  /\ sem = [t \in Threads |-> Sems[1]]
  /\ i = [t \in Threads |-> 0]
  /\ outcome = [t \in Threads |-> "none"]
  /\ passed = {}

Goto(t, place) == pc' = [pc EXCEPT ![t] = place]

Idle(t, method) == pc[t] = "idle" /\ method \in Calls[t]

\* The locals of a method end with it.
Return(t, r) ==
  /\ Goto(t, "idle")
  /\ sem' = [sem EXCEPT ![t] = Sems[1]]
  /\ i' = [i EXCEPT ![t] = 0]
  /\ outcome' = [outcome EXCEPT ![t] = r]

-----------------------------------------------------------------------------
\* Signal

Signal(t, s) ==
  /\ Idle(t, "Signal")
  /\ m_hLock[s] < MaxSignals
  /\ sem' = [sem EXCEPT ![t] = s]
  /\ Goto(t, "post")
  /\ outcome' = [outcome EXCEPT ![t] = "none"]
  /\ UNCHANGED <<counts, scope, i, passed>>

\* sem_post
Post(t) ==
  /\ pc[t] = "post"
  /\ m_hLock' = [m_hLock EXCEPT ![sem[t]] = @ + 1]
  /\ Goto(t, "lock")
  /\ UNCHANGED <<m_nInitialCnt, scope, sem, i, outcome, passed>>

\* "*m_setCommonWaiters.begin()": the one with the lowest address
Begin(S) == CHOOSE u \in S : \A v \in S : Address[u] <= Address[v]

LockSet(t) ==
  /\ pc[t] = "lock"
  /\ m_Mutex[sem[t]] = Nobody
  /\ m_Mutex' = [m_Mutex EXCEPT ![sem[t]] = t]
  /\ passed' = passed \cup (LET S == m_setCommonWaiters[sem[t]]
                           IN  IF S = {} THEN {} ELSE {Begin(S)})
  /\ Goto(t, "scan")
  /\ UNCHANGED <<counts, m_setCommonWaiters, allocated, sem, i, outcome>>

\* mutant of Scan: the waiter is signalled only from the second signal on
ScanOffByOne(t) ==
  /\ pc[t] = "scan"
  /\ LET S == m_setCommonWaiters[sem[t]]
     IN  IF S = {} THEN Goto(t, "unlock")
         ELSE Goto(t, IF m_nInitialCnt[Begin(S)] = 1 THEN "pass" ELSE "unlock")
  /\ UNCHANGED <<counts, scope, sem, i, outcome, passed>>

Scan(t) ==
  /\ pc[t] = "scan"
  /\ LET S == m_setCommonWaiters[sem[t]]
     IN  IF S = {} THEN Goto(t, "unlock")
         ELSE Goto(t, IF m_nInitialCnt[Begin(S)] = 0 THEN "pass" ELSE "unlock")
  /\ UNCHANGED <<counts, scope, sem, i, outcome, passed>>

\* The nested Signal: sem_post, then a count that other signallers and the
\* waiter change without a lock.  Nobody is registered with a common semaphore.
Pass(t) ==
  /\ pc[t] = "pass"
  /\ m_hLock' = [m_hLock EXCEPT ![Begin(m_setCommonWaiters[sem[t]])] = @ + 1]
  /\ Goto(t, "read")
  /\ UNCHANGED <<m_nInitialCnt, scope, sem, i, outcome, passed>>

ReadCount(t) ==
  /\ pc[t] = "read"
  /\ i' = [i EXCEPT ![t] = m_nInitialCnt[Begin(m_setCommonWaiters[sem[t]])]]
  /\ Goto(t, "write")
  /\ UNCHANGED <<counts, scope, sem, outcome, passed>>

WriteCount(t) ==
  /\ pc[t] = "write"
  /\ i' = [i EXCEPT ![t] = 0]
  /\ m_nInitialCnt' = [m_nInitialCnt EXCEPT ![Begin(m_setCommonWaiters[sem[t]])] = i[t] + 1]
  /\ Goto(t, "unlock")
  /\ UNCHANGED <<m_hLock, scope, sem, outcome, passed>>

UnlockSet(t) ==
  /\ pc[t] = "unlock"
  /\ m_Mutex' = [m_Mutex EXCEPT ![sem[t]] = Nobody]
  /\ Return(t, "none")
  /\ UNCHANGED <<counts, m_setCommonWaiters, allocated, passed>>

SignalStep(t) ==
  \/ Post(t) \/ LockSet(t) \/ Scan(t)
  \/ Pass(t) \/ ReadCount(t) \/ WriteCount(t) \/ UnlockSet(t)

-----------------------------------------------------------------------------
\* Wait

Wait(t, s) ==
  /\ Idle(t, "Wait")
  /\ sem' = [sem EXCEPT ![t] = s]
  /\ Goto(t, "wait")
  /\ outcome' = [outcome EXCEPT ![t] = "none"]
  /\ UNCHANGED <<counts, scope, i, passed>>

WaitTakes(t) ==
  /\ pc[t] = "wait"
  /\ m_hLock[sem[t]] > 0
  /\ m_hLock' = [m_hLock EXCEPT ![sem[t]] = @ - 1]
  /\ Return(t, "true")
  /\ UNCHANGED <<m_nInitialCnt, scope, passed>>

\* sem_timedwait fails with ETIMEDOUT, "errno != EAGAIN" holds, SYSERROR throws.
WaitTimesOut(t) ==
  /\ pc[t] = "wait"
  /\ "wait" \in Timed
  /\ m_hLock[sem[t]] = 0
  /\ Return(t, "throws")
  /\ UNCHANGED <<counts, scope, passed>>

-----------------------------------------------------------------------------
\* WaitForScope with bWaitAll

WaitAll(t) ==
  /\ Idle(t, "WaitAll")
  /\ i' = [i EXCEPT ![t] = 1]
  /\ Goto(t, "all")
  /\ outcome' = [outcome EXCEPT ![t] = "none"]
  /\ UNCHANGED <<counts, scope, sem, passed>>

\* The next semaphore; the result is that of the last one, since nResult does
\* not change inside the loop.
AllNext(t, rc) ==
  IF i[t] = Len(Sems)
  THEN Return(t, rc)
  ELSE i' = [i EXCEPT ![t] = @ + 1] /\ UNCHANGED <<pc, sem, outcome>>

AllTakes(t) ==
  /\ pc[t] = "all"
  /\ m_hLock[Sems[i[t]]] > 0
  /\ m_hLock' = [m_hLock EXCEPT ![Sems[i[t]]] = @ - 1]
  /\ AllNext(t, "0")
  /\ UNCHANGED <<m_nInitialCnt, scope, passed>>

AllTimesOut(t) ==
  /\ pc[t] = "all"
  /\ "all" \in Timed
  /\ m_hLock[Sems[i[t]]] = 0
  /\ AllNext(t, "-1")
  /\ UNCHANGED <<counts, scope, passed>>

-----------------------------------------------------------------------------
\* WaitForScope without bWaitAll

\* "new CSemaphore"
WaitAny(t) ==
  /\ Idle(t, "WaitAny")
  /\ allocated' = allocated \cup {t}
  /\ m_hLock' = [m_hLock EXCEPT ![t] = 0]
  /\ m_nInitialCnt' = [m_nInitialCnt EXCEPT ![t] = 0]
  /\ i' = [i EXCEPT ![t] = 1]
  /\ passed' = passed \ {t}
  /\ Goto(t, "register")
  /\ outcome' = [outcome EXCEPT ![t] = "none"]
  /\ UNCHANGED <<m_Mutex, m_setCommonWaiters, sem>>

\* The next semaphore of a loop, then place
LoopNext(t, place) ==
  IF i[t] = Len(Sems)
  THEN Goto(t, place) /\ i' = [i EXCEPT ![t] = 1]
  ELSE i' = [i EXCEPT ![t] = @ + 1] /\ UNCHANGED pc

Register(t) ==
  /\ pc[t] = "register"
  /\ m_Mutex[Sems[i[t]]] = Nobody
  /\ m_setCommonWaiters' = [m_setCommonWaiters EXCEPT ![Sems[i[t]]] = @ \cup {t}]
  /\ LoopNext(t, "common")
  /\ UNCHANGED <<counts, m_Mutex, allocated, sem, outcome, passed>>

\* pCommonLock->Wait: take, then m_nInitialCnt--, a read and a write
CommonTakes(t) ==
  /\ pc[t] = "common"
  /\ m_hLock[t] > 0
  /\ m_hLock' = [m_hLock EXCEPT ![t] = @ - 1]
  /\ Goto(t, "uncount")
  /\ passed' = passed \ {t}
  /\ UNCHANGED <<m_nInitialCnt, scope, sem, i, outcome>>

UncountRead(t) ==
  /\ pc[t] = "uncount"
  /\ i' = [i EXCEPT ![t] = m_nInitialCnt[t]]
  /\ Goto(t, "left")
  /\ UNCHANGED <<counts, scope, sem, outcome, passed>>

UncountWrite(t) ==
  /\ pc[t] = "left"
  /\ m_nInitialCnt' = [m_nInitialCnt EXCEPT ![t] = i[t] - 1]
  /\ i' = [i EXCEPT ![t] = 1]
  /\ Goto(t, "erase")
  /\ UNCHANGED <<m_hLock, scope, sem, outcome, passed>>

\* The timeout throws past the loop that unregisters; the auto_ptr deletes the
\* common semaphore.
CommonTimesOut(t) ==
  /\ pc[t] = "common"
  /\ "any" \in Timed
  /\ m_hLock[t] = 0
  /\ allocated' = allocated \ {t}
  /\ Return(t, "throws")
  /\ UNCHANGED <<counts, m_Mutex, m_setCommonWaiters, passed>>

\* mutant of Erase: the loop stops one semaphore early
EraseAllButLast(t) ==
  /\ pc[t] = "erase"
  /\ m_Mutex[Sems[i[t]]] = Nobody
  /\ IF i[t] = Len(Sems)
     THEN UNCHANGED m_setCommonWaiters
     ELSE m_setCommonWaiters' = [m_setCommonWaiters EXCEPT ![Sems[i[t]]] = @ \ {t}]
  /\ LoopNext(t, "delete")
  /\ UNCHANGED <<counts, m_Mutex, allocated, sem, outcome, passed>>

Erase(t) ==
  /\ pc[t] = "erase"
  /\ m_Mutex[Sems[i[t]]] = Nobody
  /\ m_setCommonWaiters' = [m_setCommonWaiters EXCEPT ![Sems[i[t]]] = @ \ {t}]
  /\ LoopNext(t, "delete")
  /\ UNCHANGED <<counts, m_Mutex, allocated, sem, outcome, passed>>

\* pCommonLock.reset()
DeleteCommon(t) ==
  /\ pc[t] = "delete"
  /\ allocated' = allocated \ {t}
  /\ Return(t, "0")
  /\ UNCHANGED <<counts, m_Mutex, m_setCommonWaiters, passed>>

-----------------------------------------------------------------------------
\* A set holds the address of a deleted semaphore.  What a Signal does with it is
\* undefined: the model stops there.
Dangling == \E s \in Programs : ~(m_setCommonWaiters[s] \subseteq allocated)

Next ==
  ~Dangling /\ \E t \in Threads :
    \/ \E s \in Programs : Signal(t, s) \/ Wait(t, s)
    \/ SignalStep(t)
    \/ WaitTakes(t) \/ WaitTimesOut(t)
    \/ WaitAll(t) \/ AllTakes(t) \/ AllTimesOut(t)
    \/ WaitAny(t) \/ Register(t) \/ CommonTakes(t) \/ UncountRead(t) \/ UncountWrite(t)
    \/ CommonTimesOut(t) \/ Erase(t) \/ DeleteCommon(t)

Spec == Init /\ [][Next]_vars

-----------------------------------------------------------------------------
\* Properties

\* A common semaphore is deleted only when nobody can reach it any more: it is
\* registered nowhere, so no Signal that scans a set will touch it.  The exception is
\* a wait that timed out, which throws past the loop that unregisters.
NoDanglingWaiter ==
  \A s \in Programs : \A t \in m_setCommonWaiters[s] : t \in allocated \/ outcome[t] = "throws"

Signalling(t) == \E u \in Threads : pc[u] \in {"scan", "pass"} /\ t \in m_setCommonWaiters[sem[u]]

\* A thread in WaitForScope(any) that a Signal has chosen is woken: either the
\* Signal is still under way, or the common semaphore can be taken.  No race on
\* the unlocked m_nInitialCnt makes the Signal skip it.
ChosenIsWoken ==
  \A t \in Threads : pc[t] = "common" /\ t \in passed => Signalling(t) \/ m_hLock[t] > 0
=============================================================================

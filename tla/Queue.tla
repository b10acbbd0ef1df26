-------------------------------- MODULE Queue --------------------------------
(***************************************************************************)
(* CQueue (Queue.h): a bounded first-in first-out queue on a std::queue, a *)
(* CMultiLock and two counters of waiting threads.  Readers and writers    *)
(* wait on the SAME condition; Pulse wakes some of them, m_ReadWaiters and *)
(* m_WriteWaiters tell whether a pulse is worth sending.                   *)
(*                                                                         *)
(* A call is Call (the caller), Acquire (CLockGuard), then the loop or the *)
(* test at the top of the method: MustWait enters m_Lock.Wait, Resume      *)
(* returns from it, and the action named after the method is its body and  *)
(* the destructor of the guard.  The body runs under the mutex, so no      *)
(* other thread can tell its statements apart.                             *)
(***************************************************************************)
EXTENDS MultiLock, Sequences

CONSTANTS
  Values,       \* T
  NoValue,      \* no argument, no result
  m_nMaxSize,   \* the size given to the constructor, 0: unlimited
  Calls,        \* which methods each thread calls
  MaxQueued     \* bound: no Push is called on a longer queue

Ops == {"Push", "Pop", "PopEx", "Peek", "Clear"}

ReadOps == {"Pop", "PopEx", "Peek"}

ASSUME QueueAssumption ==
  /\ NoValue \notin Values
  /\ m_nMaxSize \in Nat
  /\ MaxQueued \in Nat
  /\ Calls \in [Threads -> SUBSET Ops]

VARIABLES
  m_queData,       \* the queue, oldest item first
  m_ReadWaiters,   \* threads waiting in Peek, Pop or PopEx
  m_WriteWaiters,  \* threads waiting in Push
  pc,              \* where each thread is in its call
  op,              \* the method it is calling, "none" between calls
  arg,             \* the argument of its Push
  result           \* what its last call returned

callVars == <<pc, op, arg, result>>
countVars == <<m_ReadWaiters, m_WriteWaiters>>
vars == <<lockVars, m_queData, countVars, callVars>>

\* "idle"   not in a call
\* "enter"  in the constructor of CLockGuard
\* "test"   owns the mutex, at the test of the while or if
\* "wait"   in m_Lock.Wait
\* "after"  PopEx: owns the mutex, past its only Wait
Places == {"idle", "enter", "test", "wait", "after"}

QueueTypeOK ==
  /\ MultiLockTypeOK
  /\ m_queData \in Seq(Values)
  /\ m_ReadWaiters \in Nat
  /\ m_WriteWaiters \in Nat
  /\ pc \in [Threads -> Places]
  /\ op \in [Threads -> Ops \cup {"none"}]
  /\ arg \in [Threads -> Values \cup {NoValue}]
  /\ result \in [Threads -> Values \cup {NoValue}]

IsEmpty == m_queData = <<>>

\* mutant of IsFull: ">" for ">="
IsFullOffByOne == m_nMaxSize > 0 /\ Len(m_queData) > m_nMaxSize

IsFull == m_nMaxSize > 0 /\ Len(m_queData) >= m_nMaxSize

\* The condition on which the method o waits
Blocked(o) == \/ o = "Push" /\ IsFull
              \/ o \in ReadOps /\ IsEmpty

Init ==
  /\ MultiLockInit
  /\ m_queData = <<>>
  /\ m_ReadWaiters = 0
  /\ m_WriteWaiters = 0
  /\ pc = [t \in Threads |-> "idle"]
  /\ op = [t \in Threads |-> "none"]
  /\ arg = [t \in Threads |-> NoValue]
  /\ result = [t \in Threads |-> NoValue]

-----------------------------------------------------------------------------
\* Entering a method

Call(t) ==
  /\ pc[t] = "idle"
  /\ \E o \in Calls[t], v \in Values \cup {NoValue} :
       /\ IF o = "Push" THEN v \in Values /\ Len(m_queData) < MaxQueued ELSE v = NoValue
       /\ op' = [op EXCEPT ![t] = o]
       /\ arg' = [arg EXCEPT ![t] = v]
  /\ pc' = [pc EXCEPT ![t] = "enter"]
  /\ result' = [result EXCEPT ![t] = NoValue]
  /\ UNCHANGED <<lockVars, m_queData, countVars>>

Acquire(t) ==
  /\ pc[t] = "enter"
  /\ Lock(t)
  /\ pc' = [pc EXCEPT ![t] = "test"]
  /\ UNCHANGED <<m_eState, m_nWaiters, m_hEvent, waiting, m_queData, countVars>>
  /\ UNCHANGED <<op, arg, result>>

-----------------------------------------------------------------------------
\* Waiting

\* The condition is false: count the waiter, enter m_Lock.Wait.
MustWait(t) ==
  /\ pc[t] = "test"
  /\ Blocked(op[t])
  /\ m_ReadWaiters' = m_ReadWaiters + (IF op[t] \in ReadOps THEN 1 ELSE 0)
  /\ m_WriteWaiters' = m_WriteWaiters + (IF op[t] = "Push" THEN 1 ELSE 0)
  /\ WaitBegin(t)
  /\ pc' = [pc EXCEPT ![t] = "wait"]
  /\ UNCHANGED <<m_queData, op, arg, result>>

\* A step inside m_Lock.Wait; only PopEx gives Wait a timeout.
Waits(t) ==
  /\ pc[t] = "wait"
  /\ WaitInternal(t, op[t] = "PopEx")
  /\ UNCHANGED <<m_queData, countVars, callVars>>

\* mutants of Resume: the writer is not uncounted; PopEx loops like Pop
ResumeKeepsWriter(t) ==
  /\ pc[t] = "wait"
  /\ WaitReturns(t)
  /\ m_ReadWaiters' = m_ReadWaiters - (IF op[t] \in ReadOps THEN 1 ELSE 0)
  /\ pc' = [pc EXCEPT ![t] = IF op[t] = "PopEx" THEN "after" ELSE "test"]
  /\ UNCHANGED <<m_WriteWaiters, m_queData, op, arg, result>>

ResumeLoops(t) ==
  /\ pc[t] = "wait"
  /\ WaitReturns(t)
  /\ m_ReadWaiters' = m_ReadWaiters - (IF op[t] \in ReadOps THEN 1 ELSE 0)
  /\ m_WriteWaiters' = m_WriteWaiters - (IF op[t] = "Push" THEN 1 ELSE 0)
  /\ pc' = [pc EXCEPT ![t] = "test"]
  /\ UNCHANGED <<m_queData, op, arg, result>>

\* m_Lock.Wait returns: uncount the waiter; PopEx does not loop.
Resume(t) ==
  /\ pc[t] = "wait"
  /\ WaitReturns(t)
  /\ m_ReadWaiters' = m_ReadWaiters - (IF op[t] \in ReadOps THEN 1 ELSE 0)
  /\ m_WriteWaiters' = m_WriteWaiters - (IF op[t] = "Push" THEN 1 ELSE 0)
  /\ pc' = [pc EXCEPT ![t] = IF op[t] = "PopEx" THEN "after" ELSE "test"]
  /\ UNCHANGED <<m_queData, op, arg, result>>

-----------------------------------------------------------------------------
\* The bodies

\* The method returns r to its caller and the guard unlocks the mutex.
Return(t, r) ==
  /\ Unlock(t)
  /\ pc' = [pc EXCEPT ![t] = "idle"]
  /\ op' = [op EXCEPT ![t] = "none"]
  /\ result' = [result EXCEPT ![t] = r]
  /\ UNCHANGED <<arg, m_nWaiters, countVars>>

NoPulse == UNCHANGED <<m_eState, m_hEvent, waiting>>

\* mutants of PulseReaders and PulseWriters: an off-by-one, a pulse forgotten
PulseReadersOffByOne == IF m_ReadWaiters > 1 THEN Pulse ELSE NoPulse
PulseWritersNever == NoPulse

\* "if (m_ReadWaiters > 0) m_Lock.Pulse();"
PulseReaders == IF m_ReadWaiters > 0 THEN Pulse ELSE NoPulse

\* "if (m_WriteWaiters > 0) m_Lock.Pulse();"
PulseWriters == IF m_WriteWaiters > 0 THEN Pulse ELSE NoPulse

Push(t) ==
  /\ pc[t] = "test"
  /\ op[t] = "Push"
  /\ ~IsFull
  /\ m_queData' = Append(m_queData, arg[t])
  /\ PulseReaders
  /\ Return(t, NoValue)

Peek(t) ==
  /\ pc[t] = "test"
  /\ op[t] = "Peek"
  /\ ~IsEmpty
  /\ UNCHANGED m_queData
  /\ Pulse
  /\ Return(t, Head(m_queData))

\* The rest of Pop, and of PopEx when it finds an item
TakeFront(t) ==
  /\ ~IsEmpty
  /\ m_queData' = Tail(m_queData)
  /\ PulseWriters
  /\ Return(t, Head(m_queData))

Pop(t) ==
  /\ pc[t] = "test"
  /\ op[t] = "Pop"
  /\ TakeFront(t)

PopEx(t) ==
  /\ pc[t] \in {"test", "after"}
  /\ op[t] = "PopEx"
  /\ TakeFront(t)

\* PopEx waited once and the queue is empty: it returns false.
PopExEmpty(t) ==
  /\ pc[t] = "after"
  /\ IsEmpty
  /\ UNCHANGED m_queData
  /\ NoPulse
  /\ Return(t, NoValue)

Clear(t) ==
  /\ pc[t] = "test"
  /\ op[t] = "Clear"
  /\ m_queData' = <<>>
  /\ IF m_WriteWaiters > 0 THEN PulseAll ELSE NoPulse
  /\ Return(t, NoValue)

Body(t) ==
  Push(t) \/ Peek(t) \/ Pop(t) \/ PopEx(t) \/ PopExEmpty(t) \/ Clear(t)

Next ==
  \E t \in Threads :
    Call(t) \/ Acquire(t) \/ MustWait(t) \/ Waits(t) \/ Resume(t) \/ Body(t)

Spec == Init /\ [][Next]_vars

\* A thread that owns the mutex, or that is between the halves of
\* SignalObjectAndWait, keeps running.  A thread that competes for the mutex
\* gets it if it becomes free again and again.  Nobody need call a method, and no
\* wait need end without a pulse but that of PopEx on win32, which has a timeout.
Fairness ==
  \A t \in Threads :
    /\ WF_vars(MustWait(t) \/ Body(t))
    /\ WF_vars(Resume(t) /\ waiting[t] = "begin")
    /\ WF_vars(Waits(t) /\ waiting[t] \in {"begin", "gap"})
    /\ WF_vars(Waits(t) /\ Platform = "win32" /\ op[t] = "PopEx" /\ waiting[t] = "asleep")
    /\ SF_vars(Acquire(t))
    /\ SF_vars(Waits(t) /\ waiting[t] = "woken")
    /\ SF_vars(Resume(t) /\ waiting[t] = "woken")

FairSpec == Spec /\ Fairness

-----------------------------------------------------------------------------
\* Properties

InWait == {t \in Threads : pc[t] = "wait"}
WaitingReaders == {t \in InWait : op[t] \in ReadOps}
WaitingWriters == {t \in InWait : op[t] = "Push"}

\* The three counters tell how many threads are inside m_Lock.Wait, and for
\* what: a pulse is skipped, and a pending one is dropped, on their word.
WaiterCounts ==
  /\ m_ReadWaiters = Cardinality(WaitingReaders)
  /\ m_WriteWaiters = Cardinality(WaitingWriters)
  /\ m_nWaiters = Cardinality(InWait)

\* Where a thread is in its call, in CMultiLock and in the mutex agree: only
\* the owner of the mutex is past the constructor of its guard, and only a
\* thread that has something to wait for is in m_Lock.Wait.
CallsConsistent ==
  \A t \in Threads :
    /\ pc[t] = "idle" <=> op[t] = "none"
    /\ pc[t] = "wait" <=> waiting[t] # "out"
    /\ pc[t] \in {"test", "after"} \/ waiting[t] = "begin" => m_hLock = t
    /\ pc[t] = "wait" => op[t] \in ReadOps \cup {"Push"}
    /\ pc[t] = "after" => op[t] = "PopEx"
    /\ op[t] = "Push" => arg[t] \in Values

\* No thread sleeps in Push while there is room, or in Pop, Peek or PopEx while
\* an item is queued: whoever made the condition true has woken it already.
SleepersJustified ==
  \A t \in Threads : waiting[t] = "asleep" => Blocked(op[t])

\* No wake-up is lost: once every thread is asleep or between calls, no
\* sleeper has what it waits for.
NoLostWakeup ==
  (\A t \in Threads : pc[t] = "idle" \/ waiting[t] = "asleep") => SleepersJustified

\* Whatever the mutex, the pulses and the counters do, callers see a bounded
\* first-in first-out queue: every call takes effect in one step.
Abstract == INSTANCE BlockingQueue WITH items <- m_queData, Capacity <- m_nMaxSize
ImplementsBlockingQueue == Abstract!Spec

\* Pop returns, unless other readers or Clear empty the queue first.
PopServed ==
  \A t \in Threads : (op[t] = "Pop" /\ ~IsEmpty) ~> (op[t] # "Pop" \/ IsEmpty)

\* Push returns, unless other writers fill the queue first.
PushServed ==
  \A t \in Threads : (op[t] = "Push" /\ ~IsFull) ~> (op[t] # "Push" \/ IsFull)

\* On win32 PopEx always returns, whatever other readers, writers and Clear do, also
\* when the item it was woken for is gone: it waits once, and not beyond its timeout.
PopExReturns == \A t \in Threads : op[t] = "PopEx" ~> op[t] # "PopEx"
=============================================================================

----------------------------- MODULE QueueProofs -----------------------------
(***************************************************************************)
(* Theorems about Queue, for every set of threads, every queue size and    *)
(* every assignment of methods to threads.                                 *)
(*                                                                         *)
(*   TypeCorrect, CountersCorrect, OwnershipCorrect                        *)
(*       both platforms, by the inductive invariant IndInv                 *)
(*   SleepersAreJustified                                                  *)
(*       win32 with an atomic SignalObjectAndWait, by IndInv and EventInv  *)
(*   OneReaderSleepsJustified                                              *)
(*       linux, no limit and one reader, by IndInv and LinuxInv            *)
(*   NoWakeupIsLost                                                        *)
(*       where one of these two applies                                    *)
(*   ImplementsAbstractQueue                                               *)
(*       both platforms: every step is a step of BlockingQueue or none     *)
(***************************************************************************)
EXTENDS Queue, FiniteSetTheorems, TLAPS

IndInv == QueueTypeOK /\ WaiterCounts /\ CallsConsistent

-----------------------------------------------------------------------------
\* What a pulse may change: a sleeper may be woken, nothing else happens to
\* the threads inside Wait.
LEMMA PulseEffect ==
  ASSUME QueueTypeOK, Pulse \/ PulseAll \/ NoPulse
  PROVE  /\ m_eState' \in EStates
         /\ m_hEvent' \in BOOLEAN
         /\ waiting' \in [Threads -> Stages]
         /\ \A u \in Threads : \/ waiting'[u] = waiting[u]
                               \/ waiting[u] = "asleep" /\ waiting'[u] = "woken"
<1>0. waiting \in [Threads -> Stages] /\ m_hEvent \in BOOLEAN /\ m_eState \in EStates
  BY DEF QueueTypeOK, MultiLockTypeOK
<1>1. ASSUME NEW S \in SUBSET Sleepers, Wake(S)
      PROVE  /\ waiting' \in [Threads -> Stages]
             /\ \A u \in Threads : \/ waiting'[u] = waiting[u]
                                   \/ waiting[u] = "asleep" /\ waiting'[u] = "woken"
  BY <1>0, <1>1 DEF Wake, Sleepers, Stages
<1>2. CASE SetEvent
  BY <1>0, <1>1, <1>2 DEF SetEvent, Pulse, PulseAll, NoPulse, EStates
<1>3. CASE CondSignal
  <2>1. CASE \E u \in Sleepers : Wake({u})
    BY <1>0, <1>1, <1>3, <2>1 DEF CondSignal, Pulse, PulseAll, NoPulse, EStates
  <2>2. CASE UNCHANGED waiting
    BY <1>0, <1>3, <2>2 DEF CondSignal, Pulse, PulseAll, NoPulse, EStates
  <2>3. QED BY <1>3, <2>1, <2>2 DEF CondSignal
<1>4. CASE CondBroadcast
  BY <1>0, <1>1, <1>4 DEF CondBroadcast, Pulse, PulseAll, NoPulse, EStates
<1>5. CASE NoPulse
  BY <1>0, <1>5 DEF NoPulse
<1>6. QED
  BY <1>2, <1>3, <1>4, <1>5 DEF Pulse, PulseAll

\* Every body returns to the caller, unlocks the mutex, and pulses or not.
LEMMA BodyEffect ==
  ASSUME IndInv, NEW t \in Threads, Body(t)
  PROVE  /\ pc[t] \in {"test", "after"}
         /\ Pulse \/ PulseAll \/ NoPulse
         /\ \E r \in Values \cup {NoValue} : Return(t, r)
         /\ m_queData' \in Seq(Values)
<1>0. QueueTypeOK /\ CallsConsistent
  BY DEF IndInv
<1>1. m_queData \in Seq(Values) /\ (op[t] = "Push" => arg[t] \in Values)
  BY <1>0 DEF QueueTypeOK, CallsConsistent
<1>2. CASE Push(t)
  BY <1>1, <1>2 DEF Push, PulseReaders
<1>3. ~IsEmpty => Head(m_queData) \in Values /\ Tail(m_queData) \in Seq(Values)
  BY <1>1 DEF IsEmpty
<1>4. CASE Peek(t)
  BY <1>1, <1>3, <1>4 DEF Peek
<1>5. CASE Pop(t)
  BY <1>3, <1>5 DEF Pop, TakeFront, PulseWriters
<1>6. CASE PopEx(t)
  BY <1>3, <1>6 DEF PopEx, TakeFront, PulseWriters
<1>7. CASE PopExEmpty(t)
  BY <1>1, <1>7 DEF PopExEmpty
<1>8. CASE Clear(t)
  BY <1>8 DEF Clear
<1>9. QED
  BY <1>2, <1>4, <1>5, <1>6, <1>7, <1>8 DEF Body

-----------------------------------------------------------------------------
\* The three counters

LEMMA WaitersFinite ==
  ASSUME NEW S \in SUBSET Threads
  PROVE  IsFiniteSet(S) /\ Cardinality(S) \in Nat /\ (Cardinality(S) = 0 <=> S = {})
<1>1. IsFiniteSet(S)
  BY MultiLockAssumption, FS_Subset DEF MultiLockAssumption
<1>2. QED
  BY <1>1, FS_CardinalityType, FS_EmptySet

\* A step that neither enters nor leaves a wait keeps the counters right.
LEMMA CountersKept ==
  ASSUME WaiterCounts,
         \A u \in Threads : pc'[u] = "wait" <=> pc[u] = "wait",
         \A u \in Threads : pc[u] = "wait" => op'[u] = op[u],
         UNCHANGED <<m_nWaiters, m_ReadWaiters, m_WriteWaiters>>
  PROVE  WaiterCounts'
<1>1. InWait' = InWait
  BY DEF InWait
<1>2. WaitingReaders' = WaitingReaders /\ WaitingWriters' = WaitingWriters
  BY <1>1 DEF InWait, WaitingReaders, WaitingWriters
<1>3. QED
  BY <1>1, <1>2 DEF WaiterCounts

\* A thread that enters a wait is counted once in each set it joins.
LEMMA CountersEnter ==
  ASSUME QueueTypeOK, WaiterCounts, NEW t \in Threads, MustWait(t)
  PROVE  WaiterCounts'
<1>1. /\ pc' = [pc EXCEPT ![t] = "wait"]
      /\ pc[t] = "test"
      /\ op[t] \in ReadOps \cup {"Push"}
      /\ UNCHANGED op
  BY DEF MustWait, Blocked
<1>2. pc \in [Threads -> Places]
  BY DEF QueueTypeOK
<1>3. InWait' = InWait \cup {t} /\ t \notin InWait
  BY <1>1, <1>2 DEF InWait
<1>4. Cardinality(InWait') = Cardinality(InWait) + 1
  BY <1>3, WaitersFinite, FS_AddElement DEF InWait
<1>5. WaitingReaders' = IF op[t] \in ReadOps THEN WaitingReaders \cup {t} ELSE WaitingReaders
  BY <1>1, <1>2, <1>3 DEF InWait, WaitingReaders
<1>6. Cardinality(WaitingReaders')
        = Cardinality(WaitingReaders) + (IF op[t] \in ReadOps THEN 1 ELSE 0)
  <2>1. /\ IsFiniteSet(WaitingReaders) /\ Cardinality(WaitingReaders) \in Nat
        /\ t \notin WaitingReaders
    BY <1>3, WaitersFinite DEF InWait, WaitingReaders
  <2>2. Cardinality(WaitingReaders \cup {t}) = Cardinality(WaitingReaders) + 1
    BY <2>1, FS_AddElement
  <2>3. CASE op[t] \in ReadOps
    BY <1>5, <2>2, <2>3
  <2>4. CASE ~(op[t] \in ReadOps)
    BY <1>5, <2>1, <2>4
  <2>5. QED BY <2>3, <2>4
<1>7. WaitingWriters' = IF op[t] = "Push" THEN WaitingWriters \cup {t} ELSE WaitingWriters
  BY <1>1, <1>2, <1>3 DEF InWait, WaitingWriters
<1>8. Cardinality(WaitingWriters')
        = Cardinality(WaitingWriters) + (IF op[t] = "Push" THEN 1 ELSE 0)
  <2>1. /\ IsFiniteSet(WaitingWriters) /\ Cardinality(WaitingWriters) \in Nat
        /\ t \notin WaitingWriters
    BY <1>3, WaitersFinite DEF InWait, WaitingWriters
  <2>2. Cardinality(WaitingWriters \cup {t}) = Cardinality(WaitingWriters) + 1
    BY <2>1, FS_AddElement
  <2>3. CASE op[t] = "Push"
    BY <1>7, <2>2, <2>3
  <2>4. CASE ~(op[t] = "Push")
    BY <1>7, <2>1, <2>4
  <2>5. QED BY <2>3, <2>4
<1>9. QED
  BY <1>4, <1>6, <1>8 DEF WaiterCounts, MustWait, WaitBegin

\* A thread that leaves its wait is uncounted in each set it leaves, and the
\* counters stay natural numbers.
LEMMA CountersLeave ==
  ASSUME QueueTypeOK, WaiterCounts, CallsConsistent, NEW t \in Threads, Resume(t)
  PROVE  /\ WaiterCounts'
         /\ m_nWaiters' \in Nat /\ m_ReadWaiters' \in Nat /\ m_WriteWaiters' \in Nat
<1>1. /\ pc[t] = "wait"
      /\ pc' = [pc EXCEPT ![t] = IF op[t] = "PopEx" THEN "after" ELSE "test"]
      /\ op[t] \in ReadOps \cup {"Push"}
      /\ UNCHANGED op
      /\ m_nWaiters' = m_nWaiters - 1
  BY DEF Resume, WaitReturns, CondDone, EventDone, CallsConsistent
<1>2. pc \in [Threads -> Places]
  BY DEF QueueTypeOK
<1>3. InWait' = InWait \ {t} /\ t \in InWait
  BY <1>1, <1>2 DEF InWait
<1>4. Cardinality(InWait') = Cardinality(InWait) - 1
  BY <1>3, WaitersFinite, FS_RemoveElement DEF InWait
<1>5. WaitingReaders' = IF op[t] \in ReadOps THEN WaitingReaders \ {t} ELSE WaitingReaders
  BY <1>1, <1>2, <1>3 DEF InWait, WaitingReaders
<1>6. Cardinality(WaitingReaders')
        = Cardinality(WaitingReaders) - (IF op[t] \in ReadOps THEN 1 ELSE 0)
  <2>1. /\ IsFiniteSet(WaitingReaders) /\ Cardinality(WaitingReaders) \in Nat
        /\ op[t] \in ReadOps => t \in WaitingReaders
    BY <1>3, WaitersFinite DEF InWait, WaitingReaders
  <2>2. op[t] \in ReadOps => Cardinality(WaitingReaders \ {t}) = Cardinality(WaitingReaders) - 1
    BY <2>1, FS_RemoveElement
  <2>3. CASE op[t] \in ReadOps
    BY <1>5, <2>2, <2>3
  <2>4. CASE ~(op[t] \in ReadOps)
    BY <1>5, <2>1, <2>4
  <2>5. QED BY <2>3, <2>4
<1>7. WaitingWriters' = IF op[t] = "Push" THEN WaitingWriters \ {t} ELSE WaitingWriters
  BY <1>1, <1>2, <1>3 DEF InWait, WaitingWriters
<1>8. Cardinality(WaitingWriters')
        = Cardinality(WaitingWriters) - (IF op[t] = "Push" THEN 1 ELSE 0)
  <2>1. /\ IsFiniteSet(WaitingWriters) /\ Cardinality(WaitingWriters) \in Nat
        /\ op[t] = "Push" => t \in WaitingWriters
    BY <1>3, WaitersFinite DEF InWait, WaitingWriters
  <2>2. op[t] = "Push" => Cardinality(WaitingWriters \ {t}) = Cardinality(WaitingWriters) - 1
    BY <2>1, FS_RemoveElement
  <2>3. CASE op[t] = "Push"
    BY <1>7, <2>2, <2>3
  <2>4. CASE ~(op[t] = "Push")
    BY <1>7, <2>1, <2>4
  <2>5. QED BY <2>3, <2>4
<1>9. WaiterCounts'
  BY <1>1, <1>4, <1>6, <1>8 DEF WaiterCounts, Resume
<1>10. QED
  <2>1. /\ InWait' \in SUBSET Threads
        /\ WaitingReaders' \in SUBSET Threads
        /\ WaitingWriters' \in SUBSET Threads
    BY DEF InWait, WaitingReaders, WaitingWriters
  <2>2. /\ Cardinality(InWait') \in Nat
        /\ Cardinality(WaitingReaders') \in Nat
        /\ Cardinality(WaitingWriters') \in Nat
    BY <2>1, WaitersFinite
  <2>3. /\ m_nWaiters' = Cardinality(InWait')
        /\ m_ReadWaiters' = Cardinality(WaitingReaders')
        /\ m_WriteWaiters' = Cardinality(WaitingWriters')
    BY <1>9 DEF WaiterCounts
  <2>4. m_nWaiters' \in Nat
    BY <2>2, <2>3
  <2>5. m_ReadWaiters' \in Nat /\ m_WriteWaiters' \in Nat
    BY <2>2, <2>3
  <2>6. QED BY <1>9, <2>4, <2>5

-----------------------------------------------------------------------------
\* The inductive invariant

LEMMA InitIndInv == Init => IndInv
<1> SUFFICES ASSUME Init PROVE IndInv
  OBVIOUS
<1>1. QueueTypeOK
  <2>1. MultiLockTypeOK
    BY DEF Init, MultiLockInit, MultiLockTypeOK, EStates, Stages
  <2>2. QED BY <2>1 DEF Init, QueueTypeOK, Places
<1>2. InWait = {} /\ WaitingReaders = {} /\ WaitingWriters = {}
  BY DEF Init, InWait, WaitingReaders, WaitingWriters
<1>3. WaiterCounts
  BY <1>2, FS_EmptySet DEF WaiterCounts, Init, MultiLockInit
<1>4. CallsConsistent
  BY MultiLockAssumption DEF Init, MultiLockInit, CallsConsistent, MultiLockAssumption
<1>5. QED
  BY <1>1, <1>3, <1>4 DEF IndInv

LEMMA CallIndInv == ASSUME IndInv, NEW t \in Threads, Call(t) PROVE IndInv'
<1>0. QueueTypeOK /\ WaiterCounts /\ CallsConsistent
  BY DEF IndInv
<1>1. PICK o \in Calls[t], v \in Values \cup {NoValue} :
        /\ IF o = "Push" THEN v \in Values /\ Len(m_queData) < MaxQueued ELSE v = NoValue
        /\ op' = [op EXCEPT ![t] = o]
        /\ arg' = [arg EXCEPT ![t] = v]
  BY DEF Call
<1>2. o \in Ops
  BY QueueAssumption DEF QueueAssumption
<1>3. /\ pc' = [pc EXCEPT ![t] = "enter"] /\ pc[t] = "idle"
      /\ result' = [result EXCEPT ![t] = NoValue]
      /\ UNCHANGED <<m_hLock, m_eState, m_nWaiters, m_hEvent, waiting>>
      /\ UNCHANGED <<m_queData, m_ReadWaiters, m_WriteWaiters>>
  BY DEF Call, lockVars, countVars
<1>4. QueueTypeOK'
  BY <1>0, <1>1, <1>2, <1>3 DEF QueueTypeOK, MultiLockTypeOK, Places
<1>5. WaiterCounts'
  <2>1. \A u \in Threads : /\ pc'[u] = "wait" <=> pc[u] = "wait"
                           /\ pc[u] = "wait" => op'[u] = op[u]
    BY <1>0, <1>1, <1>3 DEF QueueTypeOK
  <2>2. QED BY <1>0, <1>3, <2>1, CountersKept
<1>6. CallsConsistent'
  BY <1>0, <1>1, <1>2, <1>3 DEF QueueTypeOK, MultiLockTypeOK, CallsConsistent, Ops
<1>7. QED
  BY <1>4, <1>5, <1>6 DEF IndInv

LEMMA AcquireIndInv == ASSUME IndInv, NEW t \in Threads, Acquire(t) PROVE IndInv'
<1>0. QueueTypeOK /\ WaiterCounts /\ CallsConsistent
  BY DEF IndInv
<1>1. /\ pc' = [pc EXCEPT ![t] = "test"] /\ pc[t] = "enter"
      /\ m_hLock = Nobody /\ m_hLock' = t
      /\ UNCHANGED <<m_eState, m_nWaiters, m_hEvent, waiting>>
      /\ UNCHANGED <<m_queData, m_ReadWaiters, m_WriteWaiters, op, arg, result>>
  BY DEF Acquire, Lock, countVars
<1>2. QueueTypeOK'
  BY <1>0, <1>1 DEF QueueTypeOK, MultiLockTypeOK, Places
<1>3. WaiterCounts'
  <2>1. \A u \in Threads : /\ pc'[u] = "wait" <=> pc[u] = "wait"
                           /\ pc[u] = "wait" => op'[u] = op[u]
    BY <1>0, <1>1 DEF QueueTypeOK
  <2>2. QED BY <1>0, <1>1, <2>1, CountersKept
<1>4. CallsConsistent'
  BY <1>0, <1>1, MultiLockAssumption DEF QueueTypeOK, CallsConsistent, MultiLockAssumption
<1>5. QED
  BY <1>2, <1>3, <1>4 DEF IndInv

LEMMA MustWaitIndInv == ASSUME IndInv, NEW t \in Threads, MustWait(t) PROVE IndInv'
<1>0. QueueTypeOK /\ WaiterCounts /\ CallsConsistent
  BY DEF IndInv
<1>1. /\ pc' = [pc EXCEPT ![t] = "wait"] /\ pc[t] = "test"
      /\ waiting' = [waiting EXCEPT ![t] = "begin"]
      /\ op[t] \in ReadOps \cup {"Push"}
      /\ m_ReadWaiters' = m_ReadWaiters + (IF op[t] \in ReadOps THEN 1 ELSE 0)
      /\ m_WriteWaiters' = m_WriteWaiters + (IF op[t] = "Push" THEN 1 ELSE 0)
      /\ m_nWaiters' = m_nWaiters + 1
      /\ UNCHANGED <<m_hLock, m_eState, m_hEvent, m_queData, op, arg, result>>
  BY DEF MustWait, WaitBegin, Blocked
<1>2. QueueTypeOK'
  <2>1. MultiLockTypeOK'
    BY <1>0, <1>1 DEF QueueTypeOK, MultiLockTypeOK, Stages
  <2>2. m_ReadWaiters' \in Nat /\ m_WriteWaiters' \in Nat
    BY <1>0, <1>1 DEF QueueTypeOK
  <2>3. QED BY <1>0, <1>1, <2>1, <2>2 DEF QueueTypeOK, Places
<1>3. WaiterCounts'
  BY <1>0, CountersEnter
<1>4. CallsConsistent'
  BY <1>0, <1>1 DEF QueueTypeOK, MultiLockTypeOK, CallsConsistent
<1>5. QED
  BY <1>2, <1>3, <1>4 DEF IndInv

LEMMA WaitsIndInv == ASSUME IndInv, NEW t \in Threads, Waits(t) PROVE IndInv'
<1>0. QueueTypeOK /\ WaiterCounts /\ CallsConsistent
  BY DEF IndInv
<1>1. waiting \in [Threads -> Stages]
  BY <1>0 DEF QueueTypeOK, MultiLockTypeOK
<1>2. /\ pc[t] = "wait"
      /\ WaitInternal(t, op[t] = "PopEx")
      /\ UNCHANGED <<m_queData, m_ReadWaiters, m_WriteWaiters, pc, op, arg, result>>
  BY DEF Waits, countVars, callVars
<1>3. /\ waiting' \in [Threads -> Stages]
      /\ \A u \in Threads \ {t} : waiting'[u] = waiting[u]
      /\ waiting[t] # "out" /\ waiting'[t] # "out"
      /\ waiting'[t] = "begin" => m_hLock' = t
      /\ \/ UNCHANGED m_hLock
         \/ m_hLock = t /\ m_hLock' = Nobody
         \/ m_hLock = Nobody /\ m_hLock' = t
      /\ waiting[t] = "begin" \/ m_hLock # t \/ UNCHANGED m_hLock
      /\ UNCHANGED <<m_eState, m_nWaiters, m_hEvent>>
  <2>1. CASE SignalObjectAndWait(t)
    BY <1>1, <2>1, MultiLockAssumption
    DEF SignalObjectAndWait, EventWait, Unlock, Stages, MultiLockAssumption
  <2>2. CASE WaitForEvent(t)
    BY <1>1, <2>2, MultiLockAssumption
    DEF WaitForEvent, EventWait, Stages, MultiLockAssumption
  <2>3. CASE CondWait(t)
    BY <1>1, <2>3, MultiLockAssumption
    DEF CondWait, Unlock, Stages, MultiLockAssumption
  <2>4. CASE WakeUnpulsed(t, op[t] = "PopEx")
    BY <1>1, <2>4, MultiLockAssumption
    DEF WakeUnpulsed, Stages, MultiLockAssumption
  <2>5. CASE CondRelock(t)
    BY <1>1, <2>5, MultiLockAssumption
    DEF CondRelock, Lock, Stages, MultiLockAssumption
  <2>6. QED
    BY <1>2, <2>1, <2>2, <2>3, <2>4, <2>5 DEF WaitInternal
<1>4. QueueTypeOK'
  BY <1>0, <1>2, <1>3 DEF QueueTypeOK, MultiLockTypeOK
<1>5. WaiterCounts'
  BY <1>0, <1>2, <1>3, CountersKept
<1>6. CallsConsistent'
  BY <1>0, <1>2, <1>3, MultiLockAssumption
  DEF QueueTypeOK, MultiLockTypeOK, CallsConsistent, MultiLockAssumption
<1>7. QED
  BY <1>4, <1>5, <1>6 DEF IndInv

LEMMA ResumeIndInv == ASSUME IndInv, NEW t \in Threads, Resume(t) PROVE IndInv'
<1>0. QueueTypeOK /\ WaiterCounts /\ CallsConsistent
  BY DEF IndInv
<1>1. /\ pc[t] = "wait"
      /\ pc' = [pc EXCEPT ![t] = IF op[t] = "PopEx" THEN "after" ELSE "test"]
      /\ WaitReturns(t)
      /\ UNCHANGED <<m_queData, op, arg, result>>
  BY DEF Resume
<1>2. /\ waiting' = [waiting EXCEPT ![t] = "out"]
      /\ \/ waiting[t] = "begin" /\ UNCHANGED m_hLock
         \/ m_hLock = Nobody /\ m_hLock' = t
      /\ m_eState' \in EStates
      /\ m_hEvent' \in BOOLEAN
  <2>1. m_eState \in EStates /\ m_hEvent \in BOOLEAN
    BY <1>0 DEF QueueTypeOK, MultiLockTypeOK
  <2>2. CASE CondDone(t)
    BY <2>1, <2>2 DEF CondDone, EStates
  <2>3. CASE EventDone(t)
    BY <2>1, <2>3 DEF EventDone, Lock
  <2>4. QED BY <1>1, <2>2, <2>3 DEF WaitReturns
<1>3. /\ WaiterCounts'
      /\ m_nWaiters' \in Nat /\ m_ReadWaiters' \in Nat /\ m_WriteWaiters' \in Nat
  BY <1>0, CountersLeave
<1>4. QueueTypeOK'
  <2>1. MultiLockTypeOK'
    BY <1>0, <1>1, <1>2, <1>3 DEF QueueTypeOK, MultiLockTypeOK, Stages
  <2>2. QED BY <1>0, <1>1, <1>3, <2>1 DEF QueueTypeOK, Places
<1>5. CallsConsistent'
  BY <1>0, <1>1, <1>2, MultiLockAssumption
  DEF QueueTypeOK, MultiLockTypeOK, CallsConsistent, MultiLockAssumption
<1>6. QED
  BY <1>3, <1>4, <1>5 DEF IndInv

LEMMA BodyIndInv == ASSUME IndInv, NEW t \in Threads, Body(t) PROVE IndInv'
<1>0. QueueTypeOK /\ WaiterCounts /\ CallsConsistent
  BY DEF IndInv
<1>1. PICK r \in Values \cup {NoValue} : Return(t, r)
  BY BodyEffect
<1>2. /\ pc[t] \in {"test", "after"}
      /\ m_hLock = t /\ m_hLock' = Nobody
      /\ pc' = [pc EXCEPT ![t] = "idle"]
      /\ op' = [op EXCEPT ![t] = "none"]
      /\ result' = [result EXCEPT ![t] = r]
      /\ UNCHANGED <<arg, m_nWaiters, m_ReadWaiters, m_WriteWaiters>>
  BY <1>1, BodyEffect DEF Return, Unlock, countVars
<1>3. m_queData' \in Seq(Values)
  BY BodyEffect
<1>4. /\ m_eState' \in EStates
      /\ m_hEvent' \in BOOLEAN
      /\ waiting' \in [Threads -> Stages]
      /\ \A u \in Threads : \/ waiting'[u] = waiting[u]
                            \/ waiting[u] = "asleep" /\ waiting'[u] = "woken"
  BY <1>0, BodyEffect, PulseEffect
<1>5. QueueTypeOK'
  <2>1. MultiLockTypeOK'
    BY <1>0, <1>2, <1>4 DEF QueueTypeOK, MultiLockTypeOK
  <2>2. QED BY <1>0, <1>2, <1>3, <2>1 DEF QueueTypeOK, Places
<1>6. WaiterCounts'
  <2>1. \A u \in Threads : /\ pc'[u] = "wait" <=> pc[u] = "wait"
                           /\ pc[u] = "wait" => op'[u] = op[u]
    BY <1>0, <1>2 DEF QueueTypeOK
  <2>2. QED BY <1>0, <1>2, <2>1, CountersKept
<1>7. CallsConsistent'
  <2>1. \A u \in Threads : /\ waiting'[u] # "out" <=> waiting[u] # "out"
                           /\ waiting'[u] = "begin" => waiting[u] = "begin"
    BY <1>4
  <2>2. \A u \in Threads : u # t => pc[u] \notin {"test", "after"} /\ waiting[u] # "begin"
    BY <1>0, <1>2 DEF CallsConsistent
  <2>3. waiting[t] = "out"
    BY <1>0, <1>2 DEF CallsConsistent
  <2>4. QED BY <1>0, <1>2, <2>1, <2>2, <2>3 DEF QueueTypeOK, CallsConsistent, Ops
<1>8. QED
  BY <1>5, <1>6, <1>7 DEF IndInv

LEMMA NextIndInv == IndInv /\ [Next]_vars => IndInv'
<1> SUFFICES ASSUME IndInv, [Next]_vars PROVE IndInv'
  OBVIOUS
<1>1. ASSUME NEW t \in Threads, Call(t) PROVE IndInv'
  BY <1>1, CallIndInv
<1>2. ASSUME NEW t \in Threads, Acquire(t) PROVE IndInv'
  BY <1>2, AcquireIndInv
<1>3. ASSUME NEW t \in Threads, MustWait(t) PROVE IndInv'
  BY <1>3, MustWaitIndInv
<1>4. ASSUME NEW t \in Threads, Waits(t) PROVE IndInv'
  BY <1>4, WaitsIndInv
<1>5. ASSUME NEW t \in Threads, Resume(t) PROVE IndInv'
  BY <1>5, ResumeIndInv
<1>6. ASSUME NEW t \in Threads, Body(t) PROVE IndInv'
  BY <1>6, BodyIndInv
<1>7. CASE UNCHANGED vars
  BY <1>7 DEF vars, lockVars, countVars, callVars, IndInv, QueueTypeOK, MultiLockTypeOK,
              WaiterCounts, InWait, WaitingReaders, WaitingWriters, CallsConsistent
<1>8. QED
  BY <1>1, <1>2, <1>3, <1>4, <1>5, <1>6, <1>7 DEF Next

LEMMA SpecIndInv == Spec => []IndInv
BY InitIndInv, NextIndInv, PTL DEF Spec

\* Every variable keeps its type; in particular no counter of waiting threads
\* ever drops below zero.
THEOREM TypeCorrect == Spec => []QueueTypeOK
<1>1. IndInv => QueueTypeOK
  BY DEF IndInv
<1>2. QED BY <1>1, SpecIndInv, PTL

\* The counters on whose word a pulse is skipped or dropped are exact: they are
\* the numbers of threads inside m_Lock.Wait.
THEOREM CountersCorrect == Spec => []WaiterCounts
<1>1. IndInv => WaiterCounts
  BY DEF IndInv
<1>2. QED BY <1>1, SpecIndInv, PTL

\* Only the owner of the mutex is inside a method's guarded block, whichever
\* way it came to own it.
THEOREM OwnershipCorrect == Spec => []CallsConsistent
<1>1. IndInv => CallsConsistent
  BY DEF IndInv
<1>2. QED BY <1>1, SpecIndInv, PTL

-----------------------------------------------------------------------------
\* win32, SignalObjectAndWait in one step: nobody sleeps without a reason

AtomicWin32 == Platform = "win32" /\ SplitSignalAndWait = FALSE

EventInv ==
  \A t \in Threads :
    /\ waiting[t] # "gap"
    /\ waiting[t] \in {"begin", "asleep"} => Blocked(op[t])
    /\ waiting[t] = "asleep" => ~m_hEvent

LEMMA InitEventInv == Init => EventInv
BY DEF Init, MultiLockInit, EventInv

\* A pulse on win32 leaves nobody asleep.
LEMMA PulseWakesAll ==
  ASSUME QueueTypeOK, AtomicWin32, Pulse \/ PulseAll
  PROVE  \A u \in Threads : /\ waiting'[u] # "asleep"
                            /\ waiting'[u] \in {waiting[u], "woken"}
<1>1. SetEvent
  BY DEF AtomicWin32, Pulse, PulseAll
<1>2. QED
  BY <1>1 DEF SetEvent, Wake, Sleepers

\* A counter at zero means that nobody of its kind is inside m_Lock.Wait.
LEMMA NoneCounted ==
  ASSUME WaiterCounts, CallsConsistent, NEW u \in Threads, waiting[u] # "out"
  PROVE  /\ op[u] \in ReadOps => m_ReadWaiters # 0
         /\ op[u] = "Push" => m_WriteWaiters # 0
<1>1. u \in InWait
  BY DEF CallsConsistent, InWait
<1>2. /\ op[u] \in ReadOps => WaitingReaders # {}
      /\ op[u] = "Push" => WaitingWriters # {}
  BY <1>1 DEF WaitingReaders, WaitingWriters
<1>3. WaitingReaders \in SUBSET Threads /\ WaitingWriters \in SUBSET Threads
  BY DEF WaitingReaders, WaitingWriters, InWait
<1>4. QED
  BY <1>2, <1>3, WaitersFinite DEF WaiterCounts

\* A body that does not pulse leaves every sleeper with its reason to sleep.
LEMMA BodyEventInv ==
  ASSUME IndInv, EventInv, AtomicWin32, NEW t \in Threads, Body(t)
  PROVE  EventInv'
<1>0. QueueTypeOK /\ WaiterCounts /\ CallsConsistent
  BY DEF IndInv
<1>1. /\ pc[t] \in {"test", "after"} /\ op' = [op EXCEPT ![t] = "none"]
      /\ Pulse \/ PulseAll \/ NoPulse
  BY BodyEffect DEF Return
<1>2. waiting[t] = "out" /\ \A u \in Threads : u # t => waiting[u] # "begin"
  BY <1>0, <1>1 DEF CallsConsistent
<1>3. \A u \in Threads : waiting[u] = "begin" => FALSE
  BY <1>2
<1>4. CASE Pulse \/ PulseAll
  BY <1>0, <1>3, <1>4, PulseWakesAll DEF EventInv
<1>5. CASE NoPulse
  <2>1. waiting' = waiting /\ m_hEvent' = m_hEvent
    BY <1>5 DEF NoPulse
  <2>2. SUFFICES ASSUME NEW u \in Threads, waiting[u] = "asleep" PROVE Blocked(op[u])'
    BY <1>3, <2>1 DEF EventInv
  <2>3. /\ u # t /\ op'[u] = op[u] /\ op[u] \in ReadOps \cup {"Push"}
        /\ Blocked(op[u])
    BY <1>0, <1>1, <1>2, <2>2 DEF EventInv, CallsConsistent, QueueTypeOK
  <2>4. CASE ~Pulse /\ ~PulseAll
    <3>1. /\ op[u] \in ReadOps => m_ReadWaiters > 0
          /\ op[u] = "Push" => m_WriteWaiters > 0
      BY <1>0, <2>2, NoneCounted DEF QueueTypeOK
    <3>2. CASE Push(t)
      BY <2>3, <2>4, <3>1, <3>2 DEF Push, PulseReaders, Blocked, ReadOps
    <3>3. CASE Peek(t)
      BY <2>4, <3>3 DEF Peek
    <3>4. CASE Pop(t) \/ PopEx(t)
      BY <2>3, <2>4, <3>1, <3>4 DEF Pop, PopEx, TakeFront, PulseWriters, Blocked, ReadOps
    <3>5. CASE PopExEmpty(t)
      BY <2>3, <3>5 DEF PopExEmpty, Blocked, IsEmpty, IsFull
    <3>6. CASE Clear(t)
      BY <2>3, <2>4, <3>1, <3>6 DEF Clear, Blocked, IsEmpty
    <3>7. QED
      BY <3>2, <3>3, <3>4, <3>5, <3>6 DEF Body
  <2>5. CASE Pulse \/ PulseAll
    BY <1>0, <2>1, <2>2, <2>5, PulseWakesAll
  <2>6. QED BY <2>4, <2>5
<1>6. QED
  BY <1>1, <1>4, <1>5

LEMMA NextEventInv ==
  ASSUME AtomicWin32
  PROVE  IndInv /\ EventInv /\ [Next]_vars => EventInv'
<1> SUFFICES ASSUME IndInv, EventInv, [Next]_vars PROVE EventInv'
  OBVIOUS
<1>0. QueueTypeOK /\ CallsConsistent
  BY DEF IndInv
<1>1. ASSUME NEW t \in Threads, Call(t) PROVE EventInv'
  <2>1. PICK o \in Ops : op' = [op EXCEPT ![t] = o]
    BY <1>1, QueueAssumption DEF Call, QueueAssumption
  <2>2. pc[t] = "idle" /\ UNCHANGED <<waiting, m_hEvent, m_queData>>
    BY <1>1 DEF Call, lockVars
  <2>3. waiting[t] = "out"
    BY <1>0, <2>2 DEF CallsConsistent
  <2>4. \A u \in Threads : waiting[u] # "out" => op'[u] = op[u]
    BY <1>0, <2>1, <2>3 DEF QueueTypeOK
  <2>5. QED BY <2>2, <2>4 DEF EventInv, Blocked, IsEmpty, IsFull
<1>2. ASSUME NEW t \in Threads, Acquire(t) PROVE EventInv'
  BY <1>2 DEF Acquire, EventInv, Blocked, IsEmpty, IsFull
<1>3. ASSUME NEW t \in Threads, MustWait(t) PROVE EventInv'
  <2>1. /\ Blocked(op[t])
        /\ waiting' = [waiting EXCEPT ![t] = "begin"]
        /\ UNCHANGED <<m_hEvent, m_queData, op>>
    BY <1>3 DEF MustWait, WaitBegin
  <2>2. QED
    BY <1>0, <2>1 DEF EventInv, QueueTypeOK, MultiLockTypeOK, Blocked, IsEmpty, IsFull
<1>4. ASSUME NEW t \in Threads, Waits(t) PROVE EventInv'
  <2>1. UNCHANGED <<m_queData, op>> /\ WaitInternal(t, op[t] = "PopEx")
    BY <1>4 DEF Waits, callVars
  <2>2. SignalObjectAndWait(t) \/ WakeUnpulsed(t, op[t] = "PopEx")
    BY <2>1 DEF WaitInternal, WaitForEvent, CondWait, CondRelock, EventInv, AtomicWin32
  <2>3. CASE SignalObjectAndWait(t)
    BY <1>0, <2>1, <2>3
    DEF SignalObjectAndWait, EventWait, AtomicWin32, EventInv, QueueTypeOK, MultiLockTypeOK,
        Blocked, IsEmpty, IsFull
  <2>4. CASE WakeUnpulsed(t, op[t] = "PopEx")
    BY <1>0, <2>1, <2>4
    DEF WakeUnpulsed, EventInv, QueueTypeOK, MultiLockTypeOK, Blocked, IsEmpty, IsFull
  <2>5. QED BY <2>2, <2>3, <2>4
<1>5. ASSUME NEW t \in Threads, Resume(t) PROVE EventInv'
  <2>1. EventDone(t) /\ UNCHANGED <<m_queData, op>>
    BY <1>5 DEF Resume, WaitReturns, CondDone, AtomicWin32
  <2>2. waiting' = [waiting EXCEPT ![t] = "out"] /\ (m_hEvent' => m_hEvent)
    BY <2>1 DEF EventDone
  <2>3. QED
    BY <1>0, <2>1, <2>2 DEF EventInv, QueueTypeOK, MultiLockTypeOK, Blocked, IsEmpty, IsFull
<1>6. ASSUME NEW t \in Threads, Body(t) PROVE EventInv'
  BY <1>6, BodyEventInv
<1>7. CASE UNCHANGED vars
  BY <1>7 DEF vars, lockVars, callVars, EventInv, Blocked, IsEmpty, IsFull
<1>8. QED
  BY <1>1, <1>2, <1>3, <1>4, <1>5, <1>6, <1>7 DEF Next

\* With an atomic SignalObjectAndWait no thread sleeps in Push beside a free
\* place or in Pop, Peek, PopEx beside an item, for any number of threads.
THEOREM SleepersAreJustified ==
  ASSUME AtomicWin32
  PROVE  Spec => []SleepersJustified
<1>1. EventInv => SleepersJustified
  BY DEF EventInv, SleepersJustified
<1>2. Init => EventInv
  BY InitEventInv
<1>3. IndInv /\ EventInv /\ [Next]_vars => EventInv'
  BY NextEventInv
<1>4. QED
  BY <1>1, <1>2, <1>3, SpecIndInv, PTL DEF Spec

-----------------------------------------------------------------------------
\* linux, unlimited, one reader: nobody sleeps without a reason

\* CTimer(1) uses its queue like this: nobody waits in Push, and one worker pops.
OneLinuxReader ==
  /\ Platform = "linux" /\ m_nMaxSize = 0
  /\ \A t, u \in Threads :
       Calls[t] \cap ReadOps # {} /\ Calls[u] \cap ReadOps # {} => t = u

OwnCalls == \A t \in Threads : op[t] \in Calls[t] \cup {"none"}

\* Whoever is inside m_Lock.Wait beside an item is awake, and finds the pulse pending.
PulseInv ==
  \A t \in Threads :
    waiting[t] # "out" /\ ~IsEmpty => waiting[t] # "asleep" /\ m_eState # "eNone"

LEMMA NeverFull == ASSUME OneLinuxReader PROVE ~IsFull
BY DEF OneLinuxReader, IsFull

\* Only the one reader is ever inside m_Lock.Wait.
LEMMA OnlyReaderWaits ==
  ASSUME IndInv, OwnCalls, OneLinuxReader, NEW t \in Threads, NEW u \in Threads,
         op[t] \in ReadOps, op[u] \in ReadOps
  PROVE  t = u
BY DEF OwnCalls, OneLinuxReader, ReadOps

\* A thread comes to wait only in a method that reads, and never between the two halves of
\* a SignalObjectAndWait.
WaitersRead ==
  \A t \in Threads : waiting[t] # "out" => op[t] \in ReadOps /\ waiting[t] # "gap"

LinuxInv == OwnCalls /\ WaitersRead /\ PulseInv

LEMMA InitLinuxInv == Init => LinuxInv
BY DEF Init, MultiLockInit, LinuxInv, OwnCalls, WaitersRead, PulseInv

\* An item that is pushed beside the waiting reader comes with a pulse; no other body adds
\* one, and none takes the pulse back.
LEMMA BodyLinuxInv ==
  ASSUME IndInv, LinuxInv, OneLinuxReader, NEW t \in Threads, Body(t)
  PROVE  LinuxInv'
<1>0. QueueTypeOK /\ WaiterCounts /\ CallsConsistent /\ OwnCalls /\ WaitersRead /\ PulseInv
  BY DEF IndInv, LinuxInv
<1>1. /\ pc[t] \in {"test", "after"} /\ op' = [op EXCEPT ![t] = "none"]
      /\ Pulse \/ PulseAll \/ NoPulse
  BY BodyEffect DEF Return
<1>2. waiting[t] = "out"
  BY <1>0, <1>1 DEF CallsConsistent
<1>3. \A u \in Threads : \/ waiting'[u] = waiting[u]
                         \/ waiting[u] = "asleep" /\ waiting'[u] = "woken"
  BY <1>0, <1>1, PulseEffect
<1>4. OwnCalls'
  BY <1>0, <1>1 DEF OwnCalls, QueueTypeOK
<1>5. WaitersRead'
  BY <1>0, <1>1, <1>2, <1>3 DEF WaitersRead, QueueTypeOK
<1>6. ASSUME NEW u \in Threads, waiting'[u] # "out", ~IsEmpty'
      PROVE  waiting'[u] # "asleep" /\ m_eState' # "eNone"
  <2>1. waiting[u] # "out" /\ op[u] \in ReadOps
    BY <1>0, <1>3, <1>6 DEF WaitersRead
  <2>2. m_ReadWaiters > 0
    BY <1>0, <2>1, NoneCounted DEF QueueTypeOK
  <2>3. ASSUME Pulse PROVE waiting'[u] # "asleep" /\ m_eState' # "eNone"
    <3>1. CondSignal /\ m_eState' = "ePulse"
      BY <2>3 DEF Pulse, OneLinuxReader
    <3>2. \A v \in Threads : waiting[v] = "asleep" => v = u
      BY <1>0, <2>1, OnlyReaderWaits DEF WaitersRead
    <3>3. CASE \E v \in Sleepers : Wake({v})
      BY <3>1, <3>2, <3>3 DEF Sleepers, Wake
    <3>4. CASE Sleepers = {} /\ UNCHANGED waiting
      BY <3>1, <3>4 DEF Sleepers
    <3>5. QED
      BY <3>1, <3>3, <3>4 DEF CondSignal
  <2>4. ASSUME NoPulse, ~IsEmpty PROVE waiting'[u] # "asleep" /\ m_eState' # "eNone"
    BY <1>0, <2>1, <2>4 DEF NoPulse, PulseInv
  <2>5. CASE Push(t)
    BY <2>2, <2>3, <2>5 DEF Push, PulseReaders
  <2>6. CASE Peek(t)
    BY <2>3, <2>6 DEF Peek
  <2>7. CASE Pop(t) \/ PopEx(t)
    BY <2>3, <2>4, <2>7 DEF Pop, PopEx, TakeFront, PulseWriters
  <2>8. CASE PopExEmpty(t) \/ Clear(t)
    BY <1>6, <2>8 DEF PopExEmpty, Clear, IsEmpty
  <2>9. QED
    BY <2>5, <2>6, <2>7, <2>8 DEF Body
<1>7. PulseInv'
  BY <1>6 DEF PulseInv
<1>8. QED
  BY <1>4, <1>5, <1>7 DEF LinuxInv

LEMMA NextLinuxInv ==
  ASSUME OneLinuxReader
  PROVE  IndInv /\ LinuxInv /\ [Next]_vars => LinuxInv'
<1> SUFFICES ASSUME IndInv, LinuxInv, [Next]_vars PROVE LinuxInv'
  OBVIOUS
<1>0. QueueTypeOK /\ CallsConsistent /\ OwnCalls /\ WaitersRead /\ PulseInv
  BY DEF IndInv, LinuxInv
<1>1. ASSUME NEW t \in Threads, Call(t) PROVE LinuxInv'
  <2>1. PICK o \in Calls[t] : op' = [op EXCEPT ![t] = o]
    BY <1>1 DEF Call
  <2>2. pc[t] = "idle" /\ UNCHANGED <<waiting, m_eState, m_queData>>
    BY <1>1 DEF Call, lockVars
  <2>3. waiting[t] = "out"
    BY <1>0, <2>2 DEF CallsConsistent
  <2>4. OwnCalls'
    BY <1>0, <2>1 DEF OwnCalls, QueueTypeOK
  <2>5. WaitersRead'
    BY <1>0, <2>1, <2>2, <2>3 DEF WaitersRead, QueueTypeOK
  <2>6. PulseInv'
    BY <1>0, <2>2 DEF PulseInv, IsEmpty
  <2>7. QED
    BY <2>4, <2>5, <2>6 DEF LinuxInv
<1>2. ASSUME NEW t \in Threads, Acquire(t) PROVE LinuxInv'
  BY <1>2 DEF Acquire, LinuxInv, OwnCalls, WaitersRead, PulseInv, IsEmpty
<1>3. ASSUME NEW t \in Threads, MustWait(t) PROVE LinuxInv'
  <2>1. op[t] \in ReadOps /\ IsEmpty
    BY <1>3, NeverFull DEF MustWait, Blocked
  <2>2. waiting' = [waiting EXCEPT ![t] = "begin"] /\ UNCHANGED <<m_queData, op>>
    BY <1>3 DEF MustWait, WaitBegin
  <2>3. QED
    BY <1>0, <2>1, <2>2
    DEF LinuxInv, OwnCalls, WaitersRead, PulseInv, IsEmpty, QueueTypeOK, MultiLockTypeOK
<1>4. ASSUME NEW t \in Threads, Waits(t) PROVE LinuxInv'
  <2>1. waiting[t] # "out" /\ UNCHANGED <<m_queData, op, m_eState>>
    BY <1>0, <1>4
    DEF Waits, callVars, CallsConsistent, WaitInternal, SignalObjectAndWait, WaitForEvent,
        CondWait, WakeUnpulsed, CondRelock
  <2>2. \E s \in Stages : waiting' = [waiting EXCEPT ![t] = s]
    BY <1>4
    DEF Waits, WaitInternal, SignalObjectAndWait, WaitForEvent, EventWait, CondWait,
        WakeUnpulsed, CondRelock, Stages
  <2>3. waiting'[t] = "asleep" => m_eState = "eNone" \/ waiting[t] = "asleep"
    BY <1>0, <1>4
    DEF Waits, WaitInternal, SignalObjectAndWait, WaitForEvent, CondWait, WakeUnpulsed,
        CondRelock, OneLinuxReader, WaitersRead, QueueTypeOK, MultiLockTypeOK
  <2>4. waiting'[t] # "gap"
    BY <1>0, <1>4
    DEF Waits, WaitInternal, SignalObjectAndWait, WaitForEvent, EventWait, CondWait,
        WakeUnpulsed, CondRelock, OneLinuxReader, QueueTypeOK, MultiLockTypeOK
  <2>5. QED
    BY <1>0, <2>1, <2>2, <2>3, <2>4
    DEF LinuxInv, OwnCalls, WaitersRead, PulseInv, IsEmpty, QueueTypeOK, MultiLockTypeOK
<1>5. ASSUME NEW t \in Threads, Resume(t) PROVE LinuxInv'
  <2>1. CondDone(t) /\ UNCHANGED <<m_queData, op>>
    BY <1>5 DEF Resume, WaitReturns, EventDone, OneLinuxReader
  <2>2. waiting[t] # "out" /\ waiting' = [waiting EXCEPT ![t] = "out"]
    BY <2>1 DEF CondDone
  <2>3. \A u \in Threads : waiting'[u] = "out"
    BY <1>0, <2>2, OnlyReaderWaits DEF WaitersRead, QueueTypeOK, MultiLockTypeOK
  <2>4. QED
    BY <1>0, <2>1, <2>3 DEF LinuxInv, OwnCalls, WaitersRead, PulseInv
<1>6. ASSUME NEW t \in Threads, Body(t) PROVE LinuxInv'
  BY <1>6, BodyLinuxInv
<1>7. CASE UNCHANGED vars
  BY <1>7 DEF vars, lockVars, callVars, LinuxInv, OwnCalls, WaitersRead, PulseInv, IsEmpty
<1>8. QED
  BY <1>1, <1>2, <1>3, <1>4, <1>5, <1>6, <1>7 DEF Next

\* On linux the one reader of an unlimited queue never sleeps beside an item, for any
\* number of writers and in spite of spurious wake-ups.
THEOREM OneReaderSleepsJustified ==
  ASSUME OneLinuxReader
  PROVE  Spec => []SleepersJustified
<1>1. IndInv /\ LinuxInv => SleepersJustified
  BY DEF LinuxInv, PulseInv, WaitersRead, SleepersJustified, Blocked
<1>2. Init => LinuxInv
  BY InitLinuxInv
<1>3. IndInv /\ LinuxInv /\ [Next]_vars => LinuxInv'
  BY NextLinuxInv
<1>4. QED
  BY <1>1, <1>2, <1>3, SpecIndInv, PTL DEF Spec

\* No wake-up is lost on win32 with an atomic SignalObjectAndWait, nor on linux with one
\* reader and no limit; without these limits the code does lose some.
THEOREM NoWakeupIsLost ==
  ASSUME AtomicWin32 \/ OneLinuxReader
  PROVE  Spec => []NoLostWakeup
<1>1. Spec => []SleepersJustified
  <2>1. CASE AtomicWin32
    BY <2>1, SleepersAreJustified
  <2>2. CASE OneLinuxReader
    BY <2>2, OneReaderSleepsJustified
  <2>3. QED
    BY <2>1, <2>2
<1>2. SleepersJustified => NoLostWakeup
  BY DEF NoLostWakeup
<1>3. QED
  BY <1>1, <1>2, PTL

-----------------------------------------------------------------------------
\* Queue implements BlockingQueue

LEMMA InitAbstract == Init => Abstract!Init
BY DEF Init, Abstract!Init

LEMMA StepAbstract == IndInv /\ [Next]_vars => [Abstract!Next]_(Abstract!absVars)
<1> SUFFICES ASSUME IndInv, [Next]_vars
             PROVE  Abstract!Next \/ UNCHANGED <<m_queData, op, arg, result>>
  BY DEF Abstract!absVars
<1>0. QueueTypeOK /\ CallsConsistent
  BY DEF IndInv
<1>1. ASSUME NEW t \in Threads, Call(t) PROVE Abstract!Next
  <2>1. op[t] = "none"
    BY <1>0, <1>1 DEF Call, CallsConsistent
  <2>2. Abstract!Invoke(t)
    BY <1>1, <2>1, QueueAssumption DEF Call, Abstract!Invoke, Abstract!Ops, Ops, QueueAssumption
  <2>3. QED BY <2>2 DEF Abstract!Next
<1>2. ASSUME NEW t \in Threads, Acquire(t) \/ MustWait(t) \/ Waits(t) \/ Resume(t)
      PROVE  UNCHANGED <<m_queData, op, arg, result>>
  BY <1>2 DEF Acquire, MustWait, Waits, Resume, callVars
<1>3. ASSUME NEW t \in Threads, Body(t) PROVE Abstract!Next
  <2>1. ~IsFull => Abstract!IsRoom
    BY <1>0, QueueAssumption DEF IsFull, Abstract!IsRoom, QueueTypeOK, QueueAssumption
  <2>2. CASE Push(t)
    BY <2>1, <2>2 DEF Push, Return, Abstract!Push, Abstract!Respond, Abstract!Next
  <2>3. CASE Peek(t)
    BY <2>3 DEF Peek, Return, IsEmpty, Abstract!Peek, Abstract!Respond, Abstract!Next
  <2>4. CASE Pop(t) \/ PopEx(t)
    BY <2>4 DEF Pop, PopEx, TakeFront, Return, IsEmpty, Abstract!Pop, Abstract!Respond,
       Abstract!Next
  <2>5. CASE PopExEmpty(t)
    <3>1. op[t] = "PopEx"
      BY <1>0, <2>5 DEF PopExEmpty, CallsConsistent
    <3>2. QED
      BY <2>5, <3>1
      DEF PopExEmpty, Return, IsEmpty, Abstract!GiveUp, Abstract!Respond, Abstract!Next
  <2>6. CASE Clear(t)
    BY <2>6 DEF Clear, Return, Abstract!Clear, Abstract!Respond, Abstract!Next
  <2>7. QED BY <1>3, <2>2, <2>3, <2>4, <2>5, <2>6 DEF Body
<1>4. CASE UNCHANGED vars
  BY <1>4 DEF vars, callVars
<1>5. QED
  BY <1>1, <1>2, <1>3, <1>4 DEF Next

\* On both platforms, whatever the interleaving, the callers of CQueue see a
\* first-in first-out queue that never exceeds its size, hands every item out
\* once, and answers "empty" only when it is empty.
THEOREM ImplementsAbstractQueue == Spec => ImplementsBlockingQueue
<1>1. Init => Abstract!Init
  BY InitAbstract
<1>2. IndInv /\ [Next]_vars => [Abstract!Next]_(Abstract!absVars)
  BY StepAbstract
<1>3. QED
  BY <1>1, <1>2, SpecIndInv, PTL DEF Spec, ImplementsBlockingQueue, Abstract!Spec
=============================================================================

--------------------------- MODULE SemaphoreProofs ---------------------------
(***************************************************************************)
(* Theorems about Semaphore, for every set of threads and semaphores and   *)
(* every choice of the methods that each thread calls and of the waits     *)
(* that have a timeout.                                                    *)
(*                                                                         *)
(* Both rest on the mutex of a semaphore: while a Signal holds it, the set *)
(* of that semaphore, and so the waiter it has chosen, stay the same.      *)
(***************************************************************************)
EXTENDS Semaphore, WellFoundedInduction, TLAPS

\* A Signal holds the mutex of its semaphore from LockSet to UnlockSet.
Scanning == {"scan", "pass", "read", "write", "unlock"}

MutexHeld ==
  \A t \in Threads : pc[t] \in Scanning => m_Mutex[sem[t]] = t

\* The loops stay in the range of the semaphores.
InRange ==
  \A t \in Threads : pc[t] \in {"register", "erase", "all"} => i[t] \in 1 .. Len(Sems)

\* The thread is in WaitForScope(any), and its common semaphore exists.
InAny == {"register", "common", "uncount", "left", "erase", "delete"}

CommonExists == \A t \in Threads : pc[t] \in InAny => t \in allocated

\* A common semaphore is registered only where its thread has registered it and not yet
\* erased it, but for one that timed out.
Abandoned(t) == outcome[t] = "throws" /\ t \notin allocated

Registered(t, s) ==
  /\ pc[t] \in InAny \ {"delete"}
  /\ pc[t] = "erase" => \E k \in i[t] .. Len(Sems) : Sems[k] = s

OnlyRegistered ==
  \A s \in Programs : \A t \in m_setCommonWaiters[s] : Registered(t, s) \/ Abandoned(t)

\* The waiter a Signal has chosen, once it holds the mutex
Chooses(u, t) ==
  m_setCommonWaiters[sem[u]] # {} /\ Begin(m_setCommonWaiters[sem[u]]) = t

ChoiceStands ==
  \A u \in Threads :
    pc[u] \in {"pass", "read", "write"} => m_setCommonWaiters[sem[u]] # {}

\* Before the waiter has taken its signal: as long as there is none, its m_nInitialCnt
\* is 0 and nobody is about to change it.
Unserved(t) == pc[t] \in {"register", "common"}

CountTrue ==
  \A t \in Threads : Unserved(t) /\ m_hLock[t] = 0 =>
    /\ m_nInitialCnt[t] = 0
    /\ \A u \in Threads : pc[u] \in {"read", "write"} => ~Chooses(u, t)

\* The one that a Signal was passed on to has it, or the Signal will still give it.
WillBeWoken ==
  \A t \in Threads : Unserved(t) /\ t \in passed =>
    \/ m_hLock[t] > 0
    \/ \E u \in Threads : pc[u] \in {"scan", "pass"} /\ Chooses(u, t)

IInv ==
  /\ SemaphoreTypeOK
  /\ MutexHeld /\ InRange /\ CommonExists
  /\ OnlyRegistered
  /\ ChoiceStands /\ CountTrue /\ WillBeWoken
-----------------------------------------------------------------------------
\* Lemmas

Less == {r \in Nat \X Nat : r[1] < r[2]}

\* A function with natural values has a least one on every set that is not empty.
LEMMA Least ==
  ASSUME NEW S, NEW f \in [S -> Nat], S # {}
  PROVE  \E u \in S : \A v \in S : f[u] <= f[v]
<1> DEFINE T == {f[u] : u \in S}
<1>1. IsWellFoundedOn(Less, Nat)
  BY NatLessThanWellFounded DEF OpToRel, Less
<1>2. T \subseteq Nat /\ T # {}
  OBVIOUS
<1>3. PICK x \in T : \A y \in T : <<y, x>> \notin Less
  BY <1>1, <1>2, WFMin
<1>4. \A a, b \in Nat : a < b => <<a, b>> \in Less
  BY DEF Less
<1>5. ASSUME NEW y \in T PROVE x <= y
  <2>1. x \in Nat /\ y \in Nat
    BY <1>2
  <2>2. ~(y < x)
    BY <1>3, <1>4, <2>1, Zenon
  <2>3. QED
    BY <2>1, <2>2
<1>6. QED
  BY <1>5

\* The waiter that Signal takes from a set that is not empty is in the set.
LEMMA BeginIsIn ==
  ASSUME NEW S, S \subseteq Threads, S # {}
  PROVE  Begin(S) \in S
<1> DEFINE f == [u \in S |-> Address[u]]
<1>1. f \in [S -> Nat]
  BY SemaphoreAssumption
<1>2. \E u \in S : \A v \in S : f[u] <= f[v]
  BY <1>1, Least
<1>3. QED
  BY <1>2 DEF Begin

\* What a thread may do
ActionOf(t) ==
  \/ \E s \in Programs : Signal(t, s) \/ Wait(t, s)
  \/ SignalStep(t)
  \/ WaitTakes(t) \/ WaitTimesOut(t)
  \/ WaitAll(t) \/ AllTakes(t) \/ AllTimesOut(t)
  \/ WaitAny(t) \/ Register(t) \/ CommonTakes(t) \/ UncountRead(t) \/ UncountWrite(t)
  \/ CommonTimesOut(t) \/ Erase(t) \/ DeleteCommon(t)

\* While a Signal holds the mutex, nobody else does.
LEMMA MutexExcludes ==
  ASSUME SemaphoreTypeOK, MutexHeld, NEW u \in Threads, pc[u] \in Scanning
  PROVE  /\ m_Mutex[sem[u]] # Nobody
         /\ \A v \in Threads \ {u} : pc[v] \in Scanning => sem[v] # sem[u]
BY SemaphoreAssumption DEF MutexHeld, All

\* A thread between two calls is registered nowhere.
LEMMA IdleIsNotRegistered ==
  ASSUME ~Dangling, OnlyRegistered, NEW t \in Threads, pc[t] = "idle"
  PROVE  \A s \in Programs : t \notin m_setCommonWaiters[s]
BY DEF Dangling, OnlyRegistered, Registered, Abandoned, InAny

LEMMA SemsInRange ==
  /\ Len(Sems) \in Nat \ {0}
  /\ \A k \in 1 .. Len(Sems) : Sems[k] \in Programs
  /\ Sems[1] \in Programs
BY SemaphoreAssumption

\* The waiter of a Signal that has one
LEMMA ChosenIsRegistered ==
  ASSUME SemaphoreTypeOK, ChoiceStands, NEW u \in Threads, pc[u] \in {"pass", "read", "write"}
  PROVE  /\ Begin(m_setCommonWaiters[sem[u]]) \in m_setCommonWaiters[sem[u]]
         /\ Begin(m_setCommonWaiters[sem[u]]) \in Threads
<1>1. m_setCommonWaiters[sem[u]] \subseteq Threads /\ m_setCommonWaiters[sem[u]] # {}
  BY DEF SemaphoreTypeOK, ChoiceStands
<1>2. QED
  BY <1>1, BeginIsIn

\* The end of a loop, or its next round
LEMMA LoopEffect ==
  ASSUME SemaphoreTypeOK, InRange, NEW t \in Threads, pc[t] \in {"register", "erase"},
         NEW place \in Places, LoopNext(t, place)
  PROVE  \/ /\ i[t] = Len(Sems) /\ pc' = [pc EXCEPT ![t] = place]
            /\ i' = [i EXCEPT ![t] = 1]
         \/ /\ i[t] + 1 \in 1 .. Len(Sems) /\ i' = [i EXCEPT ![t] = i[t] + 1]
            /\ pc' = pc
<1>1. i[t] \in 1 .. Len(Sems)
  BY DEF InRange
<1>2. QED
  BY <1>1, SemsInRange DEF LoopNext, Goto

LEMMA AllEffect ==
  ASSUME SemaphoreTypeOK, InRange, NEW t \in Threads, pc[t] = "all", NEW rc, AllNext(t, rc)
  PROVE  \/ Return(t, rc)
         \/ /\ i[t] + 1 \in 1 .. Len(Sems) /\ i' = [i EXCEPT ![t] = i[t] + 1]
            /\ UNCHANGED <<pc, sem, outcome>>
<1>1. i[t] \in 1 .. Len(Sems)
  BY DEF InRange
<1>2. QED
  BY <1>1, SemsInRange DEF AllNext

\* Types: every action writes values of the right kind.
LEMMA TypeStep ==
  ASSUME SemaphoreTypeOK, InRange, ChoiceStands, ~Dangling, NEW t \in Threads, ActionOf(t)
  PROVE  SemaphoreTypeOK'
<1> USE SemaphoreAssumption DEF SemaphoreTypeOK, All, Places, Outcomes, Goto, counts, scope
<1>1. ASSUME NEW s \in Programs, Signal(t, s) PROVE SemaphoreTypeOK'
  BY <1>1 DEF Signal, Idle
<1>2. ASSUME NEW s \in Programs, Wait(t, s) PROVE SemaphoreTypeOK'
  BY <1>2 DEF Wait, Idle
<1>3. ASSUME Post(t) PROVE SemaphoreTypeOK'
  BY <1>3 DEF Post
<1>4. ASSUME LockSet(t) PROVE SemaphoreTypeOK'
  <2>1. passed' \subseteq Threads
    <3>1. m_setCommonWaiters[sem[t]] \subseteq Threads
      OBVIOUS
    <3>2. m_setCommonWaiters[sem[t]] # {} => Begin(m_setCommonWaiters[sem[t]]) \in Threads
      BY <3>1, BeginIsIn
    <3>3. QED
      BY <1>4, <3>2 DEF LockSet
  <2>2. QED
    BY <1>4, <2>1 DEF LockSet
<1>5. ASSUME Scan(t) PROVE SemaphoreTypeOK'
  BY <1>5 DEF Scan
<1>6. ASSUME Pass(t) PROVE SemaphoreTypeOK'
  <2>1. Begin(m_setCommonWaiters[sem[t]]) \in Threads
    BY <1>6, ChosenIsRegistered DEF Pass
  <2>2. QED
    BY <1>6, <2>1 DEF Pass
<1>7. ASSUME ReadCount(t) PROVE SemaphoreTypeOK'
  <2>1. Begin(m_setCommonWaiters[sem[t]]) \in Threads
    BY <1>7, ChosenIsRegistered DEF ReadCount
  <2>2. QED
    BY <1>7, <2>1 DEF ReadCount
<1>8. ASSUME WriteCount(t) PROVE SemaphoreTypeOK'
  <2>1. Begin(m_setCommonWaiters[sem[t]]) \in Threads
    BY <1>8, ChosenIsRegistered DEF WriteCount
  <2>2. QED
    BY <1>8, <2>1 DEF WriteCount
<1>9. ASSUME UnlockSet(t) PROVE SemaphoreTypeOK'
  BY <1>9 DEF UnlockSet, Return
<1>10. ASSUME WaitTakes(t) PROVE SemaphoreTypeOK'
  BY <1>10 DEF WaitTakes, Return
<1>11. ASSUME WaitTimesOut(t) PROVE SemaphoreTypeOK'
  BY <1>11 DEF WaitTimesOut, Return
<1>12. ASSUME WaitAll(t) PROVE SemaphoreTypeOK'
  BY <1>12 DEF WaitAll, Idle
<1>13. ASSUME AllTakes(t) PROVE SemaphoreTypeOK'
  <2>1. m_hLock' \in [All -> Nat]
    <3>1. Sems[i[t]] \in Programs
      BY <1>13, SemsInRange DEF AllTakes, InRange
    <3>2. QED
      BY <1>13, <3>1 DEF AllTakes
  <2>2. CASE Return(t, "0")
    BY <1>13, <2>1, <2>2 DEF AllTakes, Return
  <2>3. CASE /\ i[t] + 1 \in 1 .. Len(Sems) /\ i' = [i EXCEPT ![t] = i[t] + 1]
             /\ UNCHANGED <<pc, sem, outcome>>
    <3>1. i' \in [Threads -> Int]
      BY <2>3
    <3>2. QED
      BY <1>13, <2>1, <2>3, <3>1 DEF AllTakes
  <2>4. QED
    BY <1>13, <2>2, <2>3, AllEffect DEF AllTakes
<1>14. ASSUME AllTimesOut(t) PROVE SemaphoreTypeOK'
  <2>1. m_hLock' \in [All -> Nat]
    BY <1>14 DEF AllTimesOut
  <2>2. CASE Return(t, "-1")
    BY <1>14, <2>1, <2>2 DEF AllTimesOut, Return
  <2>3. CASE /\ i[t] + 1 \in 1 .. Len(Sems) /\ i' = [i EXCEPT ![t] = i[t] + 1]
             /\ UNCHANGED <<pc, sem, outcome>>
    <3>1. i' \in [Threads -> Int]
      BY <2>3
    <3>2. QED
      BY <1>14, <2>1, <2>3, <3>1 DEF AllTimesOut
  <2>4. QED
    BY <1>14, <2>2, <2>3, AllEffect DEF AllTimesOut
<1>15. ASSUME WaitAny(t) PROVE SemaphoreTypeOK'
  BY <1>15 DEF WaitAny, Idle
<1>16. ASSUME Register(t) PROVE SemaphoreTypeOK'
  <2>1. pc[t] = "register" /\ LoopNext(t, "common")
    BY <1>16 DEF Register
  <2>2. CASE i[t] = Len(Sems) /\ pc' = [pc EXCEPT ![t] = "common"] /\ i' = [i EXCEPT ![t] = 1]
    BY <1>16, <2>1, <2>2 DEF Register
  <2>3. CASE i[t] + 1 \in 1 .. Len(Sems) /\ i' = [i EXCEPT ![t] = i[t] + 1] /\ pc' = pc
    <3>1. i' \in [Threads -> Int]
      BY <2>3
    <3>2. m_setCommonWaiters' \in [Programs -> SUBSET Threads]
      BY <1>16 DEF Register
    <3>3. QED
      BY <1>16, <2>1, <2>3, <3>1, <3>2 DEF Register
  <2>4. QED
    BY <2>1, <2>2, <2>3, LoopEffect DEF Places
<1>17. ASSUME CommonTakes(t) PROVE SemaphoreTypeOK'
  BY <1>17 DEF CommonTakes
<1>18. ASSUME UncountRead(t) PROVE SemaphoreTypeOK'
  BY <1>18 DEF UncountRead
<1>19. ASSUME UncountWrite(t) PROVE SemaphoreTypeOK'
  BY <1>19 DEF UncountWrite
<1>20. ASSUME CommonTimesOut(t) PROVE SemaphoreTypeOK'
  BY <1>20 DEF CommonTimesOut, Return
<1>21. ASSUME Erase(t) PROVE SemaphoreTypeOK'
  <2>1. pc[t] = "erase" /\ LoopNext(t, "delete")
    BY <1>21 DEF Erase
  <2>2. CASE i[t] = Len(Sems) /\ pc' = [pc EXCEPT ![t] = "delete"] /\ i' = [i EXCEPT ![t] = 1]
    BY <1>21, <2>1, <2>2 DEF Erase
  <2>3. CASE i[t] + 1 \in 1 .. Len(Sems) /\ i' = [i EXCEPT ![t] = i[t] + 1] /\ pc' = pc
    <3>1. i' \in [Threads -> Int]
      BY <2>3
    <3>2. m_setCommonWaiters' \in [Programs -> SUBSET Threads]
      BY <1>21 DEF Erase
    <3>3. QED
      BY <1>21, <2>1, <2>3, <3>1, <3>2 DEF Erase
  <2>4. QED
    BY <2>1, <2>2, <2>3, LoopEffect DEF Places
<1>22. ASSUME DeleteCommon(t) PROVE SemaphoreTypeOK'
  BY <1>22 DEF DeleteCommon, Return
<1>23. QED
  BY <1>1, <1>2, <1>3, <1>4, <1>5, <1>6, <1>7, <1>8, <1>9, <1>10, <1>11, <1>12, <1>13, <1>14,
     <1>15, <1>16, <1>17, <1>18, <1>19, <1>20, <1>21, <1>22 DEF ActionOf, SignalStep

\* Mutexes, the places in the loops, and the common semaphores.
LEMMA PlaceStep ==
  ASSUME SemaphoreTypeOK, MutexHeld, InRange, CommonExists, ~Dangling, NEW t \in Threads,
         ActionOf(t)
  PROVE  (MutexHeld /\ InRange /\ CommonExists)'
<1> USE SemaphoreAssumption DEF SemaphoreTypeOK, MutexHeld, InRange, CommonExists, Scanning,
        InAny, Goto, counts, scope
<1>1. ASSUME NEW s \in Programs, Signal(t, s) PROVE (MutexHeld /\ InRange /\ CommonExists)'
  BY <1>1 DEF Signal, Idle
<1>2. ASSUME NEW s \in Programs, Wait(t, s) PROVE (MutexHeld /\ InRange /\ CommonExists)'
  BY <1>2 DEF Wait, Idle
<1>3. ASSUME Post(t) PROVE (MutexHeld /\ InRange /\ CommonExists)'
  BY <1>3 DEF Post
<1>4. ASSUME LockSet(t) PROVE (MutexHeld /\ InRange /\ CommonExists)'
  <2>1. m_Mutex' = [m_Mutex EXCEPT ![sem[t]] = t] /\ m_Mutex[sem[t]] \notin Threads
        /\ sem' = sem
    BY <1>4 DEF LockSet, All
  <2>2. MutexHeld'
    BY <1>4, <2>1 DEF LockSet
  <2>3. QED
    BY <1>4, <2>2 DEF LockSet
<1>5. ASSUME Scan(t) PROVE (MutexHeld /\ InRange /\ CommonExists)'
  BY <1>5 DEF Scan
<1>6. ASSUME Pass(t) PROVE (MutexHeld /\ InRange /\ CommonExists)'
  BY <1>6 DEF Pass
<1>7. ASSUME ReadCount(t) PROVE (MutexHeld /\ InRange /\ CommonExists)'
  BY <1>7 DEF ReadCount
<1>8. ASSUME WriteCount(t) PROVE (MutexHeld /\ InRange /\ CommonExists)'
  BY <1>8 DEF WriteCount
<1>9. ASSUME UnlockSet(t) PROVE (MutexHeld /\ InRange /\ CommonExists)'
  BY <1>9 DEF UnlockSet, Return
<1>10. ASSUME WaitTakes(t) PROVE (MutexHeld /\ InRange /\ CommonExists)'
  BY <1>10 DEF WaitTakes, Return
<1>11. ASSUME WaitTimesOut(t) PROVE (MutexHeld /\ InRange /\ CommonExists)'
  BY <1>11 DEF WaitTimesOut, Return
<1>12. ASSUME WaitAll(t) PROVE (MutexHeld /\ InRange /\ CommonExists)'
  BY <1>12 DEF WaitAll, Idle
<1>13. ASSUME AllTakes(t) PROVE (MutexHeld /\ InRange /\ CommonExists)'
  <2>1. CASE Return(t, "0")
    BY <1>13, <2>1 DEF AllTakes, Return
  <2>2. CASE /\ i[t] + 1 \in 1 .. Len(Sems) /\ i' = [i EXCEPT ![t] = i[t] + 1]
             /\ UNCHANGED <<pc, sem, outcome>>
    BY <1>13, <2>2 DEF AllTakes
  <2>3. QED
    BY <1>13, <2>1, <2>2, AllEffect DEF AllTakes
<1>14. ASSUME AllTimesOut(t) PROVE (MutexHeld /\ InRange /\ CommonExists)'
  <2>1. CASE Return(t, "-1")
    BY <1>14, <2>1 DEF AllTimesOut, Return
  <2>2. CASE /\ i[t] + 1 \in 1 .. Len(Sems) /\ i' = [i EXCEPT ![t] = i[t] + 1]
             /\ UNCHANGED <<pc, sem, outcome>>
    BY <1>14, <2>2 DEF AllTimesOut
  <2>3. QED
    BY <1>14, <2>1, <2>2, AllEffect DEF AllTimesOut
<1>15. ASSUME WaitAny(t) PROVE (MutexHeld /\ InRange /\ CommonExists)'
  BY <1>15 DEF WaitAny, Idle
<1>16. ASSUME Register(t) PROVE (MutexHeld /\ InRange /\ CommonExists)'
  <2>1. pc[t] = "register" /\ LoopNext(t, "common")
    BY <1>16 DEF Register
  <2>2. CASE i[t] = Len(Sems) /\ pc' = [pc EXCEPT ![t] = "common"] /\ i' = [i EXCEPT ![t] = 1]
    BY <1>16, <2>1, <2>2 DEF Register
  <2>3. CASE i[t] + 1 \in 1 .. Len(Sems) /\ i' = [i EXCEPT ![t] = i[t] + 1] /\ pc' = pc
    BY <1>16, <2>1, <2>3 DEF Register
  <2>4. QED
    BY <2>1, <2>2, <2>3, LoopEffect DEF Places
<1>17. ASSUME CommonTakes(t) PROVE (MutexHeld /\ InRange /\ CommonExists)'
  BY <1>17 DEF CommonTakes
<1>18. ASSUME UncountRead(t) PROVE (MutexHeld /\ InRange /\ CommonExists)'
  BY <1>18 DEF UncountRead
<1>19. ASSUME UncountWrite(t) PROVE (MutexHeld /\ InRange /\ CommonExists)'
  BY <1>19 DEF UncountWrite
<1>20. ASSUME CommonTimesOut(t) PROVE (MutexHeld /\ InRange /\ CommonExists)'
  BY <1>20 DEF CommonTimesOut, Return
<1>21. ASSUME Erase(t) PROVE (MutexHeld /\ InRange /\ CommonExists)'
  <2>1. pc[t] = "erase" /\ LoopNext(t, "delete")
    BY <1>21 DEF Erase
  <2>2. CASE i[t] = Len(Sems) /\ pc' = [pc EXCEPT ![t] = "delete"] /\ i' = [i EXCEPT ![t] = 1]
    BY <1>21, <2>1, <2>2 DEF Erase
  <2>3. CASE i[t] + 1 \in 1 .. Len(Sems) /\ i' = [i EXCEPT ![t] = i[t] + 1] /\ pc' = pc
    BY <1>21, <2>1, <2>3 DEF Erase
  <2>4. QED
    BY <2>1, <2>2, <2>3, LoopEffect DEF Places
<1>22. ASSUME DeleteCommon(t) PROVE (MutexHeld /\ InRange /\ CommonExists)'
  BY <1>22 DEF DeleteCommon, Return
<1>23. QED
  BY <1>1, <1>2, <1>3, <1>4, <1>5, <1>6, <1>7, <1>8, <1>9, <1>10, <1>11, <1>12, <1>13, <1>14,
     <1>15, <1>16, <1>17, <1>18, <1>19, <1>20, <1>21, <1>22 DEF ActionOf, SignalStep

\* Who is registered.
LEMMA RegisteredStep ==
  ASSUME SemaphoreTypeOK, InRange, CommonExists, OnlyRegistered, ~Dangling,
         NEW t \in Threads, ActionOf(t)
  PROVE  OnlyRegistered'
<1> USE SemaphoreAssumption DEF SemaphoreTypeOK, InRange, CommonExists, OnlyRegistered,
        Registered, Abandoned, Dangling, InAny, Goto, counts, scope
<1>1. ASSUME NEW s \in Programs, Signal(t, s) PROVE OnlyRegistered'
  BY <1>1 DEF Signal, Idle
<1>2. ASSUME NEW s \in Programs, Wait(t, s) PROVE OnlyRegistered'
  BY <1>2 DEF Wait, Idle
<1>3. ASSUME Post(t) PROVE OnlyRegistered'
  BY <1>3 DEF Post
<1>4. ASSUME LockSet(t) PROVE OnlyRegistered'
  BY <1>4 DEF LockSet
<1>5. ASSUME Scan(t) PROVE OnlyRegistered'
  <2>1. (pc' = [pc EXCEPT ![t] = "unlock"]) \/ (pc' = [pc EXCEPT ![t] = "pass"])
    BY <1>5 DEF Scan
  <2>2. UNCHANGED <<counts, scope, sem, i, outcome, passed>> /\ pc[t] = "scan"
    BY <1>5 DEF Scan
  <2>3. QED
    BY <2>1, <2>2
<1>6. ASSUME Pass(t) PROVE OnlyRegistered'
  BY <1>6 DEF Pass
<1>7. ASSUME ReadCount(t) PROVE OnlyRegistered'
  BY <1>7 DEF ReadCount
<1>8. ASSUME WriteCount(t) PROVE OnlyRegistered'
  BY <1>8 DEF WriteCount
<1>9. ASSUME UnlockSet(t) PROVE OnlyRegistered'
  BY <1>9 DEF UnlockSet, Return
<1>10. ASSUME WaitTakes(t) PROVE OnlyRegistered'
  BY <1>10 DEF WaitTakes, Return
<1>11. ASSUME WaitTimesOut(t) PROVE OnlyRegistered'
  BY <1>11 DEF WaitTimesOut, Return
<1>12. ASSUME WaitAll(t) PROVE OnlyRegistered'
  BY <1>12 DEF WaitAll, Idle
<1>13. ASSUME AllTakes(t) PROVE OnlyRegistered'
  <2>1. CASE Return(t, "0")
    BY <1>13, <2>1 DEF AllTakes, Return
  <2>2. CASE /\ i[t] + 1 \in 1 .. Len(Sems) /\ i' = [i EXCEPT ![t] = i[t] + 1]
             /\ UNCHANGED <<pc, sem, outcome>>
    BY <1>13, <2>2 DEF AllTakes
  <2>3. QED
    BY <1>13, <2>1, <2>2, AllEffect DEF AllTakes
<1>14. ASSUME AllTimesOut(t) PROVE OnlyRegistered'
  <2>1. CASE Return(t, "-1")
    BY <1>14, <2>1 DEF AllTimesOut, Return
  <2>2. CASE /\ i[t] + 1 \in 1 .. Len(Sems) /\ i' = [i EXCEPT ![t] = i[t] + 1]
             /\ UNCHANGED <<pc, sem, outcome>>
    BY <1>14, <2>2 DEF AllTimesOut
  <2>3. QED
    BY <1>14, <2>1, <2>2, AllEffect DEF AllTimesOut
<1>15. ASSUME WaitAny(t) PROVE OnlyRegistered'
  BY <1>15 DEF WaitAny, Idle
<1>16. ASSUME Register(t) PROVE OnlyRegistered'
  BY <1>16 DEF Register, LoopNext
<1>17. ASSUME CommonTakes(t) PROVE OnlyRegistered'
  BY <1>17 DEF CommonTakes
<1>18. ASSUME UncountRead(t) PROVE OnlyRegistered'
  BY <1>18 DEF UncountRead
<1>19. ASSUME UncountWrite(t) PROVE OnlyRegistered'
  <2>1. /\ pc[t] = "left" /\ pc' = [pc EXCEPT ![t] = "erase"] /\ i' = [i EXCEPT ![t] = 1]
        /\ UNCHANGED <<scope, outcome>>
    BY <1>19 DEF UncountWrite
  <2>2. \A s \in Programs : \E k \in 1 .. Len(Sems) : Sems[k] = s
    BY DEF Programs
  <2>3. QED
    BY <2>1, <2>2
<1>20. ASSUME CommonTimesOut(t) PROVE OnlyRegistered'
  BY <1>20 DEF CommonTimesOut, Return
<1>21. ASSUME Erase(t) PROVE OnlyRegistered'
  BY <1>21 DEF Erase, LoopNext
<1>22. ASSUME DeleteCommon(t) PROVE OnlyRegistered'
  BY <1>22 DEF DeleteCommon, Return
<1>23. QED
  BY <1>1, <1>2, <1>3, <1>4, <1>5, <1>6, <1>7, <1>8, <1>9, <1>10, <1>11, <1>12, <1>13, <1>14,
     <1>15, <1>16, <1>17, <1>18, <1>19, <1>20, <1>21, <1>22 DEF ActionOf, SignalStep

-----------------------------------------------------------------------------
\* The waiters

\* The set that a Signal is using stays the same, and so does the Signal of another thread.
LEMMA OthersStay ==
  ASSUME SemaphoreTypeOK, NEW t \in Threads, ActionOf(t), NEW u \in Threads \ {t}
  PROVE  pc'[u] = pc[u] /\ sem'[u] = sem[u]
BY DEF ActionOf, SemaphoreTypeOK, Signal, Wait, SignalStep, Post, LockSet, Scan, Pass,
   ReadCount,
       WriteCount, UnlockSet, WaitTakes, WaitTimesOut, WaitAll, AllTakes, AllTimesOut, WaitAny,
       Register, CommonTakes, UncountRead, UncountWrite, CommonTimesOut, Erase, DeleteCommon,
       AllNext, LoopNext, Return, Goto

LEMMA SetsStand ==
  ASSUME IInv, NEW t \in Threads, ActionOf(t), NEW u \in Threads, pc[u] \in Scanning
  PROVE  m_setCommonWaiters'[sem[u]] = m_setCommonWaiters[sem[u]]
<1> USE DEF IInv, SemaphoreTypeOK
<1>1. m_Mutex[sem[u]] # Nobody /\ sem[u] \in Programs
  BY MutexExcludes
<1>2. CASE Register(t) \/ Erase(t)
  <2>1. m_Mutex[Sems[i[t]]] = Nobody
    BY <1>2 DEF Register, Erase
  <2>2. Sems[i[t]] # sem[u]
    BY <1>1, <2>1
  <2>3. QED
    BY <1>1, <1>2, <2>2 DEF Register, Erase
<1>3. CASE ~(Register(t) \/ Erase(t))
  BY <1>3 DEF ActionOf, Signal, Wait, SignalStep, Post, LockSet, Scan, Pass, ReadCount,
     WriteCount, UnlockSet, WaitTakes, WaitTimesOut, WaitAll, AllTakes, AllTimesOut, WaitAny,
     CommonTakes, UncountRead, UncountWrite, CommonTimesOut, DeleteCommon, scope
<1>4. QED
  BY <1>2, <1>3

LEMMA OthersChoose ==
  ASSUME IInv, NEW t \in Threads, ActionOf(t), NEW u \in Threads \ {t}, pc[u] \in Scanning,
         NEW x \in Threads
  PROVE  /\ pc'[u] = pc[u]
         /\ Chooses(u, x)' <=> Chooses(u, x)
         /\ m_setCommonWaiters'[sem'[u]] = m_setCommonWaiters[sem[u]]
BY OthersStay, SetsStand DEF IInv, Chooses

\* The steps of a Signal between LockSet and UnlockSet, and the beginning of a wait
Loud(t) == LockSet(t) \/ Scan(t) \/ Pass(t) \/ ReadCount(t) \/ WriteCount(t) \/ WaitAny(t)

\* No other step changes what a waiter has before it has taken its signal.
Quiet(t) ==
  /\ pc[t] \notin {"scan", "pass", "read", "write"}
  /\ pc'[t] \notin {"scan", "pass", "read", "write"}
  /\ \A x \in Threads : Unserved(x)' =>
       /\ Unserved(x) /\ (x \in passed' => x \in passed)
       /\ m_hLock'[x] = m_hLock[x] /\ m_nInitialCnt'[x] = m_nInitialCnt[x]

\* All but the steps of a Signal that has the mutex are of no concern to the waiters.
LEMMA QuietActions ==
  ASSUME IInv, NEW t \in Threads, ActionOf(t)
  PROVE  Loud(t) \/ Quiet(t)
<1> USE SemaphoreAssumption DEF IInv, SemaphoreTypeOK, All, InRange, Quiet, Loud, Unserved,
        Goto, counts
<1>1. ASSUME NEW s \in Programs, Signal(t, s) PROVE Loud(t) \/ Quiet(t)
  BY <1>1 DEF Signal, Idle
<1>2. ASSUME NEW s \in Programs, Wait(t, s) PROVE Loud(t) \/ Quiet(t)
  BY <1>2 DEF Wait, Idle
<1>3. ASSUME Post(t) PROVE Loud(t) \/ Quiet(t)
  BY <1>3 DEF Post
<1>4. ASSUME LockSet(t) PROVE Loud(t) \/ Quiet(t)
  BY <1>4 DEF LockSet
<1>5. ASSUME Scan(t) PROVE Loud(t) \/ Quiet(t)
  BY <1>5 DEF Scan
<1>6. ASSUME Pass(t) PROVE Loud(t) \/ Quiet(t)
  BY <1>6 DEF Pass
<1>7. ASSUME ReadCount(t) PROVE Loud(t) \/ Quiet(t)
  BY <1>7 DEF ReadCount
<1>8. ASSUME WriteCount(t) PROVE Loud(t) \/ Quiet(t)
  BY <1>8 DEF WriteCount
<1>9. ASSUME UnlockSet(t) PROVE Loud(t) \/ Quiet(t)
  BY <1>9 DEF UnlockSet, Return
<1>10. ASSUME WaitTakes(t) PROVE Loud(t) \/ Quiet(t)
  BY <1>10 DEF WaitTakes, Return
<1>11. ASSUME WaitTimesOut(t) PROVE Loud(t) \/ Quiet(t)
  BY <1>11 DEF WaitTimesOut, Return
<1>12. ASSUME WaitAll(t) PROVE Loud(t) \/ Quiet(t)
  BY <1>12 DEF WaitAll, Idle
<1>13. ASSUME AllTakes(t) PROVE Loud(t) \/ Quiet(t)
  <2>1. pc[t] = "all" /\ (pc' = [pc EXCEPT ![t] = "idle"] \/ pc' = pc)
    BY <1>13, AllEffect DEF AllTakes, Return
  <2>2. \A x \in Threads : m_hLock'[x] = m_hLock[x]
    BY <1>13, SemsInRange DEF AllTakes
  <2>3. QED
    BY <1>13, <2>1, <2>2 DEF AllTakes
<1>14. ASSUME AllTimesOut(t) PROVE Loud(t) \/ Quiet(t)
  <2>1. pc[t] = "all" /\ (pc' = [pc EXCEPT ![t] = "idle"] \/ pc' = pc)
    BY <1>14, AllEffect DEF AllTimesOut, Return
  <2>2. \A x \in Threads : m_hLock'[x] = m_hLock[x]
    BY <1>14, SemsInRange DEF AllTimesOut
  <2>3. QED
    BY <1>14, <2>1, <2>2 DEF AllTimesOut
<1>15. ASSUME WaitAny(t) PROVE Loud(t) \/ Quiet(t)
  BY <1>15 DEF WaitAny, Idle
<1>16. ASSUME Register(t) PROVE Loud(t) \/ Quiet(t)
  <2>1. pc[t] = "register" /\ LoopNext(t, "common")
    BY <1>16 DEF Register
  <2>2. pc' = [pc EXCEPT ![t] = "common"] \/ pc' = pc
    BY <2>1, LoopEffect DEF Places
  <2>3. QED
    BY <1>16, <2>1, <2>2 DEF Register
<1>17. ASSUME CommonTakes(t) PROVE Loud(t) \/ Quiet(t)
  BY <1>17 DEF CommonTakes
<1>18. ASSUME UncountRead(t) PROVE Loud(t) \/ Quiet(t)
  BY <1>18 DEF UncountRead
<1>19. ASSUME UncountWrite(t) PROVE Loud(t) \/ Quiet(t)
  BY <1>19 DEF UncountWrite
<1>20. ASSUME CommonTimesOut(t) PROVE Loud(t) \/ Quiet(t)
  BY <1>20 DEF CommonTimesOut, Return
<1>21. ASSUME Erase(t) PROVE Loud(t) \/ Quiet(t)
  <2>1. pc[t] = "erase" /\ LoopNext(t, "delete")
    BY <1>21 DEF Erase
  <2>2. pc' = [pc EXCEPT ![t] = "delete"] \/ pc' = pc
    BY <2>1, LoopEffect DEF Places
  <2>3. QED
    BY <1>21, <2>1, <2>2 DEF Erase
<1>22. ASSUME DeleteCommon(t) PROVE Loud(t) \/ Quiet(t)
  BY <1>22 DEF DeleteCommon, Return
<1>23. QED
  BY <1>1, <1>2, <1>3, <1>4, <1>5, <1>6, <1>7, <1>8, <1>9, <1>10, <1>11, <1>12, <1>13, <1>14,
     <1>15, <1>16, <1>17, <1>18, <1>19, <1>20, <1>21, <1>22 DEF ActionOf, SignalStep

\* What a waiter that has no signal needs is kept by the quiet steps, and by the loud ones.
LEMMA QuietKeeps ==
  ASSUME IInv, NEW t \in Threads, ActionOf(t), Quiet(t)
  PROVE  ChoiceStands' /\ CountTrue' /\ WillBeWoken'
<1>1. ASSUME NEW u \in Threads, pc'[u] \in {"pass", "read", "write"}
      PROVE  /\ u # t /\ pc[u] = pc'[u] /\ pc[u] \in Scanning
             /\ m_setCommonWaiters'[sem'[u]] = m_setCommonWaiters[sem[u]]
  <2>1. u # t
    BY <1>1 DEF Quiet
  <2>2. pc[u] = pc'[u]
    BY <2>1, OthersStay DEF IInv
  <2>3. pc[u] \in Scanning
    BY <1>1, <2>2 DEF Scanning
  <2>4. QED
    BY <2>1, <2>2, <2>3, OthersChoose
<1>2. ChoiceStands'
  BY <1>1 DEF IInv, ChoiceStands
<1>3. CountTrue'
  <2> SUFFICES ASSUME NEW x \in Threads, Unserved(x)', m_hLock'[x] = 0
               PROVE  /\ m_nInitialCnt'[x] = 0
                      /\ \A u \in Threads : pc'[u] \in {"read", "write"} => ~Chooses(u, x)'
    BY DEF CountTrue
  <2>1. Unserved(x) /\ m_hLock[x] = 0 /\ m_nInitialCnt'[x] = m_nInitialCnt[x]
    BY DEF Quiet
  <2>2. ASSUME NEW u \in Threads, pc'[u] \in {"read", "write"} PROVE ~Chooses(u, x)'
    <3>1. u # t /\ pc[u] = pc'[u] /\ pc[u] \in Scanning
      BY <1>1, <2>2
    <3>2. ~Chooses(u, x)
      BY <2>1, <2>2, <3>1 DEF IInv, CountTrue
    <3>3. QED
      BY <3>1, <3>2, OthersChoose
  <2>3. QED
    BY <2>1, <2>2 DEF IInv, CountTrue
<1>4. WillBeWoken'
  <2> SUFFICES ASSUME NEW x \in Threads, (Unserved(x) /\ x \in passed)', ~(m_hLock'[x] > 0)
               PROVE  \E u \in Threads : pc'[u] \in {"scan", "pass"} /\ Chooses(u, x)'
    BY DEF WillBeWoken
  <2>1. PICK u \in Threads : pc[u] \in {"scan", "pass"} /\ Chooses(u, x)
    BY DEF IInv, WillBeWoken, Quiet
  <2>2. u # t
    BY <2>1 DEF Quiet
  <2>3. QED
    BY <2>1, <2>2, OthersChoose DEF Scanning
<1>5. QED
  BY <1>2, <1>3, <1>4

LEMMA LoudKeeps ==
  ASSUME IInv, ~Dangling, NEW t \in Threads, ActionOf(t), Loud(t)
  PROVE  ChoiceStands' /\ CountTrue' /\ WillBeWoken'
<1> USE DEF IInv, SemaphoreTypeOK, Goto
<1> DEFINE b == Begin(m_setCommonWaiters[sem[t]])
<1>1. CASE LockSet(t)
  <2>1. /\ pc[t] = "lock" /\ pc' = [pc EXCEPT ![t] = "scan"] /\ sem' = sem
        /\ UNCHANGED m_setCommonWaiters
    BY <1>1 DEF LockSet, scope
  <2>3. \A u \in Threads : u # t => pc'[u] = pc[u]
    BY <2>1
  <2>4. \A u, x \in Threads : Chooses(u, x)' <=> Chooses(u, x)
    BY <2>1 DEF Chooses
  <2>5. UNCHANGED counts /\ passed' \subseteq passed \cup {b}
        /\ (m_setCommonWaiters[sem[t]] = {} => passed' = passed)
    BY <1>1 DEF LockSet
  <2>11. ChoiceStands'
    BY <2>1, <2>3 DEF ChoiceStands
  <2>12. CountTrue'
    BY <2>1, <2>3, <2>4, <2>5 DEF CountTrue, counts, Unserved
  <2>13. WillBeWoken'
    <3> SUFFICES ASSUME NEW x \in Threads, (Unserved(x) /\ x \in passed)', ~(m_hLock'[x] > 0)
                 PROVE  \E u \in Threads : pc'[u] \in {"scan", "pass"} /\ Chooses(u, x)'
      BY DEF WillBeWoken
    <3>1. CASE Chooses(t, x)
      BY <3>1, <2>1, <2>4
    <3>2. CASE ~Chooses(t, x)
      <4>1. x \in passed /\ Unserved(x) /\ ~(m_hLock[x] > 0)
        BY <3>2, <2>1, <2>3, <2>5 DEF Chooses, Unserved, counts
      <4>2. PICK u \in Threads : pc[u] \in {"scan", "pass"} /\ Chooses(u, x)
        BY <4>1 DEF WillBeWoken
      <4>3. QED
        BY <4>2, <2>1, <2>3, <2>4
    <3>3. QED
      BY <3>1, <3>2
  <2>14. QED
    BY <2>11, <2>12, <2>13
<1>2. CASE Scan(t)
  <2>1. /\ pc[t] = "scan" /\ sem' = sem
        /\ UNCHANGED <<counts, m_setCommonWaiters, passed>>
    BY <1>2 DEF Scan, scope
  <2>2. \/ pc' = [pc EXCEPT ![t] = "pass"] /\ m_setCommonWaiters[sem[t]] # {}
        \/ /\ pc' = [pc EXCEPT ![t] = "unlock"]
           /\ m_setCommonWaiters[sem[t]] = {} \/ m_nInitialCnt[b] # 0
    BY <1>2 DEF Scan
  <2>3. \A u \in Threads : u # t => pc'[u] = pc[u]
    BY <2>2
  <2>4. \A u, x \in Threads : Chooses(u, x)' <=> Chooses(u, x)
    BY <2>1 DEF Chooses
  <2>11. ChoiceStands'
    BY <2>1, <2>2, <2>3 DEF ChoiceStands
  <2>12. CountTrue'
    BY <2>1, <2>2, <2>3, <2>4 DEF CountTrue, counts, Unserved
  <2>13. WillBeWoken'
    <3> SUFFICES ASSUME NEW x \in Threads, (Unserved(x) /\ x \in passed)', ~(m_hLock'[x] > 0)
                 PROVE  \E u \in Threads : pc'[u] \in {"scan", "pass"} /\ Chooses(u, x)'
      BY DEF WillBeWoken
    <3>1. x \in passed /\ Unserved(x) /\ ~(m_hLock[x] > 0)
      BY <2>1, <2>2, <2>3 DEF Unserved, counts
    <3>2. PICK u \in Threads : pc[u] \in {"scan", "pass"} /\ Chooses(u, x)
      BY <3>1 DEF WillBeWoken
    <3>3. m_nInitialCnt[x] = 0
      BY <3>1, SemaphoreAssumption DEF CountTrue, All
    <3>4. u = t => pc'[t] = "pass"
      BY <3>2, <3>3, <2>2 DEF Chooses
    <3>5. QED
      BY <3>2, <3>4, <2>3, <2>4
  <2>14. QED
    BY <2>11, <2>12, <2>13
<1>3. CASE Pass(t)
  <2>1. /\ pc[t] = "pass" /\ pc' = [pc EXCEPT ![t] = "read"] /\ sem' = sem
        /\ UNCHANGED m_setCommonWaiters
    BY <1>3 DEF Pass, scope
  <2>3. \A u \in Threads : u # t => pc'[u] = pc[u]
    BY <2>1
  <2>4. \A u, x \in Threads : Chooses(u, x)' <=> Chooses(u, x)
    BY <2>1 DEF Chooses
  <2>5. b \in Threads /\ m_setCommonWaiters[sem[t]] # {}
    BY <2>1, ChosenIsRegistered DEF ChoiceStands
  <2>6. UNCHANGED <<m_nInitialCnt, passed>> /\ m_hLock' = [m_hLock EXCEPT ![b] = @ + 1]
    BY <1>3 DEF Pass
  <2>7. m_hLock'[b] > 0 /\ \A x \in Threads : x # b => m_hLock'[x] = m_hLock[x]
    BY <2>5, <2>6 DEF All
  <2>11. ChoiceStands'
    BY <2>1, <2>3, <2>5 DEF ChoiceStands
  <2>12. CountTrue'
    <3> SUFFICES ASSUME NEW x \in Threads, Unserved(x)', m_hLock'[x] = 0
                 PROVE  /\ m_nInitialCnt'[x] = 0
                        /\ \A u \in Threads : pc'[u] \in {"read", "write"} => ~Chooses(u, x)'
      BY DEF CountTrue
    <3>1. x # b /\ m_hLock[x] = 0 /\ Unserved(x)
      BY <2>1, <2>3, <2>7 DEF Unserved
    <3>2. ~Chooses(t, x)
      BY <3>1 DEF Chooses
    <3>3. QED
      BY <3>1, <3>2, <2>3, <2>4, <2>6 DEF CountTrue
  <2>13. WillBeWoken'
    <3> SUFFICES ASSUME NEW x \in Threads, (Unserved(x) /\ x \in passed)', ~(m_hLock'[x] > 0)
                 PROVE  \E u \in Threads : pc'[u] \in {"scan", "pass"} /\ Chooses(u, x)'
      BY DEF WillBeWoken
    <3>1. x # b /\ x \in passed /\ ~(m_hLock[x] > 0) /\ Unserved(x)
      BY <2>1, <2>3, <2>6, <2>7 DEF Unserved
    <3>2. PICK u \in Threads : pc[u] \in {"scan", "pass"} /\ Chooses(u, x)
      BY <3>1 DEF WillBeWoken
    <3>3. u # t
      BY <3>1, <3>2 DEF Chooses
    <3>4. QED
      BY <3>2, <3>3, <2>3, <2>4
  <2>14. QED
    BY <2>11, <2>12, <2>13
<1>4. CASE ReadCount(t)
  <2>1. /\ pc[t] = "read" /\ pc' = [pc EXCEPT ![t] = "write"] /\ sem' = sem
        /\ UNCHANGED m_setCommonWaiters
    BY <1>4 DEF ReadCount, scope
  <2>3. \A u \in Threads : u # t => pc'[u] = pc[u]
    BY <2>1
  <2>4. \A u, x \in Threads : Chooses(u, x)' <=> Chooses(u, x)
    BY <2>1 DEF Chooses
  <2>5. UNCHANGED <<counts, passed>>
    BY <1>4 DEF ReadCount
  <2>11. ChoiceStands'
    BY <2>1, <2>3 DEF ChoiceStands
  <2>12. CountTrue'
    BY <2>1, <2>3, <2>4, <2>5 DEF CountTrue, counts, Unserved
  <2>13. WillBeWoken'
    <3> SUFFICES ASSUME NEW x \in Threads, (Unserved(x) /\ x \in passed)', ~(m_hLock'[x] > 0)
                 PROVE  \E u \in Threads : pc'[u] \in {"scan", "pass"} /\ Chooses(u, x)'
      BY DEF WillBeWoken
    <3>1. x \in passed /\ ~(m_hLock[x] > 0) /\ Unserved(x)
      BY <2>1, <2>3, <2>5 DEF Unserved, counts
    <3>2. PICK u \in Threads : pc[u] \in {"scan", "pass"} /\ Chooses(u, x)
      BY <3>1 DEF WillBeWoken
    <3>3. QED
      BY <3>2, <2>1, <2>3, <2>4
  <2>14. QED
    BY <2>11, <2>12, <2>13
<1>5. CASE WriteCount(t)
  <2>1. /\ pc[t] = "write" /\ pc' = [pc EXCEPT ![t] = "unlock"] /\ sem' = sem
        /\ UNCHANGED m_setCommonWaiters
    BY <1>5 DEF WriteCount, scope
  <2>3. \A u \in Threads : u # t => pc'[u] = pc[u]
    BY <2>1
  <2>4. \A u, x \in Threads : Chooses(u, x)' <=> Chooses(u, x)
    BY <2>1 DEF Chooses
  <2>5. UNCHANGED <<m_hLock, passed>>
    BY <1>5 DEF WriteCount
  <2>6. m_nInitialCnt' = [m_nInitialCnt EXCEPT ![b] = i[t] + 1]
    BY <1>5 DEF WriteCount
  <2>7. Chooses(t, b)
    BY <2>1 DEF ChoiceStands, Chooses
  <2>8. \A x \in Threads : x # b => m_nInitialCnt'[x] = m_nInitialCnt[x]
    BY <2>6
  <2>11. ChoiceStands'
    BY <2>1, <2>3 DEF ChoiceStands
  <2>12. CountTrue'
    <3> SUFFICES ASSUME NEW x \in Threads, Unserved(x)', m_hLock'[x] = 0
                 PROVE  /\ m_nInitialCnt'[x] = 0
                        /\ \A u \in Threads : pc'[u] \in {"read", "write"} => ~Chooses(u, x)'
      BY DEF CountTrue
    <3>1. m_hLock[x] = 0 /\ Unserved(x)
      BY <2>1, <2>3, <2>5 DEF Unserved
    <3>2. ~Chooses(t, x)
      BY <3>1, <2>1 DEF CountTrue
    <3>3. x # b
      BY <3>2, <2>7
    <3>4. QED
      BY <3>1, <3>3, <2>1, <2>3, <2>4, <2>8 DEF CountTrue
  <2>13. WillBeWoken'
    <3> SUFFICES ASSUME NEW x \in Threads, (Unserved(x) /\ x \in passed)', ~(m_hLock'[x] > 0)
                 PROVE  \E u \in Threads : pc'[u] \in {"scan", "pass"} /\ Chooses(u, x)'
      BY DEF WillBeWoken
    <3>1. x \in passed /\ ~(m_hLock[x] > 0) /\ Unserved(x)
      BY <2>1, <2>3, <2>5 DEF Unserved
    <3>2. PICK u \in Threads : pc[u] \in {"scan", "pass"} /\ Chooses(u, x)
      BY <3>1 DEF WillBeWoken
    <3>3. QED
      BY <3>2, <2>1, <2>3, <2>4
  <2>14. QED
    BY <2>11, <2>12, <2>13
<1>6. CASE WaitAny(t)
  <2>1. /\ pc[t] = "idle" /\ pc' = [pc EXCEPT ![t] = "register"] /\ sem' = sem
        /\ UNCHANGED m_setCommonWaiters
    BY <1>6 DEF WaitAny, Idle
  <2>3. \A u \in Threads : u # t => pc'[u] = pc[u]
    BY <2>1
  <2>4. \A u, x \in Threads : Chooses(u, x)' <=> Chooses(u, x)
    BY <2>1 DEF Chooses
  <2>5. m_hLock' = [m_hLock EXCEPT ![t] = 0] /\ m_nInitialCnt' = [m_nInitialCnt EXCEPT ![t] = 0]
        /\ passed' = passed \ {t}
    BY <1>6 DEF WaitAny
  <2>6. \A x \in Threads : x # t => /\ m_hLock'[x] = m_hLock[x]
                                    /\ m_nInitialCnt'[x] = m_nInitialCnt[x]
    BY <2>5 DEF All
  <2>7. m_nInitialCnt'[t] = 0
    BY <2>5
  <2>8. \A u \in Threads : ~Chooses(u, t)
    <3> SUFFICES ASSUME NEW u \in Threads, Chooses(u, t) PROVE FALSE
      OBVIOUS
    <3>1. m_setCommonWaiters[sem[u]] \subseteq Threads /\ sem[u] \in Programs
      OBVIOUS
    <3>2. t \in m_setCommonWaiters[sem[u]]
      BY <3>1, BeginIsIn DEF Chooses
    <3>3. QED
      BY <3>1, <3>2, <2>1, IdleIsNotRegistered
  <2>11. ChoiceStands'
    BY <2>1, <2>3 DEF ChoiceStands
  <2>12. CountTrue'
    <3> SUFFICES ASSUME NEW x \in Threads, Unserved(x)', m_hLock'[x] = 0
                 PROVE  /\ m_nInitialCnt'[x] = 0
                        /\ \A u \in Threads : pc'[u] \in {"read", "write"} => ~Chooses(u, x)'
      BY DEF CountTrue
    <3>1. CASE x = t
      BY <3>1, <2>4, <2>7, <2>8
    <3>2. CASE x # t
      <4>1. m_hLock[x] = 0 /\ Unserved(x)
        BY <3>2, <2>3, <2>6 DEF Unserved
      <4>2. QED
        BY <4>1, <3>2, <2>1, <2>3, <2>4, <2>6 DEF CountTrue
    <3>3. QED
      BY <3>1, <3>2
  <2>13. WillBeWoken'
    <3> SUFFICES ASSUME NEW x \in Threads, (Unserved(x) /\ x \in passed)', ~(m_hLock'[x] > 0)
                 PROVE  \E u \in Threads : pc'[u] \in {"scan", "pass"} /\ Chooses(u, x)'
      BY DEF WillBeWoken
    <3>1. x # t /\ x \in passed /\ ~(m_hLock[x] > 0) /\ Unserved(x)
      BY <2>1, <2>3, <2>5, <2>6 DEF Unserved
    <3>2. PICK u \in Threads : pc[u] \in {"scan", "pass"} /\ Chooses(u, x)
      BY <3>1 DEF WillBeWoken
    <3>3. QED
      BY <3>2, <2>1, <2>3, <2>4
  <2>14. QED
    BY <2>11, <2>12, <2>13
<1>7. QED
  BY <1>1, <1>2, <1>3, <1>4, <1>5, <1>6 DEF Loud

-----------------------------------------------------------------------------
\* The invariant, and what follows from it

LEMMA InitEstablishes ==
  ASSUME Init PROVE IInv
<1> USE SemsInRange DEF Init
<1>1. SemaphoreTypeOK
  BY DEF SemaphoreTypeOK, All, Places, Outcomes
<1>2. MutexHeld /\ InRange /\ CommonExists /\ OnlyRegistered
  BY DEF MutexHeld, InRange, CommonExists, OnlyRegistered, Scanning, InAny
<1>3. ChoiceStands /\ CountTrue /\ WillBeWoken
  BY DEF ChoiceStands, CountTrue, WillBeWoken, Unserved
<1>4. QED
  BY <1>1, <1>2, <1>3 DEF IInv

LEMMA StepKeeps ==
  ASSUME IInv, Next PROVE IInv'
<1>1. ~Dangling
  BY DEF Next
<1>2. PICK t \in Threads : ActionOf(t)
  BY Zenon DEF Next, ActionOf
<1>3. SemaphoreTypeOK' /\ (MutexHeld /\ InRange /\ CommonExists)' /\ OnlyRegistered'
  BY <1>1, <1>2, TypeStep, PlaceStep, RegisteredStep DEF IInv
<1>4. ChoiceStands' /\ CountTrue' /\ WillBeWoken'
  BY <1>1, <1>2, QuietActions, QuietKeeps, LoudKeeps
<1>5. QED
  BY <1>3, <1>4 DEF IInv

LEMMA StutterKeeps ==
  ASSUME IInv, UNCHANGED vars PROVE IInv'
BY DEF vars, counts, scope, IInv, SemaphoreTypeOK, MutexHeld, InRange, CommonExists,
   OnlyRegistered,
       Registered, Abandoned, ChoiceStands, CountTrue, WillBeWoken, Unserved, Chooses

LEMMA AlwaysIInv == Spec => []IInv
<1>1. Init => IInv
  BY InitEstablishes
<1>2. IInv /\ [Next]_vars => IInv'
  BY StepKeeps, StutterKeeps
<1>3. QED
  BY <1>1, <1>2, PTL DEF Spec

\* Every variable keeps its type.
THEOREM TypesKept == Spec => []SemaphoreTypeOK
<1>1. IInv => SemaphoreTypeOK
  BY DEF IInv
<1>2. QED
  BY <1>1, AlwaysIInv, PTL

\* WaitForScope(any) leaves its common semaphore registered nowhere, unless the wait timed
\* out: the loop that unregisters takes back what the loop that registers did.
THEOREM NobodyDangles == Spec => []NoDanglingWaiter
<1>1. IInv => NoDanglingWaiter
  BY DEF IInv, OnlyRegistered, Registered, Abandoned, CommonExists, SemaphoreTypeOK,
     NoDanglingWaiter
<1>2. QED
  BY <1>1, AlwaysIInv, PTL

\* A Signal that has chosen a waiter wakes it, whatever the others do to the m_nInitialCnt
\* of the common semaphore meanwhile: it differs from 0 only after a sem_post.
THEOREM TheChosenIsWoken == Spec => []ChosenIsWoken
<1>1. IInv => ChosenIsWoken
  <2> SUFFICES ASSUME IInv, NEW t \in Threads, pc[t] = "common", t \in passed,
                      ~(m_hLock[t] > 0)
               PROVE  Signalling(t)
    BY DEF ChosenIsWoken
  <2>1. PICK u \in Threads : pc[u] \in {"scan", "pass"} /\ Chooses(u, t)
    BY DEF IInv, WillBeWoken, Unserved
  <2>2. m_setCommonWaiters[sem[u]] \subseteq Threads
    BY DEF IInv, SemaphoreTypeOK
  <2>3. t \in m_setCommonWaiters[sem[u]]
    BY <2>1, <2>2, BeginIsIn DEF Chooses
  <2>4. QED
    BY <2>1, <2>3 DEF Signalling
<1>2. QED
  BY <1>1, AlwaysIInv, PTL
=============================================================================

----------------------------- MODULE TimerProofs -----------------------------
(***************************************************************************)
(* Theorems about Timer, for any number of threads, timers and periods;    *)
(* those about the use of a deleted timer and about late calls are for one *)
(* worker, that is two threads.                                            *)
(***************************************************************************)
EXTENDS Timer, FiniteSetTheorems, SequenceTheorems, TLAPS

\* Who will delete a timer: its places in m_vecTimers, its eDropTimers in the queue, and
\* the workers that have taken one
VecPlaces(o) == {i \in DOMAIN m_vecTimers : m_vecTimers[i] = o}

DropPlaces(o) ==
  {i \in DOMAIN m_queTimerCommands : m_queTimerCommands[i] = Command("eDropTimer", o)}

DeletersOf(o) == {t \in m_vecThreads : at[t] = "deleting" /\ local[t] = o}

AtMostOne(S) == \A x, y \in S : x = y

OwnersAreOne(o) ==
  /\ AtMostOne(VecPlaces(o)) /\ AtMostOne(DropPlaces(o)) /\ AtMostOne(DeletersOf(o))
  /\ VecPlaces(o) = {} \/ (DropPlaces(o) = {} /\ DeletersOf(o) = {})
  /\ DropPlaces(o) = {} \/ DeletersOf(o) = {}

\* What somebody has is allocated; until threads are killed, what is allocated
\* somebody has.
Owned(o) == VecPlaces(o) # {} \/ DropPlaces(o) # {} \/ DeletersOf(o) # {}

Ownership ==
  \A o \in STimers :
    /\ OwnersAreOne(o)
    /\ Owned(o) => heap[o] # Free
    /\ destructor # "destroyed" /\ heap[o] # Free => Owned(o)

\* A worker that has taken a command for a timer knows which.
HandlesATimer ==
  \A t \in m_vecThreads :
    at[t] \in {"popped", "tested", "valid", "running", "deleting"} => local[t] \in STimers

\* The threads that have counted themselves
Started == {t \in m_vecThreads : at[t] \notin {"new", "counted"}}

\* An increment that was lost stays lost: whoever has read the counter since will
\* write a number that is too small as well.
CounterBehind ==
  /\ m_nThreadsStarted <= Cardinality(Started)
  /\ \A t \in m_vecThreads : at[t] = "counted" =>
       /\ local[t] \in Nat /\ local[t] <= Cardinality(Started)
       /\ m_nThreadsStarted < Cardinality(Started) => local[t] < Cardinality(Started)

\* Without a lost increment one thread counts the timers, and the signal of the
\* destructor is for it.
Counting == {t \in m_vecThreads : at[t] \in {"timer", "asleep", "tick"}}

OneCounts == Unraced => AtMostOne(Counting)

Terminating ==
  /\ destructor = "alive" <=> ~m_bTerminating
  /\ destructor = "destroyed" => \A t \in m_vecThreads : at[t] \in {"done", "killed"}

SignalStays ==
  /\ destructor \in {"alive", "terminating"} => m_SleepSemaphore = 0
  /\ Unraced /\ destructor \notin {"alive", "terminating"}
       => \A t \in m_vecThreads : at[t] = "asleep" => m_SleepSemaphore > 0

General ==
  /\ TimerTypeOK /\ HandlesATimer
  /\ Ownership
  /\ CounterBehind /\ OneCounts
  /\ Terminating /\ SignalStays

-----------------------------------------------------------------------------
\* With one worker

InRun == {"worker", "popped", "tested", "valid", "running", "deleting"}

\* The first thread to write the counter counts the timers; it never becomes a worker.
SomebodyCounts ==
  IF m_nThreadsStarted = 0
  THEN \A t \in m_vecThreads : at[t] \notin InRun /\ (at[t] = "counted" => local[t] = 0)
  ELSE \E t \in m_vecThreads : at[t] \notin InRun \cup {"new", "counted"}

OneWorker == AtMostOne({t \in m_vecThreads : at[t] \in InRun})

\* The eDropTimer of the timer is in the queue behind place i, or is still to come.
DropBehind(i, o) == VecPlaces(o) # {} \/ \E j \in DropPlaces(o) : i < j

CallsBeforeDrop ==
  \A i \in DOMAIN m_queTimerCommands, o \in STimers :
    m_queTimerCommands[i] = Command("eCallback", o) => DropBehind(i, o)

HandledBeforeDrop ==
  \A t \in m_vecThreads :
    at[t] \in {"popped", "tested", "valid", "running"} => DropBehind(0, local[t])

\* After a late call no other is begun: m_bValid is FALSE, and the one worker that had
\* read TRUE has used it.
LateOnce ==
  \A o \in STimers : late[o] # 0 =>
    /\ late[o] = 1
    /\ heap[o] # Free => ~heap[o].m_bValid
    /\ \A t \in m_vecThreads : at[t] = "valid" => local[t] # o

WithOneWorker ==
  /\ General
  /\ SomebodyCounts /\ OneWorker
  /\ CallsBeforeDrop /\ HandledBeforeDrop
  /\ LateOnce

-----------------------------------------------------------------------------
\* Sequences

LEMMA Removed ==
  ASSUME NEW S, NEW s \in Seq(S), NEW i \in 1 .. Len(s)
  PROVE  /\ RemoveAt(s, i) \in Seq(S) /\ Len(RemoveAt(s, i)) = Len(s) - 1
         /\ \A j \in 1 .. Len(s) - 1 :
              RemoveAt(s, i)[j] = IF j < i THEN s[j] ELSE s[j + 1]
<1> DEFINE a == SubSeq(s, 1, i - 1)
           b == SubSeq(s, i + 1, Len(s))
<1>1. Len(s) \in Nat /\ i \in Nat /\ 1 <= i /\ i <= Len(s)
  BY LenProperties
<1>2. a \in Seq(S) /\ Len(a) = i - 1 /\ \A j \in 1 .. i - 1 : a[j] = s[j]
  <2>1. \A j \in 1 .. i - 1 : s[j] \in S
    BY <1>1, ElementOfSeq
  <2>2. /\ a \in Seq(S) /\ Len(a) = IF 1 <= i - 1 THEN (i - 1) - 1 + 1 ELSE 0
        /\ \A j \in 1 .. (i - 1) - 1 + 1 : a[j] = s[1 + j - 1]
    BY <1>1, <2>1, SubSeqProperties
  <2>3. QED
    BY <1>1, <2>2
<1>3. b \in Seq(S) /\ Len(b) = Len(s) - i /\ \A j \in 1 .. Len(s) - i : b[j] = s[i + j]
  <2>1. \A j \in i + 1 .. Len(s) : s[j] \in S
    BY <1>1, ElementOfSeq
  <2>2. /\ b \in Seq(S) /\ Len(b) = IF i + 1 <= Len(s) THEN Len(s) - (i + 1) + 1 ELSE 0
        /\ \A j \in 1 .. Len(s) - (i + 1) + 1 : b[j] = s[(i + 1) + j - 1]
    BY <1>1, <2>1, SubSeqProperties
  <2>3. \A j \in 1 .. Len(s) - i : b[j] = s[i + j]
    <3> TAKE j \in 1 .. Len(s) - i
    <3>1. j \in 1 .. Len(s) - (i + 1) + 1 /\ (i + 1) + j - 1 = i + j
      BY <1>1
    <3>2. QED
      BY <2>2, <3>1
  <2>4. QED
    BY <1>1, <2>2, <2>3
<1>4. RemoveAt(s, i) = a \o b
  BY DEF RemoveAt
<1> HIDE DEF a, b
<1>5. /\ a \o b \in Seq(S) /\ Len(a \o b) = Len(a) + Len(b)
      /\ \A j \in 1 .. Len(a) + Len(b) : (a \o b)[j] =
                                           IF j <= Len(a) THEN a[j] ELSE b[j - Len(a)]
  BY <1>2, <1>3, ConcatProperties
<1>6. ASSUME NEW j \in 1 .. Len(s) - 1
      PROVE  (a \o b)[j] = IF j < i THEN s[j] ELSE s[j + 1]
  <2>1. CASE j < i
    BY <1>1, <1>2, <1>3, <1>5, <2>1
  <2>2. CASE ~(j < i)
    <3>1. j - Len(a) \in 1 .. Len(s) - i /\ i + (j - Len(a)) = j + 1
      BY <1>1, <1>2, <2>2
    <3>2. (a \o b)[j] = b[j - Len(a)]
      BY <1>1, <1>2, <1>3, <1>5, <2>2
    <3>3. QED
      BY <1>3, <2>2, <3>1, <3>2
  <2>3. QED
    BY <2>1, <2>2
<1>7. QED
  BY <1>1, <1>2, <1>3, <1>4, <1>5, <1>6

\* What follows when more commands are put behind those in the queue
Added(s) == m_queTimerCommands' = m_queTimerCommands \o s

LEMMA AddedEffect ==
  ASSUME TimerTypeOK, NEW s \in Seq(Commands), Added(s)
  PROVE  /\ m_queTimerCommands' \in Seq(Commands)
         /\ Len(m_queTimerCommands') = Len(m_queTimerCommands) + Len(s)
         /\ Len(m_queTimerCommands) \in Nat /\ Len(s) \in Nat
         /\ \A i \in 1 .. Len(m_queTimerCommands) :
              m_queTimerCommands'[i] = m_queTimerCommands[i]
         /\ \A i \in 1 .. Len(s) : m_queTimerCommands'[Len(m_queTimerCommands) + i] = s[i]
<1> DEFINE q == m_queTimerCommands
<1>1. q \in Seq(Commands)
  BY DEF TimerTypeOK
<1>2. Len(q) \in Nat /\ Len(s) \in Nat
  BY <1>1, LenProperties
<1> HIDE DEF q
<1>3. /\ q \o s \in Seq(Commands) /\ Len(q \o s) = Len(q) + Len(s)
      /\ \A i \in 1 .. Len(q) + Len(s) : (q \o s)[i] =
                                           IF i <= Len(q) THEN q[i] ELSE s[i - Len(q)]
  BY <1>1, ConcatProperties
<1>4. \A i \in 1 .. Len(q) : (q \o s)[i] = q[i]
  BY <1>2, <1>3
<1>5. ASSUME NEW i \in 1 .. Len(s) PROVE (q \o s)[Len(q) + i] = s[i]
  <2>1. /\ Len(q) + i \in 1 .. Len(q) + Len(s) /\ ~(Len(q) + i <= Len(q))
        /\ (Len(q) + i) - Len(q) = i
    BY <1>2
  <2>2. QED
    BY <1>3, <2>1
<1>6. m_queTimerCommands' = q \o s
  BY DEF Added, q
<1>7. QED
  BY <1>2, <1>3, <1>4, <1>5, <1>6 DEF q

LEMMA CommandFacts ==
  /\ \A o \in STimers :
       Command("eDropTimer", o) \in Commands /\ Command("eCallback", o) \in Commands
  /\ Command("eStopThread", NoTimer) \in Commands
  /\ \A c, d, o, p : Command(c, o) = Command(d, p) => c = d /\ o = p
  /\ \A c, o : Command(c, o).m_eCmd = c /\ Command(c, o).m_psTimer = o
BY DEF Command, Commands

LEMMA CommandKinds ==
  ASSUME NEW c \in Commands
  PROVE  \/ \E o \in STimers : c = Command("eCallback", o)
         \/ \E o \in STimers : c = Command("eDropTimer", o)
         \/ c = Command("eStopThread", NoTimer)
BY DEF Command, Commands

-----------------------------------------------------------------------------
\* Types

\* What Set of an old timer, Drop, Start, Tick and ~CTimer do to the timers: none comes or
\* goes, and none becomes valid.
HeapKept ==
  /\ heap' \in [STimers -> STimer \cup {Free}]
  /\ \A o \in STimers : heap'[o] = Free <=> heap[o] = Free
  /\ \A o \in STimers : heap[o] # Free /\ heap'[o].m_bValid => heap[o].m_bValid

LEMMA OldIsAllocated ==
  ASSUME TimerTypeOK, Ownership, NEW i \in DOMAIN m_vecTimers
  PROVE  m_vecTimers[i] \in STimers /\ heap[m_vecTimers[i]] \in STimer
<1>1. i \in 1 .. Len(m_vecTimers) /\ m_vecTimers[i] \in STimers
  BY LenProperties, ElementOfSeq DEF TimerTypeOK
<1>2. i \in VecPlaces(m_vecTimers[i])
  BY DEF VecPlaces
<1>3. heap[m_vecTimers[i]] # Free
  BY <1>1, <1>2 DEF Ownership, Owned
<1>4. QED
  BY <1>1, <1>3 DEF TimerTypeOK

LEMMA SetOldKeeps ==
  ASSUME TimerTypeOK, Ownership, NEW id \in IDs, NEW n \in Seconds,
         NEW bAutoStart \in BOOLEAN, NEW bAutoRestart \in BOOLEAN,
         SetOld(id, n, bAutoStart, bAutoRestart)
  PROVE  HeapKept
<1>1. PICK i \in DOMAIN m_vecTimers :
        heap' = [heap EXCEPT ![m_vecTimers[i]].m_nInitialValue = n,
                             ![m_vecTimers[i]].m_bAutoRestart = bAutoRestart,
                             ![m_vecTimers[i]].m_nCurrentValue = IF bAutoStart THEN n ELSE 0]
  BY DEF SetOld, GetTimer, PlacesOf
<1> DEFINE o == m_vecTimers[i]
           r == [[[heap[o] EXCEPT !.m_nInitialValue = n] EXCEPT !.m_bAutoRestart = bAutoRestart]
                   EXCEPT !.m_nCurrentValue = IF bAutoStart THEN n ELSE 0]
<1>2. o \in STimers /\ heap[o] \in STimer
  BY OldIsAllocated
<1>3. n \in Nat /\ 0 \in Nat
  BY TimerAssumption
<1>4. r \in STimer /\ r.m_bValid = heap[o].m_bValid
  BY <1>2, <1>3 DEF STimer
<1>5. heap' = [heap EXCEPT ![o] = r]
  BY <1>1, <1>2 DEF TimerTypeOK
<1> HIDE DEF o, r
<1>6. QED
  BY <1>2, <1>4, <1>5, TimerAssumption DEF HeapKept, TimerTypeOK

LEMMA StartKeeps ==
  ASSUME TimerTypeOK, Ownership, NEW id \in IDs, Start(id)
  PROVE  HeapKept
<1>1. PICK i \in DOMAIN m_vecTimers :
        heap' = [heap EXCEPT ![m_vecTimers[i]].m_nCurrentValue =
                               heap[m_vecTimers[i]].m_nInitialValue]
  BY DEF Start, GetTimer, PlacesOf
<1> DEFINE o == m_vecTimers[i]
           r == [heap[o] EXCEPT !.m_nCurrentValue = heap[o].m_nInitialValue]
<1>2. o \in STimers /\ heap[o] \in STimer
  BY OldIsAllocated
<1>3. r \in STimer /\ r.m_bValid = heap[o].m_bValid
  BY <1>2, TimerAssumption DEF STimer
<1>4. heap' = [heap EXCEPT ![o] = r]
  BY <1>1, <1>2 DEF TimerTypeOK
<1> HIDE DEF o, r
<1>5. QED
  BY <1>2, <1>3, <1>4, TimerAssumption DEF HeapKept, TimerTypeOK

\* Drop takes one timer out of m_vecTimers, and puts its eDropTimer into the queue.
DropTakes(i) ==
  /\ i \in 1 .. Len(m_vecTimers)
  /\ m_vecTimers' = RemoveAt(m_vecTimers, i)
  /\ Added(<<Command("eDropTimer", m_vecTimers[i])>>)
  /\ ~heap'[m_vecTimers[i]].m_bValid

LEMMA DropEffect ==
  ASSUME TimerTypeOK, Ownership, NEW id \in IDs, Drop(id)
  PROVE  HeapKept /\ \E i \in 1 .. Len(m_vecTimers) : DropTakes(i)
<1>1. PICK i \in DOMAIN m_vecTimers :
        /\ heap' = [heap EXCEPT ![m_vecTimers[i]].m_bValid = FALSE]
        /\ m_queTimerCommands' =
             Append(m_queTimerCommands, Command("eDropTimer", m_vecTimers[i]))
        /\ m_vecTimers' = RemoveAt(m_vecTimers, i)
  BY DEF Drop, PlacesOf
<1> DEFINE o == m_vecTimers[i]
           r == [heap[o] EXCEPT !.m_bValid = FALSE]
<1>2. o \in STimers /\ heap[o] \in STimer
  BY OldIsAllocated
<1>3. r \in STimer /\ ~r.m_bValid
  BY <1>2 DEF STimer
<1>4. heap' = [heap EXCEPT ![o] = r]
  BY <1>1, <1>2 DEF TimerTypeOK
<1>5. Command("eDropTimer", o) \in Commands
  BY <1>2, CommandFacts
<1>6. Added(<<Command("eDropTimer", o)>>)
  BY <1>1, <1>5, AppendIsConcat DEF Added, TimerTypeOK
<1>7. i \in 1 .. Len(m_vecTimers)
  BY LenProperties DEF TimerTypeOK
<1> HIDE DEF r
<1>8. HeapKept
  BY <1>2, <1>3, <1>4, TimerAssumption DEF HeapKept, TimerTypeOK
<1>9. ~heap'[o].m_bValid
  BY <1>2, <1>3, <1>4 DEF TimerTypeOK
<1>10. QED
  BY <1>1, <1>6, <1>7, <1>8, <1>9 DEF DropTakes

LEMMA CountedType ==
  ASSUME NEW r \in STimer
  PROVE  Counted(r) \in STimer /\ Counted(r).m_bValid = r.m_bValid
<1>1. r.m_nCurrentValue \in Nat /\ r.m_nInitialValue \in Nat
  <2>1. r.m_nCurrentValue \in Nat /\ r.m_nInitialValue \in Seconds \cup {0}
    BY DEF STimer
  <2>2. Seconds \cup {0} \subseteq Nat
    BY TimerAssumption
  <2>3. QED
    BY <2>1, <2>2
<1>2. (IF r.m_nCurrentValue > 1 THEN r.m_nCurrentValue - 1
       ELSE IF r.m_nCurrentValue = 1 /\ r.m_bAutoRestart THEN r.m_nInitialValue ELSE 0) \in Nat
  BY <1>1
<1>3. QED
  BY <1>2 DEF Counted, STimer

\* Tick puts callbacks of timers of m_vecTimers into the queue.
LEMMA TickEffect ==
  ASSUME TimerTypeOK, Ownership, NEW t \in m_vecThreads, Tick(t)
  PROVE  /\ HeapKept
         /\ \E s \in Seq(Commands) : Added(s) /\
              \A k \in 1 .. Len(s) : \E i \in DOMAIN m_vecTimers :
                s[k] = Command("eCallback", m_vecTimers[i])
<1>1. HeapKept
  <2>1. \A o \in STimers : o \in ToSet(m_vecTimers) => heap[o] \in STimer
    BY OldIsAllocated DEF ToSet
  <2>2. heap' = [o \in STimers |-> IF o \in ToSet(m_vecTimers)
          THEN Counted(heap[o]) ELSE heap[o]]
    BY DEF Tick
  <2>3. QED
    BY <2>1, <2>2, CountedType, TimerAssumption DEF HeapKept, TimerTypeOK
<1>2. PICK expired \in [1 .. Cardinality(Expiring) -> Expiring] :
        Added([i \in DOMAIN expired |-> Command("eCallback", m_vecTimers[expired[i]])])
  BY DEF Tick, Added
<1> DEFINE n == Cardinality(Expiring)
           s == [i \in 1 .. n |-> Command("eCallback", m_vecTimers[expired[i]])]
<1>3. n \in Nat
  <2>1. Len(m_vecTimers) \in Nat /\ DOMAIN m_vecTimers = 1 .. Len(m_vecTimers)
    BY LenProperties DEF TimerTypeOK
  <2>2. IsFiniteSet(1 .. Len(m_vecTimers))
    BY <2>1, FS_Interval
  <2>3. Expiring \subseteq 1 .. Len(m_vecTimers)
    BY <2>1 DEF Expiring
  <2>4. QED
    BY <2>2, <2>3, FS_Subset, FS_CardinalityType
<1>4. \A i \in 1 .. n : expired[i] \in DOMAIN m_vecTimers
  BY DEF Expiring
<1>5. \A i \in 1 .. n : s[i] \in Commands
  BY <1>4, OldIsAllocated, CommandFacts
<1>6. s \in Seq(Commands) /\ Len(s) = n
  BY <1>3, <1>5
<1>7. Added(s)
  BY <1>2
<1>8. QED
  BY <1>1, <1>4, <1>6, <1>7

LEMMA DropAllEffect ==
  ASSUME TimerTypeOK, Ownership, DropAll
  PROVE  /\ HeapKept
         /\ \E s \in Seq(Commands) :
              /\ Added(s) /\ Len(s) = Len(m_vecTimers)
              /\ \A i \in 1 .. Len(s) : s[i] = Command("eDropTimer", m_vecTimers[i])
<1>1. HeapKept
  <2>1. \A o \in STimers : o \in ToSet(m_vecTimers) => heap[o] \in STimer
    BY OldIsAllocated DEF ToSet
  <2>2. heap' = [o \in STimers |-> IF o \in ToSet(m_vecTimers)
                                   THEN [heap[o] EXCEPT !.m_bValid = FALSE] ELSE heap[o]]
    BY DEF DropAll
  <2>3. \A r \in STimer : [r EXCEPT !.m_bValid = FALSE] \in STimer
                          /\ ~[r EXCEPT !.m_bValid = FALSE].m_bValid
    BY DEF STimer
  <2>4. QED
    BY <2>1, <2>2, <2>3, TimerAssumption DEF HeapKept, TimerTypeOK
<1> DEFINE s == [i \in DOMAIN m_vecTimers |-> Command("eDropTimer", m_vecTimers[i])]
<1>2. DOMAIN m_vecTimers = 1 .. Len(m_vecTimers) /\ Len(m_vecTimers) \in Nat
  BY LenProperties DEF TimerTypeOK
<1>3. \A i \in DOMAIN m_vecTimers : s[i] \in Commands
  BY OldIsAllocated, CommandFacts
<1>4. s \in Seq(Commands) /\ Len(s) = Len(m_vecTimers)
  BY <1>2, <1>3
<1>5. Added(s)
  BY DEF DropAll, Added
<1>6. QED
  BY <1>1, <1>2, <1>4, <1>5

LEMMA StopEffect ==
  ASSUME TimerTypeOK, StopWorkers
  PROVE  \E s \in Seq(Commands) :
           Added(s) /\ \A i \in 1 .. Len(s) : s[i] = Command("eStopThread", NoTimer)
<1> DEFINE n == Cardinality(m_vecThreads) - 1
           s == [i \in 1 .. n |-> Command("eStopThread", NoTimer)]
<1>1. n \in Nat
  BY TimerAssumption, FS_CardinalityType, FS_EmptySet
<1>2. s \in Seq(Commands) /\ Len(s) = n
  BY <1>1, CommandFacts
<1>3. Added(s)
  BY DEF StopWorkers, Added
<1>4. QED
  BY <1>2, <1>3

\* A new timer is valid, and behind the others.
NewTimer(o) ==
  /\ o \in STimers /\ heap[o] = Free
  /\ heap' \in [STimers -> STimer \cup {Free}] /\ heap'[o] \in STimer
  /\ \A p \in STimers \ {o} : heap'[p] = heap[p]
  /\ m_vecTimers' = Append(m_vecTimers, o)
  /\ late' = [late EXCEPT ![o] = 0]

LEMMA SetNewEffect ==
  ASSUME TimerTypeOK, NEW id \in IDs, NEW n \in Seconds,
         NEW bAutoStart \in BOOLEAN, NEW bAutoRestart \in BOOLEAN,
         SetNew(id, n, bAutoStart, bAutoRestart)
  PROVE  \E o \in STimers : NewTimer(o)
<1> DEFINE r == [m_nID |-> id, m_bValid |-> TRUE,
                 m_nInitialValue |-> IF bAutoRestart THEN n ELSE 0,
                 m_nCurrentValue |-> n, m_bAutoRestart |-> TRUE]
<1>1. PICK o \in STimers :
        /\ heap[o] = Free /\ heap' = [heap EXCEPT ![o] = r]
        /\ m_vecTimers' = Append(m_vecTimers, o) /\ late' = [late EXCEPT ![o] = 0]
  BY DEF SetNew
<1>2. r \in STimer
  BY TimerAssumption DEF STimer
<1> HIDE DEF r
<1>3. QED
  BY <1>1, <1>2 DEF NewTimer, TimerTypeOK

LEMMA PopEffect ==
  ASSUME TimerTypeOK, NEW t \in m_vecThreads, Pop(t)
  PROVE  /\ Len(m_queTimerCommands) \in Nat /\ 1 <= Len(m_queTimerCommands)
         /\ m_queTimerCommands[1] \in Commands
         /\ at[t] = "worker"
         /\ at' = [at EXCEPT ![t] = Handles(m_queTimerCommands[1].m_eCmd)]
         /\ local' = [local EXCEPT ![t] = m_queTimerCommands[1].m_psTimer]
         /\ m_queTimerCommands' \in Seq(Commands)
         /\ Len(m_queTimerCommands') = Len(m_queTimerCommands) - 1
         /\ \A i \in 1 .. Len(m_queTimerCommands) - 1 :
              m_queTimerCommands'[i] = m_queTimerCommands[i + 1]
<1>1. m_queTimerCommands \in Seq(Commands) /\ m_queTimerCommands # <<>>
  BY DEF TimerTypeOK, Pop
<1>2. Len(m_queTimerCommands) \in Nat /\ 1 <= Len(m_queTimerCommands)
  BY <1>1, EmptySeq, LenProperties
<1>3. Head(m_queTimerCommands) = m_queTimerCommands[1]
  BY <1>1
<1>4. Head(m_queTimerCommands) \in Commands
  BY <1>1, HeadTailProperties
<1>5. /\ Tail(m_queTimerCommands) \in Seq(Commands)
      /\ Len(Tail(m_queTimerCommands)) = Len(m_queTimerCommands) - 1
      /\ \A i \in 1 .. Len(Tail(m_queTimerCommands)) :
           Tail(m_queTimerCommands)[i] = m_queTimerCommands[i + 1]
  BY <1>1, HeadTailProperties
<1>6. m_queTimerCommands' = Tail(m_queTimerCommands)
  BY DEF Pop
<1>7. /\ at[t] = "worker"
      /\ at' = [at EXCEPT ![t] = Handles(Head(m_queTimerCommands).m_eCmd)]
      /\ local' = [local EXCEPT ![t] = Head(m_queTimerCommands).m_psTimer]
  BY DEF Pop, Goto
<1>8. QED
  BY <1>2, <1>3, <1>4, <1>5, <1>6, <1>7

\* The commands and where they take the worker
LEMMA HandlesEffect ==
  ASSUME NEW c \in Commands
  PROVE  \/ \E o \in STimers : c = Command("eCallback", o) /\ Handles(c.m_eCmd) = "popped"
                               /\ c.m_psTimer = o
         \/ \E o \in STimers : c = Command("eDropTimer", o) /\ Handles(c.m_eCmd) = "deleting"
                               /\ c.m_psTimer = o
         \/ /\ c = Command("eStopThread", NoTimer) /\ Handles(c.m_eCmd) = "done"
            /\ c.m_psTimer = NoTimer
BY CommandKinds, CommandFacts DEF Handles

\* Types: every action writes values of the right kind.
LEMMA TypeStep ==
  ASSUME TimerTypeOK, HandlesATimer, Ownership, CounterBehind, Next
  PROVE  TimerTypeOK' /\ HandlesATimer'
<1> USE DEF TimerTypeOK, HandlesATimer, Places, Phases, Goto, threadVars
<1>1. ASSUME NEW id \in IDs, NEW n \in Seconds, NEW b \in BOOLEAN, NEW c \in BOOLEAN,
             Set(id, n, b, c)
      PROVE  TimerTypeOK' /\ HandlesATimer'
  <2>1. CASE SetOld(id, n, b, c)
    BY <1>1, <2>1, SetOldKeeps DEF HeapKept, Set, SetOld
  <2>2. CASE SetNew(id, n, b, c)
    <3>1. PICK o \in STimers : NewTimer(o)
      BY <2>2, SetNewEffect
    <3>2. m_vecTimers' \in Seq(STimers)
      BY <3>1, AppendProperties DEF NewTimer
    <3>3. QED
      BY <1>1, <3>1, <3>2 DEF NewTimer, Set
  <2>3. QED
    BY <1>1, <2>1, <2>2 DEF Set
<1>2. ASSUME NEW id \in IDs, Drop(id) PROVE TimerTypeOK' /\ HandlesATimer'
  <2>1. HeapKept
    BY <1>2, DropEffect
  <2>2. PICK i \in 1 .. Len(m_vecTimers) : DropTakes(i)
    BY <1>2, DropEffect
  <2>3. m_vecTimers' \in Seq(STimers)
    BY <2>2, Removed DEF DropTakes
  <2>4. <<Command("eDropTimer", m_vecTimers[i])>> \in Seq(Commands)
    BY <2>2, ElementOfSeq, CommandFacts
  <2>5. m_queTimerCommands' \in Seq(Commands)
    BY <2>2, <2>4, AddedEffect DEF DropTakes
  <2>6. QED
    BY <1>2, <2>1, <2>3, <2>5 DEF HeapKept, Drop
<1>3. ASSUME NEW id \in IDs, Start(id) PROVE TimerTypeOK' /\ HandlesATimer'
  BY <1>3, StartKeeps DEF HeapKept, Start
<1>4. ASSUME NEW t \in m_vecThreads, CountRead(t) PROVE TimerTypeOK' /\ HandlesATimer'
  BY <1>4 DEF CountRead
<1>5. ASSUME NEW t \in m_vecThreads, CountWrite(t) PROVE TimerTypeOK' /\ HandlesATimer'
  <2>1. local[t] \in Nat
    BY <1>5 DEF CountWrite, CounterBehind
  <2>2. QED
    BY <1>5, <2>1 DEF CountWrite
<1>6. ASSUME NEW t \in m_vecThreads, TimerLoop(t) PROVE TimerTypeOK' /\ HandlesATimer'
  BY <1>6 DEF TimerLoop
<1>7. ASSUME NEW t \in m_vecThreads, NEW b \in BOOLEAN, TimerWakes(t, b)
      PROVE  TimerTypeOK' /\ HandlesATimer'
  BY <1>7 DEF TimerWakes
<1>8. ASSUME NEW t \in m_vecThreads, Tick(t) PROVE TimerTypeOK' /\ HandlesATimer'
  <2>1. HeapKept /\ m_queTimerCommands' \in Seq(Commands)
    BY <1>8, TickEffect, AddedEffect
  <2>2. QED
    BY <1>8, <2>1 DEF HeapKept, Tick
<1>9. ASSUME NEW t \in m_vecThreads, Pop(t) PROVE TimerTypeOK' /\ HandlesATimer'
  <2>1. m_queTimerCommands' \in Seq(Commands) /\ m_queTimerCommands[1] \in Commands
    BY <1>9, PopEffect
  <2>2. /\ at' = [at EXCEPT ![t] = Handles(m_queTimerCommands[1].m_eCmd)]
        /\ local' = [local EXCEPT ![t] = m_queTimerCommands[1].m_psTimer]
    BY <1>9, PopEffect
  <2>3. LET c == m_queTimerCommands[1]
        IN  \/ Handles(c.m_eCmd) \in {"popped", "deleting"} /\ c.m_psTimer \in STimers
            \/ Handles(c.m_eCmd) = "done" /\ c.m_psTimer = NoTimer
    BY <2>1, HandlesEffect
  <2>4. TimerTypeOK'
    BY <1>9, <2>1, <2>2, <2>3 DEF Pop
  <2>5. HandlesATimer'
    BY <2>2, <2>3
  <2>6. QED
    BY <2>4, <2>5
<1>10. ASSUME NEW t \in m_vecThreads, Delete(t) PROVE TimerTypeOK' /\ HandlesATimer'
  BY <1>10 DEF Delete
<1>11. ASSUME NEW t \in m_vecThreads, TestTerminating(t) PROVE TimerTypeOK' /\ HandlesATimer'
  BY <1>11 DEF TestTerminating
<1>12. ASSUME NEW t \in m_vecThreads, TestValid(t) PROVE TimerTypeOK' /\ HandlesATimer'
  BY <1>12 DEF TestValid
<1>13. ASSUME NEW t \in m_vecThreads, BeginCallback(t) PROVE TimerTypeOK' /\ HandlesATimer'
  <2> DEFINE k == IF FALSE \in ReadValid(local[t]) THEN 1 ELSE 0
  <2>1. k \in Nat /\ local[t] \in STimers
    BY <1>13 DEF BeginCallback
  <2>2. late' = [late EXCEPT ![local[t]] = late[local[t]] + k]
    BY <1>13 DEF BeginCallback
  <2> HIDE DEF k
  <2>3. late' \in [STimers -> Nat]
    BY <2>1, <2>2
  <2>4. QED
    BY <1>13, <2>3 DEF BeginCallback
<1>14. ASSUME NEW t \in m_vecThreads, EndCallback(t) PROVE TimerTypeOK' /\ HandlesATimer'
  BY <1>14 DEF EndCallback
<1>15. ASSUME SetTerminating PROVE TimerTypeOK' /\ HandlesATimer'
  BY <1>15 DEF SetTerminating
<1>16. ASSUME SignalTimer PROVE TimerTypeOK' /\ HandlesATimer'
  BY <1>16 DEF SignalTimer
<1>17. ASSUME DropAll PROVE TimerTypeOK' /\ HandlesATimer'
  <2>1. HeapKept /\ m_queTimerCommands' \in Seq(Commands)
    BY <1>17, DropAllEffect, AddedEffect
  <2>2. m_vecTimers' \in Seq(STimers)
    BY <1>17 DEF DropAll
  <2>3. QED
    BY <1>17, <2>1, <2>2 DEF HeapKept, DropAll
<1>18. ASSUME StopWorkers PROVE TimerTypeOK' /\ HandlesATimer'
  <2>1. m_queTimerCommands' \in Seq(Commands)
    BY <1>18, StopEffect, AddedEffect
  <2>2. QED
    BY <1>18, <2>1 DEF StopWorkers
<1>19. ASSUME NEW b \in BOOLEAN, DeleteThreads(b) PROVE TimerTypeOK' /\ HandlesATimer'
  BY <1>19 DEF DeleteThreads
<1>20. QED
  BY <1>1, <1>2, <1>3, <1>4, <1>5, <1>6, <1>7, <1>8, <1>9, <1>10, <1>11, <1>12, <1>13, <1>14,
     <1>15, <1>16, <1>17, <1>18, <1>19
     DEF Next, Client, ThreadStep, TimerStep, WorkerStep, Destructor

-----------------------------------------------------------------------------
\* Who has a timer

LEMMA QueueType ==
  ASSUME TimerTypeOK
  PROVE  /\ Len(m_queTimerCommands) \in Nat
         /\ DOMAIN m_queTimerCommands = 1 .. Len(m_queTimerCommands)
         /\ Len(m_vecTimers) \in Nat /\ DOMAIN m_vecTimers = 1 .. Len(m_vecTimers)
BY LenProperties DEF TimerTypeOK

LEMMA DropsAfterAdding ==
  ASSUME TimerTypeOK, NEW s \in Seq(Commands), Added(s), NEW o
  PROVE  DropPlaces(o)' = DropPlaces(o) \cup
           {i \in Len(m_queTimerCommands) + 1 .. Len(m_queTimerCommands) + Len(s) :
              s[i - Len(m_queTimerCommands)] = Command("eDropTimer", o)}
<1> DEFINE n == Len(m_queTimerCommands)
<1>1. /\ n \in Nat /\ Len(s) \in Nat /\ DOMAIN m_queTimerCommands = 1 .. n
      /\ DOMAIN m_queTimerCommands' = 1 .. n + Len(s)
  <2>1. Len(m_queTimerCommands') = n + Len(s) /\ m_queTimerCommands' \in Seq(Commands)
    BY AddedEffect
  <2>2. QED
    BY <2>1, AddedEffect, LenProperties, QueueType
<1>2. \A i \in 1 .. n : m_queTimerCommands'[i] = m_queTimerCommands[i]
  BY AddedEffect
<1>3. ASSUME NEW i \in n + 1 .. n + Len(s) PROVE m_queTimerCommands'[i] = s[i - n]
  <2>1. i - n \in 1 .. Len(s) /\ n + (i - n) = i
    BY <1>1
  <2>2. QED
    BY <2>1, AddedEffect
<1> HIDE DEF n
<1>4. 1 .. n + Len(s) = (1 .. n) \cup (n + 1 .. n + Len(s))
  BY <1>1
<1>5. QED
  BY <1>1, <1>2, <1>3, <1>4 DEF DropPlaces, n

LEMMA DropsAfterPop ==
  ASSUME TimerTypeOK, NEW t \in m_vecThreads, Pop(t), NEW o
  PROVE  DropPlaces(o)' = {i \in 1 .. Len(m_queTimerCommands) - 1 : i + 1 \in DropPlaces(o)}
<1> DEFINE n == Len(m_queTimerCommands)
<1>1. n \in Nat /\ 1 <= n /\ DOMAIN m_queTimerCommands = 1 .. n
  BY PopEffect, QueueType
<1>2. DOMAIN m_queTimerCommands' = 1 .. n - 1
  BY PopEffect, LenProperties
<1>3. \A i \in 1 .. n - 1 : m_queTimerCommands'[i] = m_queTimerCommands[i + 1]
  BY PopEffect
<1> HIDE DEF n
<1>4. \A i \in 1 .. n - 1 : i + 1 \in 1 .. n
  BY <1>1
<1>5. QED
  BY <1>1, <1>2, <1>3, <1>4 DEF DropPlaces, n

LEMMA VecAfterRemoval ==
  ASSUME TimerTypeOK, NEW i \in 1 .. Len(m_vecTimers), m_vecTimers' = RemoveAt(m_vecTimers, i),
         NEW o
  PROVE  VecPlaces(o)' = {j \in 1 .. Len(m_vecTimers) - 1 :
                            (IF j < i THEN j ELSE j + 1) \in VecPlaces(o)}
<1> DEFINE n == Len(m_vecTimers)
<1>1. n \in Nat /\ DOMAIN m_vecTimers = 1 .. n
  BY QueueType
<1>2. /\ m_vecTimers' \in Seq(STimers) /\ Len(m_vecTimers') = n - 1
      /\ \A j \in 1 .. n - 1 : m_vecTimers'[j] =
                                 IF j < i THEN m_vecTimers[j] ELSE m_vecTimers[j + 1]
  BY Removed DEF TimerTypeOK
<1>3. DOMAIN m_vecTimers' = 1 .. n - 1
  BY <1>2, LenProperties
<1> HIDE DEF n
<1>4. \A j \in 1 .. n - 1 : j \in 1 .. n /\ j + 1 \in 1 .. n
  BY <1>1
<1>5. QED
  BY <1>1, <1>2, <1>3, <1>4 DEF VecPlaces, n

\* What is left of the places of another timer when one is taken out
LEMMA OthersAfterRemoval ==
  ASSUME TimerTypeOK, NEW i \in 1 .. Len(m_vecTimers), m_vecTimers' = RemoveAt(m_vecTimers, i),
         NEW o \in STimers, AtMostOne(VecPlaces(o))
  PROVE  /\ AtMostOne(VecPlaces(o)')
         /\ o = m_vecTimers[i] => VecPlaces(o)' = {}
         /\ o # m_vecTimers[i] => (VecPlaces(o)' = {} <=> VecPlaces(o) = {})
<1> DEFINE n == Len(m_vecTimers)
           P == VecPlaces(o)
           Q == VecPlaces(o)'
<1>1. n \in Nat /\ DOMAIN m_vecTimers = 1 .. n
  BY QueueType
<1>2. Q = {j \in 1 .. n - 1 : (IF j < i THEN j ELSE j + 1) \in P}
  BY VecAfterRemoval
<1>3. P \subseteq 1 .. n /\ (o = m_vecTimers[i] <=> i \in P)
  BY <1>1 DEF VecPlaces
<1> HIDE DEF n, P, Q
<1>4. AtMostOne(P)
  BY DEF P
<1>5. AtMostOne(Q)
  <2> SUFFICES ASSUME NEW j \in Q, NEW k \in Q PROVE j = k
    BY DEF AtMostOne
  <2>1. (IF j < i THEN j ELSE j + 1) = (IF k < i THEN k ELSE k + 1)
    BY <1>2, <1>4 DEF AtMostOne
  <2>2. j \in Int /\ k \in Int
    BY <1>1, <1>2
  <2>3. QED
    BY <2>1, <2>2
<1>6. ASSUME i \in P, NEW j \in Q PROVE FALSE
  <2>1. (IF j < i THEN j ELSE j + 1) = i /\ j \in Int
    BY <1>1, <1>2, <1>4, <1>6 DEF AtMostOne
  <2>2. QED
    BY <2>1
<1>7. ASSUME i \notin P, NEW k \in P PROVE Q # {}
  <2>1. k \in 1 .. n /\ k # i
    BY <1>3, <1>7
  <2>2. CASE k < i
    <3>1. k \in 1 .. n - 1
      BY <1>1, <2>1, <2>2
    <3>2. QED
      BY <1>2, <2>2, <3>1
  <2>3. CASE ~(k < i)
    <3>1. k - 1 \in 1 .. n - 1 /\ ~(k - 1 < i) /\ (k - 1) + 1 = k
      BY <1>1, <2>1, <2>3
    <3>2. QED
      BY <1>2, <3>1
  <2>4. QED
    BY <2>2, <2>3
<1>8. Q # {} => P # {}
  BY <1>2
<1>9. QED
  BY <1>3, <1>5, <1>6, <1>7, <1>8 DEF P, Q

\* Places, as long as nothing is said about the owners
LEMMA SamePlaces ==
  /\ UNCHANGED m_vecTimers => \A o : VecPlaces(o)' = VecPlaces(o)
  /\ UNCHANGED m_queTimerCommands => \A o : DropPlaces(o)' = DropPlaces(o)
  /\ UNCHANGED <<at, local>> => \A o : DeletersOf(o)' = DeletersOf(o)
BY DEF VecPlaces, DropPlaces, DeletersOf

\* One thread goes from a place to another, neither of them "deleting".
LEMMA SameDeleters ==
  ASSUME TimerTypeOK, NEW t \in m_vecThreads, NEW place, NEW value, Goto(t, place, value),
         at[t] # "deleting", place # "deleting"
  PROVE  \A o : DeletersOf(o)' = DeletersOf(o)
BY DEF Goto, TimerTypeOK, DeletersOf

LEMMA OwnQuiet ==
  ASSUME Ownership,
         \A o \in STimers : /\ VecPlaces(o)' = VecPlaces(o)
                            /\ DropPlaces(o)' = DropPlaces(o)
                            /\ DeletersOf(o)' = DeletersOf(o)
                            /\ heap'[o] = Free <=> heap[o] = Free,
         destructor' # "destroyed" => destructor # "destroyed"
  PROVE  Ownership'
BY DEF Ownership, OwnersAreOne, Owned

\* Commands that drop nothing leave the owners alone.
LEMMA NoDropAdded ==
  ASSUME TimerTypeOK, NEW s \in Seq(Commands), Added(s),
         \A k \in 1 .. Len(s) : s[k].m_eCmd # "eDropTimer"
  PROVE  \A o : DropPlaces(o)' = DropPlaces(o)
<1> TAKE o
<1>1. Len(m_queTimerCommands) \in Nat /\ Len(s) \in Nat
  BY AddedEffect
<1>2. ASSUME NEW i \in Len(m_queTimerCommands) + 1 .. Len(m_queTimerCommands) + Len(s)
      PROVE  s[i - Len(m_queTimerCommands)] # Command("eDropTimer", o)
  <2>1. i - Len(m_queTimerCommands) \in 1 .. Len(s)
    BY <1>1
  <2>2. QED
    BY <2>1, CommandFacts
<1>3. QED
  BY <1>2, DropsAfterAdding

\* The steps that change no timer's owner
OwnersStay ==
  \A o \in STimers : /\ VecPlaces(o)' = VecPlaces(o)
                     /\ DropPlaces(o)' = DropPlaces(o)
                     /\ DeletersOf(o)' = DeletersOf(o)
                     /\ heap'[o] = Free <=> heap[o] = Free

LEMMA QuietThread ==
  ASSUME TimerTypeOK, NEW t \in m_vecThreads,
         \/ CountRead(t) \/ CountWrite(t) \/ TimerLoop(t)
         \/ TimerWakes(t, TRUE) \/ TimerWakes(t, FALSE)
         \/ TestTerminating(t) \/ TestValid(t) \/ BeginCallback(t) \/ EndCallback(t)
  PROVE  OwnersStay
<1>1. UNCHANGED <<m_vecTimers, m_queTimerCommands, heap>>
  BY DEF CountRead, CountWrite, TimerLoop, TimerWakes, TestTerminating, TestValid,
     BeginCallback,
         EndCallback
<1>2. at[t] # "deleting" /\ \E place, value : place # "deleting" /\ Goto(t, place, value)
  <2>1. CASE CountRead(t)
    BY <2>1 DEF CountRead
  <2>2. CASE CountWrite(t)
    BY <2>2 DEF CountWrite
  <2>3. CASE TimerLoop(t)
    BY <2>3 DEF TimerLoop
  <2>4. CASE TimerWakes(t, TRUE) \/ TimerWakes(t, FALSE)
    BY <2>4 DEF TimerWakes
  <2>5. CASE TestTerminating(t)
    BY <2>5 DEF TestTerminating
  <2>6. CASE TestValid(t)
    BY <2>6 DEF TestValid
  <2>7. CASE BeginCallback(t)
    BY <2>7 DEF BeginCallback
  <2>8. CASE EndCallback(t)
    BY <2>8 DEF EndCallback
  <2>9. QED
    BY <2>1, <2>2, <2>3, <2>4, <2>5, <2>6, <2>7, <2>8
<1>3. \A o : DeletersOf(o)' = DeletersOf(o)
  BY <1>2, SameDeleters
<1>4. QED
  BY <1>1, <1>3, SamePlaces DEF OwnersStay

LEMMA QuietTick ==
  ASSUME TimerTypeOK, Ownership, NEW t \in m_vecThreads, Tick(t)
  PROVE  OwnersStay
<1>1. PICK s \in Seq(Commands) : Added(s) /\
              \A k \in 1 .. Len(s) : \E i \in DOMAIN m_vecTimers :
                s[k] = Command("eCallback", m_vecTimers[i])
  BY TickEffect
<1>2. \A k \in 1 .. Len(s) : s[k].m_eCmd # "eDropTimer"
  BY <1>1, CommandFacts
<1>3. HeapKept /\ UNCHANGED m_vecTimers
  BY TickEffect DEF Tick
<1>4. \A o : DeletersOf(o)' = DeletersOf(o)
  BY SameDeleters DEF Tick
<1>5. QED
  BY <1>1, <1>2, <1>3, <1>4, NoDropAdded, SamePlaces DEF OwnersStay, HeapKept

LEMMA QuietStop ==
  ASSUME TimerTypeOK, StopWorkers
  PROVE  OwnersStay
<1>1. PICK s \in Seq(Commands) :
           Added(s) /\ \A i \in 1 .. Len(s) : s[i] = Command("eStopThread", NoTimer)
  BY StopEffect
<1>2. \A k \in 1 .. Len(s) : s[k].m_eCmd # "eDropTimer"
  BY <1>1, CommandFacts
<1>3. UNCHANGED <<m_vecTimers, heap, at, local>>
  BY DEF StopWorkers, threadVars
<1>4. QED
  BY <1>1, <1>2, <1>3, NoDropAdded, SamePlaces DEF OwnersStay

\* Where the timers are after Set of a new one, Drop and ~CTimer
LEMMA SetNewMoves ==
  ASSUME TimerTypeOK, NEW o \in STimers, NewTimer(o), VecPlaces(o) = {}
  PROVE  /\ VecPlaces(o)' = {Len(m_vecTimers) + 1}
         /\ \A p \in STimers \ {o} : VecPlaces(p)' = VecPlaces(p)
<1> DEFINE n == Len(m_vecTimers)
<1>1. n \in Nat /\ DOMAIN m_vecTimers = 1 .. n
  BY QueueType
<1>2. /\ Len(m_vecTimers') = n + 1 /\ m_vecTimers' \in Seq(STimers)
      /\ \A i \in 1 .. n : m_vecTimers'[i] = m_vecTimers[i]
      /\ m_vecTimers'[n + 1] = o
  BY AppendProperties DEF NewTimer, TimerTypeOK
<1>3. DOMAIN m_vecTimers' = 1 .. n + 1
  BY <1>2, LenProperties
<1> HIDE DEF n
<1>4. 1 .. n + 1 = (1 .. n) \cup {n + 1}
  BY <1>1
<1>5. VecPlaces(o)' = {n + 1}
  BY <1>1, <1>2, <1>3, <1>4 DEF VecPlaces
<1>6. \A p \in STimers \ {o} : VecPlaces(p)' = VecPlaces(p)
  BY <1>1, <1>2, <1>3, <1>4 DEF VecPlaces
<1>7. QED
  BY <1>5, <1>6 DEF n

LEMMA DropMoves ==
  ASSUME TimerTypeOK, Ownership, NEW i \in 1 .. Len(m_vecTimers), DropTakes(i),
         NEW o \in STimers
  PROVE  /\ AtMostOne(VecPlaces(o)')
         /\ o = m_vecTimers[i] =>
              /\ VecPlaces(o) # {} /\ VecPlaces(o)' = {}
              /\ DropPlaces(o)' = DropPlaces(o) \cup {Len(m_queTimerCommands) + 1}
         /\ o # m_vecTimers[i] =>
              /\ VecPlaces(o)' = {} <=> VecPlaces(o) = {}
              /\ DropPlaces(o)' = DropPlaces(o)
<1> DEFINE d == m_vecTimers[i]
           n == Len(m_queTimerCommands)
           s == <<Command("eDropTimer", d)>>
<1>1. i \in VecPlaces(d) /\ d \in STimers
  BY QueueType, OldIsAllocated DEF VecPlaces
<1>2. s \in Seq(Commands) /\ Len(s) = 1 /\ s[1] = Command("eDropTimer", d)
  BY <1>1, CommandFacts
<1>3. n \in Nat /\ Added(s) /\ m_vecTimers' = RemoveAt(m_vecTimers, i)
  BY QueueType DEF DropTakes
<1>4. DropPlaces(o)' = IF o = d THEN DropPlaces(o) \cup {n + 1} ELSE DropPlaces(o)
  <2>1. DropPlaces(o)' =
          DropPlaces(o) \cup {k \in n + 1 .. n + Len(s) : s[k - n] = Command("eDropTimer", o)}
    BY <1>2, <1>3, DropsAfterAdding
  <2>2. \A k \in n + 1 .. n + 1 : k = n + 1 /\ k - n = 1
    BY <1>3
  <2>3. n + 1 \in n + 1 .. n + 1
    BY <1>3
  <2>4. Command("eDropTimer", d) = Command("eDropTimer", o) <=> o = d
    BY CommandFacts
  <2> HIDE DEF s, n, d
  <2>5. QED
    BY <1>2, <2>1, <2>2, <2>3, <2>4
<1>5. /\ AtMostOne(VecPlaces(o)')
      /\ o = d => VecPlaces(o)' = {}
      /\ o # d => (VecPlaces(o)' = {} <=> VecPlaces(o) = {})
  BY <1>3, OthersAfterRemoval DEF Ownership, OwnersAreOne
<1>6. QED
  BY <1>1, <1>4, <1>5

LEMMA DropAllMoves ==
  ASSUME TimerTypeOK, Ownership, DropAll, NEW o
  PROVE  /\ VecPlaces(o)' = {}
         /\ VecPlaces(o) \subseteq 1 .. Len(m_vecTimers)
         /\ DropPlaces(o)' = DropPlaces(o) \cup
              {i \in Len(m_queTimerCommands) + 1 .. Len(m_queTimerCommands) + Len(m_vecTimers) :
                 i - Len(m_queTimerCommands) \in VecPlaces(o)}
<1> DEFINE n == Len(m_queTimerCommands)
           m == Len(m_vecTimers)
<1>1. PICK s \in Seq(Commands) :
              /\ Added(s) /\ Len(s) = m
              /\ \A i \in 1 .. Len(s) : s[i] = Command("eDropTimer", m_vecTimers[i])
  BY DropAllEffect
<1>2. n \in Nat /\ m \in Nat /\ DOMAIN m_vecTimers = 1 .. m
  BY QueueType
<1>3. VecPlaces(o)' = {} /\ VecPlaces(o) \subseteq 1 .. m
  BY <1>2 DEF DropAll, VecPlaces
<1>4. DropPlaces(o)' = DropPlaces(o) \cup
           {i \in n + 1 .. n + m : s[i - n] = Command("eDropTimer", o)}
  BY <1>1, DropsAfterAdding
<1>5. ASSUME NEW i \in n + 1 .. n + m
      PROVE  s[i - n] = Command("eDropTimer", o) <=> i - n \in VecPlaces(o)
  <2>1. i - n \in 1 .. m
    BY <1>2
  <2>2. s[i - n] = Command("eDropTimer", m_vecTimers[i - n])
    BY <1>1, <2>1
  <2>3. QED
    BY <1>2, <2>1, <2>2, CommandFacts DEF VecPlaces
<1> HIDE DEF n, m
<1>6. DropPlaces(o)' = DropPlaces(o) \cup {i \in n + 1 .. n + m : i - n \in VecPlaces(o)}
  BY <1>4, <1>5
<1>7. QED
  BY <1>3, <1>6 DEF n, m

LEMMA OwnedBySetNew ==
  ASSUME TimerTypeOK, Ownership, NEW o \in STimers, NewTimer(o),
         UNCHANGED <<m_queTimerCommands, at, local, destructor>>
  PROVE  Ownership'
<1>1. VecPlaces(o) = {} /\ DropPlaces(o) = {} /\ DeletersOf(o) = {}
  BY DEF Ownership, Owned, NewTimer
<1>2. \A p : DropPlaces(p)' = DropPlaces(p) /\ DeletersOf(p)' = DeletersOf(p)
  BY SamePlaces
<1> DEFINE k == Len(m_vecTimers) + 1
<1>3. VecPlaces(o)' = {k} /\ \A p \in STimers \ {o} : VecPlaces(p)' = VecPlaces(p)
  BY <1>1, SetNewMoves
<1> HIDE DEF k
<1>4. heap'[o] # Free /\ \A p \in STimers \ {o} : heap'[p] = heap[p]
  BY TimerAssumption DEF NewTimer
<1>5. ASSUME NEW p \in STimers
      PROVE  /\ OwnersAreOne(p)'
             /\ Owned(p)' => heap'[p] # Free
             /\ destructor' # "destroyed" /\ heap'[p] # Free => Owned(p)'
  <2>1. CASE p = o
    BY <1>1, <1>2, <1>3, <1>4, <2>1 DEF OwnersAreOne, AtMostOne, Owned
  <2>2. CASE p # o
    BY <1>2, <1>3, <1>4, <2>2 DEF Ownership, OwnersAreOne, Owned
  <2>3. QED
    BY <2>1, <2>2
<1>6. QED
  BY <1>5 DEF Ownership

LEMMA OwnedByDrop ==
  ASSUME TimerTypeOK, Ownership, NEW id \in IDs, Drop(id)
  PROVE  Ownership'
<1>1. HeapKept
  BY DropEffect
<1>2. PICK i \in 1 .. Len(m_vecTimers) : DropTakes(i)
  BY DropEffect
<1>3. destructor' = destructor /\ \A o : DeletersOf(o)' = DeletersOf(o)
  BY SamePlaces DEF Drop, threadVars
<1>4. ASSUME NEW o \in STimers
      PROVE  /\ OwnersAreOne(o)'
             /\ Owned(o)' => heap'[o] # Free
             /\ destructor' # "destroyed" /\ heap'[o] # Free => Owned(o)'
  <2> DEFINE k == Len(m_queTimerCommands) + 1
             d == m_vecTimers[i]
  <2>1. /\ AtMostOne(VecPlaces(o)')
        /\ o = d =>
             VecPlaces(o) # {} /\ VecPlaces(o)' = {} /\ DropPlaces(o)' = DropPlaces(o) \cup {k}
        /\ o # d =>
             (VecPlaces(o)' = {} <=> VecPlaces(o) = {}) /\ DropPlaces(o)' = DropPlaces(o)
    BY <1>2, DropMoves
  <2>2. heap'[o] = Free <=> heap[o] = Free
    BY <1>1 DEF HeapKept
  <2> HIDE DEF k, d
  <2>3. CASE o = d
    <3>1. DropPlaces(o) = {} /\ DeletersOf(o) = {} /\ heap[o] # Free
      BY <2>1, <2>3 DEF Ownership, OwnersAreOne, Owned
    <3>2. DropPlaces(o)' = {k} /\ DeletersOf(o)' = {} /\ VecPlaces(o)' = {}
      BY <1>3, <2>1, <2>3, <3>1
    <3>3. QED
      BY <2>2, <3>1, <3>2 DEF OwnersAreOne, AtMostOne, Owned
  <2>4. CASE o # d
    BY <1>3, <2>1, <2>2, <2>4 DEF Ownership, OwnersAreOne, Owned
  <2>5. QED
    BY <2>3, <2>4
<1>5. QED
  BY <1>4 DEF Ownership

LEMMA OwnedByPop ==
  ASSUME TimerTypeOK, Ownership, NEW t \in m_vecThreads, Pop(t)
  PROVE  Ownership'
<1> DEFINE n == Len(m_queTimerCommands)
           c == m_queTimerCommands[1]
<1>1. n \in Nat /\ 1 <= n /\ c \in Commands /\ at[t] = "worker"
  BY PopEffect
<1>2. at' = [at EXCEPT ![t] = Handles(c.m_eCmd)] /\ local' = [local EXCEPT ![t] = c.m_psTimer]
  BY PopEffect
<1>3. UNCHANGED <<heap, destructor>> /\ \A o : VecPlaces(o)' = VecPlaces(o)
  BY SamePlaces DEF Pop
<1>4. \A o : DropPlaces(o)' = {i \in 1 .. n - 1 : i + 1 \in DropPlaces(o)}
  BY DropsAfterPop
<1>5. \A o : DropPlaces(o) \subseteq 1 .. n /\ (c = Command("eDropTimer", o)
               <=> 1 \in DropPlaces(o))
  BY <1>1, QueueType DEF DropPlaces
<1>6. \A o : DeletersOf(o)' = IF c = Command("eDropTimer", o) THEN DeletersOf(o) \cup {t}
                              ELSE DeletersOf(o)
  <2>1. \A o : /\ c = Command("eDropTimer", o) =>
                 Handles(c.m_eCmd) = "deleting" /\ c.m_psTimer = o
               /\ c # Command("eDropTimer", o) =>
                    Handles(c.m_eCmd) # "deleting" \/ c.m_psTimer # o
    BY <1>1, HandlesEffect, CommandFacts DEF Handles
  <2> HIDE DEF c
  <2>2. QED
    BY <1>1, <1>2, <2>1 DEF DeletersOf, TimerTypeOK
<1> HIDE DEF n, c
<1>7. ASSUME NEW o \in STimers
      PROVE  /\ OwnersAreOne(o)'
             /\ Owned(o)' => heap'[o] # Free
             /\ destructor' # "destroyed" /\ heap'[o] # Free => Owned(o)'
  <2> DEFINE P == DropPlaces(o)
             Q == DropPlaces(o)'
  <2>1. Q = {i \in 1 .. n - 1 : i + 1 \in P} /\ P \subseteq 1 .. n /\ AtMostOne(P)
    BY <1>4, <1>5 DEF Ownership, OwnersAreOne
  <2> HIDE DEF P, Q
  <2>2. AtMostOne(Q) /\ (P = {} => Q = {})
    <3>1. \A i, j \in Q : i \in Int /\ j \in Int /\ i + 1 = j + 1
      BY <1>1, <2>1 DEF AtMostOne
    <3>2. QED
      BY <2>1, <3>1 DEF AtMostOne
  <2>3. CASE 1 \in P
    <3>1. ASSUME NEW i \in Q PROVE FALSE
      <4>1. i \in 1 .. n - 1 /\ i + 1 = 1
        BY <2>1, <2>3 DEF AtMostOne
      <4>2. QED
        BY <1>1, <4>1
    <3>2. VecPlaces(o) = {} /\ DeletersOf(o) = {} /\ heap[o] # Free
      BY <2>3 DEF P, Ownership, OwnersAreOne, Owned
    <3>3. DropPlaces(o)' = {} /\ DeletersOf(o)' = {t} /\ VecPlaces(o)' = {}
      BY <1>3, <1>5, <1>6, <2>3, <3>1, <3>2 DEF P, Q
    <3>4. QED
      BY <1>3, <3>2, <3>3 DEF OwnersAreOne, AtMostOne, Owned
  <2>4. CASE 1 \notin P
    <3>1. ASSUME NEW k \in P PROVE Q # {}
      <4>1. k - 1 \in 1 .. n - 1 /\ (k - 1) + 1 = k
        BY <1>1, <2>1, <2>4
      <4>2. QED
        BY <2>1, <4>1
    <3>2. DeletersOf(o)' = DeletersOf(o) /\ VecPlaces(o)' = VecPlaces(o)
      BY <1>3, <1>5, <1>6, <2>4 DEF P
    <3>3. DropPlaces(o)' = {} <=> DropPlaces(o) = {}
      BY <2>2, <3>1 DEF P, Q
    <3>4. AtMostOne(DropPlaces(o)')
      BY <2>2 DEF Q
    <3>5. QED
      BY <1>3, <3>2, <3>3, <3>4 DEF Ownership, OwnersAreOne, Owned
  <2>5. QED
    BY <2>3, <2>4
<1>8. QED
  BY <1>7 DEF Ownership

LEMMA OwnedByDelete ==
  ASSUME TimerTypeOK, HandlesATimer, Ownership, NEW t \in m_vecThreads, Delete(t)
  PROVE  Ownership'
<1> DEFINE d == local[t]
<1>1. d \in STimers /\ t \in DeletersOf(d) /\ at[t] = "deleting"
  BY DEF Delete, HandlesATimer, DeletersOf
<1>2. heap' = [heap EXCEPT ![d] = Free]
  BY DEF Delete
<1>3. \A o : VecPlaces(o)' = VecPlaces(o) /\ DropPlaces(o)' = DropPlaces(o)
  BY SamePlaces DEF Delete
<1>4. \A o : DeletersOf(o)' = DeletersOf(o) \ {t}
  BY DEF Delete, Goto, DeletersOf, TimerTypeOK
<1>5. \A o : o # d => t \notin DeletersOf(o)
  BY DEF DeletersOf
<1>6. destructor' = destructor
  BY DEF Delete
<1> HIDE DEF d
<1>7. ASSUME NEW o \in STimers
      PROVE  /\ OwnersAreOne(o)'
             /\ Owned(o)' => heap'[o] # Free
             /\ destructor' # "destroyed" /\ heap'[o] # Free => Owned(o)'
  <2>1. CASE o = d
    <3>1. VecPlaces(o) = {} /\ DropPlaces(o) = {} /\ DeletersOf(o) \ {t} = {}
      BY <1>1, <2>1 DEF Ownership, OwnersAreOne, AtMostOne
    <3>2. heap'[o] = Free
      BY <1>1, <1>2, <2>1 DEF TimerTypeOK
    <3>3. QED
      BY <1>3, <1>4, <3>1, <3>2 DEF OwnersAreOne, AtMostOne, Owned
  <2>2. CASE o # d
    <3>1. DeletersOf(o)' = DeletersOf(o) /\ heap'[o] = heap[o]
      BY <1>2, <1>4, <1>5, <2>2 DEF TimerTypeOK
    <3>2. QED
      BY <1>3, <1>6, <3>1 DEF Ownership, OwnersAreOne, Owned
  <2>3. QED
    BY <2>1, <2>2
<1>8. QED
  BY <1>7 DEF Ownership

LEMMA OwnedByDropAll ==
  ASSUME TimerTypeOK, Ownership, DropAll
  PROVE  Ownership'
<1> DEFINE n == Len(m_queTimerCommands)
           m == Len(m_vecTimers)
<1>1. HeapKept
  BY DropAllEffect
<1>3. n \in Nat /\ m \in Nat
  BY QueueType
<1>2. \A o : VecPlaces(o)' = {} /\ VecPlaces(o) \subseteq 1 .. m
  BY DropAllMoves
<1>4. \A o : DeletersOf(o)' = DeletersOf(o)
  BY SamePlaces DEF DropAll, threadVars
<1>5. destructor' # "destroyed" /\ destructor # "destroyed"
  BY DEF DropAll
<1>6. \A o : DropPlaces(o)' = DropPlaces(o) \cup {i \in n + 1 .. n + m : i - n \in VecPlaces(o)}
  BY DropAllMoves
<1> HIDE DEF n, m
<1>7. ASSUME NEW o \in STimers
      PROVE  /\ OwnersAreOne(o)'
             /\ Owned(o)' => heap'[o] # Free
             /\ destructor' # "destroyed" /\ heap'[o] # Free => Owned(o)'
  <2>1. heap'[o] = Free <=> heap[o] = Free
    BY <1>1 DEF HeapKept
  <2> DEFINE V == VecPlaces(o)
             W == {i \in n + 1 .. n + m : i - n \in V}
  <2>2. AtMostOne(V) /\ V \subseteq 1 .. m
    BY <1>2 DEF Ownership, OwnersAreOne
  <2> HIDE DEF V
  <2>3. AtMostOne(W)
    <3>1. \A i, j \in W : i \in Int /\ j \in Int /\ i - n = j - n
      BY <1>3, <2>2 DEF AtMostOne
    <3>2. QED
      BY <1>3, <3>1 DEF AtMostOne
  <2>4. ASSUME NEW k \in V PROVE W # {}
    <3>1. n + k \in n + 1 .. n + m /\ (n + k) - n = k
      BY <1>3, <2>2
    <3>2. QED
      BY <3>1
  <2>5. DropPlaces(o)' = DropPlaces(o) \cup W
    BY <1>6 DEF V
  <2>6. W = {} <=> VecPlaces(o) = {}
    BY <2>4 DEF V
  <2> HIDE DEF W
  <2>7. CASE VecPlaces(o) = {}
    <3>1. DropPlaces(o)' = DropPlaces(o)
      BY <2>5, <2>6, <2>7
    <3>2. QED
      BY <1>2, <1>4, <1>5, <2>1, <2>7, <3>1 DEF Ownership, OwnersAreOne, Owned
  <2>8. CASE VecPlaces(o) # {}
    <3>1. DropPlaces(o)' = W /\ DeletersOf(o)' = {} /\ W # {} /\ heap[o] # Free
      BY <1>4, <2>5, <2>6, <2>8 DEF Ownership, OwnersAreOne, Owned
    <3>2. AtMostOne({})
      BY DEF AtMostOne
    <3>3. QED
      BY <1>2, <2>1, <2>3, <3>1, <3>2 DEF OwnersAreOne, Owned
  <2>9. QED
    BY <2>7, <2>8
<1>8. QED
  BY <1>7 DEF Ownership

\* Ownership: a timer goes from m_vecTimers to the queue, from there to a worker, and is
\* then deleted.
LEMMA OwnershipStep ==
  ASSUME TimerTypeOK, HandlesATimer, Ownership, Next
  PROVE  Ownership'
<1>1. ASSUME NEW id \in IDs, NEW n \in Seconds, NEW b \in BOOLEAN, NEW c \in BOOLEAN,
             Set(id, n, b, c)
      PROVE  Ownership'
  <2>1. CASE SetOld(id, n, b, c)
    <3>1. HeapKept
      BY <2>1, SetOldKeeps
    <3>2. UNCHANGED <<m_vecTimers, m_queTimerCommands, at, local, destructor>>
      BY <1>1, <2>1 DEF Set, SetOld, threadVars
    <3>3. QED
      BY <3>1, <3>2, OwnQuiet, SamePlaces DEF HeapKept
  <2>2. CASE SetNew(id, n, b, c)
    <3>1. PICK o \in STimers : NewTimer(o)
      BY <2>2, SetNewEffect
    <3>2. QED
      BY <1>1, <3>1, OwnedBySetNew DEF Set, threadVars
  <2>3. QED
    BY <1>1, <2>1, <2>2 DEF Set
<1>2. ASSUME NEW id \in IDs, Drop(id) PROVE Ownership'
  BY <1>2, OwnedByDrop
<1>3. ASSUME NEW id \in IDs, Start(id) PROVE Ownership'
  <2>1. HeapKept
    BY <1>3, StartKeeps
  <2>2. UNCHANGED <<m_vecTimers, m_queTimerCommands, at, local, destructor>>
    BY <1>3 DEF Start, threadVars
  <2>3. QED
    BY <2>1, <2>2, OwnQuiet, SamePlaces DEF HeapKept
<1>4. ASSUME NEW t \in m_vecThreads, ThreadStep(t) PROVE Ownership'
  <2>1. CASE Pop(t)
    BY <2>1, OwnedByPop
  <2>2. CASE Delete(t)
    BY <2>2, OwnedByDelete
  <2>3. CASE Tick(t)
    <3>1. OwnersStay /\ destructor' = destructor
      BY <2>3, QuietTick DEF Tick
    <3>2. QED
      BY <3>1, OwnQuiet DEF OwnersStay
  <2>4. CASE \/ CountRead(t) \/ CountWrite(t) \/ TimerLoop(t)
             \/ TimerWakes(t, TRUE) \/ TimerWakes(t, FALSE)
             \/ TestTerminating(t) \/ TestValid(t) \/ BeginCallback(t) \/ EndCallback(t)
    <3>1. OwnersStay
      BY <2>4, QuietThread
    <3>2. destructor' = destructor
      BY <2>4 DEF CountRead, CountWrite, TimerLoop, TimerWakes, TestTerminating, TestValid,
                  BeginCallback, EndCallback
    <3>3. QED
      BY <3>1, <3>2, OwnQuiet DEF OwnersStay
  <2>5. QED
    BY <1>4, <2>1, <2>2, <2>3, <2>4 DEF ThreadStep, TimerStep, WorkerStep
<1>5. ASSUME SetTerminating \/ SignalTimer PROVE Ownership'
  <2>1. UNCHANGED <<m_vecTimers, m_queTimerCommands, heap, at, local>>
    BY <1>5 DEF SetTerminating, SignalTimer, threadVars
  <2>2. destructor # "destroyed"
    BY <1>5 DEF SetTerminating, SignalTimer
  <2>3. QED
    BY <2>1, <2>2, OwnQuiet, SamePlaces
<1>6. ASSUME DropAll PROVE Ownership'
  BY <1>6, OwnedByDropAll
<1>7. ASSUME StopWorkers PROVE Ownership'
  <2>1. OwnersStay
    BY <1>7, QuietStop
  <2>2. destructor # "destroyed"
    BY <1>7 DEF StopWorkers
  <2>3. QED
    BY <2>1, <2>2, OwnQuiet DEF OwnersStay
<1>8. ASSUME NEW b \in BOOLEAN, DeleteThreads(b) PROVE Ownership'
  <2>1. \A o : VecPlaces(o)' = VecPlaces(o) /\ DropPlaces(o)' = DropPlaces(o)
    BY <1>8, SamePlaces DEF DeleteThreads
  <2>2. \A o : DeletersOf(o)' = {}
    BY <1>8 DEF DeleteThreads, DeletersOf
  <2>3. destructor' = "destroyed" /\ heap' = heap
    BY <1>8 DEF DeleteThreads
  <2>4. QED
    BY <2>1, <2>2, <2>3 DEF Ownership, OwnersAreOne, AtMostOne, Owned
<1>9. QED
  BY <1>1, <1>2, <1>3, <1>4, <1>5, <1>6, <1>7, <1>8 DEF Next, Client, Destructor

-----------------------------------------------------------------------------
\* The counter and the thread that counts

\* A thread that has counted itself goes on; it does not begin to count the timers.
GoesOn(t) ==
  \E place, value :
    /\ Goto(t, place, value)
    /\ at[t] \notin {"new", "counted", "done", "killed"} /\ place \notin {"new", "counted"}
    /\ place \in {"timer", "asleep", "tick"} => at[t] \in {"timer", "asleep", "tick"}
    /\ place = "asleep" => ~m_bTerminating

LEMMA OthersGoOn ==
  ASSUME TimerTypeOK, NEW t \in m_vecThreads, TimerStep(t) \/ WorkerStep(t)
  PROVE  GoesOn(t) /\ UNCHANGED <<m_nThreadsStarted, m_bTerminating, destructor>>
<1>1. CASE TimerLoop(t)
  BY <1>1 DEF TimerLoop, GoesOn
<1>2. CASE TimerWakes(t, TRUE) \/ TimerWakes(t, FALSE)
  BY <1>2 DEF TimerWakes, GoesOn
<1>3. CASE Tick(t)
  BY <1>3 DEF Tick, GoesOn
<1>4. CASE Pop(t)
  <2>1. m_queTimerCommands[1] \in Commands
    BY <1>4, PopEffect
  <2>2. Handles(m_queTimerCommands[1].m_eCmd) \in {"popped", "deleting", "done"}
    BY <2>1, HandlesEffect
  <2>3. /\ at[t] = "worker"
        /\ Goto(t, Handles(m_queTimerCommands[1].m_eCmd), m_queTimerCommands[1].m_psTimer)
    BY <1>4, PopEffect DEF Goto
  <2>4. QED
    BY <1>4, <2>2, <2>3 DEF Pop, GoesOn
<1>5. CASE Delete(t)
  BY <1>5 DEF Delete, GoesOn
<1>6. CASE TestTerminating(t)
  BY <1>6 DEF TestTerminating, GoesOn
<1>7. CASE TestValid(t)
  BY <1>7 DEF TestValid, GoesOn
<1>8. CASE BeginCallback(t)
  BY <1>8 DEF BeginCallback, GoesOn
<1>9. CASE EndCallback(t)
  BY <1>9 DEF EndCallback, GoesOn
<1>10. QED
  BY <1>1, <1>2, <1>3, <1>4, <1>5, <1>6, <1>7, <1>8, <1>9 DEF TimerStep, WorkerStep

LEMMA StartedFinite == IsFiniteSet(Started) /\ Cardinality(Started) \in Nat
BY TimerAssumption, FS_Subset, FS_CardinalityType DEF Started

\* After CountWrite one more thread has counted itself.
LEMMA CountWriteEffect ==
  ASSUME TimerTypeOK, CounterBehind, NEW t \in m_vecThreads, CountWrite(t)
  PROVE  /\ Cardinality(Started)' = Cardinality(Started) + 1
         /\ m_nThreadsStarted' = local[t] + 1
         /\ local[t] \in Nat /\ local[t] <= Cardinality(Started)
         /\ Unraced' => Unraced /\ local[t] = Cardinality(Started)
<1>1. Started' = Started \cup {t} /\ t \notin Started
  BY DEF CountWrite, Goto, Started, TimerTypeOK
<1>2. Cardinality(Started)' = Cardinality(Started) + 1
  BY <1>1, StartedFinite, FS_AddElement
<1>3. /\ local[t] \in Nat /\ local[t] <= Cardinality(Started)
      /\ m_nThreadsStarted < Cardinality(Started) => local[t] < Cardinality(Started)
      /\ m_nThreadsStarted <= Cardinality(Started) /\ m_nThreadsStarted \in Nat
  BY DEF CountWrite, CounterBehind, TimerTypeOK
<1>4. m_nThreadsStarted' = local[t] + 1
  BY DEF CountWrite
<1>5. /\ Unraced <=> m_nThreadsStarted = Cardinality(Started)
      /\ Unraced' <=> m_nThreadsStarted' = Cardinality(Started)'
  BY DEF Unraced, Started
<1>6. QED
  BY <1>2, <1>3, <1>4, <1>5, StartedFinite

\* What the actions other than Run's count do to the threads
LEMMA Quiet ==
  ASSUME TimerTypeOK,
         \/ Client \/ SetTerminating \/ SignalTimer \/ DropAll \/ StopWorkers
  PROVE  UNCHANGED <<m_nThreadsStarted, at, local>>
<1>1. CASE Client
  BY <1>1 DEF Client, Set, Drop, Start, threadVars
<1>2. CASE SetTerminating \/ SignalTimer \/ DropAll \/ StopWorkers
  BY <1>2 DEF SetTerminating, SignalTimer, DropAll, StopWorkers, threadVars
<1>3. QED
  BY <1>1, <1>2

LEMMA CounterStep ==
  ASSUME TimerTypeOK, CounterBehind, Next
  PROVE  CounterBehind'
<1> DEFINE k == Cardinality(Started)
<1>1. k \in Nat /\ m_nThreadsStarted \in Nat
  BY StartedFinite DEF TimerTypeOK
<1>2. CASE Client \/ SetTerminating \/ SignalTimer \/ DropAll \/ StopWorkers
  <2>1. UNCHANGED <<m_nThreadsStarted, at, local>>
    BY <1>2, Quiet
  <2>2. Started' = Started
    BY <2>1 DEF Started
  <2>3. QED
    BY <2>1, <2>2 DEF CounterBehind
<1>3. ASSUME NEW t \in m_vecThreads, CountRead(t) PROVE CounterBehind'
  <2>1. Started' = Started /\ UNCHANGED m_nThreadsStarted
    BY <1>3 DEF CountRead, Goto, Started, TimerTypeOK
  <2>2. local'[t] = m_nThreadsStarted /\ \A u \in m_vecThreads \ {t} : local'[u] = local[u]
    BY <1>3 DEF CountRead, Goto, TimerTypeOK
  <2>3. \A u \in m_vecThreads \ {t} : at'[u] = at[u]
    BY <1>3 DEF CountRead, Goto, TimerTypeOK
  <2>4. k' = k
    BY <2>1
  <2>5. /\ m_nThreadsStarted <= k
        /\ \A u \in m_vecThreads : at[u] = "counted" =>
             local[u] \in Nat /\ local[u] <= k /\ (m_nThreadsStarted < k => local[u] < k)
    BY DEF CounterBehind
  <2> HIDE DEF k
  <2>6. ASSUME NEW u \in m_vecThreads, at'[u] = "counted"
        PROVE  local'[u] \in Nat /\ local'[u] <= k /\ (m_nThreadsStarted < k => local'[u] < k)
    <3>1. CASE u = t
      BY <1>1, <2>2, <2>5, <3>1
    <3>2. CASE u # t
      BY <2>2, <2>3, <2>5, <2>6, <3>2
    <3>3. QED
      BY <3>1, <3>2
  <2>7. QED
    BY <2>1, <2>4, <2>5, <2>6 DEF CounterBehind, k
<1>4. ASSUME NEW t \in m_vecThreads, CountWrite(t) PROVE CounterBehind'
  <2>1. /\ k' = k + 1 /\ m_nThreadsStarted' = local[t] + 1
        /\ local[t] \in Nat /\ local[t] <= k
    BY <1>4, CountWriteEffect
  <2>2. at'[t] # "counted" /\ \A u \in m_vecThreads \ {t} :
                                at'[u] = at[u] /\ local'[u] = local[u]
    BY <1>4 DEF CountWrite, Goto, TimerTypeOK
  <2>3. \A u \in m_vecThreads : at[u] = "counted" => local[u] \in Nat /\ local[u] <= k
    BY DEF CounterBehind
  <2> HIDE DEF k
  <2>4. ASSUME NEW u \in m_vecThreads, at'[u] = "counted"
        PROVE  local'[u] \in Nat /\ local'[u] < k + 1
    <3>1. u # t
      BY <2>2, <2>4
    <3>2. QED
      BY <1>1, <2>2, <2>3, <2>4, <3>1
  <2>5. m_nThreadsStarted' <= k'
    BY <1>1, <2>1
  <2>6. ASSUME NEW u \in m_vecThreads, at'[u] = "counted"
        PROVE  /\ local'[u] \in Nat /\ local'[u] <= k'
               /\ m_nThreadsStarted' < k' => local'[u] < k'
    BY <1>1, <2>1, <2>4, <2>6
  <2>7. QED
    BY <2>5, <2>6 DEF CounterBehind, k
<1>5. ASSUME NEW t \in m_vecThreads, TimerStep(t) \/ WorkerStep(t) PROVE CounterBehind'
  <2>1. GoesOn(t) /\ UNCHANGED m_nThreadsStarted
    BY <1>5, OthersGoOn
  <2>2. /\ Started' = Started
        /\ \A u \in m_vecThreads :
             at'[u] = "counted" => at[u] = "counted" /\ local'[u] = local[u]
    BY <2>1 DEF GoesOn, Goto, Started, TimerTypeOK
  <2>3. QED
    BY <2>1, <2>2 DEF CounterBehind
<1>6. ASSUME NEW b \in BOOLEAN, DeleteThreads(b) PROVE CounterBehind'
  <2>1. /\ \A u \in m_vecThreads : at'[u] \in {"done", "killed"}
        /\ UNCHANGED m_nThreadsStarted
    BY <1>6 DEF DeleteThreads
  <2>2. Started \subseteq m_vecThreads /\ Started' = m_vecThreads
    BY <2>1 DEF Started
  <2>3. k \in Nat /\ k' \in Nat /\ k <= k'
    BY <2>2, TimerAssumption, FS_Subset, FS_CardinalityType
  <2>4. m_nThreadsStarted <= k
    BY DEF CounterBehind
  <2> HIDE DEF k
  <2>5. m_nThreadsStarted' <= k'
    BY <1>1, <2>1, <2>3, <2>4
  <2>6. QED
    BY <2>1, <2>5 DEF CounterBehind, k
<1>7. QED
  BY <1>2, <1>3, <1>4, <1>5, <1>6 DEF Next, ThreadStep, Destructor

\* The thread that has written 1 is the only one that counts the timers.
LEMMA OneCountsStep ==
  ASSUME TimerTypeOK, CounterBehind, OneCounts, Next
  PROVE  OneCounts' /\ (Unraced' => Unraced \/ destructor' = "destroyed")
<1>1. CASE Client \/ SetTerminating \/ SignalTimer \/ DropAll \/ StopWorkers
  <2>1. UNCHANGED <<m_nThreadsStarted, at, local>>
    BY <1>1, Quiet
  <2>2. QED
    BY <2>1 DEF OneCounts, Unraced, Counting
<1>2. ASSUME NEW t \in m_vecThreads, CountRead(t)
      PROVE  OneCounts' /\ (Unraced' => Unraced)
  <2>1. Started' = Started /\ UNCHANGED m_nThreadsStarted /\ Counting' = Counting
    BY <1>2 DEF CountRead, Goto, Started, Counting, TimerTypeOK
  <2>2. QED
    BY <2>1 DEF OneCounts, Unraced, Started
<1>3. ASSUME NEW t \in m_vecThreads, CountWrite(t)
      PROVE  OneCounts' /\ (Unraced' => Unraced)
  <2>1. Unraced' => Unraced /\ local[t] = Cardinality(Started)
    BY <1>3, CountWriteEffect
  <2>2. CASE Unraced' /\ local[t] = 0
    <3>1. Started = {}
      BY <2>1, <2>2, StartedFinite, FS_EmptySet
    <3>2. Counting' \subseteq {t}
      BY <1>3, <3>1 DEF CountWrite, Goto, Started, Counting, TimerTypeOK
    <3>3. QED
      BY <2>1, <3>2 DEF OneCounts, AtMostOne
  <2>3. CASE Unraced' /\ local[t] # 0
    <3>1. Counting' = Counting
      BY <1>3, <2>3 DEF CountWrite, Goto, Counting, TimerTypeOK
    <3>2. QED
      BY <2>1, <2>3, <3>1 DEF OneCounts
  <2>4. QED
    BY <2>2, <2>3 DEF OneCounts
<1>4. ASSUME NEW t \in m_vecThreads, TimerStep(t) \/ WorkerStep(t)
      PROVE  OneCounts' /\ (Unraced' => Unraced)
  <2>1. GoesOn(t) /\ UNCHANGED m_nThreadsStarted
    BY <1>4, OthersGoOn
  <2>2. Started' = Started /\ Counting' \subseteq Counting
    BY <2>1 DEF GoesOn, Goto, Started, Counting, TimerTypeOK
  <2>3. QED
    BY <2>1, <2>2 DEF OneCounts, Unraced, Started, AtMostOne
<1>5. ASSUME NEW b \in BOOLEAN, DeleteThreads(b)
      PROVE  OneCounts' /\ destructor' = "destroyed"
  <2>1. Counting' = {} /\ destructor' = "destroyed"
    BY <1>5 DEF DeleteThreads, Counting
  <2>2. QED
    BY <2>1 DEF OneCounts, AtMostOne
<1>6. QED
  BY <1>1, <1>2, <1>3, <1>4, <1>5 DEF Next, ThreadStep, Destructor

LEMMA TerminatingStep ==
  ASSUME TimerTypeOK, Terminating, Next
  PROVE  Terminating'
<1>1. CASE Client
  <2>1. UNCHANGED <<m_bTerminating, destructor, at>>
    BY <1>1 DEF Client, Set, Drop, Start, threadVars
  <2>2. QED
    BY <2>1 DEF Terminating
<1>2. CASE SetTerminating
  BY <1>2 DEF SetTerminating, Terminating, threadVars
<1>3. CASE SignalTimer \/ DropAll \/ StopWorkers
  BY <1>3 DEF SignalTimer, DropAll, StopWorkers, Terminating, threadVars
<1>4. ASSUME NEW t \in m_vecThreads, ThreadStep(t) PROVE Terminating'
  <2>1. at[t] \notin {"done", "killed"} /\ UNCHANGED <<m_bTerminating, destructor>>
    <3>1. CASE CountRead(t) \/ CountWrite(t)
      BY <3>1 DEF CountRead, CountWrite
    <3>2. CASE TimerStep(t) \/ WorkerStep(t)
      BY <3>2, OthersGoOn DEF GoesOn
    <3>3. QED
      BY <1>4, <3>1, <3>2 DEF ThreadStep
  <2>2. QED
    BY <2>1 DEF Terminating
<1>5. ASSUME NEW b \in BOOLEAN, DeleteThreads(b) PROVE Terminating'
  BY <1>5 DEF DeleteThreads, Terminating
<1>6. QED
  BY <1>1, <1>2, <1>3, <1>4, <1>5 DEF Next, Destructor

\* Only the counting thread takes the signal of the destructor, and then it does not sleep.
LEMMA SignalStep ==
  ASSUME TimerTypeOK, CounterBehind, OneCounts, Terminating, SignalStays, Next
  PROVE  SignalStays'
<1>1. Unraced' => Unraced \/ destructor' = "destroyed"
  BY OneCountsStep
<1>2. m_SleepSemaphore \in Nat
  BY DEF TimerTypeOK
<1>3. CASE Client \/ DropAll \/ StopWorkers
  <2>1. UNCHANGED <<m_nThreadsStarted, at, local>>
    BY <1>3, Quiet
  <2>2. UNCHANGED m_SleepSemaphore
    BY <1>3 DEF Client, Set, Drop, Start, DropAll, StopWorkers
  <2>3. destructor' \in {"alive", "terminating"} <=> destructor \in {"alive", "terminating"}
    BY <1>3 DEF Client, Set, Drop, Start, DropAll, StopWorkers
  <2>4. Unraced' => Unraced
    BY <2>1 DEF Unraced
  <2>5. QED
    BY <2>1, <2>2, <2>3, <2>4 DEF SignalStays
<1>4. CASE SetTerminating
  BY <1>4 DEF SetTerminating, SignalStays
<1>5. CASE SignalTimer
  <2>1. m_SleepSemaphore' > 0 /\ destructor' = "signalled"
    BY <1>2, <1>5 DEF SignalTimer
  <2>2. QED
    BY <2>1 DEF SignalStays
<1>6. ASSUME NEW t \in m_vecThreads, CountRead(t) \/ CountWrite(t) PROVE SignalStays'
  <2>1. UNCHANGED <<m_SleepSemaphore, destructor>>
    BY <1>6 DEF CountRead, CountWrite
  <2>2. \A u \in m_vecThreads : at'[u] = "asleep" => at[u] = "asleep"
    BY <1>6 DEF CountRead, CountWrite, Goto, TimerTypeOK
  <2>3. ASSUME destructor = "destroyed" PROVE \A u \in m_vecThreads : at[u] # "asleep"
    BY <2>3 DEF Terminating
  <2>4. QED
    BY <1>1, <2>1, <2>2, <2>3 DEF SignalStays
<1>7. ASSUME NEW t \in m_vecThreads, TimerWakes(t, FALSE) PROVE SignalStays'
  <2>1. m_SleepSemaphore > 0 /\ destructor' = destructor /\ at[t] = "asleep"
    BY <1>7 DEF TimerWakes
  <2>2. destructor \notin {"alive", "terminating"}
    BY <2>1 DEF SignalStays
  <2>3. at'[t] # "asleep" /\ \A u \in m_vecThreads \ {t} : at'[u] = at[u]
    BY <1>7 DEF TimerWakes, Goto, TimerTypeOK
  <2>4. ASSUME Unraced', NEW u \in m_vecThreads, at'[u] = "asleep" PROVE FALSE
    <3>1. Unraced
      BY <1>1, <2>1, <2>4 DEF Terminating
    <3>2. t \in Counting /\ u \in Counting /\ u # t
      BY <2>1, <2>3, <2>4 DEF Counting
    <3>3. QED
      BY <3>1, <3>2 DEF OneCounts, AtMostOne
  <2>5. QED
    BY <2>1, <2>2, <2>4 DEF SignalStays
<1>8. ASSUME NEW t \in m_vecThreads,
             \/ TimerLoop(t) \/ TimerWakes(t, TRUE) \/ Tick(t) \/ WorkerStep(t)
      PROVE  SignalStays'
  <2>1. GoesOn(t) /\ UNCHANGED <<m_nThreadsStarted, destructor>>
    BY <1>8, OthersGoOn DEF TimerStep
  <2>2. UNCHANGED m_SleepSemaphore
    BY <1>8 DEF TimerLoop, TimerWakes, Tick, WorkerStep, Pop, Delete, TestTerminating,
       TestValid,
                BeginCallback, EndCallback
  <2>3. \A u \in m_vecThreads : at'[u] = "asleep" => at[u] = "asleep" \/ destructor = "alive"
    BY <2>1 DEF GoesOn, Goto, TimerTypeOK, Terminating
  <2>4. ASSUME destructor = "destroyed" PROVE \A u \in m_vecThreads : at[u] # "asleep"
    BY <2>4 DEF Terminating
  <2>5. QED
    BY <1>1, <2>1, <2>2, <2>3, <2>4 DEF SignalStays
<1>9. ASSUME NEW b \in BOOLEAN, DeleteThreads(b) PROVE SignalStays'
  BY <1>9 DEF DeleteThreads, SignalStays
<1>10. QED
  BY <1>3, <1>4, <1>5, <1>6, <1>7, <1>8, <1>9 DEF Next, ThreadStep, TimerStep, Destructor

-----------------------------------------------------------------------------
\* The invariant for any number of workers

LEMMA InitGeneral == Init => General
<1> SUFFICES ASSUME Init PROVE General
  OBVIOUS
<1>1. TimerTypeOK /\ HandlesATimer
  <2>1. m_bTerminating \in BOOLEAN /\ m_nThreadsStarted \in Nat /\ m_SleepSemaphore \in Nat
    BY DEF Init
  <2>2. m_vecTimers \in Seq(STimers) /\ m_queTimerCommands \in Seq(Commands)
    BY EmptySeq DEF Init
  <2>3. /\ heap \in [STimers -> STimer \cup {Free}] /\ late \in [STimers -> Nat]
        /\ at \in [m_vecThreads -> Places] /\ destructor \in Phases
        /\ local \in [m_vecThreads -> STimers \cup {NoTimer} \cup Nat]
    BY DEF Init, Places, Phases
  <2>4. HandlesATimer
    BY DEF Init, HandlesATimer
  <2>5. QED
    BY <2>1, <2>2, <2>3, <2>4 DEF TimerTypeOK
<1>2. \A o \in STimers : VecPlaces(o) = {} /\ DropPlaces(o) = {} /\ DeletersOf(o) = {}
                         /\ heap[o] = Free
  BY DEF Init, VecPlaces, DropPlaces, DeletersOf
<1>3. Ownership
  BY <1>2 DEF Ownership, OwnersAreOne, AtMostOne, Owned
<1>4. Started = {} /\ Counting = {}
  BY DEF Init, Started, Counting
<1>5. Cardinality(Started) = 0
  BY <1>4, FS_EmptySet
<1>6. CounterBehind
  BY <1>5 DEF Init, CounterBehind
<1>7. OneCounts
  BY <1>4 DEF OneCounts, AtMostOne
<1>8. Terminating /\ SignalStays
  BY DEF Init, Terminating, SignalStays
<1>9. QED
  BY <1>1, <1>3, <1>6, <1>7, <1>8 DEF General

LEMMA StepGeneral == General /\ [Next]_vars => General'
<1> SUFFICES ASSUME General, [Next]_vars PROVE General'
  OBVIOUS
<1>1. CASE Next
  BY <1>1, TypeStep, OwnershipStep, CounterStep, OneCountsStep, TerminatingStep, SignalStep
     DEF General
<1>2. CASE UNCHANGED vars
  BY <1>2 DEF vars, General, TimerTypeOK, HandlesATimer, Ownership, OwnersAreOne, Owned,
     VecPlaces,
              DropPlaces, DeletersOf, CounterBehind, Started, OneCounts, Unraced, Counting,
              Terminating, SignalStays
<1>3. QED
  BY <1>1, <1>2

LEMMA AlwaysGeneral == Spec => []General
BY InitGeneral, StepGeneral, PTL DEF Spec

LEMMA CountsOfOne ==
  ASSUME NEW S, IsFiniteSet(S), AtMostOne(S)
  PROVE  Cardinality(S) = IF S = {} THEN 0 ELSE 1
<1>1. CASE S = {}
  BY <1>1, FS_EmptySet
<1>2. CASE S # {}
  <2>1. PICK x : S = {x}
    BY <1>2 DEF AtMostOne
  <2>2. QED
    BY <1>2, <2>1, FS_Singleton
<1>3. QED
  BY <1>1, <1>2

LEMMA OwnedOnceHolds == General => OwnedOnce
<1> SUFFICES ASSUME General, destructor # "destroyed", NEW o \in STimers
             PROVE  Occurrences(o) + QueuedDrops(o) + Deleters(o) =
                      IF heap[o] = Free THEN 0 ELSE 1
  BY DEF OwnedOnce
<1>1. OwnersAreOne(o) /\ (Owned(o) <=> heap[o] # Free)
  BY DEF General, Ownership
<1>2. IsFiniteSet(VecPlaces(o)) /\ IsFiniteSet(DropPlaces(o)) /\ IsFiniteSet(DeletersOf(o))
  <2>1. VecPlaces(o) \subseteq 1 .. Len(m_vecTimers) /\ Len(m_vecTimers) \in Nat
    BY QueueType DEF General, VecPlaces
  <2>2. DropPlaces(o) \subseteq 1 .. Len(m_queTimerCommands) /\ Len(m_queTimerCommands) \in Nat
    BY QueueType DEF General, DropPlaces
  <2>3. DeletersOf(o) \subseteq m_vecThreads
    BY DEF DeletersOf
  <2>4. IsFiniteSet(1 .. Len(m_vecTimers)) /\ IsFiniteSet(1 .. Len(m_queTimerCommands))
    BY <2>1, <2>2, FS_Interval
  <2>5. QED
    BY <2>1, <2>2, <2>3, <2>4, FS_Subset, TimerAssumption
<1>3. /\ Cardinality(VecPlaces(o)) = IF VecPlaces(o) = {} THEN 0 ELSE 1
      /\ Cardinality(DropPlaces(o)) = IF DropPlaces(o) = {} THEN 0 ELSE 1
      /\ Cardinality(DeletersOf(o)) = IF DeletersOf(o) = {} THEN 0 ELSE 1
  BY <1>1, <1>2, CountsOfOne DEF OwnersAreOne
<1>4. /\ Occurrences(o) = Cardinality(VecPlaces(o))
      /\ QueuedDrops(o) = Cardinality(DropPlaces(o))
      /\ Deleters(o) = Cardinality(DeletersOf(o))
  BY DEF Occurrences, QueuedDrops, Deleters, VecPlaces, DropPlaces, DeletersOf
<1>5. QED
  BY <1>1, <1>3, <1>4 DEF OwnersAreOne, Owned

\* The variables of CTimer keep their types, whatever the number of threads and timers.
THEOREM TypesKept == Spec => []TimerTypeOK
BY AlwaysGeneral, PTL DEF General

\* Ownership: until threads are killed an allocated STimer is in m_vecTimers, in one
\* queued eDropTimer or with one worker, so CTimer neither leaks it nor deletes it twice.
THEOREM NeitherLeaksNorDeletesTwice == Spec => []OwnedOnce
BY AlwaysGeneral, OwnedOnceHolds, PTL

\* ~CTimer's signal to the counting thread is not lost: if no increment of
\* m_nThreadsStarted was, a thread that sleeps after the Signal has it still to take.
THEOREM SignalIsKept == Spec => []ShutdownSignalKept
<1>1. General => ShutdownSignalKept
  BY DEF General, Terminating, SignalStays, ShutdownSignalKept
<1>2. QED
  BY <1>1, AlwaysGeneral, PTL

-----------------------------------------------------------------------------
\* One worker

LEMMA TwoThreads ==
  ASSUME Cardinality(m_vecThreads) <= 2,
         NEW x \in m_vecThreads, NEW y \in m_vecThreads, NEW z \in m_vecThreads
  PROVE  x = y \/ x = z \/ y = z
<1> SUFFICES ASSUME x # y, x # z, y # z PROVE FALSE
  OBVIOUS
<1> DEFINE R == m_vecThreads \ {x}
           Q == R \ {y}
<1>1. IsFiniteSet(m_vecThreads) /\ Cardinality(m_vecThreads) \in Nat
  BY TimerAssumption, FS_CardinalityType
<1>2. IsFiniteSet(R) /\ Cardinality(R) = Cardinality(m_vecThreads) - 1
  BY <1>1, FS_RemoveElement
<1>3. IsFiniteSet(Q) /\ Cardinality(Q) = Cardinality(R) - 1
  BY <1>2, FS_RemoveElement
<1>4. z \in Q
  OBVIOUS
<1> HIDE DEF R, Q
<1>5. Cardinality(Q) <= 0 /\ Cardinality(Q) \in Nat
  BY <1>1, <1>2, <1>3, FS_CardinalityType
<1>6. QED
  BY <1>3, <1>4, <1>5, FS_EmptySet

\* The counting thread and the worker keep to their parts of Run.
LEMMA TimerThreadStays ==
  ASSUME TimerTypeOK, NEW t \in m_vecThreads, TimerStep(t)
  PROVE  \E place, value : Goto(t, place, value) /\ place \notin InRun \cup {"new", "counted"}
BY DEF TimerStep, TimerLoop, TimerWakes, Tick, InRun

LEMMA WorkerIsInRun ==
  ASSUME NEW t \in m_vecThreads, WorkerStep(t)
  PROVE  at[t] \in InRun
BY DEF WorkerStep, Pop, Delete, TestTerminating, TestValid, BeginCallback, EndCallback, InRun

LEMMA SomebodyCountsStep ==
  ASSUME TimerTypeOK, CounterBehind, SomebodyCounts, Next
  PROVE  SomebodyCounts'
<1> DEFINE Counts(t) == at[t] \notin InRun \cup {"new", "counted"}
<1>1. CASE Client \/ SetTerminating \/ SignalTimer \/ DropAll \/ StopWorkers
  <2>1. UNCHANGED <<m_nThreadsStarted, at, local>>
    BY <1>1, Quiet
  <2>2. QED
    BY <2>1 DEF SomebodyCounts
<1>2. ASSUME NEW t \in m_vecThreads, CountRead(t) PROVE SomebodyCounts'
  BY <1>2 DEF SomebodyCounts, CountRead, Goto, TimerTypeOK, InRun
<1>3. ASSUME NEW t \in m_vecThreads, CountWrite(t) PROVE SomebodyCounts'
  <2>1. m_nThreadsStarted' # 0
    BY <1>3, CountWriteEffect
  <2>2. CASE local[t] = 0
    <3>1. Counts(t)'
      BY <1>3, <2>2 DEF CountWrite, Goto, TimerTypeOK, InRun
    <3>2. QED
      BY <2>1, <3>1 DEF SomebodyCounts
  <2>3. CASE local[t] # 0
    <3>1. PICK u \in m_vecThreads : Counts(u)
      BY <1>3, <2>3 DEF SomebodyCounts, CountWrite
    <3>2. Counts(u)'
      BY <1>3, <3>1 DEF CountWrite, Goto, TimerTypeOK
    <3>3. QED
      BY <2>1, <3>2 DEF SomebodyCounts
  <2>4. QED
    BY <2>2, <2>3
<1>4. ASSUME NEW t \in m_vecThreads, TimerStep(t) PROVE SomebodyCounts'
  <2>1. PICK place, value : Goto(t, place, value) /\ place \notin InRun \cup {"new", "counted"}
    BY <1>4, TimerThreadStays
  <2>2. UNCHANGED m_nThreadsStarted
    BY <1>4, OthersGoOn
  <2>3. /\ Counts(t)'
        /\ \A u \in m_vecThreads \ {t} : at'[u] = at[u] /\ local'[u] = local[u]
    BY <2>1 DEF Goto, TimerTypeOK
  <2>4. QED
    BY <2>2, <2>3 DEF SomebodyCounts
<1>5. ASSUME NEW t \in m_vecThreads, WorkerStep(t) PROVE SomebodyCounts'
  <2>1. at[t] \in InRun /\ m_nThreadsStarted' = m_nThreadsStarted
    BY <1>5, WorkerIsInRun, OthersGoOn
  <2>2. \A u \in m_vecThreads \ {t} : at'[u] = at[u]
    BY <1>5, OthersGoOn DEF GoesOn, Goto, TimerTypeOK
  <2>3. QED
    BY <2>1, <2>2 DEF SomebodyCounts
<1>6. ASSUME NEW b \in BOOLEAN, DeleteThreads(b) PROVE SomebodyCounts'
  <2>1. /\ \A u \in m_vecThreads : at'[u] \in {"done", "killed"}
        /\ UNCHANGED m_nThreadsStarted
    BY <1>6 DEF DeleteThreads
  <2>2. QED
    BY <2>1 DEF SomebodyCounts, InRun
<1>7. QED
  BY <1>1, <1>2, <1>3, <1>4, <1>5, <1>6 DEF Next, ThreadStep, Destructor

LEMMA OneWorkerStep ==
  ASSUME Cardinality(m_vecThreads) <= 2, TimerTypeOK, SomebodyCounts, OneWorker, Next
  PROVE  OneWorker'
<1> DEFINE W == {t \in m_vecThreads : at[t] \in InRun}
<1>1. CASE Client \/ SetTerminating \/ SignalTimer \/ DropAll \/ StopWorkers
  BY <1>1, Quiet DEF OneWorker
<1>2. ASSUME NEW t \in m_vecThreads, CountRead(t) PROVE OneWorker'
  <2>1. W' \subseteq W
    BY <1>2 DEF CountRead, Goto, TimerTypeOK, InRun
  <2>2. QED
    BY <2>1 DEF OneWorker, AtMostOne
<1>3. ASSUME NEW t \in m_vecThreads, CountWrite(t) PROVE OneWorker'
  <2>1. CASE local[t] = 0
    <3>1. W' \subseteq W
      BY <1>3, <2>1 DEF CountWrite, Goto, TimerTypeOK, InRun
    <3>2. QED
      BY <3>1 DEF OneWorker, AtMostOne
  <2>2. CASE local[t] # 0
    <3>1. PICK u \in m_vecThreads : at[u] \notin InRun \cup {"new", "counted"}
      BY <1>3, <2>2 DEF SomebodyCounts, CountWrite
    <3>2. \A v \in W : v # u /\ v # t
      BY <1>3, <3>1 DEF CountWrite, InRun
    <3>3. u # t
      BY <1>3, <3>1 DEF CountWrite
    <3>4. W = {}
      BY <3>2, <3>3, TwoThreads
    <3>5. W' \subseteq {t}
      BY <1>3, <3>4 DEF CountWrite, Goto, TimerTypeOK
    <3>6. QED
      BY <3>5 DEF OneWorker, AtMostOne
  <2>3. QED
    BY <2>1, <2>2
<1>4. ASSUME NEW t \in m_vecThreads, TimerStep(t) PROVE OneWorker'
  <2>1. PICK place, value : Goto(t, place, value) /\ place \notin InRun
    BY <1>4, TimerThreadStays
  <2>2. W' \subseteq W
    BY <2>1 DEF Goto, TimerTypeOK
  <2>3. QED
    BY <2>2 DEF OneWorker, AtMostOne
<1>5. ASSUME NEW t \in m_vecThreads, WorkerStep(t) PROVE OneWorker'
  <2>1. at[t] \in InRun
    BY <1>5, WorkerIsInRun
  <2>2. \A u \in m_vecThreads \ {t} : at'[u] = at[u]
    BY <1>5, OthersGoOn DEF GoesOn, Goto, TimerTypeOK
  <2>3. W' \subseteq W
    BY <2>1, <2>2
  <2>4. QED
    BY <2>3 DEF OneWorker, AtMostOne
<1>6. ASSUME NEW b \in BOOLEAN, DeleteThreads(b) PROVE OneWorker'
  BY <1>6 DEF DeleteThreads, OneWorker, AtMostOne, InRun
<1>7. QED
  BY <1>1, <1>2, <1>3, <1>4, <1>5, <1>6 DEF Next, ThreadStep, Destructor

\* The queue hands out commands in order: a callback comes before the eDropTimer.
LEMMA AddedCommand ==
  ASSUME TimerTypeOK, NEW s \in Seq(Commands), Added(s), NEW i \in DOMAIN m_queTimerCommands'
  PROVE  \/ i \in DOMAIN m_queTimerCommands /\ m_queTimerCommands'[i] = m_queTimerCommands[i]
         \/ \E k \in 1 .. Len(s) : m_queTimerCommands'[i] = s[k]
<1> DEFINE n == Len(m_queTimerCommands)
<1>1. /\ n \in Nat /\ Len(s) \in Nat /\ DOMAIN m_queTimerCommands = 1 .. n
      /\ m_queTimerCommands' \in Seq(Commands)
      /\ Len(m_queTimerCommands') = n + Len(s)
      /\ \A j \in 1 .. n : m_queTimerCommands'[j] = m_queTimerCommands[j]
      /\ \A j \in 1 .. Len(s) : m_queTimerCommands'[n + j] = s[j]
  BY AddedEffect, QueueType
<1>2. i \in 1 .. n + Len(s)
  BY <1>1, LenProperties
<1> HIDE DEF n
<1>3. CASE i \in 1 .. n
  BY <1>1, <1>3
<1>4. CASE i \notin 1 .. n
  <2>1. i - n \in 1 .. Len(s) /\ n + (i - n) = i
    BY <1>1, <1>2, <1>4
  <2>2. QED
    BY <1>1, <2>1
<1>5. QED
  BY <1>3, <1>4

\* A callback that is in the queue after a step was there before, or its timer is set.
LEMMA CallsAfterStep ==
  ASSUME TimerTypeOK, Ownership, Next, \A t \in m_vecThreads : ~Pop(t),
         NEW o, NEW i \in DOMAIN m_queTimerCommands',
         m_queTimerCommands'[i] = Command("eCallback", o)
  PROVE  \/ i \in DOMAIN m_queTimerCommands /\ m_queTimerCommands[i] = Command("eCallback", o)
         \/ VecPlaces(o)' # {}
<1>1. ASSUME UNCHANGED m_queTimerCommands
      PROVE  i \in DOMAIN m_queTimerCommands /\ m_queTimerCommands[i] = Command("eCallback", o)
  BY <1>1
<1>2. ASSUME NEW s \in Seq(Commands), Added(s), \A k \in 1 .. Len(s) : s[k].m_eCmd # "eCallback"
      PROVE  i \in DOMAIN m_queTimerCommands /\ m_queTimerCommands[i] = Command("eCallback", o)
  BY <1>2, AddedCommand, CommandFacts
<1>3. ASSUME NEW id \in IDs, Drop(id)
      PROVE  i \in DOMAIN m_queTimerCommands /\ m_queTimerCommands[i] = Command("eCallback", o)
  <2>1. PICK k \in 1 .. Len(m_vecTimers) : DropTakes(k)
    BY <1>3, DropEffect
  <2> DEFINE s == <<Command("eDropTimer", m_vecTimers[k])>>
  <2>2. s \in Seq(Commands) /\ \A j \in 1 .. Len(s) : s[j].m_eCmd # "eCallback"
    <3>1. Command("eDropTimer", m_vecTimers[k]) \in Commands
      BY QueueType, OldIsAllocated, CommandFacts
    <3>2. Command("eDropTimer", m_vecTimers[k]).m_eCmd = "eDropTimer"
      BY CommandFacts
    <3>3. QED
      BY <3>1, <3>2
  <2>3. Added(s)
    BY <2>1 DEF DropTakes
  <2> HIDE DEF s
  <2>4. QED
    BY <1>2, <2>2, <2>3
<1>4. ASSUME NEW t \in m_vecThreads, Tick(t)
      PROVE  \/ /\ i \in DOMAIN m_queTimerCommands
                /\ m_queTimerCommands[i] = Command("eCallback", o)
             \/ VecPlaces(o)' # {}
  <2>1. PICK s \in Seq(Commands) : Added(s) /\
              \A k \in 1 .. Len(s) : \E j \in DOMAIN m_vecTimers :
                s[k] = Command("eCallback", m_vecTimers[j])
    BY <1>4, TickEffect
  <2>2. CASE \E k \in 1 .. Len(s) : m_queTimerCommands'[i] = s[k]
    <3>1. PICK j \in DOMAIN m_vecTimers :
            Command("eCallback", o) = Command("eCallback", m_vecTimers[j])
      BY <2>1, <2>2
    <3>2. j \in VecPlaces(o)
      BY <3>1, CommandFacts DEF VecPlaces
    <3>3. VecPlaces(o)' = VecPlaces(o)
      BY <1>4, SamePlaces DEF Tick
    <3>4. QED
      BY <3>2, <3>3
  <2>3. QED
    BY <2>1, <2>2, AddedCommand
<1>5. ASSUME NEW t \in m_vecThreads, ThreadStep(t), ~Tick(t)
      PROVE  UNCHANGED m_queTimerCommands
  BY <1>5 DEF ThreadStep, TimerStep, WorkerStep, CountRead, CountWrite, TimerLoop, TimerWakes,
              Delete, TestTerminating, TestValid, BeginCallback, EndCallback
<1>6. ASSUME SetTerminating \/ SignalTimer \/ \E b \in BOOLEAN : DeleteThreads(b)
      PROVE  UNCHANGED m_queTimerCommands
  BY <1>6 DEF SetTerminating, SignalTimer, DeleteThreads
<1>7. ASSUME DropAll
      PROVE  i \in DOMAIN m_queTimerCommands /\ m_queTimerCommands[i] = Command("eCallback", o)
  BY <1>2, <1>7, DropAllEffect, CommandFacts
<1>8. ASSUME StopWorkers
      PROVE  i \in DOMAIN m_queTimerCommands /\ m_queTimerCommands[i] = Command("eCallback", o)
  BY <1>2, <1>8, StopEffect, CommandFacts
<1>9. CASE Client
  <2>1. PICK id \in IDs :
          \/ \E n \in Seconds, b \in BOOLEAN, c \in BOOLEAN : Set(id, n, b, c)
          \/ Drop(id) \/ Start(id)
    BY <1>9 DEF Client
  <2>2. CASE Drop(id)
    BY <1>3, <2>2
  <2>3. CASE ~Drop(id)
    <3>1. UNCHANGED m_queTimerCommands
      BY <2>1, <2>3 DEF Set, Start
    <3>2. QED
      BY <1>1, <3>1
  <2>4. QED
    BY <2>2, <2>3
<1>10. CASE \E t \in m_vecThreads : ThreadStep(t)
  BY <1>1, <1>4, <1>5, <1>10
<1>11. CASE Destructor
  BY <1>1, <1>6, <1>7, <1>8, <1>11 DEF Destructor
<1>12. QED
  BY <1>9, <1>10, <1>11 DEF Next

LEMMA BehindKept ==
  ASSUME TimerTypeOK, Ownership, Next, \A t \in m_vecThreads : ~Pop(t), NEW o \in STimers,
         NEW i \in 0 .. Len(m_queTimerCommands), DropBehind(i, o)
  PROVE  DropBehind(i, o)'
<1> DEFINE n == Len(m_queTimerCommands)
<1>1. n \in Nat /\ Len(m_vecTimers) \in Nat
  BY QueueType
<1>2. ASSUME VecPlaces(o)' = VecPlaces(o), DropPlaces(o)' = DropPlaces(o)
      PROVE  DropBehind(i, o)'
  BY <1>2 DEF DropBehind
<1>3. ASSUME NEW id \in IDs, NEW k \in Seconds, NEW b \in BOOLEAN, NEW c \in BOOLEAN,
             Set(id, k, b, c)
      PROVE  DropBehind(i, o)'
  <2>1. UNCHANGED m_queTimerCommands
    BY <1>3 DEF Set
  <2>2. CASE SetOld(id, k, b, c)
    BY <1>2, <2>1, <2>2, SamePlaces DEF SetOld
  <2>3. CASE SetNew(id, k, b, c)
    <3>1. PICK p \in STimers : NewTimer(p)
      BY <2>3, SetNewEffect
    <3>2. VecPlaces(p) = {}
      BY <3>1 DEF Ownership, Owned, NewTimer
    <3>3. VecPlaces(o)' # {} \/ VecPlaces(o)' = VecPlaces(o)
      BY <3>1, <3>2, SetNewMoves
    <3>4. DropPlaces(o)' = DropPlaces(o)
      BY <2>1, SamePlaces
    <3>5. QED
      BY <3>3, <3>4 DEF DropBehind
  <2>4. QED
    BY <1>3, <2>2, <2>3 DEF Set
<1>4. ASSUME NEW id \in IDs, Drop(id) PROVE DropBehind(i, o)'
  <2>1. PICK k \in 1 .. Len(m_vecTimers) : DropTakes(k)
    BY <1>4, DropEffect
  <2>2. /\ o = m_vecTimers[k] => DropPlaces(o)' = DropPlaces(o) \cup {n + 1}
        /\ o # m_vecTimers[k] =>
             (VecPlaces(o)' = {} <=> VecPlaces(o) = {}) /\ DropPlaces(o)' = DropPlaces(o)
    BY <2>1, DropMoves
  <2>3. i < n + 1
    BY <1>1
  <2> HIDE DEF n
  <2>4. QED
    BY <2>2, <2>3 DEF DropBehind
<1>5. ASSUME DropAll PROVE DropBehind(i, o)'
  <2>1. /\ VecPlaces(o) \subseteq 1 .. Len(m_vecTimers)
        /\ DropPlaces(o)' = DropPlaces(o) \cup
             {j \in n + 1 .. n + Len(m_vecTimers) : j - n \in VecPlaces(o)}
    BY <1>5, DropAllMoves
  <2>2. ASSUME NEW k \in VecPlaces(o) PROVE \E j \in DropPlaces(o)' : i < j
    <3>1. n + k \in n + 1 .. n + Len(m_vecTimers) /\ (n + k) - n = k /\ i < n + k
      BY <1>1, <2>1
    <3>2. QED
      BY <2>1, <3>1
  <2> HIDE DEF n
  <2>3. QED
    BY <2>1, <2>2 DEF DropBehind
<1>6. ASSUME NEW t \in m_vecThreads, ThreadStep(t) PROVE DropBehind(i, o)'
  <2>1. CASE Delete(t)
    BY <1>2, <2>1, SamePlaces DEF Delete
  <2>2. CASE Tick(t)
    BY <1>2, <2>2, QuietTick DEF OwnersStay
  <2>3. CASE ~Delete(t) /\ ~Tick(t)
    <3>1. OwnersStay
      BY <1>6, <2>3, QuietThread DEF ThreadStep, TimerStep, WorkerStep
    <3>2. QED
      BY <1>2, <3>1 DEF OwnersStay
  <2>4. QED
    BY <2>1, <2>2, <2>3
<1>7. CASE StopWorkers
  BY <1>2, <1>7, QuietStop DEF OwnersStay
<1>8. ASSUME \/ SetTerminating \/ SignalTimer \/ (\E id \in IDs : Start(id))
             \/ \E b \in BOOLEAN : DeleteThreads(b)
      PROVE  DropBehind(i, o)'
  <2>1. UNCHANGED <<m_vecTimers, m_queTimerCommands>>
    BY <1>8 DEF SetTerminating, SignalTimer, Start, DeleteThreads
  <2>2. QED
    BY <1>2, <2>1, SamePlaces
<1>9. QED
  BY <1>3, <1>4, <1>5, <1>6, <1>7, <1>8 DEF Next, Client, Destructor

LEMMA BehindAfterPop ==
  ASSUME TimerTypeOK, NEW t \in m_vecThreads, Pop(t), NEW o,
         NEW i \in 0 .. Len(m_queTimerCommands) - 1, DropBehind(i + 1, o)
  PROVE  DropBehind(i, o)'
<1> DEFINE n == Len(m_queTimerCommands)
<1>1. n \in Nat /\ DropPlaces(o) \subseteq 1 .. n
  BY QueueType DEF DropPlaces
<1>2. DropPlaces(o)' = {j \in 1 .. n - 1 : j + 1 \in DropPlaces(o)}
  BY DropsAfterPop
<1>3. VecPlaces(o)' = VecPlaces(o)
  BY SamePlaces DEF Pop
<1> HIDE DEF n
<1>4. ASSUME NEW j \in DropPlaces(o), i + 1 < j PROVE \E k \in DropPlaces(o)' : i < k
  <2>1. j - 1 \in 1 .. n - 1 /\ (j - 1) + 1 = j /\ i < j - 1
    BY <1>1, <1>4
  <2>2. QED
    BY <1>2, <2>1
<1>5. QED
  BY <1>3, <1>4 DEF DropBehind

LEMMA CallsBeforeDropStep ==
  ASSUME TimerTypeOK, Ownership, CallsBeforeDrop, Next
  PROVE  CallsBeforeDrop'
<1> SUFFICES ASSUME NEW i \in DOMAIN m_queTimerCommands', NEW o \in STimers,
                    m_queTimerCommands'[i] = Command("eCallback", o)
             PROVE  DropBehind(i, o)'
  BY DEF CallsBeforeDrop
<1>1. CASE \A t \in m_vecThreads : ~Pop(t)
  <2>1. CASE VecPlaces(o)' # {}
    BY <2>1 DEF DropBehind
  <2>2. CASE i \in DOMAIN m_queTimerCommands /\ m_queTimerCommands[i] = Command("eCallback", o)
    <3>1. i \in 0 .. Len(m_queTimerCommands)
      BY <2>2, QueueType
    <3>2. DropBehind(i, o)
      BY <2>2 DEF CallsBeforeDrop
    <3>3. QED
      BY <1>1, <3>1, <3>2, BehindKept
  <2>3. QED
    BY <1>1, <2>1, <2>2, CallsAfterStep
<1>2. ASSUME NEW t \in m_vecThreads, Pop(t) PROVE DropBehind(i, o)'
  <2>1. /\ Len(m_queTimerCommands) \in Nat /\ m_queTimerCommands' \in Seq(Commands)
        /\ Len(m_queTimerCommands') = Len(m_queTimerCommands) - 1
        /\ \A k \in 1 .. Len(m_queTimerCommands) - 1 :
             m_queTimerCommands'[k] = m_queTimerCommands[k + 1]
    BY <1>2, PopEffect
  <2>2. i \in 1 .. Len(m_queTimerCommands) - 1
    BY <2>1, LenProperties
  <2>3. i + 1 \in DOMAIN m_queTimerCommands /\ i \in 0 .. Len(m_queTimerCommands) - 1
    BY <2>1, <2>2, QueueType
  <2>4. m_queTimerCommands[i + 1] = Command("eCallback", o)
    BY <2>1, <2>2
  <2>5. DropBehind(i + 1, o)
    BY <2>3, <2>4 DEF CallsBeforeDrop
  <2>6. QED
    BY <1>2, <2>3, <2>5, BehindAfterPop
<1>3. QED
  BY <1>1, <1>2

\* Only Pop gives a worker a timer.
LEMMA StillHandled ==
  ASSUME TimerTypeOK, Next, NEW t \in m_vecThreads, ~Pop(t),
         at'[t] \in {"popped", "tested", "valid", "running"}
  PROVE  at[t] \in {"popped", "tested", "valid", "running"} /\ local'[t] = local[t]
<1>1. CASE Client \/ SetTerminating \/ SignalTimer \/ DropAll \/ StopWorkers
  BY <1>1, Quiet
<1>2. ASSUME NEW u \in m_vecThreads, ThreadStep(u), u # t
      PROVE  at'[t] = at[t] /\ local'[t] = local[t]
  <2>1. CASE CountRead(u) \/ CountWrite(u)
    BY <1>2, <2>1 DEF CountRead, CountWrite, Goto, TimerTypeOK
  <2>2. CASE TimerStep(u) \/ WorkerStep(u)
    BY <1>2, <2>2, OthersGoOn DEF GoesOn, Goto, TimerTypeOK
  <2>3. QED
    BY <1>2, <2>1, <2>2 DEF ThreadStep
<1>3. CASE CountRead(t) \/ CountWrite(t)
  BY <1>3 DEF CountRead, CountWrite, Goto, TimerTypeOK
<1>4. CASE TimerStep(t)
  <2>1. PICK place, value : Goto(t, place, value) /\ place \notin InRun
    BY <1>4, TimerThreadStays
  <2>2. QED
    BY <2>1 DEF Goto, TimerTypeOK, InRun
<1>5. CASE WorkerStep(t)
  BY <1>5 DEF WorkerStep, Delete, TestTerminating, TestValid, BeginCallback, EndCallback, Goto,
              TimerTypeOK
<1>6. ASSUME NEW b \in BOOLEAN, DeleteThreads(b) PROVE FALSE
  BY <1>6 DEF DeleteThreads
<1>7. QED
  BY <1>1, <1>2, <1>3, <1>4, <1>5, <1>6 DEF Next, ThreadStep, Destructor

LEMMA HandledBeforeDropStep ==
  ASSUME TimerTypeOK, HandlesATimer, Ownership, OneWorker,
         CallsBeforeDrop, HandledBeforeDrop, Next
  PROVE  HandledBeforeDrop'
<1> SUFFICES ASSUME NEW t \in m_vecThreads, at'[t] \in {"popped", "tested", "valid", "running"}
             PROVE  DropBehind(0, local[t])'
  BY DEF HandledBeforeDrop
<1>1. Len(m_queTimerCommands) \in Nat
  BY QueueType
<1>2. CASE \A u \in m_vecThreads : ~Pop(u)
  <2>1. at[t] \in {"popped", "tested", "valid", "running"} /\ local'[t] = local[t]
    BY <1>2, StillHandled
  <2>2. local[t] \in STimers /\ DropBehind(0, local[t])
    BY <2>1 DEF HandlesATimer, HandledBeforeDrop
  <2>3. 0 \in 0 .. Len(m_queTimerCommands)
    BY <1>1
  <2> DEFINE o == local[t]
  <2>4. DropBehind(0, o)'
    <3>1. ASSUME NEW p \in STimers, DropBehind(0, p) PROVE DropBehind(0, p)'
      BY <1>2, <2>3, <3>1, BehindKept
    <3>2. PICK p \in STimers : p = local[t]
      BY <2>2
    <3>3. DropBehind(0, p)'
      BY <2>2, <3>1, <3>2
    <3>4. local'[t] = p
      BY <2>1, <3>2
    <3>5. QED
      BY <3>3, <3>4 DEF DropBehind, VecPlaces, DropPlaces
  <2>5. QED
    BY <2>4
<1>3. ASSUME NEW u \in m_vecThreads, Pop(u) PROVE DropBehind(0, local[t])'
  <2>1. /\ at[u] = "worker" /\ 1 <= Len(m_queTimerCommands)
        /\ m_queTimerCommands[1] \in Commands
        /\ at' = [at EXCEPT ![u] = Handles(m_queTimerCommands[1].m_eCmd)]
        /\ local' = [local EXCEPT ![u] = m_queTimerCommands[1].m_psTimer]
    BY <1>3, PopEffect
  <2>2. u = t
    <3>1. ASSUME u # t PROVE at'[t] = at[t]
      BY <2>1, <3>1 DEF TimerTypeOK
    <3>2. QED
      BY <2>1, <3>1 DEF OneWorker, AtMostOne, InRun
  <2>3. PICK o \in STimers : m_queTimerCommands[1] = Command("eCallback", o)
                             /\ m_queTimerCommands[1].m_psTimer = o
    <3>1. at'[t] = Handles(m_queTimerCommands[1].m_eCmd)
      BY <2>1, <2>2 DEF TimerTypeOK
    <3>2. QED
      BY <2>1, <3>1, HandlesEffect
  <2>4. local'[t] = o
    BY <2>1, <2>2, <2>3 DEF TimerTypeOK
  <2>5. 1 \in DOMAIN m_queTimerCommands /\ 0 \in 0 .. Len(m_queTimerCommands) - 1
    BY <1>1, <2>1, QueueType
  <2>6. DropBehind(0 + 1, o)
    BY <2>3, <2>5 DEF CallsBeforeDrop
  <2>7. DropBehind(0, o)'
    BY <1>3, <2>5, <2>6, BehindAfterPop
  <2>8. QED
    BY <2>4, <2>7 DEF DropBehind, VecPlaces, DropPlaces
<1>4. QED
  BY <1>2, <1>3

\* What a worker handles is allocated: its eDropTimer is not even taken.
LEMMA HandledIsAllocated ==
  ASSUME HandlesATimer, Ownership, HandledBeforeDrop, NEW t \in m_vecThreads,
         at[t] \in {"popped", "tested", "valid", "running"}
  PROVE  heap[local[t]] # Free
BY DEF HandlesATimer, Ownership, Owned, HandledBeforeDrop, DropBehind

LEMMA LateOnceQuiet ==
  ASSUME LateOnce, UNCHANGED late,
         \A o \in STimers : heap'[o] # Free =>
           heap[o] # Free /\ (heap'[o].m_bValid => heap[o].m_bValid),
         \A t \in m_vecThreads : at'[t] = "valid" => at[t] = "valid" /\ local'[t] = local[t]
  PROVE  LateOnce'
BY DEF LateOnce

LEMMA LateOnceStep ==
  ASSUME TimerTypeOK, HandlesATimer, Ownership, OneWorker, HandledBeforeDrop, LateOnce, Next
  PROVE  LateOnce'
<1>1. ASSUME HeapKept, UNCHANGED <<late, at, local>> PROVE LateOnce'
  BY <1>1, LateOnceQuiet DEF HeapKept
<1>2. ASSUME UNCHANGED <<heap, late, at, local>> PROVE LateOnce'
  BY <1>2, LateOnceQuiet
<1>3. ASSUME NEW id \in IDs, NEW n \in Seconds, NEW b \in BOOLEAN, NEW c \in BOOLEAN,
             Set(id, n, b, c)
      PROVE  LateOnce'
  <2>1. UNCHANGED <<at, local>>
    BY <1>3 DEF Set, threadVars
  <2>2. CASE SetOld(id, n, b, c)
    BY <1>1, <2>1, <2>2, SetOldKeeps DEF SetOld
  <2>3. CASE SetNew(id, n, b, c)
    <3>1. PICK o \in STimers : NewTimer(o)
      BY <2>3, SetNewEffect
    <3>2. late'[o] = 0
      BY <3>1 DEF NewTimer, TimerTypeOK
    <3>3. \A p \in STimers \ {o} : late'[p] = late[p] /\ heap'[p] = heap[p]
      BY <3>1 DEF NewTimer, TimerTypeOK
    <3>4. QED
      BY <2>1, <3>2, <3>3 DEF LateOnce
  <2>4. QED
    BY <1>3, <2>2, <2>3 DEF Set
<1>4. ASSUME NEW id \in IDs, Drop(id) PROVE LateOnce'
  BY <1>1, <1>4, DropEffect DEF Drop, threadVars
<1>5. ASSUME NEW id \in IDs, Start(id) PROVE LateOnce'
  BY <1>1, <1>5, StartKeeps DEF Start, threadVars
<1>6. ASSUME NEW t \in m_vecThreads, BeginCallback(t) PROVE LateOnce'
  <2> DEFINE o == local[t]
             k == IF FALSE \in ReadValid(o) THEN 1 ELSE 0
  <2>1. at[t] = "valid" /\ o \in STimers /\ heap[o] # Free
    BY <1>6, HandledIsAllocated DEF BeginCallback, HandlesATimer
  <2>2. late[o] = 0
    BY <2>1 DEF LateOnce
  <2>3. k \in {0, 1} /\ (k = 1 => ~heap[o].m_bValid)
    <3>1. ReadValid(o) = {heap[o].m_bValid}
      BY <2>1 DEF ReadValid
    <3>2. heap[o].m_bValid \in BOOLEAN
      BY <2>1 DEF TimerTypeOK, STimer
    <3>3. FALSE \in ReadValid(o) => ~heap[o].m_bValid
      BY <3>1, <3>2
    <3> DEFINE untrue == FALSE \in ReadValid(o)
    <3>4. (untrue => k = 1) /\ (~untrue => k = 0)
      BY Zenon
    <3>5. untrue => ~heap[o].m_bValid
      BY <3>3
    <3> HIDE DEF k, untrue
    <3>6. QED
      BY <3>4, <3>5
  <2>4. late' = [late EXCEPT ![o] = late[o] + k] /\ heap' = heap
    BY <1>6 DEF BeginCallback
  <2>5. at'[t] = "running" /\ \A u \in m_vecThreads \ {t} :
                                at'[u] = at[u] /\ local'[u] = local[u]
    BY <1>6 DEF BeginCallback, Goto, TimerTypeOK
  <2>6. \A u \in m_vecThreads : at'[u] # "valid"
    BY <2>1, <2>5 DEF OneWorker, AtMostOne, InRun
  <2> HIDE DEF o, k
  <2>7. late'[o] = k /\ \A p \in STimers \ {o} : late'[p] = late[p]
    BY <2>1, <2>2, <2>3, <2>4 DEF TimerTypeOK
  <2>8. QED
    BY <2>3, <2>4, <2>6, <2>7 DEF LateOnce
<1>7. ASSUME NEW t \in m_vecThreads, TestValid(t) PROVE LateOnce'
  <2> DEFINE o == local[t]
  <2>1. at[t] = "tested" /\ o \in STimers /\ heap[o] # Free
    BY <1>7, HandledIsAllocated DEF TestValid, HandlesATimer
  <2>2. PICK b \in {heap[o].m_bValid} : Goto(t, IF b THEN "valid" ELSE "worker", o)
    BY <1>7, <2>1 DEF TestValid, ReadValid
  <2>3. UNCHANGED <<heap, late>>
    BY <1>7 DEF TestValid
  <2>4. /\ at'[t] = (IF heap[o].m_bValid THEN "valid" ELSE "worker") /\ local'[t] = o
        /\ \A u \in m_vecThreads \ {t} : at'[u] = at[u] /\ local'[u] = local[u]
    BY <2>2 DEF Goto, TimerTypeOK
  <2>5. late[o] # 0 => ~heap[o].m_bValid
    BY <2>1 DEF LateOnce
  <2> HIDE DEF o
  <2>6. QED
    BY <2>3, <2>4, <2>5 DEF LateOnce
<1>8. ASSUME NEW t \in m_vecThreads, ThreadStep(t), ~BeginCallback(t), ~TestValid(t)
      PROVE  LateOnce'
  <2>1. UNCHANGED late
    BY <1>8 DEF ThreadStep, TimerStep, WorkerStep, CountRead, CountWrite, TimerLoop, TimerWakes,
                Tick, Pop, Delete, TestTerminating, EndCallback
  <2>2. \A o \in STimers : heap'[o] # Free =>
           heap[o] # Free /\ (heap'[o].m_bValid => heap[o].m_bValid)
    <3>1. CASE Tick(t)
      BY <3>1, TickEffect DEF HeapKept
    <3>2. CASE Delete(t)
      BY <3>2 DEF Delete, TimerTypeOK
    <3>3. CASE ~Tick(t) /\ ~Delete(t)
      <4>1. UNCHANGED heap
        BY <1>8, <3>3 DEF ThreadStep, TimerStep, WorkerStep, CountRead, CountWrite, TimerLoop,
                          TimerWakes, Pop, TestTerminating, EndCallback
      <4>2. QED
        BY <4>1
    <3>4. QED
      BY <3>1, <3>2, <3>3
  <2>3. ASSUME NEW u \in m_vecThreads, at'[u] = "valid"
        PROVE  at[u] = "valid" /\ local'[u] = local[u]
    <3>1. CASE Pop(t)
      <4>1. /\ m_queTimerCommands[1] \in Commands
            /\ at' = [at EXCEPT ![t] = Handles(m_queTimerCommands[1].m_eCmd)]
            /\ local' = [local EXCEPT ![t] = m_queTimerCommands[1].m_psTimer]
        BY <3>1, PopEffect
      <4>2. Handles(m_queTimerCommands[1].m_eCmd) # "valid"
        BY <4>1, HandlesEffect
      <4>3. QED
        BY <2>3, <4>1, <4>2 DEF TimerTypeOK
    <3>2. CASE CountRead(t) \/ CountWrite(t) \/ TimerStep(t)
      BY <2>3, <3>2 DEF TimerStep, CountRead, CountWrite, TimerLoop, TimerWakes, Tick, Goto,
                        TimerTypeOK
    <3>3. CASE Delete(t) \/ TestTerminating(t) \/ EndCallback(t)
      BY <2>3, <3>3 DEF Delete, TestTerminating, EndCallback, Goto, TimerTypeOK
    <3>4. QED
      BY <1>8, <3>1, <3>2, <3>3 DEF ThreadStep, WorkerStep
  <2>4. QED
    BY <2>1, <2>2, <2>3, LateOnceQuiet
<1>9. CASE SetTerminating \/ SignalTimer \/ StopWorkers
  BY <1>2, <1>9 DEF SetTerminating, SignalTimer, StopWorkers, threadVars
<1>10. CASE DropAll
  BY <1>1, <1>10, DropAllEffect DEF DropAll, threadVars
<1>11. ASSUME NEW b \in BOOLEAN, DeleteThreads(b) PROVE LateOnce'
  <2>1. UNCHANGED <<heap, late>> /\ \A t \in m_vecThreads : at'[t] # "valid"
    BY <1>11 DEF DeleteThreads
  <2>2. QED
    BY <2>1 DEF LateOnce
<1>12. QED
  BY <1>3, <1>4, <1>5, <1>6, <1>7, <1>8, <1>9, <1>10, <1>11 DEF Next, Client, Destructor

LEMMA InitOneWorker == Init => WithOneWorker
<1> SUFFICES ASSUME Init PROVE WithOneWorker
  OBVIOUS
<1>1. \A t \in m_vecThreads : at[t] = "new"
  BY DEF Init
<1>2. SomebodyCounts /\ OneWorker
  BY <1>1 DEF Init, SomebodyCounts, OneWorker, AtMostOne, InRun
<1>3. CallsBeforeDrop
  BY DEF Init, CallsBeforeDrop
<1>4. HandledBeforeDrop /\ LateOnce
  BY <1>1 DEF Init, HandledBeforeDrop, LateOnce
<1>5. QED
  BY <1>2, <1>3, <1>4, InitGeneral DEF WithOneWorker

LEMMA StepOneWorker ==
  ASSUME Cardinality(m_vecThreads) <= 2
  PROVE  WithOneWorker /\ [Next]_vars => WithOneWorker'
<1> SUFFICES ASSUME WithOneWorker, [Next]_vars PROVE WithOneWorker'
  OBVIOUS
<1>1. General'
  BY StepGeneral DEF WithOneWorker
<1>2. CASE Next
  <2>1. SomebodyCounts' /\ OneWorker'
    BY <1>2, SomebodyCountsStep, OneWorkerStep DEF WithOneWorker, General
  <2>2. CallsBeforeDrop' /\ HandledBeforeDrop' /\ LateOnce'
    BY <1>2, CallsBeforeDropStep, HandledBeforeDropStep, LateOnceStep DEF WithOneWorker, General
  <2>3. QED
    BY <1>1, <2>1, <2>2 DEF WithOneWorker
<1>3. CASE UNCHANGED vars
  BY <1>1, <1>3 DEF vars, WithOneWorker, SomebodyCounts, OneWorker, CallsBeforeDrop,
                    HandledBeforeDrop, DropBehind, VecPlaces, DropPlaces, LateOnce
<1>4. QED
  BY <1>2, <1>3

LEMMA AlwaysOneWorker ==
  ASSUME Cardinality(m_vecThreads) <= 2
  PROVE  Spec => []WithOneWorker
BY InitOneWorker, StepOneWorker, PTL DEF Spec

\* One worker takes a timer's callbacks before its eDropTimer, so Run reads no STimer that
\* was deleted.
THEOREM OneWorkerUsesNothingDeleted ==
  ASSUME Cardinality(m_vecThreads) <= 2
  PROVE  Spec => []NoUseAfterDelete
<1>1. WithOneWorker => NoUseAfterDelete
  BY HandledIsAllocated DEF WithOneWorker, General, NoUseAfterDelete
<1>2. QED
  BY <1>1, AlwaysOneWorker, PTL

\* With one worker at most one callback of a timer is begun after Drop: the one whose test
\* of m_bValid came before.
THEOREM OneWorkerIsLateOnce ==
  ASSUME Cardinality(m_vecThreads) <= 2
  PROVE  Spec => []OneLateCallback
<1>1. WithOneWorker => OneLateCallback
  <2> SUFFICES ASSUME WithOneWorker, NEW o \in STimers PROVE late[o] <= 1
    BY DEF OneLateCallback
  <2>1. CASE late[o] = 0
    BY <2>1
  <2>2. CASE late[o] # 0
    <3>1. late[o] = 1
      BY <2>2 DEF WithOneWorker, LateOnce
    <3>2. QED
      BY <3>1
  <2>3. QED
    BY <2>1, <2>2
<1>2. QED
  BY <1>1, AlwaysOneWorker, PTL
=============================================================================

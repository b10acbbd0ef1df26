# Formal models of the `common` C++ library

`src/common` is a library of C++ wrappers for win32 and linux: locks, semaphores, threads, a
blocking queue, an object pool, a timer service, TCP and UDP channels, a serial port, value types,
conversions and a password store. This directory holds TLA+ models of the parts whose behaviour is
hard to test, the TLC configurations that check them on small instances, and proofs checked by
TLAPS. `PROJECT.json` maps every definition to the lines it models, and lists the runs, the mutants
that each property is known to catch, and the hazards the properties are for.

## 1. The system

| component | source | state | operations | used by |
|---|---|---|---|---|
| CMutex, CMultiLock | Lockable.h, .cpp | a mutex, a condition variable (linux) or a manual-reset event (win32), `m_eState`, `m_nWaiters` | Lock, Unlock, Wait, Pulse, PulseAll | everything below |
| CSemaphore | Lockable.h, .cpp | a `sem_t` or a handle; linux also a mutex, a count and the set of "common" semaphores registered with it | Signal, Wait, WaitForScope(any, all) | CThread, CTimer |
| CQueue | Queue.h | a `std::queue`, two counters of waiting threads | Push, Peek, Pop, PopEx, Clear | CTimer, CPool |
| CThread | Thread.h, .cpp | a handle, `m_bTerminated`, a semaphore | constructor, Join, Resume, Suspend, Terminate, destructor, ThreadEntry | CTimer |
| CTimer | Timer.h, .cpp | timers, threads, a queue of commands, `m_bTerminating` | Set, Drop, Start, destructor; a counting thread and workers | clients |
| CPool, CPoolElement | Pool.h | a queue of resources; the resource an element holds | Get, Put, Pop; destructor of an element | clients |
| CNetTcp, CNet | CNetTcp.h, CNet.h | sockets, `connected`, `s_out`; `accpt` and `addr` of the last connection | send, setDefaultDestination, setReceiveEvent, receive, getBlock, getUnBlock | clients |
| smart_ptr, const_smart_ptr | smart_ptr.h | a pointer and a shared count | construction, copy, assignment, free, destruction | clients |
| CPasswordKeeper, CPasswordArray | PasswordKeeper.*, PasswordArray.* | login, password and key, encrypted | SetData, GetLogin, GetPassword, operator=, Free, SaveToRegistry, LoadFromRegistry | clients |
| conversions | Common.h, .cpp | none | ToHex, FromHex, ToBase64, FromBase64, itoa and small helpers | clients |
| CComPort | ComPort.* | a handle, the last error; in the driver a queue of bytes and a recorded event | Open, CheckComPorts, SetParams, Read, Write, Flush, BitCmd, destructor | clients |
| CNetUdp, CNetConnect | CNetUdp.h, CNet.h, CNetConnect.h | a socket per direction, `out`, `addr` of the last datagram | send, setDefaultDestination, setReceiveEvent, receive, get | clients |
| CVariant | Variant.* | a text on the heap and two numbers | construction, copy, `operator =` of six kinds, destruction | clients |
| CError | Error.* | one map from thread ids to stack traces | RETHROW, STACK_TRACE; texts of system errors | all |
| CLogger | Logger.* | level, method, a FILE | Init, Log, LogLine, destructor | clients |
| auto_array, CMLString, CRegistry, CSocket | auto_array.h, MLString.*, Registry.*, CSocket.* | a value or a handle | conversions, input and output | clients |
| CDataCache | DataCache.* | none: the file is commented out | | |
| segvcatch | segvcatch.*, *-signal.h | third-party | | |

How they interact: a CTimer starts CThreads that share one CQueue; the CQueue is a monitor around a
CMultiLock; the timer's counting thread sleeps in a CSemaphore, and its destructor waits for all
threads through the semaphores of the CThreads. A CPool is a CQueue whose elements return by
destructors. Callbacks go from a CTimer worker or a CNetTcp receive thread to the client, on that
thread, and may call back into the object.

What is hard here:

* **one condition for two purposes**: readers and writers of a CQueue wait on the same condition, and
  counters decide whether a pulse is sent at all;
* **two platforms in one class**: the event of win32 and the condition variable of linux behave
  differently, and the code around them differs;
* **state used without its lock**: `m_nThreadsStarted`, `m_bValid` and `m_Callback` of CTimer,
  `m_nInitialCnt` of CSemaphore, `m_bTerminated` and `m_hHandle` of CThread, `accpt` and `addr` of
  CNetTcp and CNetUdp;
* **an event that stands for several things**: EV_RXCHAR of the serial port for any number of bytes,
  read or not; an entry of the map of stack traces for every thread that has the id in turn;
* **who deletes what, and when**: timers handed from list to queue to worker, common semaphores,
  CThread objects whose thread is still in its last lines, counts of smart_ptr, socket handles;
* **shutdown**: a destructor against threads that are in every possible place.

### Properties that make each part correct

* CQueue: callers see a bounded FIFO queue; no wake-up is lost; whoever can be served is served; the
  counters and the mutex are exact.
* CTimer: each timer is freed once, by one owner, after its last use; the destructor comes to its end;
  the clock is bounded.
* CThread: a joined object can be deleted; Join tells the truth and returns; the handle is closed once.
* CSemaphore: no registration outlives its semaphore; a chosen waiter wakes.
* CPool: a resource has one user; putting back does not block.
* CNetTcp: the callback is told the right host; no connection is forgotten; sockets do not leak and are
  not confused.
* smart_ptr: alive as long as held, deleted with the last pointer.
* conversions, passwords: what is written can be read.
* CComPort: no reader sleeps beside a byte; every handle has an owner that closes it.
* CNetUdp: the callback is told the right host. CError: a trace is that of its own exception.
* CVariant: the numbers of an object are what its text reads as, and no text has two owners. CLogger: a
  message goes where the last Init wants it, and nowhere else.

## 2. Modules

| module | models | state and actions |
|---|---|---|
| `MultiLock` | CMutex, CMultiLock | `m_hLock`, `m_eState`, `m_nWaiters`, `m_hEvent` as in the code; `waiting[t]` is where a thread is inside Wait. Operators, one per piece of Wait, Pulse and PulseAll and per platform; a client module conjoins them |
| `Queue` | CQueue (EXTENDS MultiLock) | the members of CQueue; `pc`, `op`, `arg`, `result` are the calls in progress. `Call`, `Acquire`, `MustWait`, `Waits`, `Resume`, then one action per method body |
| `BlockingQueue` | what CQueue promises | the queue and the calls; each call takes effect in one step. `Queue` implements it under `items <- m_queData`, `Capacity <- m_nMaxSize` |
| `Timer` | CTimer, its workers and destructor | members by name; `heap` says what is at each address of an STimer; `at[t]` is where a thread is. A section under `m_Lock` is one action, each unlocked read one of its own |
| `TimerClock` | the arithmetic of CTimer::Timer | unsigned tick counts below 2 * `Half` (2^31 in the code), `nTicks`, `nTimeToSleep` |
| `Pool` | CPool, CPoolElement | `m_quePool` (as BlockingQueue promises it), live elements, destructors in progress |
| `Semaphore` | CSemaphore on linux | values, counts, mutexes and sets; Signal, Wait and WaitForScope step by step, the unlocked `m_nInitialCnt++` as a read and a write |
| `Thread` | CThread, both platforms | the object's members, the system's view of the thread, owner and thread interleaving |
| `NetReceive` | receiving half of CNetTcp | backlog, `accpt`, `addr`; select/accept, recvfrom, callback as separate steps of each thread and of get() |
| `NetSend` | sending half of CNetTcp | handles of the process, `s_out`, `connected`; one call one step, failing wherever it may |
| `SmartPtr` | smart_ptr, const_smart_ptr | `m_pValue`, `m_pnPtrCnt`, one action per member function |
| `Codecs` | ToHex ... FromBase64, itoa, Encrypt, Decrypt | operators on sequences of numbers, and a program that writes a value and reads it back |
| `PasswordKeeper` | CPasswordKeeper, CPasswordArray | data tagged with the key it is encrypted with, `undefined` for a step C++ leaves undefined |
| `ComPort` | CComPort, several objects on one port, and its driver | `inQue` and `event` of the driver, `m_hPort`; Read is four steps (wait, woken, counted, read), the other calls one each, beside it |
| `NetUdp` | CNetUdp | datagrams that are lost, doubled and reordered; recvfrom and the naming of the sender are separate steps of each receiver |
| `StackTrace` | the traces of CError | exceptions that pass through nested calls of threads whose ids are used again |
| `Variant` | CVariant | texts as buffers of a heap, `m_szVal`, `m_nVal`, `m_dVal`; a value is a string, an integer, a double or a bool, a text is what `_atoi64` and `atof` read from it; one action per operation |
| `Logger` | CLogger | members by name; where the last message or separator line went, and where the last Init wants it |
| `MCQueue`, `MCTimer`, `MCPool`, `MCSemaphore`, `MCNetReceive` | | values of the constants for TLC |
| `MCParts` | | the parts that are small and share nothing: SmartPtr and ComPort, and INSTANCEs of NetSend, Codecs, PasswordKeeper, TimerClock, StackTrace, Variant, NetUdp and Logger. A behaviour takes one of `Parts` and runs it alone |
| `QueueProofs`, `TimerProofs`, `ThreadProofs`, `SemaphoreProofs`, `PoolProofs`, `NetReceiveProofs` | | theorems about the module of that name |
| `ChannelProofs` | | theorems about ComPort, NetSend, NetUdp and Logger |
| `ValueProofs` | | theorems about SmartPtr, Variant, PasswordKeeper, StackTrace, TimerClock and Codecs |

Composition: `Queue` is built on `MultiLock`. `Timer` and `Pool` use the queue at the level of
`BlockingQueue`, which `Queue` is proved to implement, and not its mutex; `Timer` and `Thread` use a
semaphore as a count, which is what win32 gives; how the linux semaphore behaves is `Semaphore`.

Conventions: identifiers are those of the source. A constant described as "bound" limits the model
and does not exist in the code. Auxiliary variables (`late`, `shared`, `stale`, ...) record history
for properties; no guard reads them, but for the bound on `elapsed`. Operators marked "mutant of" are not part of a specification: each is a plausible bug,
and the property it belongs to in `PROJECT.json` fails when it takes the place of the definition.

## 3. Runs

| run | what it shows | bounds |
|---|---|---|
| `queue_win32` (QueueWin32.cfg) | The counters are exact, the mutex has one owner and callers see a bounded FIFO queue, also when a thread runs between the two halves of SignalObjectAndWait | 4 threads, 5 methods, size 2, 2 values: a full and an empty queue, two waiting on each side and every pair of methods at once |
| `queue_win32_live` (QueueWin32Live.cfg) | With an atomic SignalObjectAndWait nobody sleeps while what it waits for is there; no deadlock; Pop and Push are served when they can be, and PopEx always returns | 3 threads that may all wait alike or for opposite things, size 1 |
| `queue_linux` (QueueLinux.cfg) | linux with spurious wake-ups, one reader, unlimited (as CTimer with one worker uses it): no lost wake-up and no deadlock | 1 reader, 2 writers, up to 3 items queued |
| `queue_linux_lost` (QueueLinuxLost.cfg) | **violation**: on linux a second reader sleeps beside an item (section 6) | 2 readers, 1 writer |
| `timer` (TimerOneWorker.cfg) | The default CTimer(1): one owner of each timer, no use after delete, at most one late callback, no lost shutdown signal | counting thread and worker, 2 addresses, 1 ID used again and again, periods 1 and 2, 2 queued commands; threads and addresses are symmetric |
| `timer_live` (TimerLive.cfg) | CTimer(2): the destructor returns before the timeout of WaitForScope; a dropped timer is deleted | 3 threads, 1 timer |
| `pool` (MCPool.cfg) | One user per resource, a destructor that never blocks | 2 threads, 2 resources, 2 elements each, copies included |
| `semaphore` (Semaphore.cfg) | No common semaphore is deleted while a set names it, unless its wait timed out; a chosen waiter wakes | 3 threads, of which two wait for any and two signal, 2 semaphores, with and without timeouts |
| `thread` (Thread.cfg) | A joined object can be deleted (win32), Join tells the truth and returns, the handle is closed once | one object, both builds, an owner that calls anything in any order |
| `net_receive` (NetReceive.cfg) | Right host, nothing forgotten, everything accepted in the end, for one user of the object | 2 connections of different hosts, 2 receive threads and get(), 2 pieces per connection |
| `parts` (Parts.cfg) | Ten parts, each on its own: smart_ptr; two senders that share handles; the conversions; two password keepers; the clock of the timer (the sleep is in 0 .. TIMER_PRECISION, at most two ticks per TIMER_PRECISION, from every start, so across the wrap); a serial port (no reader sleeps beside a byte, every handle is owned); stack traces; variants; UDP; a logger | 3 pointers on 2 objects; 2 senders, 2 hosts, 3 handles; all texts up to 4 of 4 chosen bytes, keys up to 3 bits, 86 numbers in bases 2, 10, 16, 35 and in the refused 0 and 36; 2 keepers, a short and a long text, 2 keys; 6-bit clock, precision 5, time 30; 2 objects and CheckComPorts on a port with 2 bytes queued; 2 threads, 2 ids, 2 kinds of exceptions, calls 2 deep; 2 variants, 3 buffers, an integer beyond int, -1.5 and true, on both platforms; 2 hosts, 2 messages, a receive thread and get(); 2 files, all levels and methods |
| `comport_read` (ComPortRead.cfg) | **violation**: a Read on win32 answers -1 although nothing failed (section 6) | the port of `parts` |

Why the bounds are enough: nearly every hazard needs two or three actors at two or three places, and
each instance holds one actor more than the code's own pairing (reader, writer, and a third that
disturbs them). Sizes reach both ends: the queue is empty and full, addresses and handles are reused,
clocks wrap. Every property is known to fail for a mutant within these bounds. The safety properties
are also proved for every bound (section 4).

`CHECK_DEADLOCK FALSE` stands where the program really may stop: clients that have nothing more to
call (Pool, Thread, Parts), waiters whom nobody signals (Semaphore), a clock at its bound (Parts), a CQueue with readers and no writer (`queue_win32`, whose split
SignalObjectAndWait does lose wake-ups), hosts that are done, a destroyed timer, and behaviours that
end in an undefined step.

### Fairness

* Queue: a thread that owns the mutex, or is between the halves of SignalObjectAndWait, runs (weak);
  a thread that competes for the mutex gets it if it is free again and again (strong). A mutex of
  win32 is granted first come first served, which gives the latter; pthreads promise it of no default
  mutex, and no run depends on it there. No thread need call a method, and no unpulsed wake-up need
  happen but one: on win32 the wait of PopEx has a timeout, so WakeUnpulsed is weakly fair for it. On linux
  that timeout never comes (Lockable.cpp:264).
* Timer: threads run, callbacks return (weak, per thread), and a destructor that has been called
  goes on. The timeout of WaitForScope is given no fairness: the destructor must return without it.
* Thread: the system runs the thread, Run returns, a wait for a signalled semaphore ends.
* NetReceive: threads run, and a host that has connected sends or hangs up. CNetTcp::send, the host
  this receiver is made for, connects and sends in one call.

## 4. Proofs

Every safety property that a run checks is proved for all values of the constants, under the
assumptions named in the modules (`QueueAssumption`, `TimerAssumption`, ... and for the small parts
those that MCParts assumes): where it matters sets are finite, special values are not ordinary ones, and
bounds are natural numbers. Nothing is assumed about the size of a set unless it is said below. A proof
has one lemma or step per action, and ends in the theorem about the property.

**QueueProofs** (Queue)

* `TypeCorrect`, `CountersCorrect`, `OwnershipCorrect`: both platforms. The inductive invariant is
  `IndInv == QueueTypeOK /\ WaiterCounts /\ CallsConsistent`. None of the three is inductive alone:
  that a counter stays a natural number needs WaiterCounts (it counts the thread that leaves), that
  WaiterCounts survives needs CallsConsistent (the thread that leaves is where its call says), and
  CallsConsistent needs the types.
* `SleepersAreJustified`: win32 with an atomic SignalObjectAndWait. Added to IndInv is `EventInv`: a
  sleeper's event is not set, and whatever a sleeper waits for is not there. The step that matters is
  a body that makes the condition true: it sends a pulse because WaiterCounts says the sleeper is
  counted, and a pulse wakes every sleeper of a manual-reset event.
* `OneReaderSleepsJustified`: linux, no limit, one reader, any number of writers, spurious wake-ups.
  Added is `LinuxInv`: only the reader waits, and beside an item it is awake and will find the pulse in
  `m_eState` (PulseInv); nobody else can have taken it. `NoWakeupIsLost` joins the two: its hypothesis is one or the other,
  and outside it the code does lose wake-ups (`queue_linux_lost`; on win32 with a split
  SignalObjectAndWait).
* `ImplementsAbstractQueue`: both platforms. Each body maps to the action of BlockingQueue of the same
  name (PopEx to Pop or GiveUp), every other step to a stutter.

**TimerProofs** (Timer, any number of threads, timers and periods)

* `NeitherLeaksNorDeletesTwice`. OwnedOnce counts owners; the invariant, Ownership, has them as sets: the places
  in m_vecTimers, the eDropTimers in the queue, the workers that delete. Each has at most one member,
  at most one of them has any, and what has an owner is allocated.
* `SignalIsKept`. The counter of started threads only falls behind (CounterBehind: whoever has read it
  since an increment was lost will write a number that is too small as well), so that without a lost
  increment one thread counts (OneCounts), and the signal of the destructor stays for it (SignalStays).
* `OneWorkerUsesNothingDeleted`, `OneWorkerIsLateOnce` assume two threads at most, that is CTimer(1):
  with two workers the code violates both (section 5). Added are that some thread counts and is
  never a worker (SomebodyCounts, so that two threads mean one worker), that the eDropTimer of a timer is
  behind its eCallbacks (CallsBeforeDrop, HandledBeforeDrop), and that nothing is begun after a late call (LateOnce).

**ThreadProofs** (Thread, both builds, any methods of the owner)

* `JoinTellsTheTruth`, `JoinedThenDeleted` for an object used for one thread: only the thread sets
  m_bTerminated, after Run (TerminatedTruly), and on win32 its signal is its last step (Signalled).
* `HandlesClosedOnce` for one that is not terminated either, but by the destructor: until the
  destructor is in Terminate there is one signal, the thread's own (OneSignal), a Join that took it
  found the end (JoinedOnce), and the handle is open until Join (linux) or the thread (win32)
  closes it (HandleKept).

**SemaphoreProofs** (Semaphore, any threads, semaphores and sets to wait for)

* `NobodyDangles`. The loop that unregisters goes through the same sequence as the one that registers:
  a common semaphore is in the sets from its place on, and in no other (OnlyRegistered).
* `TheChosenIsWoken`. A Signal holds the mutex of its semaphore while it chooses, so its choice stands
  (MutexHeld, ChoiceStands; that the choice is one thread needs a least element, hence well-founded
  induction). The unlocked `m_nInitialCnt` is 0 as long as the waiter has no signal and nobody has
  chosen it (CountTrue): the read that decides about sem_post therefore finds 0 the first time.

**PoolProofs** (Pool)

* `LentOnce`. ExclusiveUse is an inequality; the invariant, OneUser, says of a resource whose element was never
  copied that it is popped, in the pool, in one thread's element or in one destructor, once.
* `PuttingBackNeverWaits`. With OneUser the pool has no resource twice and not the one that is being put
  back, so it is smaller than the number of resources.

**NetReceiveProofs** (NetReceive, any hosts, connections, pieces and threads)

* `TheSenderIsReal`, `NobodyIsSkipped`. While `~shared` one user is active, and accpt and addr are of the same
  connection from its accept to its callback (OwnMembers); a blocking user is done with every other
  connection (OthersDone). Fresh says that a connection is accepted once.

**ChannelProofs** (ComPort, NetSend, NetUdp, Logger)

* `PortsAreOwned`. Ownership adds who may have a handle: no two objects and not
  CheckComPorts beside them, win32 opens the port once, and only a live object with an open handle is in
  Read. A step opens a handle (it was nobody's: everybody's handle is open), closes one (its only owner has
  it, and is not in Read), or leaves handles alone.
* `ReadersSleepOnlyWhenEmpty`. SleepsOnlyWhenEmpty says nothing of a reader that is between its wait and its
  ReadFile, so it does not survive the end of that reader's call. Added is Knowledge: for bytes in the queue
  there is a recorded event, or a reader past its wait that has counted all of them or is still to count, or
  they are early; and nothing is recorded while somebody waits. The reader that knows cannot be the one
  that waits, and Ownership leaves room for one reader.
* `NoSocketIsLost`, `ConnectionsAreOwn`: OpenIsConnected, the owner of an open socket believes that it
  is connected, and whoever believes that has a handle in s_out.
* `SendersAreReal`: NamedIsReal, a receiver's addr is the sender of what it got until it is overtaken.
* `MessagesGoWhereAsked`: SetAsAsked, level, method and file are those of the last Init that returned. On
  linux it says nothing of separator lines and of eLogToFile (section 5).

**ValueProofs** (SmartPtr, Variant, PasswordKeeper, StackTrace, TimerClock, Codecs)

* `PointersTyped`, `HeldObjectsLive`, `NoObjectLeaks`. Sound says of each object that
  the count is at least the number of owners (exactly that number unless a pointer was assigned one
  to the same object) and that an object is alive while its count is positive. It is split by what a
  step does to one object: it leaves it alone, a pointer joins, a pointer leaves, it is counted again, or a shared
  pointer is freed.
* `TextsHaveOneOwner`, `TextsReadAsNumbers`: no two objects have one buffer (TextsOwned), and a text
  that was never written belongs to a torn object (UnwrittenAreTorn); both until a const object was copied.
  TextOfReads shows of every value that is not Odd that its text reads as its numbers.
* `SecretsAreKept`: SecretsConcealed, each secret is encrypted with the key that is stored beside it.
* `TracesAreOwn`: MapIsReal, the map has under an id what the exception of its thread has passed, but
  for ids whose last trace nobody took.
* `SleepIsBounded`, `NoTimerIsTwiceAsFast`: OnTime, a lower bound of the time elapsed before each tick,
  which is inductive where the two properties are not; the unsigned differences are exact because the delays together are less
  than half the range (ClockAssumption).
* `TextsComeBack`, `SecretsComeBack`: for data and secrets of any length (a secret of one character
  excepted), any byte, any key that is not empty, any base that itoa accepts (2 to 35), any int but the least. The conversions are recursive
  functions. That such a function has the values its definition says is proved here
  (RecursionExists), and what holds for 0, and for k when for k - 1, holds for all up to a bound (AllUpTo):
  both take the least element of the set of counterexamples. Then HexBack and Base64Back are about one group of
  digits, NumberBack about `x = (x \div b) * b + (x % b)`, and SecretBack pairs each step of Decrypt with
  the step of Encrypt that it undoes (MixTwice, OppositePlaces).

Only model-checked: liveness, which needs ENABLED (PopServed, PushServed, PopExReturns, DestructorReturns,
DroppedIsDeleted, JoinReturns, AcceptedInTheEnd). `queue_win32_live`, `timer_live`, `thread` and
`net_receive` check it. Also proved are the type invariants, which no run checks: they are the first
conjunct of each inductive invariant.

## 5. What a property does not say

* NoDanglingWaiter excepts a WaitForScope(any) that timed out: on linux it throws past the loop that
  unregisters, and fails. The model stops at the first access to the deleted semaphore.
* NoUseAfterDelete and OneLateCallback are checked for one worker. With two, one worker may delete a timer
  while the other calls its callback.
* JoinedDeleteIsSafe is for win32. On linux Signal goes on to the mutex and the set of the semaphore
  after `sem_post` has let the joiner go.
* DestructorReturns assumes that no increment of `m_nThreadsStarted` is lost; with a lost one two
  threads count and a worker is missing.
* JoinReturns speaks of a running thread: a second Join, or one after Terminate, waits for ever.
* The receive properties speak of one user of the object; two overwrite each other's `accpt` and `addr`.
* ConnectedIsOwn speaks of a process in which no stale `s_out` has hit another object's handle.
* NothingLeaks excludes an object to which a pointer was assigned another pointer to the same object.
* SecretsRoundTrip and SecretsKept exclude texts of one character.
* SleepsOnlyWhenEmpty leaves out bytes that came between CreateFile and SetCommMask, and an object whose
  ReadFile was left pending because a Flush came before it.
* PortsOwned leaves out handle 0 of linux, which the code takes for no port.
* TraceIsOwn leaves out a trace that mixes with one nobody took: an exception caught without STACK_TRACE
  leaves its text in the map for the next one.
* TextReadsAsNumbers leaves out an object that was assigned to itself, one that had a text and was assigned
  one without, and every object once a const object was copied: the copy shares its text. It also leaves
  out the values whose text does not read as their numbers (Odd): true; a double written with an exponent,
  with more than 20 characters, or beyond int; and on linux an integer beyond int.
* FromIsReal leaves out a receiver that another overtakes between recvfrom and inet_ntoa. LogsWhereAsked leaves out what follows an Init
  that threw; on linux also eLogToFile and every separator line.

## 6. What modelling showed

Two disagreements have a run:

* **A lost wake-up on linux** (`queue_linux_lost`, Lockable.cpp:274). Two Pushes pulse twice before the
  first woken reader has the mutex. It resets `m_eState` to eNone, since the last pulse was a Pulse; the
  second woken reader finds eNone and sleeps again, beside an item.
* **An answer of -1 without an error** (`comport_read`, ComPort.cpp:241). EV_RXCHAR is recorded for a byte
  that comes while nobody waits. If the byte is gone when the event is used up (a Flush, or a Read that
  took all there was), ClearCommError counts 0, ReadFile is skipped, and Read answers -1 with the error
  number the thread had left, also through ReadChar, of which ComPort.h:67 says "returns byte or -1 if
  error occurs".

Observed while reading and modelling; the model has the behaviour, no property claims the contrary:

* Lockable.cpp:264, 274: after a Clear that wakes several, `m_eState` stays ePulseAll until the last of
  them has left, and a thread that waits again meanwhile spins with the mutex held.
* Lockable.cpp:258: if the halves of SignalObjectAndWait may be separated, a pulse and a reset fit in
  between and a wake-up is lost. FIFO order is not affected.
* Lockable.cpp:264: `if (nTimeout = INFINITE)` assigns; on linux PopEx never times out.
* Lockable.cpp:125: sem_timedwait reports ETIMEDOUT, the code expects EAGAIN: a timed Wait throws on linux.
* Lockable.cpp:197: WaitForScope(all) looks at the answer of the last semaphore only.
* Lockable.cpp:210: WaitForScope(any) does not look at semaphores that were signalled before.
* Timer.cpp:101: Set gives bAutoRestart in the place of bAutoStart; a new timer always starts and
  always restarts, with period 0, which stops it, if bAutoRestart is false.
* Timer.cpp:84: the wait is counted as work, so every second wait is skipped: timers run twice as fast.
* smart_ptr.h:19: an assignment between two pointers to one object counts it twice; it leaks.
* PasswordKeeper.cpp:36: a secret of one character encrypts to a byte of the key and is lost.
* PasswordKeeper.cpp:129: SaveToRegistry does not move past the login; the size of the password
  overwrites it. PasswordKeeper.cpp:142: LoadFromRegistry asks for the size of the value and never
  reads the value. PasswordArray.cpp:62-68: SaveToRegistry saves through a keeper with an empty key, which is a
  remainder modulo 0.
* CNetTcp.h:113, 135, CNet.h:89-90: a failed send leaves a closed handle in `s_out`, which a later call closes again.
* CNetTcp.h:222, 233: with UNBLOCK, get accepts a connection, finds nothing to read unless the host was faster,
  and closes it: what the host sends then is lost. CNetTcp.h:265: with BLOCK, a silent host keeps a receive
  thread for good.
* ComPort.cpp:98: GetLastError ends the text one byte behind the buffer.
* ComPort.cpp:149, 212: on linux SetParams always answers false, so that Open returns no object with a
  port; the one handle an object can keep there is 0, whose parameters are not set.
* ComPort.cpp:111: bytes that come before SetCommMask have no event; a Read sleeps beside them until the
  next one. ComPort.cpp:297: `eFlushMethod | eFlushInData` is never 0, every Flush on win32 clears both
  directions. ComPort.cpp:306: a Flush that worked records an error, one that failed records none.
* ComPort.cpp:336: BitCmd passes its enumerator on in the place of the command: eCLRDTR sends XOFF, and
  eSETDTR nothing. ComPort.h:69 says WriteChar returns 0 on success; it returns what Write does.
* CNetUdp.h:138: a multicast object has no socket. CNetUdp.h:201: get returns a reference to a local.
  CNetUdp.h:212: every setReceiveEvent leaves one more thread receiving. CNetUdp.h:185: select is called with
  a timeout of 0 and its answer is not looked at.
* Variant.cpp:21: the text an object had is lost in an assignment; Variant.cpp:16: it stays if the other has
  none. Variant.cpp:68: `(int)dVal` is undefined beyond int. Variant.cpp:72: "%.20g" of 0.1 has 22
  characters; on win32 the 21 bytes then end without a 0, on linux the text is cut, with the exponent of
  others. Variant.cpp:81: "true" reads as 0 beside the number 1. Common.cpp:231: on linux the text of an integer
  beyond int is that of its low half. Variant.h:13-14: a const object is copied by the constructor of the compiler, and both delete the
  text.
* Error.cpp:107: on linux GetStackTraceMap returns nothing.
* Logger.cpp:76: on linux m_hFile is never set, so eLogToFile logs nothing; Logger.cpp:143: nor does LogLine,
  with any method: the syslog of lines 148-154 is not reached, also for the two lines at the end of Init. Logger.cpp:53: the file of an
  earlier Init stays open.

## 7. Plan

Done, in this order: Queue with MultiLock and BlockingQueue, and their proofs; Timer and TimerClock;
Pool; Semaphore; Thread; NetReceive and NetSend; SmartPtr and its proofs; Codecs; PasswordKeeper; ComPort
and its proofs, StackTrace, Variant, NetUdp and Logger; a timeout for PopEx; the proofs of every safety
property the runs check.

Next, by value: what of a property holds without its exceptions. Timer with more workers (what of
NoUseAfterDelete remains if Set and Drop are not called while a callback is queued); the linux Queue with a
size and one reader and one writer; an abstract specification of CPool (resources that are lent and come
back), which Pool would implement while no element is copied.

## 8. Not modelled

* CRegistry, CMLString and CSocket pass things on to the system, are tables, or are stubs; auto_array is
  one pointer whose copy moves it; CDataCache is commented out; segvcatch is third-party code; CNetConnect
  chooses between two classes.
* The helpers of Common.cpp on strings and file names keep no state; lltoa, itoa for numbers that fit an
  int and itoa of the low half for others, is in Variant, in base 10.
* The fields of CTimerCallback (Timer.cpp:96), which Set writes under the lock and a worker reads without
  it: a call through a torn pair is undefined, and nothing can be stated after it.
* Receiving over TCP: a select that fails (CNetTcp.h:276), which it does not on an open socket, and a
  connection that is reset, where pieces that have arrived are dropped: NothingSkipped does not hold of those.
* Stopping the process with Suspend on linux; deleting a CNetTcp or CNetUdp whose receive thread runs, which
  nothing stops; two threads at once in the unlocked map of CError.

------------------------------- MODULE Thread --------------------------------
(***************************************************************************)
(* CThread (Thread.h, Thread.cpp): an object that owns a thread, and the   *)
(* thread, which writes to the object when Run has returned.  One owner    *)
(* calls the methods and deletes the object; the steps of the two          *)
(* interleave.  A handle of the system is open, then closed; closing it    *)
(* again is an error.  m_Semaphore is reduced to its count (see Semaphore).*)
(***************************************************************************)
EXTENDS Naturals

CONSTANTS
  Builds,      \* the branches of the #ifdefs: TRUE for win32, FALSE for linux
  Calls,       \* the methods the owner calls besides the constructor and delete
  MaxSignals   \* bound: Terminate does not signal beyond this count

ASSUME ThreadAssumption ==
  /\ Builds \subseteq BOOLEAN
  /\ Calls \subseteq {"Resume", "Suspend", "Join", "TimedJoin", "Terminate"}
  /\ MaxSignals \in Nat

VARIABLES
  Win32,          \* the branch that was built; no step changes it
  owner,          \* where the owner is
  deleting,       \* it is in the destructor
  at,             \* where the thread is
  os,             \* what the system knows of the thread
  handle,         \* the handle of the system, on linux the right to join
  m_hHandle,      \* TRUE: the member holds it
  m_bTerminated,
  m_Semaphore,    \* its count
  result,         \* what Join last answered
  joined,         \* auxiliary: a Join has seen the end of the thread
  restarted,      \* auxiliary: Resume has started a thread again
  terminated,     \* auxiliary: Terminate was called
  early,          \* auxiliary: the thread ended before the constructor had its handle
  closedTwice     \* auxiliary: a handle was closed, or a thread joined, again

system == <<os, handle>>
members == <<m_hHandle, m_bTerminated, m_Semaphore>>
ghosts == <<joined, restarted, terminated, early, closedTwice>>
vars == <<Win32, owner, deleting, at, system, members, result, ghosts>>

\* "construct"  not yet constructed      "terminate"  in Terminate
\* "assign"     CreateThread returned    "close"      about to CloseHandle
\* "ready"      may call a method        "null"       about to clear m_hHandle
\* "join", "timedJoin"  in Join          "gone"       the object is deleted
Owner == {"construct", "assign", "ready", "join", "timedJoin", "terminate", "close",
          "null", "gone"}

Places == {"entry", "run", "close", "null", "signal", "posted", "exited"}

ThreadTypeOK ==
  /\ Win32 \in Builds
  /\ owner \in Owner /\ deleting \in BOOLEAN
  /\ at \in Places
  /\ os \in {"none", "suspended", "running", "dead"}
  /\ handle \in {"none", "open", "closed"}
  /\ m_hHandle \in BOOLEAN /\ m_bTerminated \in BOOLEAN
  /\ m_Semaphore \in Nat
  /\ result \in {"none", "true", "false", "throws"}
  /\ joined \in BOOLEAN /\ restarted \in BOOLEAN /\ terminated \in BOOLEAN
  /\ early \in BOOLEAN /\ closedTwice \in BOOLEAN

Init ==
  /\ Win32 \in Builds
  /\ owner = "construct" /\ deleting = FALSE /\ at = "entry"
  /\ os = "none" /\ handle = "none"
  /\ m_hHandle = FALSE /\ m_bTerminated = FALSE /\ m_Semaphore = 0
  /\ result = "none"
  /\ joined = FALSE /\ restarted = FALSE /\ terminated = FALSE
  /\ early = FALSE /\ closedTwice = FALSE

\* CloseHandle(m_hHandle); with NULL it does nothing.
CloseHandle ==
  /\ handle' = IF m_hHandle THEN "closed" ELSE handle
  /\ closedTwice' = (closedTwice \/ (m_hHandle /\ handle = "closed"))

-----------------------------------------------------------------------------
\* The constructor and Resume

\* CreateThread, pthread_create: the thread may run before the handle is stored.
CreateThread(bSuspended) ==
  /\ os' = IF bSuspended THEN "suspended" ELSE "running"
  /\ handle' = "open"
  /\ at' = "entry"
  /\ owner' = "assign"

Construct(bCreateSuspended) ==
  /\ owner = "construct"
  /\ IF Win32 \/ ~bCreateSuspended
     THEN CreateThread(bCreateSuspended)
     ELSE owner' = "ready" /\ UNCHANGED <<at, system>>
  /\ UNCHANGED <<deleting, members, result, ghosts>>

\* mutant of Assign: the handle is not stored
AssignNothing ==
  /\ owner = "assign"
  /\ owner' = "ready"
  /\ early' = (early \/ at \in {"null", "signal", "posted", "exited"})
  /\ UNCHANGED <<deleting, at, system, members, result, joined, restarted, terminated, closedTwice>>

Assign ==
  /\ owner = "assign"
  /\ owner' = "ready"
  /\ m_hHandle' = TRUE
  /\ early' = (early \/ at \in {"null", "signal", "posted", "exited"})
  /\ UNCHANGED <<deleting, at, system, m_bTerminated, m_Semaphore, result, joined, restarted, terminated, closedTwice>>

\* With a handle, let the thread go on; without one, start a thread.  A thread
\* that is started again finds the m_bTerminated of the one before; it is started
\* again only once, and not while the one before is still ending (bounds of the model).
Resume ==
  /\ owner = "ready" /\ "Resume" \in Calls
  /\ IF m_hHandle
     THEN /\ os' = IF os = "suspended" THEN "running" ELSE os
          /\ UNCHANGED <<owner, at, handle, joined, restarted>>
     ELSE /\ os = "none" \/ (os = "dead" /\ ~restarted)
          /\ CreateThread(FALSE)
          /\ restarted' = (os = "dead")
          /\ joined' = FALSE
  /\ UNCHANGED <<deleting, members, result, terminated, early, closedTwice>>

\* win32; on linux SIGSTOP stops the whole process, which the model leaves out.
Suspend ==
  /\ Win32
  /\ owner = "ready" /\ "Suspend" \in Calls
  /\ os' = IF m_hHandle /\ os = "running" THEN "suspended" ELSE os
  /\ UNCHANGED <<deleting, owner, at, handle, members, result, ghosts>>

-----------------------------------------------------------------------------
\* ThreadEntry

Runs(place) == os = "running" /\ at = place

\* mutant of Entry: m_bTerminated is set before Run
EntryTerminated ==
  /\ Runs("entry")
  /\ at' = "run"
  /\ m_bTerminated' = TRUE
  /\ UNCHANGED <<deleting, owner, system, m_hHandle, m_Semaphore, result, ghosts>>

Entry ==
  /\ Runs("entry")
  /\ at' = "run"
  /\ UNCHANGED <<deleting, owner, system, members, result, ghosts>>

\* Run returns.
SetTerminated ==
  /\ Runs("run")
  /\ m_bTerminated' = TRUE
  /\ at' = IF Win32 THEN "close" ELSE "signal"
  /\ UNCHANGED <<deleting, owner, system, m_hHandle, m_Semaphore, result, ghosts>>

\* mutant of CloseOwn: the semaphore is signalled before the handle is closed
CloseOwnSignals ==
  /\ Runs("close")
  /\ m_Semaphore' = m_Semaphore + 1
  /\ at' = "null"
  /\ UNCHANGED <<deleting, owner, system, m_hHandle, m_bTerminated, result, ghosts>>

CloseOwn ==
  /\ Runs("close")
  /\ CloseHandle
  /\ at' = "null"
  /\ UNCHANGED <<deleting, owner, os, members, result, joined, restarted, terminated, early>>

NullOwn ==
  /\ Runs("null")
  /\ m_hHandle' = FALSE
  /\ at' = "signal"
  /\ UNCHANGED <<deleting, owner, system, m_bTerminated, m_Semaphore, result, ghosts>>

Ends == at' = "exited" /\ os' = "dead"

\* mutant of SignalOwn: the signal is forgotten
SignalOwnForgotten ==
  /\ Runs("signal")
  /\ IF Win32 THEN Ends ELSE at' = "posted" /\ UNCHANGED os
  /\ UNCHANGED <<deleting, owner, handle, members, result, ghosts>>

\* m_Semaphore.Signal(): on win32 one call of the system, on linux sem_post and
\* then the members of the semaphore
SignalOwn ==
  /\ Runs("signal")
  /\ m_Semaphore' = m_Semaphore + 1
  /\ IF Win32 THEN Ends ELSE at' = "posted" /\ UNCHANGED os
  /\ UNCHANGED <<deleting, owner, handle, m_hHandle, m_bTerminated, result, ghosts>>

LeaveSignal ==
  /\ Runs("posted")
  /\ Ends
  /\ UNCHANGED <<deleting, owner, handle, members, result, ghosts>>

-----------------------------------------------------------------------------
\* Join, Terminate and the destructor

BeginJoin(bTimed) ==
  /\ owner = "ready"
  /\ (IF bTimed THEN "TimedJoin" ELSE "Join") \in Calls
  /\ owner' = IF bTimed THEN "timedJoin" ELSE "join"
  /\ UNCHANGED <<deleting, at, system, members, result, ghosts>>

Answer(b) == result' = IF b THEN "true" ELSE "false"

\* On linux the thread is detached: nobody can join it any more.
JoinTakes ==
  /\ owner \in {"join", "timedJoin"}
  /\ m_Semaphore > 0
  /\ m_Semaphore' = m_Semaphore - 1
  /\ Answer(m_bTerminated)
  /\ IF Win32 THEN UNCHANGED <<handle, closedTwice>> ELSE CloseHandle
  /\ joined' = (joined \/ os # "none")
  /\ owner' = "ready"
  /\ UNCHANGED <<deleting, at, os, m_hHandle, m_bTerminated, restarted, terminated, early>>

\* On linux the timed wait throws (see Semaphore).
JoinTimesOut ==
  /\ owner = "timedJoin"
  /\ m_Semaphore = 0
  /\ IF Win32 THEN Answer(m_bTerminated) ELSE result' = "throws"
  /\ owner' = "ready"
  /\ UNCHANGED <<deleting, at, system, members, ghosts>>

BeginTerminate ==
  /\ owner = "ready" /\ "Terminate" \in Calls
  /\ owner' = "terminate"
  /\ terminated' = TRUE
  /\ UNCHANGED <<deleting, at, system, members, result, joined, restarted, early, closedTwice>>

Terminated == IF deleting THEN "gone" ELSE "ready"

\* TerminateThread on win32; pthread_cancel, pthread_join and pthread_detach on
\* linux, where the detached thread is one that was already joined.
Kill ==
  /\ owner = "terminate"
  /\ os' = IF m_hHandle /\ handle = "open" /\ os # "none" THEN "dead" ELSE os
  /\ IF Win32
     THEN /\ owner' = "close"
          /\ UNCHANGED <<handle, m_Semaphore, closedTwice>>
     ELSE /\ owner' = Terminated
          /\ IF m_hHandle
             THEN handle' = "closed" /\ closedTwice' = TRUE /\ UNCHANGED m_Semaphore
             ELSE /\ m_Semaphore < MaxSignals
                  /\ m_Semaphore' = m_Semaphore + 1
                  /\ UNCHANGED <<handle, closedTwice>>
  /\ UNCHANGED <<deleting, at, m_hHandle, m_bTerminated, result, joined, restarted, terminated, early>>

CloseKilled ==
  /\ owner = "close"
  /\ CloseHandle
  /\ owner' = "null"
  /\ UNCHANGED <<deleting, at, os, members, result, joined, restarted, terminated, early>>

NullKilled ==
  /\ owner = "null"
  /\ m_hHandle' = FALSE
  /\ owner' = Terminated
  /\ UNCHANGED <<deleting, at, system, m_bTerminated, m_Semaphore, result, ghosts>>

\* The thread is left alone if m_bTerminated says that it has ended.
Delete ==
  /\ owner = "ready"
  /\ deleting' = TRUE
  /\ owner' = IF m_bTerminated THEN "gone" ELSE "terminate"
  /\ UNCHANGED <<at, system, members, result, ghosts>>

-----------------------------------------------------------------------------
OwnerStep ==
  /\ UNCHANGED Win32
  /\ \/ \E b \in BOOLEAN : Construct(b) \/ BeginJoin(b)
     \/ Assign \/ Resume \/ Suspend
     \/ JoinTakes \/ JoinTimesOut
     \/ BeginTerminate \/ Kill \/ CloseKilled \/ NullKilled
     \/ Delete

ThreadStep ==
  /\ UNCHANGED Win32
  /\ Entry \/ SetTerminated \/ CloseOwn \/ NullOwn \/ SignalOwn \/ LeaveSignal

Next == OwnerStep \/ ThreadStep

Spec == Init /\ [][Next]_vars

\* The system runs the thread, Run returns, and a wait that can end ends.
FairSpec == Spec /\ WF_vars(ThreadStep) /\ WF_vars(JoinTakes /\ UNCHANGED Win32)

-----------------------------------------------------------------------------
\* Properties.  Those that say "unless started again" are about an object used for
\* one thread: nobody takes back m_bTerminated and the signal of the first.

\* win32: when a Join has seen the end of the thread, the object can be deleted:
\* the thread will not touch it again (unless started again).
JoinedDeleteIsSafe ==
  Win32 /\ owner = "gone" /\ joined /\ ~restarted => os \in {"none", "dead"}

\* Join answers true only when Run has returned (unless started again).
JoinTruthful == result = "true" /\ ~restarted => at \notin {"entry", "run"}

\* A thread that was joined, and on which Terminate was not called, has its handle
\* closed, once, unless it ended before the constructor had stored the handle (or
\* was started again).
HandleClosedOnce ==
  joined /\ ~restarted /\ ~terminated => ~closedTwice /\ (handle = "closed" \/ early)

\* An untimed Join of a thread that runs, and has not signalled, returns.
JoinReturns == (owner = "join" /\ os = "running" /\ at # "posted") ~> owner # "join"
=============================================================================

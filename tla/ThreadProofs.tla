---------------------------- MODULE ThreadProofs -----------------------------
(***************************************************************************)
(* Theorems about Thread, for both builds, every set of methods the owner  *)
(* calls and every bound on the signals.  An object that is used for one   *)
(* thread (~restarted) keeps Fresh, TerminatedTruly and Signalled; what    *)
(* becomes of its handle needs that nobody calls Terminate either, which   *)
(* leaves Terminate to the destructor (Plain).                             *)
(***************************************************************************)
EXTENDS Thread, TLAPS

\* Before a thread is started nothing has happened to the object.
Fresh ==
  /\ owner = "construct" => os = "none" /\ ~m_hHandle /\ ~deleting
  /\ os = "none" =>
       /\ owner # "assign" /\ at = "entry" /\ handle = "none"
       /\ ~m_hHandle /\ ~m_bTerminated /\ result # "true"
       /\ ~restarted /\ ~joined /\ ~closedTwice

\* The branches of the #ifdefs
Branches ==
  /\ Win32 => at # "posted"
  /\ ~Win32 => at \notin {"close", "null"} /\ owner \notin {"close", "null"}

\* m_bTerminated, which Join answers, is set by the thread after Run and never cleared.
TerminatedTruly ==
  ~restarted =>
    /\ m_bTerminated => at \notin {"entry", "run"}
    /\ result = "true" => m_bTerminated

\* win32: the signal is the last thing the thread does.
Signalled == Win32 /\ ~restarted /\ (joined \/ m_Semaphore > 0) => os = "dead"

\* An object used for one thread, with no Terminate but the destructor's
Plain == ~restarted /\ ~terminated

\* Only a destructor that found ~m_bTerminated is in Terminate, and then no Join had
\* seen the end of the thread.
DestructorTerminates ==
  Plain =>
    /\ owner \in {"terminate", "close", "null"} => deleting /\ ~joined
    /\ deleting => owner \in {"terminate", "close", "null", "gone"}

\* Until then the one signal is the thread's own, and comes after m_bTerminated.
OneSignal ==
  Plain =>
    /\ at \in {"signal", "posted", "exited", "close", "null"} => m_bTerminated
    /\ ~deleting => m_Semaphore \in {0, 1}
    /\ ~deleting /\ m_Semaphore > 0 => m_bTerminated /\ at \in {"posted", "exited"}

\* What a Join that saw the end of the thread found and left
JoinedOnce ==
  Plain /\ joined =>
    /\ m_bTerminated /\ ~closedTwice /\ (handle = "closed" \/ early)
    /\ os # "none" /\ owner \notin {"construct", "assign"}
    /\ ~Win32 => m_Semaphore = 0 /\ at \in {"posted", "exited"}

\* The object has the handle of its thread until the handle is closed: by Join on
\* linux, by the thread itself on win32.
HandleKept ==
  Plain =>
    /\ ~deleting => ~closedTwice
    /\ ~Win32 /\ ~deleting /\ ~joined => handle # "closed"
    /\ ~Win32 /\ owner # "assign" /\ os # "none" => m_hHandle
    /\ Win32 /\ ~deleting /\ at \in {"entry", "run", "close"} =>
         handle # "closed" /\ (os = "none" \/ owner = "assign" \/ m_hHandle)
    /\ Win32 /\ ~deleting /\ at \in {"null", "signal", "exited"} =>
         handle = "closed" \/ owner = "assign" \/ early

IInv ==
  /\ ThreadTypeOK
  /\ Fresh /\ Branches
  /\ TerminatedTruly
  /\ Signalled
  /\ DestructorTerminates /\ OneSignal /\ JoinedOnce /\ HandleKept

-----------------------------------------------------------------------------
\* Every action keeps IInv.  Where the handle or the semaphore is written, what the action
\* does is stated first, without the rest of its definition.
LEMMA StepKeeps ==
  ASSUME IInv, Next PROVE IInv'
<1> UNCHANGED Win32
  BY DEF Next, OwnerStep, ThreadStep
<1> USE DEF IInv, ThreadTypeOK, Fresh, Branches, TerminatedTruly, Signalled,
            DestructorTerminates,
            OneSignal, JoinedOnce, HandleKept, Plain, Owner, Places, system, members, ghosts,
            Runs, Ends, CloseHandle, CreateThread, Answer, Terminated
<1>1. ASSUME NEW b \in BOOLEAN, Construct(b) PROVE IInv'
  BY <1>1 DEF Construct
<1>2. ASSUME NEW b \in BOOLEAN, BeginJoin(b) PROVE IInv'
  BY <1>2 DEF BeginJoin
<1>3. ASSUME Assign PROVE IInv'
  BY <1>3 DEF Assign
<1>4. ASSUME Resume PROVE IInv'
  <2>1. CASE m_hHandle
    <3>1. owner' = owner /\ UNCHANGED <<deleting, at, handle, members, result, ghosts>>
      BY <1>4, <2>1 DEF Resume
    <3>2. os' = IF os = "suspended" THEN "running" ELSE os
      BY <1>4, <2>1 DEF Resume
    <3>3. QED
      BY <2>1, <3>1, <3>2
  <2>2. CASE ~m_hHandle /\ os = "none"
    BY <1>4, <2>2 DEF Resume
  <2>3. CASE ~m_hHandle /\ os = "dead"
    BY <1>4, <2>3 DEF Resume
  <2>4. QED
    BY <1>4, <2>1, <2>2, <2>3 DEF Resume
<1>5. ASSUME Suspend PROVE IInv'
  <2>1. UNCHANGED <<deleting, owner, at, handle, members, result, ghosts>>
    BY <1>5 DEF Suspend
  <2>2. (os' = os) \/ (os = "running" /\ os' = "suspended")
    BY <1>5, Zenon DEF Suspend
  <2>3. CASE os' = os
    BY <2>1, <2>3
  <2>4. CASE os = "running" /\ os' = "suspended"
    BY <2>1, <2>4
  <2>5. QED
    BY <2>2, <2>3, <2>4
<1>6. ASSUME JoinTakes PROVE IInv'
  BY <1>6 DEF JoinTakes
<1>7. ASSUME JoinTimesOut PROVE IInv'
  BY <1>7 DEF JoinTimesOut
<1>8. ASSUME BeginTerminate PROVE IInv'
  BY <1>8 DEF BeginTerminate
<1>9. ASSUME Kill PROVE IInv'
  <2>1. /\ owner = "terminate"
        /\ UNCHANGED <<deleting, at, m_hHandle, m_bTerminated, result, joined, restarted,
                      terminated, early>>
    BY <1>9 DEF Kill
  <2>2. (os' = os) \/ (os # "none" /\ os' = "dead")
    BY <1>9, Zenon DEF Kill
  <2>3. CASE Win32
    <3>1. owner' = "close" /\ UNCHANGED <<handle, m_Semaphore, closedTwice>>
      BY <1>9, <2>3 DEF Kill
    <3>2. ThreadTypeOK'
      <4>1. os' \in {"none", "suspended", "running", "dead"}
        BY <2>2
      <4>2. QED
        BY <2>1, <3>1, <4>1
    <3>3. QED
      BY <2>1, <2>2, <2>3, <3>1, <3>2
  <2>4. CASE ~Win32 /\ m_hHandle
    <3>1. /\ owner' = Terminated /\ handle' = "closed" /\ closedTwice' = TRUE
          /\ UNCHANGED m_Semaphore
      BY <1>9, <2>4 DEF Kill
    <3>2. QED
      BY <2>1, <2>2, <2>4, <3>1
  <2>5. CASE ~Win32 /\ ~m_hHandle
    <3>1. /\ owner' = Terminated /\ m_Semaphore' = m_Semaphore + 1
          /\ UNCHANGED <<os, handle, closedTwice>>
      BY <1>9, <2>5 DEF Kill
    <3>2. QED
      BY <2>1, <2>5, <3>1
  <2>6. QED
    BY <2>3, <2>4, <2>5
<1>10. ASSUME CloseKilled PROVE IInv'
  BY <1>10 DEF CloseKilled
<1>11. ASSUME NullKilled PROVE IInv'
  <2>1. /\ owner = "null" /\ owner' \in {"gone", "ready"} /\ m_hHandle' = FALSE
        /\ owner' = "ready" => ~deleting
        /\ UNCHANGED <<deleting, at, system, m_bTerminated, m_Semaphore, result, ghosts>>
    BY <1>11 DEF NullKilled
  <2>2. ThreadTypeOK'
    <3>1. m_hHandle' \in BOOLEAN
      BY <2>1, Zenon
    <3>2. QED
      BY <2>1, <3>1
  <2>3. QED
    BY <2>1, <2>2
<1>12. ASSUME Delete PROVE IInv'
  BY <1>12 DEF Delete
<1>13. ASSUME Entry PROVE IInv'
  BY <1>13 DEF Entry
<1>14. ASSUME SetTerminated PROVE IInv'
  BY <1>14 DEF SetTerminated
<1>15. ASSUME CloseOwn PROVE IInv'
  BY <1>15 DEF CloseOwn
<1>16. ASSUME NullOwn PROVE IInv'
  <2>1. /\ os = "running" /\ at = "null" /\ at' = "signal" /\ m_hHandle' = FALSE
        /\ UNCHANGED <<deleting, owner, system, m_bTerminated, m_Semaphore, result, ghosts>>
    BY <1>16 DEF NullOwn
  <2>2. ThreadTypeOK'
    <3>1. m_hHandle' \in BOOLEAN
      BY <2>1, Zenon
    <3>2. QED
      BY <2>1, <3>1
  <2>3. QED
    BY <2>1, <2>2
<1>17. ASSUME SignalOwn PROVE IInv'
  BY <1>17 DEF SignalOwn
<1>18. ASSUME LeaveSignal PROVE IInv'
  BY <1>18 DEF LeaveSignal
<1>19. QED
  BY <1>1, <1>2, <1>3, <1>4, <1>5, <1>6, <1>7, <1>8, <1>9, <1>10, <1>11, <1>12,
     <1>13, <1>14, <1>15, <1>16, <1>17, <1>18 DEF Next, OwnerStep, ThreadStep

LEMMA InitEstablishes ==
  ASSUME Init PROVE IInv
<1>1. ThreadTypeOK
  BY Zenon, ThreadAssumption DEF Init, ThreadTypeOK, Owner, Places
<1>2. Fresh /\ Branches /\ TerminatedTruly /\ Signalled
  BY DEF Init, Fresh, Branches, TerminatedTruly, Signalled
<1>3. DestructorTerminates /\ OneSignal /\ JoinedOnce /\ HandleKept
  BY DEF Init, DestructorTerminates, OneSignal, JoinedOnce, HandleKept, Plain
<1>4. QED
  BY <1>1, <1>2, <1>3 DEF IInv

LEMMA StutterKeeps ==
  ASSUME IInv, UNCHANGED vars PROVE IInv'
BY DEF vars, system, members, ghosts, IInv, ThreadTypeOK, Fresh, Branches, TerminatedTruly,
       Signalled, DestructorTerminates, OneSignal, JoinedOnce, HandleKept, Plain

LEMMA AlwaysIInv == Spec => []IInv
<1>1. Init => IInv
  BY InitEstablishes
<1>2. IInv /\ [Next]_vars => IInv'
  BY StepKeeps, StutterKeeps
<1>3. QED
  BY <1>1, <1>2, PTL DEF Spec

-----------------------------------------------------------------------------
\* Every variable keeps its type.
THEOREM TypesKept == Spec => []ThreadTypeOK
<1>1. IInv => ThreadTypeOK
  BY DEF IInv
<1>2. QED
  BY <1>1, AlwaysIInv, PTL

\* A Join that answers true answers that Run has returned: m_bTerminated is set by the
\* thread itself, after Run, and never on its way there.
THEOREM JoinTellsTheTruth == Spec => []JoinTruthful
<1>1. IInv => JoinTruthful
  BY DEF IInv, TerminatedTruly, JoinTruthful
<1>2. QED
  BY <1>1, AlwaysIInv, PTL

\* win32: an owner that saw the end of the thread deletes an object the thread no longer
\* touches, because the signal of its semaphore is the last thing the thread does.
THEOREM JoinedThenDeleted == Spec => []JoinedDeleteIsSafe
<1>1. IInv => JoinedDeleteIsSafe
  BY DEF IInv, Signalled, JoinedDeleteIsSafe
<1>2. QED
  BY <1>1, AlwaysIInv, PTL

\* A joined thread has its handle closed, once: by Join on linux, by the thread itself
\* on win32, and not again by the destructor.
THEOREM HandlesClosedOnce == Spec => []HandleClosedOnce
<1>1. IInv => HandleClosedOnce
  BY DEF IInv, JoinedOnce, Plain, HandleClosedOnce
<1>2. QED
  BY <1>1, AlwaysIInv, PTL
=============================================================================

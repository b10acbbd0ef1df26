----------------------------- MODULE StackTrace ------------------------------
(***************************************************************************)
(* The stack traces of Error.cpp and the macros of Error.h on win32: while *)
(* an exception passes through the functions of a thread that end in       *)
(* RETHROW, its text and their names are gathered under the id of the      *)
(* thread, until a catch takes them with STACK_TRACE.  A system gives the  *)
(* id of a thread that has ended to the next one.                          *)
(*                                                                         *)
(* A function is named by its depth.  The accesses of two threads to the   *)
(* map, which has no lock, do not overlap.                                 *)
(***************************************************************************)
EXTENDS Naturals, Sequences

CONSTANTS
  Threads,
  Ids,         \* bound: the ids of threads
  Errors,      \* exceptions derived from runtime_error
  Others,      \* other exceptions
  MaxDepth,    \* bound: calls in each other
  None         \* no id, no exception; "Unhandled exception"

\* An assumption on the constants
TraceAssumption == None \notin Ids

VARIABLES
  id, depth,
  flying,            \* of each thread: the exception on its way
  g_mapStackTrace,   \* empty for an id that is not in the map
  passed,            \* auxiliary: the functions flying has passed
  left,              \* auxiliary: ids whose last trace nobody took
  taken              \* auxiliary: the trace taken last, until the next throw

traceVars == <<id, depth, flying, g_mapStackTrace, passed, left, taken>>

NoTrace == [text |-> <<>>, real |-> <<>>, mixed |-> FALSE]

Init ==
  /\ id = [t \in Threads |-> None] /\ depth = [t \in Threads |-> 0]
  /\ flying = [t \in Threads |-> None]
  /\ g_mapStackTrace = [i \in Ids |-> <<>>]
  /\ passed = [t \in Threads |-> <<>>]
  /\ left = {}
  /\ taken = NoTrace

Runs(t) == id[t] # None /\ flying[t] = None

ThreadStarts(t, i) ==
  /\ id[t] = None /\ \A u \in Threads : id[u] # i
  /\ id' = [id EXCEPT ![t] = i]
  /\ UNCHANGED <<depth, flying, g_mapStackTrace, passed, left, taken>>

ThreadEnds(t) ==
  /\ Runs(t) /\ depth[t] = 0
  /\ id' = [id EXCEPT ![t] = None]
  /\ UNCHANGED <<depth, flying, g_mapStackTrace, passed, left, taken>>

Call(t) ==
  /\ Runs(t) /\ depth[t] < MaxDepth
  /\ depth' = [depth EXCEPT ![t] = @ + 1]
  /\ UNCHANGED <<id, flying, g_mapStackTrace, passed, left, taken>>

Return(t) ==
  /\ Runs(t) /\ depth[t] > 0
  /\ depth' = [depth EXCEPT ![t] = @ - 1]
  /\ UNCHANGED <<id, flying, g_mapStackTrace, passed, left, taken>>

Throw(t, e) ==
  /\ Runs(t)
  /\ flying' = [flying EXCEPT ![t] = e]
  /\ taken' = NoTrace
  /\ UNCHANGED <<id, depth, g_mapStackTrace, passed, left>>

What(e) == IF e \in Errors THEN e ELSE None

\* "if (CError::GetStackTrace().empty()) CError::GetStackTrace() = e.what()"
Begun(trace, e) == IF trace = <<>> THEN <<What(e)>> ELSE trace

Rethrow(t) ==
  /\ flying[t] # None /\ depth[t] > 0
  /\ g_mapStackTrace' =
       [g_mapStackTrace EXCEPT ![id[t]] = Append(Begun(@, flying[t]), depth[t])]
  /\ passed' = [passed EXCEPT ![t] = Append(@, depth[t])]
  /\ depth' = [depth EXCEPT ![t] = @ - 1]
  /\ UNCHANGED <<id, flying, left, taken>>

\* mutant of Popped: the entry is read only
PoppedNot(map, i) == map

Popped(map, i) == [map EXCEPT ![i] = <<>>]

Caught(t) ==
  /\ flying' = [flying EXCEPT ![t] = None]
  /\ passed' = [passed EXCEPT ![t] = <<>>]

\* A catch that uses STACK_TRACE
CatchTrace(t) ==
  /\ flying[t] # None
  /\ taken' =
       [text |-> g_mapStackTrace[id[t]],
        real |-> IF passed[t] = <<>> THEN <<>> ELSE <<What(flying[t])>> \o passed[t],
        mixed |-> id[t] \in left]
  /\ g_mapStackTrace' = Popped(g_mapStackTrace, id[t])
  /\ left' = left \ {id[t]}
  /\ Caught(t)
  /\ UNCHANGED <<id, depth>>

\* A catch that does not
CatchQuietly(t) ==
  /\ flying[t] # None
  /\ left' = IF passed[t] = <<>> THEN left ELSE left \cup {id[t]}
  /\ Caught(t)
  /\ Len(g_mapStackTrace[id[t]]) <= MaxDepth + 1   \* bound: traces nobody takes
  /\ UNCHANGED <<id, depth, g_mapStackTrace, taken>>

Next ==
  \E t \in Threads :
    \/ \E i \in Ids : ThreadStarts(t, i)
    \/ \E e \in Errors \cup Others : Throw(t, e)
    \/ ThreadEnds(t) \/ Call(t) \/ Return(t) \/ Rethrow(t)
    \/ CatchTrace(t) \/ CatchQuietly(t)

Spec == Init /\ [][Next]_traceVars

-----------------------------------------------------------------------------
\* Properties

\* The trace a catch takes is that of its exception: its text, and the functions it came
\* through in their order, and nothing of exceptions before it or of a thread that had
\* the same id.  It is not when an earlier exception was caught without STACK_TRACE.
TraceIsOwn == ~taken.mixed => taken.text = taken.real
=============================================================================

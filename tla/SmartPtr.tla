------------------------------ MODULE SmartPtr -------------------------------
(***************************************************************************)
(* smart_ptr and const_smart_ptr (smart_ptr.h): pointers to one object     *)
(* share a count of their number, and the last one deletes the object and  *)
(* the count.  The two classes have the same members.  A pointer is used   *)
(* by one thread: nothing here is atomic.                                  *)
(***************************************************************************)
EXTENDS Naturals, FiniteSets

CONSTANTS
  Pointers,   \* the smart_ptr variables of the program
  Objects,    \* what can be allocated, each of them once
  NULL,       \* the null pointer
  MaxCount    \* bound: no assignment is made to an object counted that often

ASSUME SmartPtrAssumption ==
  /\ IsFiniteSet(Pointers)
  /\ NULL \notin Objects
  /\ MaxCount \in Nat

VARIABLES
  live,         \* the variables that are constructed
  m_pValue,     \* what each of them points to
  m_pnPtrCnt,   \* the count shared by the pointers to an object
  object,       \* "fresh", "alive" or "deleted"
  freedShared,  \* auxiliary: free() was called on a pointer that was not alone
  sameAssigned  \* auxiliary: a pointer was assigned one to the same object

ghosts == <<freedShared, sameAssigned>>
ptrVars == <<live, m_pValue, m_pnPtrCnt, object, ghosts>>

Owners(o) == {p \in live : m_pValue[p] = o}

SmartPtrTypeOK ==
  /\ live \subseteq Pointers
  /\ m_pValue \in [Pointers -> Objects \cup {NULL}]
  /\ m_pnPtrCnt \in [Objects -> Nat]
  /\ object \in [Objects -> {"fresh", "alive", "deleted"}]
  /\ freedShared \in BOOLEAN /\ sameAssigned \in BOOLEAN

Init ==
  /\ live = {}
  /\ m_pValue = [p \in Pointers |-> NULL]
  /\ m_pnPtrCnt = [o \in Objects |-> 0]
  /\ object = [o \in Objects |-> "fresh"]
  /\ freedShared = FALSE /\ sameAssigned = FALSE

\* A pointer to a deleted object; using it is undefined, and the model stops there.
Dangling == \E p \in live : m_pValue[p] # NULL /\ object[m_pValue[p]] = "deleted"

\* The last pointer to an object
Last(p) == m_pValue[p] # NULL /\ m_pnPtrCnt[m_pValue[p]] = 1

\* What free() does to the object of p
Released(p) == [object EXCEPT ![m_pValue[p]] = IF Last(p) THEN "deleted" ELSE @]

Construct(p, o) ==
  /\ p \notin live
  /\ o # NULL => object[o] = "fresh"
  /\ live' = live \cup {p}
  /\ m_pValue' = [m_pValue EXCEPT ![p] = o]
  /\ m_pnPtrCnt' = [x \in Objects |-> IF x = o THEN 1 ELSE m_pnPtrCnt[x]]
  /\ object' = [x \in Objects |-> IF x = o THEN "alive" ELSE object[x]]
  /\ UNCHANGED ghosts

\* free(): a pointer that is not the last one keeps its value.
Free(p) ==
  /\ p \in live
  /\ IF m_pValue[p] = NULL
     THEN UNCHANGED <<m_pValue, m_pnPtrCnt, object, freedShared>>
     ELSE /\ m_pValue' = [m_pValue EXCEPT ![p] = IF Last(p) THEN NULL ELSE @]
          /\ m_pnPtrCnt' = [m_pnPtrCnt EXCEPT ![m_pValue[p]] = @ - 1]
          /\ object' = Released(p)
          /\ freedShared' = (freedShared \/ ~Last(p))
  /\ UNCHANGED <<live, sameAssigned>>

Destroy(p) ==
  /\ p \in live
  /\ live' = live \ {p}
  /\ m_pValue' = [m_pValue EXCEPT ![p] = NULL]
  /\ IF m_pValue[p] = NULL
     THEN UNCHANGED <<m_pnPtrCnt, object>>
     ELSE /\ m_pnPtrCnt' = [m_pnPtrCnt EXCEPT ![m_pValue[p]] = @ - 1]
          /\ object' = Released(p)
  /\ UNCHANGED ghosts

\* mutants of Leaves and Joins: the old object is not released, the new one is not
\* counted
LeavesNever(p, q) == FALSE
JoinsNever(q) == FALSE

\* "if (m_pValue && m_pValue != rRight.m_pValue) free();"
Leaves(p, q) == m_pValue[p] # NULL /\ m_pValue[p] # m_pValue[q]

\* "*m_pnPtrCnt += m_pValue ? 1 : 0", also when both pointed to the object before
Joins(q) == m_pValue[q] # NULL

Assign(p, q) ==
  /\ p \in live /\ q \in live
  /\ m_pValue[q] # NULL => m_pnPtrCnt[m_pValue[q]] < MaxCount
  /\ m_pnPtrCnt' = [o \in Objects |->
       m_pnPtrCnt[o] + (IF Joins(q) /\ o = m_pValue[q] THEN 1 ELSE 0)
                     - (IF Leaves(p, q) /\ o = m_pValue[p] THEN 1 ELSE 0)]
  /\ object' = IF Leaves(p, q) THEN Released(p) ELSE object
  /\ m_pValue' = [m_pValue EXCEPT ![p] = m_pValue[q]]
  /\ sameAssigned' = (sameAssigned \/ (m_pValue[q] # NULL /\ m_pValue[p] = m_pValue[q]))
  /\ UNCHANGED <<live, freedShared>>

\* The copy constructor: a null pointer is assigned to.
Copy(p, q) ==
  /\ p \notin live /\ q \in live
  /\ m_pValue[q] # NULL => m_pnPtrCnt[m_pValue[q]] < MaxCount
  /\ live' = live \cup {p}
  /\ m_pValue' = [m_pValue EXCEPT ![p] = m_pValue[q]]
  /\ m_pnPtrCnt' = [o \in Objects |->
       m_pnPtrCnt[o] + (IF Joins(q) /\ o = m_pValue[q] THEN 1 ELSE 0)]
  /\ UNCHANGED <<object, ghosts>>

Next ==
  /\ ~Dangling
  /\ \E p \in Pointers :
       \/ \E o \in Objects \cup {NULL} : Construct(p, o)
       \/ Free(p) \/ Destroy(p)
       \/ \E q \in Pointers : Assign(p, q) \/ Copy(p, q)

Spec == Init /\ [][Next]_ptrVars

-----------------------------------------------------------------------------
\* Properties

\* An object is alive as long as a pointer holds it: the count is never below the
\* number of its pointers, whatever is assigned, also to itself.  The exception is
\* free() on a pointer that is not alone, which keeps its value and is counted out again.
HeldIsAlive ==
  ~freedShared =>
    \A o \in Objects :
      /\ Cardinality(Owners(o)) <= m_pnPtrCnt[o]
      /\ Owners(o) # {} => object[o] = "alive"

\* An object dies with its last pointer.  The exception is an object one of whose
\* pointers was assigned another one of them: it is counted once too often.
NothingLeaks ==
  ~freedShared /\ ~sameAssigned =>
    \A o \in Objects : object[o] = "alive" => Owners(o) # {}
=============================================================================

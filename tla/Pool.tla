-------------------------------- MODULE Pool ---------------------------------
(***************************************************************************)
(* CPool and CPoolElement (Pool.h): resources kept in a CQueue and lent in *)
(* elements whose destructor puts them back.  m_quePool is used through    *)
(* Push and Pop, each one step of BlockingQueue: Pop needs an item, Push   *)
(* needs room.                                                             *)
(***************************************************************************)
EXTENDS Naturals, FiniteSets, Sequences, SequencesExt

CONSTANTS
  Threads,
  Resources,    \* T
  Nothing,      \* no element is being destroyed
  m_nMaxSize,   \* the size of m_quePool, 0: unlimited
  MaxElements,  \* bound: live elements of a thread
  MaxPooled     \* bound: the length of an unlimited m_quePool

ASSUME PoolAssumption ==
  /\ IsFiniteSet(Resources) /\ Nothing \notin Resources
  /\ m_nMaxSize \in Nat /\ MaxElements \in Nat /\ MaxPooled \in Nat

VARIABLES
  m_quePool,
  elements,   \* the live CPoolElements of each thread
  dying,      \* what the destructor of an element is putting back
  popped,     \* resources taken out with Pop, now the caller's
  copied      \* auxiliary: resources whose element was ever copied

vars == <<m_quePool, elements, dying, popped, copied>>

\* Type invariant
PoolTypeOK ==
  /\ m_quePool \in Seq(Resources)
  /\ elements \in [Threads -> Seq(Resources)]
  /\ dying \in [Threads -> Resources \cup {Nothing}]
  /\ popped \subseteq Resources
  /\ copied \subseteq Resources

\* Before its first Put, every resource is the caller's.
Init ==
  /\ m_quePool = <<>>
  /\ elements = [t \in Threads |-> <<>>]
  /\ dying = [t \in Threads |-> Nothing]
  /\ popped = Resources
  /\ copied = {}

\* mutant of IsRoom: the last place is never used
IsRoomOffByOne == m_nMaxSize = 0 \/ Len(m_quePool) + 1 < m_nMaxSize

IsRoom == m_nMaxSize = 0 \/ Len(m_quePool) < m_nMaxSize

\* A thread inside a destructor does nothing else.
Free(t) == dying[t] = Nothing

Put(r) ==
  /\ IsRoom
  /\ Len(m_quePool) < MaxPooled
  /\ m_quePool' = Append(m_quePool, r)

PutOwn(t, r) ==
  /\ Free(t)
  /\ r \in popped
  /\ Put(r)
  /\ popped' = popped \ {r}
  /\ UNCHANGED <<elements, dying, copied>>

Pop(t) ==
  /\ Free(t)
  /\ m_quePool # <<>>
  /\ m_quePool' = Tail(m_quePool)
  /\ popped' = popped \cup {Head(m_quePool)}
  /\ UNCHANGED <<elements, dying, copied>>

Holds(t, r) == elements' = [elements EXCEPT ![t] = Append(@, r)]

\* mutant of Get: the resource is looked at, not taken
GetPeeks(t) ==
  /\ Free(t)
  /\ m_quePool # <<>>
  /\ Len(elements[t]) < MaxElements
  /\ Holds(t, Head(m_quePool))
  /\ UNCHANGED <<m_quePool, dying, popped, copied>>

Get(t) ==
  /\ Free(t)
  /\ m_quePool # <<>>
  /\ Len(elements[t]) < MaxElements
  /\ m_quePool' = Tail(m_quePool)
  /\ Holds(t, Head(m_quePool))
  /\ UNCHANGED <<dying, popped, copied>>

\* CPoolElement declares no copy constructor: the implicit one makes a second
\* element for the same resource, with a destructor of its own.
Copy(t) ==
  /\ Free(t)
  /\ Len(elements[t]) < MaxElements
  /\ \E r \in ToSet(elements[t]) :
       /\ Holds(t, r)
       /\ copied' = copied \cup {r}
  /\ UNCHANGED <<m_quePool, dying, popped>>

BeginDestroy(t) ==
  /\ Free(t)
  /\ \E i \in DOMAIN elements[t] :
       /\ dying' = [dying EXCEPT ![t] = elements[t][i]]
       /\ elements' = [elements EXCEPT ![t] = RemoveAt(@, i)]
  /\ UNCHANGED <<m_quePool, popped, copied>>

EndDestroy(t) ==
  /\ ~Free(t)
  /\ Put(dying[t])
  /\ dying' = [dying EXCEPT ![t] = Nothing]
  /\ UNCHANGED <<elements, popped, copied>>

Next ==
  \E t \in Threads :
    \/ \E r \in Resources : PutOwn(t, r)
    \/ Pop(t) \/ Get(t) \/ Copy(t) \/ BeginDestroy(t) \/ EndDestroy(t)

Spec == Init /\ [][Next]_vars

-----------------------------------------------------------------------------
\* Properties

Times(r, s) == Cardinality({i \in DOMAIN s : s[i] = r})

\* The live elements of r: a thread, and the place among its elements
ElementsOf(r) ==
  {e \in Threads \X (1 .. MaxElements) :
     e[2] \in DOMAIN elements[e[1]] /\ elements[e[1]][e[2]] = r}

\* As long as no element of it is copied, a resource is in one place: in the
\* pool, in one element, or with the caller.  No two users share it.
ExclusiveUse ==
  \A r \in Resources \ copied :
    \/ /\ r \in popped
       /\ Times(r, m_quePool) = 0
       /\ \A t \in Threads : Times(r, elements[t]) = 0 /\ dying[t] # r
    \/ /\ r \notin popped
       /\ Times(r, m_quePool) + Cardinality({t \in Threads : dying[t] = r})
            + Cardinality(ElementsOf(r)) = 1

\* A pool with a place for each resource never blocks the destructor of an
\* element, unless some element was copied and is put back twice.
DestructorNeverWaits ==
  copied = {} /\ Cardinality(Resources) <= m_nMaxSize
    => \A t \in Threads : dying[t] # Nothing => IsRoom
=============================================================================

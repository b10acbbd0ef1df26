------------------------------ MODULE PoolProofs -----------------------------
(***************************************************************************)
(* Theorems about Pool, for any threads and resources, any size of the     *)
(* pool and any bounds.                                                    *)
(***************************************************************************)
EXTENDS Pool, FiniteSetTheorems, SequenceTheorems, TLAPS

\* Where r is: its places in a sequence, the threads with an element of it, the threads
\* that are putting it back
PlacesIn(r, s) == {i \in DOMAIN s : s[i] = r}

InPool(r) == PlacesIn(r, m_quePool) # {}
Holders(r) == {t \in Threads : PlacesIn(r, elements[t]) # {}}
DyingOf(r) == {t \in Threads : dying[t] = r}

AtMostOne(S) == \A x, y \in S : x = y

\* A resource has one user, once.
OneUser(r) ==
  /\ AtMostOne(PlacesIn(r, m_quePool))
  /\ \A t \in Threads : AtMostOne(PlacesIn(r, elements[t]))
  /\ AtMostOne(Holders(r)) /\ AtMostOne(DyingOf(r))
  /\ \/ r \in popped /\ ~InPool(r) /\ Holders(r) = {} /\ DyingOf(r) = {}
     \/ r \notin popped /\ InPool(r) /\ Holders(r) = {} /\ DyingOf(r) = {}
     \/ r \notin popped /\ ~InPool(r) /\ Holders(r) # {} /\ DyingOf(r) = {}
     \/ r \notin popped /\ ~InPool(r) /\ Holders(r) = {} /\ DyingOf(r) # {}

IInv ==
  /\ PoolTypeOK
  /\ \A t \in Threads : Len(elements[t]) <= MaxElements
  /\ \A r \in Resources \ copied : OneUser(r)

-----------------------------------------------------------------------------
\* Sequences

LEMMA Removed ==
  ASSUME NEW S, NEW s \in Seq(S), NEW i \in 1 .. Len(s)
  PROVE  /\ RemoveAt(s, i) \in Seq(S) /\ Len(RemoveAt(s, i)) = Len(s) - 1
         /\ \A j \in 1 .. Len(s) - 1 :
              RemoveAt(s, i)[j] = IF j < i THEN s[j] ELSE s[j + 1]
<1> DEFINE a == SubSeq(s, 1, i - 1)
           b == SubSeq(s, i + 1, Len(s))
<1>1. Len(s) \in Nat /\ i \in Nat /\ 1 <= i /\ i <= Len(s)
  BY LenProperties
<1>2. a \in Seq(S) /\ Len(a) = i - 1 /\ \A j \in 1 .. i - 1 : a[j] = s[j]
  <2>1. \A j \in 1 .. i - 1 : s[j] \in S
    BY <1>1, ElementOfSeq
  <2>2. /\ a \in Seq(S) /\ Len(a) = IF 1 <= i - 1 THEN (i - 1) - 1 + 1 ELSE 0
        /\ \A j \in 1 .. (i - 1) - 1 + 1 : a[j] = s[1 + j - 1]
    BY <1>1, <2>1, SubSeqProperties
  <2>3. QED
    BY <1>1, <2>2
<1>3. b \in Seq(S) /\ Len(b) = Len(s) - i /\ \A j \in 1 .. Len(s) - i : b[j] = s[i + j]
  <2>1. \A j \in i + 1 .. Len(s) : s[j] \in S
    BY <1>1, ElementOfSeq
  <2>2. /\ b \in Seq(S) /\ Len(b) = IF i + 1 <= Len(s) THEN Len(s) - (i + 1) + 1 ELSE 0
        /\ \A j \in 1 .. Len(s) - (i + 1) + 1 : b[j] = s[(i + 1) + j - 1]
    BY <1>1, <2>1, SubSeqProperties
  <2>3. \A j \in 1 .. Len(s) - i : b[j] = s[i + j]
    <3> TAKE j \in 1 .. Len(s) - i
    <3>1. j \in 1 .. Len(s) - (i + 1) + 1 /\ (i + 1) + j - 1 = i + j
      BY <1>1
    <3>2. QED
      BY <2>2, <3>1
  <2>4. QED
    BY <1>1, <2>2, <2>3
<1>4. RemoveAt(s, i) = a \o b
  BY DEF RemoveAt
<1> HIDE DEF a, b
<1>5. /\ a \o b \in Seq(S) /\ Len(a \o b) = Len(a) + Len(b)
      /\ \A j \in 1 .. Len(a) + Len(b) : (a \o b)[j] =
                                           IF j <= Len(a) THEN a[j] ELSE b[j - Len(a)]
  BY <1>2, <1>3, ConcatProperties
<1>6. ASSUME NEW j \in 1 .. Len(s) - 1
      PROVE  (a \o b)[j] = IF j < i THEN s[j] ELSE s[j + 1]
  <2>1. CASE j < i
    BY <1>1, <1>2, <1>3, <1>5, <2>1
  <2>2. CASE ~(j < i)
    <3>1. j - Len(a) \in 1 .. Len(s) - i /\ i + (j - Len(a)) = j + 1
      BY <1>1, <1>2, <2>2
    <3>2. (a \o b)[j] = b[j - Len(a)]
      BY <1>1, <1>2, <1>3, <1>5, <2>2
    <3>3. QED
      BY <1>3, <2>2, <3>1, <3>2
  <2>3. QED
    BY <2>1, <2>2
<1>7. QED
  BY <1>1, <1>2, <1>3, <1>4, <1>5, <1>6

\* u is s without its element at i.
Without(s, i, u) ==
  /\ Len(u) = Len(s) - 1
  /\ \A j \in 1 .. Len(s) - 1 : u[j] = IF j < i THEN s[j] ELSE s[j + 1]

LEMMA TailIsWithout ==
  ASSUME NEW S, NEW s \in Seq(S), s # <<>>
  PROVE  /\ Tail(s) \in Seq(S) /\ Without(s, 1, Tail(s))
         /\ Head(s) = s[1] /\ 1 \in 1 .. Len(s) /\ s[1] \in S
<1>1. Len(s) \in Nat /\ 1 <= Len(s)
  BY EmptySeq, LenProperties
<1>2. /\ Tail(s) \in Seq(S) /\ Len(Tail(s)) = Len(s) - 1
      /\ \A j \in 1 .. Len(Tail(s)) : Tail(s)[j] = s[j + 1]
  BY HeadTailProperties
<1>3. \A j \in 1 .. Len(s) - 1 : ~(j < 1)
  BY <1>1
<1>4. Head(s) = s[1]
  OBVIOUS
<1>5. 1 \in 1 .. Len(s) /\ s[1] \in S
  BY <1>1, ElementOfSeq
<1>6. QED
  BY <1>2, <1>3, <1>4, <1>5 DEF Without

LEMMA WithoutPlaces ==
  ASSUME NEW S, NEW s \in Seq(S), NEW i \in 1 .. Len(s), NEW u \in Seq(S), Without(s, i, u),
         NEW r, AtMostOne(PlacesIn(r, s))
  PROVE  /\ AtMostOne(PlacesIn(r, u))
         /\ r = s[i] => PlacesIn(r, s) # {} /\ PlacesIn(r, u) = {}
         /\ r # s[i] => (PlacesIn(r, u) = {} <=> PlacesIn(r, s) = {})
<1> DEFINE n == Len(s)
           P == PlacesIn(r, s)
           Q == PlacesIn(r, u)
<1>1. n \in Nat /\ DOMAIN s = 1 .. n /\ DOMAIN u = 1 .. n - 1
  BY LenProperties DEF Without
<1>2. Q = {j \in 1 .. n - 1 : (IF j < i THEN j ELSE j + 1) \in P}
  <2>1. \A j \in 1 .. n - 1 : j \in 1 .. n /\ j + 1 \in 1 .. n
    BY <1>1
  <2>2. \A j \in 1 .. n - 1 : u[j] = IF j < i THEN s[j] ELSE s[j + 1]
    BY DEF Without
  <2> HIDE DEF n
  <2>3. QED
    BY <1>1, <2>1, <2>2 DEF PlacesIn
<1>3. P \subseteq 1 .. n /\ (r = s[i] <=> i \in P)
  BY <1>1 DEF PlacesIn
<1>4. AtMostOne(P)
  OBVIOUS
<1> HIDE DEF n, P, Q
<1>5. AtMostOne(Q)
  <2> SUFFICES ASSUME NEW j \in Q, NEW k \in Q PROVE j = k
    BY DEF AtMostOne
  <2>1. (IF j < i THEN j ELSE j + 1) = (IF k < i THEN k ELSE k + 1)
    BY <1>2, <1>4 DEF AtMostOne
  <2>2. j \in Int /\ k \in Int
    BY <1>1, <1>2
  <2>3. QED
    BY <2>1, <2>2
<1>6. ASSUME i \in P, NEW j \in Q PROVE FALSE
  <2>1. (IF j < i THEN j ELSE j + 1) = i /\ j \in Int
    BY <1>1, <1>2, <1>4, <1>6 DEF AtMostOne
  <2>2. QED
    BY <2>1
<1>7. ASSUME i \notin P, NEW k \in P PROVE Q # {}
  <2>1. k \in 1 .. n /\ k # i
    BY <1>3, <1>7
  <2>2. CASE k < i
    <3>1. k \in 1 .. n - 1
      BY <1>1, <2>1, <2>2
    <3>2. QED
      BY <1>2, <2>2, <3>1
  <2>3. CASE ~(k < i)
    <3>1. k - 1 \in 1 .. n - 1 /\ ~(k - 1 < i) /\ (k - 1) + 1 = k
      BY <1>1, <2>1, <2>3
    <3>2. QED
      BY <1>2, <3>1
  <2>4. QED
    BY <2>2, <2>3
<1>8. Q # {} => P # {}
  BY <1>2
<1>9. QED
  BY <1>3, <1>5, <1>6, <1>7, <1>8 DEF P, Q

LEMMA AppendPlaces ==
  ASSUME NEW S, NEW s \in Seq(S), NEW x \in S, NEW r
  PROVE  PlacesIn(r, Append(s, x)) =
           IF r = x THEN PlacesIn(r, s) \cup {Len(s) + 1} ELSE PlacesIn(r, s)
<1> DEFINE n == Len(s)
           u == Append(s, x)
<1>1. /\ u \in Seq(S) /\ Len(u) = n + 1 /\ u[n + 1] = x
      /\ \A i \in 1 .. n : u[i] = s[i]
  BY AppendProperties
<1>2. n \in Nat /\ DOMAIN s = 1 .. n /\ DOMAIN u = 1 .. n + 1
  BY <1>1, LenProperties
<1> HIDE DEF n, u
<1>3. 1 .. n + 1 = (1 .. n) \cup {n + 1} /\ n + 1 \notin 1 .. n
  BY <1>2
<1>4. PlacesIn(r, u) = IF r = x THEN PlacesIn(r, s) \cup {n + 1} ELSE PlacesIn(r, s)
  BY <1>1, <1>2, <1>3 DEF PlacesIn
<1>5. QED
  BY <1>4 DEF n, u

-----------------------------------------------------------------------------
\* The invariant: a resource goes from its user to the next

\* A step leaves the resource where it is, or takes it from one to another.
LEMMA SameUser ==
  ASSUME NEW r, OneUser(r), r \in popped' <=> r \in popped,
         PlacesIn(r, m_quePool)' = {} <=> PlacesIn(r, m_quePool) = {},
         AtMostOne(PlacesIn(r, m_quePool)'),
         \A t \in Threads : /\ PlacesIn(r, elements'[t]) = {} <=> PlacesIn(r, elements[t]) = {}
                            /\ AtMostOne(PlacesIn(r, elements'[t]))
                            /\ dying'[t] = r <=> dying[t] = r
  PROVE  OneUser(r)'
<1>1. Holders(r)' = Holders(r) /\ DyingOf(r)' = DyingOf(r)
  BY DEF Holders, DyingOf
<1>2. InPool(r)' <=> InPool(r)
  BY DEF InPool
<1>3. QED
  BY <1>1, <1>2 DEF OneUser

LEMMA PutOwnKeeps ==
  ASSUME IInv, NEW t \in Threads, NEW x \in Resources, PutOwn(t, x),
         NEW r \in Resources \ copied'
  PROVE  OneUser(r)'
<1>1. r \in Resources \ copied /\ OneUser(r)
  BY DEF PutOwn, IInv
<1>2. /\ m_quePool' = Append(m_quePool, x) /\ x \in popped /\ popped' = popped \ {x}
      /\ UNCHANGED <<elements, dying>>
  BY DEF PutOwn, Put
<1> DEFINE n == Len(m_quePool)
<1>3. PlacesIn(r, m_quePool)' =
        IF r = x THEN PlacesIn(r, m_quePool) \cup {n + 1} ELSE PlacesIn(r, m_quePool)
  BY <1>2, AppendPlaces DEF IInv, PoolTypeOK
<1> HIDE DEF n
<1>4. CASE r = x
  <2>1. PlacesIn(r, m_quePool) = {} /\ Holders(r) = {} /\ DyingOf(r) = {}
    BY <1>1, <1>2, <1>4 DEF OneUser, InPool
  <2>2. /\ PlacesIn(r, m_quePool)' = {n + 1}
        /\ Holders(r)' = Holders(r) /\ DyingOf(r)' = DyingOf(r)
    BY <1>2, <1>3, <1>4, <2>1 DEF Holders, DyingOf
  <2>3. \A u \in Threads : AtMostOne(PlacesIn(r, elements'[u]))
    BY <1>1, <1>2 DEF OneUser
  <2>4. AtMostOne(PlacesIn(r, m_quePool)') /\ InPool(r)'
    BY <2>2 DEF InPool, AtMostOne
  <2>5. r \notin popped'
    BY <1>2, <1>4
  <2>6. Holders(r)' = {} /\ DyingOf(r)' = {}
    BY <2>1, <2>2
  <2>7. QED
    BY <2>3, <2>4, <2>5, <2>6 DEF OneUser, AtMostOne
<1>5. CASE r # x
  <2>1. PlacesIn(r, m_quePool)' = PlacesIn(r, m_quePool)
    BY <1>3, <1>5
  <2>2. QED
    BY <1>1, <1>2, <1>5, <2>1, SameUser DEF OneUser
<1>6. QED
  BY <1>4, <1>5

\* Pop and Get take the first resource out of the pool.
LEMMA FirstTaken ==
  ASSUME PoolTypeOK, m_quePool # <<>>, m_quePool' = Tail(m_quePool)
  PROVE  /\ Head(m_quePool) \in Resources
         /\ m_quePool' \in Seq(Resources)
         /\ \A r : AtMostOne(PlacesIn(r, m_quePool)) =>
              /\ AtMostOne(PlacesIn(r, m_quePool)')
              /\ r = Head(m_quePool) =>
                   PlacesIn(r, m_quePool) # {} /\ PlacesIn(r, m_quePool)' = {}
              /\ r # Head(m_quePool) =>
                   (PlacesIn(r, m_quePool)' = {} <=> PlacesIn(r, m_quePool) = {})
<1> DEFINE q == m_quePool
           u == m_quePool'
<1>1. /\ q \in Seq(Resources) /\ u \in Seq(Resources) /\ Without(q, 1, u)
      /\ Head(q) = q[1] /\ 1 \in 1 .. Len(q) /\ q[1] \in Resources
  BY TailIsWithout DEF PoolTypeOK
<1> HIDE DEF q, u
<1>2. \A r : AtMostOne(PlacesIn(r, q)) =>
        /\ AtMostOne(PlacesIn(r, u))
        /\ r = q[1] => PlacesIn(r, q) # {} /\ PlacesIn(r, u) = {}
        /\ r # q[1] => (PlacesIn(r, u) = {} <=> PlacesIn(r, q) = {})
  BY <1>1, WithoutPlaces
<1>3. \A r : PlacesIn(r, m_quePool)' = PlacesIn(r, u)
  BY DEF PlacesIn, u
<1>4. QED
  BY <1>1, <1>2, <1>3 DEF q, u

LEMMA PopKeeps ==
  ASSUME IInv, NEW t \in Threads, Pop(t), NEW r \in Resources \ copied'
  PROVE  OneUser(r)'
<1> DEFINE x == Head(m_quePool)
<1>1. r \in Resources \ copied /\ OneUser(r)
  BY DEF Pop, IInv
<1>2. popped' = popped \cup {x} /\ UNCHANGED <<elements, dying>>
  BY DEF Pop
<1>3. /\ AtMostOne(PlacesIn(r, m_quePool)')
      /\ r = x => PlacesIn(r, m_quePool) # {} /\ PlacesIn(r, m_quePool)' = {}
      /\ r # x => (PlacesIn(r, m_quePool)' = {} <=> PlacesIn(r, m_quePool) = {})
  BY <1>1, FirstTaken DEF Pop, IInv, OneUser
<1> HIDE DEF x
<1>4. CASE r = x
  <2>1. Holders(r) = {} /\ DyingOf(r) = {}
    BY <1>1, <1>3, <1>4 DEF OneUser, InPool
  <2>2. Holders(r)' = Holders(r) /\ DyingOf(r)' = DyingOf(r)
    BY <1>2 DEF Holders, DyingOf
  <2>3. \A u \in Threads : AtMostOne(PlacesIn(r, elements'[u]))
    BY <1>1, <1>2 DEF OneUser
  <2>4. QED
    BY <1>2, <1>3, <1>4, <2>1, <2>2, <2>3 DEF OneUser, InPool, AtMostOne
<1>5. CASE r # x
  BY <1>1, <1>2, <1>3, <1>5, SameUser DEF OneUser
<1>6. QED
  BY <1>4, <1>5

\* Get and Copy make an element of x.
LEMMA HeldAfter ==
  ASSUME PoolTypeOK, NEW t \in Threads, NEW x \in Resources, Holds(t, x), NEW r
  PROVE  /\ PlacesIn(r, elements'[t]) =
              IF r = x THEN PlacesIn(r, elements[t]) \cup {Len(elements[t]) + 1}
              ELSE PlacesIn(r, elements[t])
         /\ \A u \in Threads \ {t} : elements'[u] = elements[u]
<1>1. /\ elements'[t] = Append(elements[t], x)
      /\ \A u \in Threads \ {t} : elements'[u] = elements[u]
  BY DEF Holds, PoolTypeOK
<1>2. elements[t] \in Seq(Resources)
  BY DEF PoolTypeOK
<1>3. PlacesIn(r, Append(elements[t], x)) =
        IF r = x THEN PlacesIn(r, elements[t]) \cup {Len(elements[t]) + 1}
        ELSE PlacesIn(r, elements[t])
  BY <1>2, AppendPlaces
<1>4. QED
  BY <1>1, <1>3

LEMMA GetKeeps ==
  ASSUME IInv, NEW t \in Threads, Get(t), NEW r \in Resources \ copied'
  PROVE  OneUser(r)'
<1> DEFINE x == Head(m_quePool)
           k == Len(elements[t]) + 1
<1>1. r \in Resources \ copied /\ OneUser(r)
  BY DEF Get, IInv
<1>2. UNCHANGED <<popped, dying>>
  BY DEF Get
<1>3. /\ AtMostOne(PlacesIn(r, m_quePool)')
      /\ r = x => PlacesIn(r, m_quePool) # {} /\ PlacesIn(r, m_quePool)' = {}
      /\ r # x => (PlacesIn(r, m_quePool)' = {} <=> PlacesIn(r, m_quePool) = {})
  BY <1>1, FirstTaken DEF Get, IInv, OneUser
<1>4. /\ PlacesIn(r, elements'[t]) =
           IF r = x THEN PlacesIn(r, elements[t]) \cup {k} ELSE PlacesIn(r, elements[t])
      /\ \A u \in Threads \ {t} : elements'[u] = elements[u]
  <2>1. x \in Resources /\ Holds(t, x)
    BY FirstTaken DEF Get, IInv
  <2>2. QED
    BY <2>1, HeldAfter DEF IInv
<1> HIDE DEF x, k
<1>5. CASE r = x
  <2>1. r \notin popped /\ Holders(r) = {} /\ DyingOf(r) = {}
    BY <1>1, <1>3, <1>5 DEF OneUser, InPool
  <2>2. \A u \in Threads : PlacesIn(r, elements[u]) = {}
    BY <2>1 DEF Holders
  <2>3. PlacesIn(r, elements'[t]) = {k}
    BY <1>4, <1>5, <2>2
  <2>4. \A u \in Threads \ {t} : PlacesIn(r, elements'[u]) = {}
    BY <1>4, <2>2
  <2>5. Holders(r)' = {t} /\ DyingOf(r)' = {}
    BY <1>2, <2>1, <2>3, <2>4 DEF Holders, DyingOf
  <2>6. \A u \in Threads : AtMostOne(PlacesIn(r, elements'[u]))
    BY <2>3, <2>4 DEF AtMostOne
  <2>7. QED
    BY <1>2, <1>3, <1>5, <2>1, <2>5, <2>6 DEF OneUser, InPool, AtMostOne
<1>6. CASE r # x
  <2>1. \A u \in Threads : PlacesIn(r, elements'[u]) = PlacesIn(r, elements[u])
    BY <1>4, <1>6
  <2>2. QED
    BY <1>1, <1>2, <1>3, <1>6, <2>1, SameUser DEF OneUser
<1>7. QED
  BY <1>5, <1>6

LEMMA CopyKeeps ==
  ASSUME IInv, NEW t \in Threads, Copy(t), NEW r \in Resources \ copied'
  PROVE  OneUser(r)'
<1>1. PICK x \in ToSet(elements[t]) : Holds(t, x) /\ copied' = copied \cup {x}
  BY DEF Copy
<1>2. x \in Resources
  <2>1. elements[t] \in Seq(Resources)
    BY DEF IInv, PoolTypeOK
  <2>2. \A i \in DOMAIN elements[t] : elements[t][i] \in Resources
    BY <2>1, ElementOfSeq, LenProperties
  <2>3. QED
    BY <2>2 DEF ToSet
<1>3. r # x /\ r \in Resources \ copied /\ OneUser(r)
  BY <1>1 DEF IInv
<1>4. \A u \in Threads : PlacesIn(r, elements'[u]) = PlacesIn(r, elements[u])
  BY <1>1, <1>2, <1>3, HeldAfter DEF IInv
<1>5. UNCHANGED <<m_quePool, dying, popped>>
  BY DEF Copy
<1>6. PlacesIn(r, m_quePool)' = PlacesIn(r, m_quePool)
  BY <1>5 DEF PlacesIn
<1>7. QED
  BY <1>3, <1>4, <1>5, <1>6, SameUser DEF OneUser

\* BeginDestroy takes one element of the thread.
LEMMA ElementTaken ==
  ASSUME PoolTypeOK, NEW t \in Threads, NEW i \in DOMAIN elements[t],
         elements' = [elements EXCEPT ![t] = RemoveAt(@, i)]
  PROVE  /\ elements[t][i] \in Resources
         /\ elements'[t] \in Seq(Resources) /\ Len(elements'[t]) = Len(elements[t]) - 1
         /\ Len(elements[t]) \in Nat
         /\ \A u \in Threads \ {t} : elements'[u] = elements[u]
         /\ \A r : AtMostOne(PlacesIn(r, elements[t])) =>
              /\ AtMostOne(PlacesIn(r, elements'[t]))
              /\ r = elements[t][i] =>
                   PlacesIn(r, elements[t]) # {} /\ PlacesIn(r, elements'[t]) = {}
              /\ r # elements[t][i] =>
                   (PlacesIn(r, elements'[t]) = {} <=> PlacesIn(r, elements[t]) = {})
<1> DEFINE s == elements[t]
           v == RemoveAt(s, i)
<1>1. s \in Seq(Resources) /\ i \in 1 .. Len(s) /\ Len(s) \in Nat
  BY LenProperties DEF PoolTypeOK
<1>2. elements'[t] = v /\ \A u \in Threads \ {t} : elements'[u] = elements[u]
  BY DEF PoolTypeOK
<1> HIDE DEF s
<1>3. v \in Seq(Resources) /\ Without(s, i, v)
  BY <1>1, Removed DEF Without
<1>4. s[i] \in Resources
  BY <1>1, ElementOfSeq
<1> HIDE DEF v
<1>5. \A r : AtMostOne(PlacesIn(r, s)) =>
        /\ AtMostOne(PlacesIn(r, v))
        /\ r = s[i] => PlacesIn(r, s) # {} /\ PlacesIn(r, v) = {}
        /\ r # s[i] => (PlacesIn(r, v) = {} <=> PlacesIn(r, s) = {})
  BY <1>1, <1>3, WithoutPlaces
<1>6. Len(v) = Len(s) - 1
  BY <1>3 DEF Without
<1>7. QED
  BY <1>1, <1>2, <1>3, <1>4, <1>5, <1>6 DEF s

LEMMA BeginDestroyKeeps ==
  ASSUME IInv, NEW t \in Threads, BeginDestroy(t), NEW r \in Resources \ copied'
  PROVE  OneUser(r)'
<1>1. r \in Resources \ copied /\ OneUser(r)
  BY DEF BeginDestroy, IInv
<1>2. PICK i \in DOMAIN elements[t] :
        /\ dying' = [dying EXCEPT ![t] = elements[t][i]]
        /\ elements' = [elements EXCEPT ![t] = RemoveAt(@, i)]
  BY DEF BeginDestroy
<1> DEFINE x == elements[t][i]
<1>3. UNCHANGED <<m_quePool, popped>> /\ dying[t] = Nothing
  BY DEF BeginDestroy, Free
<1>4. /\ x \in Resources
      /\ \A u \in Threads \ {t} : elements'[u] = elements[u]
      /\ AtMostOne(PlacesIn(r, elements'[t]))
      /\ r = x => PlacesIn(r, elements[t]) # {} /\ PlacesIn(r, elements'[t]) = {}
      /\ r # x => (PlacesIn(r, elements'[t]) = {} <=> PlacesIn(r, elements[t]) = {})
  <2>1. PoolTypeOK /\ AtMostOne(PlacesIn(r, elements[t]))
    BY <1>1 DEF IInv, OneUser
  <2>2. /\ x \in Resources
        /\ \A u \in Threads \ {t} : elements'[u] = elements[u]
        /\ \A p : AtMostOne(PlacesIn(p, elements[t])) =>
             /\ AtMostOne(PlacesIn(p, elements'[t]))
             /\ p = x => PlacesIn(p, elements[t]) # {} /\ PlacesIn(p, elements'[t]) = {}
             /\ p # x => (PlacesIn(p, elements'[t]) = {} <=> PlacesIn(p, elements[t]) = {})
    BY <1>2, <2>1, ElementTaken
  <2> HIDE DEF x
  <2>3. QED
    BY <2>1, <2>2
<1>5. dying'[t] = x /\ \A u \in Threads \ {t} : dying'[u] = dying[u]
  BY <1>2 DEF IInv, PoolTypeOK
<1>6. PlacesIn(r, m_quePool)' = PlacesIn(r, m_quePool)
  BY <1>3 DEF PlacesIn
<1> HIDE DEF x
<1>7. \A u \in Threads : AtMostOne(PlacesIn(r, elements'[u]))
  <2>1. \A u \in Threads : AtMostOne(PlacesIn(r, elements[u]))
    BY <1>1 DEF OneUser
  <2>2. QED
    BY <1>4, <2>1
<1>8. CASE r = x
  <2>1. r \notin popped /\ ~InPool(r) /\ DyingOf(r) = {} /\ Holders(r) = {t}
    <3>1. t \in Holders(r)
      BY <1>4, <1>8 DEF Holders
    <3>2. QED
      BY <1>1, <3>1 DEF OneUser, AtMostOne
  <2>2. Holders(r)' = {}
    BY <1>4, <1>8, <2>1 DEF Holders
  <2>3. DyingOf(r)' = {t}
    BY <1>5, <1>8, <2>1 DEF DyingOf
  <2>4. AtMostOne(Holders(r)') /\ AtMostOne(DyingOf(r)')
    BY <2>2, <2>3 DEF AtMostOne
  <2>5. AtMostOne(PlacesIn(r, m_quePool)') /\ ~InPool(r)'
    BY <1>1, <1>6, <2>1 DEF OneUser, InPool
  <2>6. QED
    BY <1>3, <1>7, <2>1, <2>2, <2>3, <2>4, <2>5 DEF OneUser
<1>9. CASE r # x
  <2>1. r # Nothing
    BY PoolAssumption
  <2>2. \A u \in Threads : /\ PlacesIn(r, elements'[u]) = {} <=> PlacesIn(r, elements[u]) = {}
                           /\ dying'[u] = r <=> dying[u] = r
    BY <1>3, <1>4, <1>5, <1>9, <2>1
  <2>3. QED
    BY <1>1, <1>3, <1>6, <1>7, <2>2, SameUser DEF OneUser
<1>10. QED
  BY <1>8, <1>9

LEMMA EndDestroyKeeps ==
  ASSUME IInv, NEW t \in Threads, EndDestroy(t), NEW r \in Resources \ copied'
  PROVE  OneUser(r)'
<1> DEFINE x == dying[t]
           n == Len(m_quePool)
<1>1. r \in Resources \ copied /\ OneUser(r)
  BY DEF EndDestroy, IInv
<1>2. /\ m_quePool' = Append(m_quePool, x) /\ x \in Resources
      /\ UNCHANGED <<elements, popped>>
  BY DEF EndDestroy, Put, Free, IInv, PoolTypeOK
<1>3. PlacesIn(r, m_quePool)' =
        IF r = x THEN PlacesIn(r, m_quePool) \cup {n + 1} ELSE PlacesIn(r, m_quePool)
  BY <1>2, AppendPlaces DEF IInv, PoolTypeOK
<1>4. dying'[t] = Nothing /\ \A u \in Threads \ {t} : dying'[u] = dying[u]
  BY DEF EndDestroy, IInv, PoolTypeOK
<1>5. r # Nothing
  BY PoolAssumption
<1>6. \A u \in Threads : AtMostOne(PlacesIn(r, elements'[u]))
  BY <1>1, <1>2 DEF OneUser
<1>7. Holders(r)' = Holders(r)
  BY <1>2 DEF Holders
<1> HIDE DEF n
<1>8. CASE r = x
  <2>1. DyingOf(r) = {t} /\ r \notin popped /\ PlacesIn(r, m_quePool) = {} /\ Holders(r) = {}
    <3>1. t \in DyingOf(r)
      BY <1>8 DEF DyingOf
    <3>2. QED
      BY <1>1, <3>1 DEF OneUser, InPool, AtMostOne
  <2>2. DyingOf(r)' = {}
    BY <1>4, <1>5, <2>1 DEF DyingOf
  <2>3. PlacesIn(r, m_quePool)' = {n + 1}
    BY <1>3, <1>8, <2>1
  <2>4. AtMostOne(PlacesIn(r, m_quePool)') /\ InPool(r)'
    BY <2>3 DEF InPool, AtMostOne
  <2>5. QED
    BY <1>2, <1>6, <1>7, <2>1, <2>2, <2>4 DEF OneUser, AtMostOne
<1>9. CASE r # x
  <2>1. \A u \in Threads : dying'[u] = r <=> dying[u] = r
    BY <1>4, <1>5, <1>9
  <2>2. PlacesIn(r, m_quePool)' = PlacesIn(r, m_quePool)
    BY <1>3, <1>9
  <2>3. QED
    BY <1>1, <1>2, <2>1, <2>2, SameUser DEF OneUser
<1>10. QED
  BY <1>8, <1>9

\* Types and the bound of elements
LEMMA TypeStep ==
  ASSUME IInv, Next
  PROVE  PoolTypeOK' /\ \A t \in Threads : Len(elements'[t]) <= MaxElements
<1> USE DEF IInv, PoolTypeOK
<1>1. PICK t \in Threads :
        \/ \E r \in Resources : PutOwn(t, r)
        \/ Pop(t) \/ Get(t) \/ Copy(t) \/ BeginDestroy(t) \/ EndDestroy(t)
  BY DEF Next
<1>2. ASSUME NEW x \in Resources, PutOwn(t, x)
      PROVE  PoolTypeOK' /\ \A u \in Threads : Len(elements'[u]) <= MaxElements
  <2>1. m_quePool' \in Seq(Resources)
    BY <1>2, AppendProperties DEF PutOwn, Put
  <2>2. QED
    BY <1>2, <2>1 DEF PutOwn
<1>3. CASE Pop(t)
  <2>1. m_quePool' \in Seq(Resources) /\ Head(m_quePool) \in Resources
    BY <1>3, FirstTaken DEF Pop
  <2>2. QED
    BY <1>3, <2>1 DEF Pop
<1>4. ASSUME NEW x \in Resources, Holds(t, x), Len(elements[t]) < MaxElements
      PROVE  /\ elements' \in [Threads -> Seq(Resources)]
             /\ \A u \in Threads : Len(elements'[u]) <= MaxElements
  <2>1. elements[t] \in Seq(Resources) /\ Len(elements[t]) \in Nat
    BY LenProperties
  <2>2. Append(elements[t], x) \in Seq(Resources)
        /\ Len(Append(elements[t], x)) = Len(elements[t]) + 1
    BY <2>1, AppendProperties
  <2>3. Len(elements[t]) + 1 <= MaxElements
    BY <1>4, <2>1, PoolAssumption
  <2>4. /\ elements'[t] = Append(elements[t], x)
        /\ \A u \in Threads \ {t} : elements'[u] = elements[u]
    BY <1>4 DEF Holds
  <2>5. elements' \in [Threads -> Seq(Resources)]
    BY <1>4, <2>2 DEF Holds
  <2>6. QED
    BY <2>2, <2>3, <2>4, <2>5
<1>5. CASE Get(t)
  <2>1. m_quePool' \in Seq(Resources) /\ Head(m_quePool) \in Resources
    BY <1>5, FirstTaken DEF Get
  <2>2. QED
    BY <1>4, <1>5, <2>1 DEF Get
<1>6. CASE Copy(t)
  <2>1. PICK x \in ToSet(elements[t]) : Holds(t, x) /\ copied' = copied \cup {x}
    BY <1>6 DEF Copy
  <2>2. elements[t] \in Seq(Resources)
    OBVIOUS
  <2>3. x \in Resources
    BY <2>1, <2>2, ElementOfSeq, LenProperties DEF ToSet
  <2>4. QED
    BY <1>4, <1>6, <2>1, <2>3 DEF Copy
<1>7. CASE BeginDestroy(t)
  <2>1. PICK i \in DOMAIN elements[t] :
          /\ dying' = [dying EXCEPT ![t] = elements[t][i]]
          /\ elements' = [elements EXCEPT ![t] = RemoveAt(@, i)]
    BY <1>7 DEF BeginDestroy
  <2>2. /\ elements[t][i] \in Resources
        /\ elements'[t] \in Seq(Resources) /\ Len(elements'[t]) = Len(elements[t]) - 1
        /\ Len(elements[t]) \in Nat
        /\ \A u \in Threads \ {t} : elements'[u] = elements[u]
    BY <2>1, ElementTaken
  <2>3. elements' \in [Threads -> Seq(Resources)]
    BY <2>1, <2>2
  <2>4. Len(elements'[t]) <= MaxElements
    BY <2>2, PoolAssumption
  <2>5. UNCHANGED <<m_quePool, popped, copied>>
    BY <1>7 DEF BeginDestroy
  <2>6. QED
    BY <2>1, <2>2, <2>3, <2>4, <2>5
<1>8. CASE EndDestroy(t)
  <2>1. m_quePool' \in Seq(Resources)
    BY <1>8, AppendProperties DEF EndDestroy, Put, Free
  <2>2. QED
    BY <1>8, <2>1 DEF EndDestroy
<1>9. QED
  BY <1>1, <1>2, <1>3, <1>5, <1>6, <1>7, <1>8

LEMMA InitKeeps == Init => IInv
<1> SUFFICES ASSUME Init PROVE IInv
  OBVIOUS
<1>1. PoolTypeOK
  BY EmptySeq DEF Init, PoolTypeOK
<1>2. \A t \in Threads : Len(elements[t]) <= MaxElements
  BY PoolAssumption DEF Init
<1>3. ASSUME NEW r \in Resources PROVE OneUser(r)
  <2>1. r # Nothing /\ r \in popped
    BY PoolAssumption DEF Init
  <2>2. PlacesIn(r, m_quePool) = {} /\ \A t \in Threads : PlacesIn(r, elements[t]) = {}
    BY DEF Init, PlacesIn
  <2>3. Holders(r) = {} /\ DyingOf(r) = {}
    BY <2>1, <2>2 DEF Init, Holders, DyingOf
  <2>4. QED
    BY <2>1, <2>2, <2>3 DEF OneUser, InPool, AtMostOne
<1>4. QED
  BY <1>1, <1>2, <1>3 DEF IInv

LEMMA StepKeeps == IInv /\ [Next]_vars => IInv'
<1> SUFFICES ASSUME IInv, [Next]_vars PROVE IInv'
  OBVIOUS
<1>1. CASE Next
  <2>1. \A r \in Resources \ copied' : OneUser(r)'
    BY <1>1, PutOwnKeeps, PopKeeps, GetKeeps, CopyKeeps, BeginDestroyKeeps, EndDestroyKeeps
       DEF Next
  <2>2. PoolTypeOK' /\ \A t \in Threads : Len(elements'[t]) <= MaxElements
    BY <1>1, TypeStep
  <2>3. QED
    BY <2>1, <2>2 DEF IInv
<1>2. CASE UNCHANGED vars
  <2>1. \A r : OneUser(r)' <=> OneUser(r)
    BY <1>2 DEF vars, OneUser, InPool, Holders, DyingOf, PlacesIn
  <2>2. PoolTypeOK' /\ \A t \in Threads : Len(elements'[t]) <= MaxElements
    BY <1>2 DEF vars, IInv, PoolTypeOK
  <2>3. copied' = copied
    BY <1>2 DEF vars
  <2>4. QED
    BY <2>1, <2>2, <2>3 DEF IInv
<1>3. QED
  BY <1>1, <1>2

LEMMA AlwaysIInv == Spec => []IInv
BY InitKeeps, StepKeeps, PTL DEF Spec

-----------------------------------------------------------------------------
\* Theorems

LEMMA CountsOfOne ==
  ASSUME NEW S, AtMostOne(S)
  PROVE  Cardinality(S) = IF S = {} THEN 0 ELSE 1
<1>1. CASE S = {}
  BY <1>1, FS_EmptySet
<1>2. CASE S # {}
  <2>1. PICK x : S = {x}
    BY <1>2 DEF AtMostOne
  <2>2. QED
    BY <1>2, <2>1, FS_Singleton
<1>3. QED
  BY <1>1, <1>2

LEMMA ElementsAreHeld ==
  ASSUME IInv, NEW r \in Resources, OneUser(r)
  PROVE  AtMostOne(ElementsOf(r)) /\ (ElementsOf(r) = {} <=> Holders(r) = {})
<1>1. ASSUME NEW e \in ElementsOf(r)
      PROVE  /\ e[1] \in Holders(r) /\ e[2] \in PlacesIn(r, elements[e[1]])
             /\ e = <<e[1], e[2]>> /\ e[1] \in Threads
  BY DEF ElementsOf, Holders, PlacesIn
<1>2. AtMostOne(ElementsOf(r))
  <2> SUFFICES ASSUME NEW e \in ElementsOf(r), NEW f \in ElementsOf(r) PROVE e = f
    BY DEF AtMostOne
  <2>1. e[1] = f[1]
    BY <1>1 DEF OneUser, AtMostOne
  <2>2. e[2] = f[2]
    BY <1>1, <2>1 DEF OneUser, AtMostOne
  <2>3. e = <<e[1], e[2]>> /\ f = <<f[1], f[2]>>
    BY <1>1
  <2>4. QED
    BY <2>1, <2>2, <2>3
<1>3. ASSUME NEW t \in Holders(r) PROVE ElementsOf(r) # {}
  <2>1. PICK i : i \in DOMAIN elements[t] /\ elements[t][i] = r
    BY DEF Holders, PlacesIn
  <2>2. elements[t] \in Seq(Resources) /\ Len(elements[t]) <= MaxElements /\ t \in Threads
    BY DEF IInv, PoolTypeOK, Holders
  <2>3. i \in 1 .. MaxElements
    <3>1. i \in 1 .. Len(elements[t]) /\ Len(elements[t]) \in Nat
      BY <2>1, <2>2, LenProperties
    <3>2. QED
      BY <2>2, <3>1, PoolAssumption
  <2>4. <<t, i>> \in ElementsOf(r)
    BY <2>1, <2>2, <2>3 DEF ElementsOf
  <2>5. QED
    BY <2>4
<1>4. QED
  BY <1>1, <1>2, <1>3

LEMMA ExclusiveUseHolds == IInv => ExclusiveUse
<1> SUFFICES ASSUME IInv, NEW r \in Resources \ copied
             PROVE  \/ /\ r \in popped
                       /\ Times(r, m_quePool) = 0
                       /\ \A t \in Threads : Times(r, elements[t]) = 0 /\ dying[t] # r
                    \/ /\ r \notin popped
                       /\ Times(r, m_quePool) + Cardinality({t \in Threads : dying[t] = r})
                            + Cardinality(ElementsOf(r)) = 1
  BY DEF ExclusiveUse
<1>1. OneUser(r)
  BY DEF IInv
<1>2. \A s : Times(r, s) = Cardinality(PlacesIn(r, s))
  BY DEF Times, PlacesIn
<1>3. Cardinality({}) = 0
  BY FS_EmptySet
<1>4. CASE r \in popped
  <2>1. PlacesIn(r, m_quePool) = {} /\ Holders(r) = {} /\ DyingOf(r) = {}
    BY <1>1, <1>4 DEF OneUser, InPool
  <2>2. \A t \in Threads : PlacesIn(r, elements[t]) = {} /\ dying[t] # r
    BY <2>1 DEF Holders, DyingOf
  <2>3. QED
    BY <1>2, <1>3, <1>4, <2>1, <2>2
<1>5. CASE r \notin popped
  <2>1. /\ Cardinality(PlacesIn(r, m_quePool)) = IF InPool(r) THEN 1 ELSE 0
        /\ Cardinality(DyingOf(r)) = IF DyingOf(r) = {} THEN 0 ELSE 1
        /\ Cardinality(ElementsOf(r)) = IF Holders(r) = {} THEN 0 ELSE 1
    BY <1>1, CountsOfOne, ElementsAreHeld DEF OneUser, InPool
  <2>2. {t \in Threads : dying[t] = r} = DyingOf(r)
    BY DEF DyingOf
  <2>3. Times(r, m_quePool) = Cardinality(PlacesIn(r, m_quePool))
    BY <1>2
  <2>4. \/ InPool(r) /\ Holders(r) = {} /\ DyingOf(r) = {}
        \/ ~InPool(r) /\ Holders(r) # {} /\ DyingOf(r) = {}
        \/ ~InPool(r) /\ Holders(r) = {} /\ DyingOf(r) # {}
    BY <1>1, <1>5 DEF OneUser
  <2>5. Cardinality(PlacesIn(r, m_quePool)) + Cardinality(DyingOf(r))
          + Cardinality(ElementsOf(r)) = 1
    BY <2>1, <2>4
  <2>6. QED
    BY <1>5, <2>2, <2>3, <2>5
<1>6. QED
  BY <1>4, <1>5

\* The pool holds different resources, and not the one that is put back.
LEMMA NeverWaitsHolds == IInv => DestructorNeverWaits
<1> SUFFICES ASSUME IInv, copied = {}, Cardinality(Resources) <= m_nMaxSize,
                    NEW t \in Threads, dying[t] # Nothing
             PROVE  IsRoom
  BY DEF DestructorNeverWaits
<1> DEFINE x == dying[t]
           n == Len(m_quePool)
           R == Resources \ {x}
<1>1. x \in Resources /\ m_quePool \in Seq(Resources)
  BY DEF IInv, PoolTypeOK
<1>2. n \in Nat /\ DOMAIN m_quePool = 1 .. n /\ m_quePool \in [1 .. n -> Resources]
  BY <1>1, LenProperties
<1>3. \A i \in 1 .. n : m_quePool[i] # x
  <2>1. OneUser(x) /\ DyingOf(x) # {}
    BY <1>1 DEF IInv, DyingOf
  <2>2. PlacesIn(x, m_quePool) = {}
    BY <2>1 DEF OneUser, InPool
  <2> HIDE DEF n, x
  <2>3. QED
    BY <1>2, <2>2 DEF PlacesIn
<1>4. \A i, j \in 1 .. n : m_quePool[i] = m_quePool[j] => i = j
  <2> TAKE i, j \in 1 .. n
  <2>1. m_quePool[i] \in Resources
    BY <1>2
  <2>2. OneUser(m_quePool[i])
    BY <2>1 DEF IInv
  <2> HIDE DEF n
  <2>3. QED
    BY <1>2, <2>2 DEF OneUser, PlacesIn, AtMostOne
<1>5. IsFiniteSet(R) /\ Cardinality(R) = Cardinality(Resources) - 1
  BY <1>1, PoolAssumption, FS_RemoveElement
<1>6. IsFiniteSet(1 .. n) /\ Cardinality(1 .. n) = n
  <2>1. IsFiniteSet(1 .. n) /\ Cardinality(1 .. n) = IF 1 > n THEN 0 ELSE n - 1 + 1
    BY <1>2, FS_Interval
  <2> HIDE DEF n
  <2>2. QED
    BY <1>2, <2>1
<1> HIDE DEF n, x
<1>7. m_quePool \in Injection(1 .. n, R)
  BY <1>2, <1>3, <1>4 DEF Injection, IsInjective, R
<1> HIDE DEF R
<1>8. Cardinality(1 .. n) <= Cardinality(R)
  BY <1>5, <1>6, <1>7, FS_Injection
<1>9. Cardinality(Resources) \in Nat
  BY PoolAssumption, FS_CardinalityType
<1>10. n < m_nMaxSize
  BY <1>2, <1>5, <1>6, <1>8, <1>9, PoolAssumption
<1>11. QED
  BY <1>10 DEF IsRoom, n

\* The variables of CPool keep their types, and no thread has more elements than the bound.
THEOREM TypesKept == Spec => []PoolTypeOK
BY AlwaysIInv, PTL DEF IInv

\* CPool lends a resource to one user at a time, as long as no CPoolElement of it is copied:
\* Get takes it out of m_quePool, and only the destructor of the element puts it back.
THEOREM LentOnce == Spec => []ExclusiveUse
BY AlwaysIInv, ExclusiveUseHolds, PTL

\* ~CPoolElement finds room in a pool that is as large as the number of resources, because
\* the pool holds every resource but its own at most.
THEOREM PuttingBackNeverWaits == Spec => []DestructorNeverWaits
BY AlwaysIInv, NeverWaitsHolds, PTL
=============================================================================
